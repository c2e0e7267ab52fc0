-------------------------- MODULE MCCodingDelivery --------------------------
(* Instances of CodingDelivery for TLC: one workspace, one conversation root. *)
EXTENDS CodingDelivery

MCWorkspaceOf == [t \in 1..NumTasks |-> CHOOSE w \in Workspaces : TRUE]
=============================================================================
