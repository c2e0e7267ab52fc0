--------------------------- MODULE MCCodingTasks ---------------------------
(* Instances of CodingTasks for TLC: all tasks share one workspace, which is *)
(* where claims, writers and finalizers of different tasks meet.             *)
EXTENDS CodingTasks

MCWorkspaceOf == [t \in 1..NumTasks |-> CHOOSE w \in Workspaces : TRUE]
MCDashboard == {2}
MCNoDashboard == {}
=============================================================================
