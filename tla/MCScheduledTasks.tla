---------------------------- MODULE MCScheduledTasks ----------------------------
(* Instances of ScheduledTasks.  A run that the bound on runs keeps from being  *)
(* claimed is a worker that waits.                                            *)
EXTENDS ScheduledTasks
=============================================================================
