----------------------------- MODULE MCUserLocks -----------------------------
(* Small sets of coroutines for UserLocks; the .cfg files name them.         *)
EXTENDS UserLocks
=============================================================================
