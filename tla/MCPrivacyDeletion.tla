--------------------------- MODULE MCPrivacyDeletion ---------------------------
(* Small sets of surfaces, children and deletions; the .cfg files name them.   *)
EXTENDS PrivacyDeletion
=============================================================================
