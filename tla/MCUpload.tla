------------------------------ MODULE MCUpload ------------------------------
(***************************************************************************)
(* Small instances of Upload for TLC.                                       *)
(***************************************************************************)
EXTENDS Upload, TLC

Perms == Permutations(Requests) \cup Permutations(Contents)
=============================================================================
