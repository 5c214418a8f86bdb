----------------------------- MODULE MCDeletion -----------------------------
(***************************************************************************)
(* Small instances of Deletion for TLC.                                     *)
(***************************************************************************)
EXTENDS Deletion, TLC

Perms == Permutations(Workers)

MCJobs == 1 .. 2
=============================================================================
