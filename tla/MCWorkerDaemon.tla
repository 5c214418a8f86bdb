--------------------------- MODULE MCWorkerDaemon ---------------------------
(***************************************************************************)
(* Small instances of WorkerDaemon for TLC.                                 *)
(***************************************************************************)
EXTENDS WorkerDaemon, TLC

Perms == Permutations(Workers)

MCJobs == 1 .. 2
=============================================================================
