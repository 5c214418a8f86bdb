----------------------------- MODULE MCQueries -----------------------------
(***************************************************************************)
(* Small instances of Queries for TLC.                                      *)
(***************************************************************************)
EXTENDS Queries

MCVersions == 1 .. 3
MCDocuments == 1 .. 2

\* The first upload has two chunks, as many as the scan yields; the others have one.
MCChunks == 1 .. 4
MCVersionOf == <<1, 1, 2, 3>>
=============================================================================
