--------------------------- MODULE MCUserPrograms ---------------------------
(***************************************************************************)
(* The shipped programs for TLC.                                           *)
(***************************************************************************)
EXTENDS UserPrograms

MCTaskAddress == MaxTasks + 1

\* The test of the pid is where a child can have cleared it before its parent.
MCTickAt == Survivable \union {"test"}
=============================================================================
