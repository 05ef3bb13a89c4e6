--------------------------- MODULE MCTaskManager ---------------------------
(***************************************************************************)
(* TaskManager and its refinement mapping for TLC: a table of MaxTasks     *)
(* slots, and an address just past the last index.                         *)
(***************************************************************************)
EXTENDS TaskManagerRefinement

MCTaskAddress == MaxTasks + 1
=============================================================================
