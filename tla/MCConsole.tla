------------------------------- MODULE MCConsole -------------------------------
(***************************************************************************)
(* The console for TLC: a screen of a few cells, whose tasks are           *)
(* interchangeable.                                                        *)
(***************************************************************************)
EXTENDS Console, TLC

PrinterSymmetry == Permutations(Printers)
=============================================================================
