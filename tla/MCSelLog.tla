------------------------------ MODULE MCSelLog ------------------------------
(* SelLog with values for TLC: a log of five entries, two of them logged at
   start, and ids that wrap after nine. *)
EXTENDS SelLog

MCMaxCount == 5
MCInitialEntries == 2
MCWord == 9
=============================================================================
