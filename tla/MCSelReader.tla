---------------------------- MODULE MCSelReader ----------------------------
(* SelReader with values for TLC: a log of four entries, one of them logged
   at start, and ids that wrap after seven. *)
EXTENDS SelReader

MCMaxCount == 4
MCInitialEntries == 1
MCWord == 7
=============================================================================
