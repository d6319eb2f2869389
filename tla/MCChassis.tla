----------------------------- MODULE MCChassis -----------------------------
(* Chassis with values for TLC: the cfg files have one card with a sensor and
   faults, or two cards with two sensors each and none. *)
EXTENDS Chassis

MCFaults == {"lost", "repeated", "erased", "restarted", "mmrestarted"}
============================================================================
