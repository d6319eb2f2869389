---------------------------- MODULE MCSdrReader ----------------------------
(* SdrReader with values for TLC: one sensor of the card itself (number 1),
   two of another card, fewer records than ids; reservations wrap. *)
EXTENDS SdrReader

MCLocalSensors == <<1>>
=============================================================================
