--------------------------- MODULE MCSensorPoller ---------------------------
(* SensorPoller with values for TLC: two sensors of the card, two of another. *)
EXTENDS SensorPoller

MCLocalSensors == <<1, 2>>
=============================================================================
