--------------------------- MODULE MCFaultDetector ---------------------------
(* Degrees 0 to 3 are normal, 4 is too hot and 5 implausible; a rise counts   *)
(* from 2 degrees while heating and from 3 while cooling.  The times are 2 or *)
(* 3 s, told in steps of 1 or 2 s: a step can end on a limit or go past it.   *)
EXTENDS FaultDetector

SmallTemperatures == 0..5
SmallDeltas == 1..2
==============================================================================
