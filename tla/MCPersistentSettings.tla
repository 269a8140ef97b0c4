------------------------ MODULE MCPersistentSettings ------------------------
(* Two slots in front of the calibration record, and few values: two          *)
(* fluctuating profiles that differ in both temperatures and the duration, a  *)
(* fixed one, and one the store refuses.                                      *)
EXTENDS PersistentSettings

Fluctuating(low, high, minutes) ==
  [mode |-> "Fluctuating", targetTempC |-> 57, lowTempC |-> low,
   highTempC |-> high, durationMinutes |-> minutes,
   highPhaseMinutes |-> 10, lowPhaseMinutes |-> 10]

Fixed(target, minutes) ==
  [mode |-> "Fixed", targetTempC |-> target, lowTempC |-> 0, highTempC |-> 0,
   durationMinutes |-> minutes, highPhaseMinutes |-> 0, lowPhaseMinutes |-> 0]

\* The bytes of the first profile add up to 256: without the upper byte of its
\* first phase it passes for a record in a slot never written before.
SmallProfiles ==
  {Fluctuating(50, 60, 75), Fixed(40, 600), Fixed(76, 600)}

\* A profile and the same one edited: cooler at the top, warmer at the
\* bottom, and longer.
EditedProfiles == {Fluctuating(50, 60, 120), Fluctuating(51, 59, 150)}

MinOffset == -1000

FactoryCalibration == [offsetCentiC |-> 0, scalePpm |-> 1000000]
==============================================================================
