---------------------- MODULE MCManualProgramController ----------------------
(* The ranges of the editor on a smaller scale: the highest setpoint is 8 C,  *)
(* a boost adds up to 4 C in steps of 2 C and fluctuation stays within 2 C of *)
(* the reference, so that every limit is a few edits away.                    *)
EXTENDS ManualProgramController

SmallDefaultDraft ==
  [mode |-> "Constant", targetTempC |-> 6, durationMinutes |-> 4,
   boostDeltaC |-> 2, boostDurationMinutes |-> 1,
   upperTempC |-> 7, lowerTempC |-> 5,
   upperDurationMinutes |-> 2, lowerDurationMinutes |-> 2]

\* A boost and a fluctuating profile at the limits.
SmallSavedProfiles ==
  {[mode |-> "Boost", targetTempC |-> 7, lowTempC |-> 0, highTempC |-> 7,
    durationMinutes |-> 2, highPhaseMinutes |-> 1, lowPhaseMinutes |-> 0],
   [mode |-> "Fluctuating", targetTempC |-> 8, lowTempC |-> 6, highTempC |-> 8,
    durationMinutes |-> 4, highPhaseMinutes |-> 1, lowPhaseMinutes |-> 3]}
==============================================================================
