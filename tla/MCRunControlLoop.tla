--------------------------- MODULE MCRunControlLoop ---------------------------
(* The shipped wiring, one preset and a short user profile.  The boost       *)
(* profile is what the manual editor holds after 70 C was set in constant    *)
(* mode and the mode was changed to boost with its default delta of 10 C.    *)
EXTENDS RunControlLoop

Config(mode, target, low, high, duration, highPhase, lowPhase) ==
  [mode |-> mode, targetTempC |-> target, lowTempC |-> low, highTempC |-> high,
   durationMinutes |-> duration, highPhaseMinutes |-> highPhase,
   lowPhaseMinutes |-> lowPhase]

SmallPresets == {"mere"}
SmallPresetProfile ==
  [p \in SmallPresets |-> Config("Fluctuating", 57, 50, 65, 2, 1, 1)]

SmallProfiles == {Config("Fixed", 40, 0, 0, 1, 0, 0),
                  Config("Boost", 70, 0, 80, 2, 1, 0)}

SmallReadings == {[valid |-> TRUE, tempDeciC |-> 300],
                  [valid |-> TRUE, tempDeciC |-> 700],
                  [valid |-> FALSE, tempDeciC |-> 0]}

ShippedHardware ==
  [assigned |-> [r \in {"heater", "fan"} |-> TRUE],
   active |-> [r \in {"heater", "fan"} |-> "ActiveLow"]]
==============================================================================
