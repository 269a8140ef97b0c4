-------------------------- MODULE MCRunStateMachine --------------------------
(* Small profiles of every mode, with setpoints and phases at and around the *)
(* limits; many of them the machine refuses.                                 *)
EXTENDS ProfileSchedule

\* Fields the mode does not read are set to values no mode would accept.
FixedProfiles ==
  [mode : {"Fixed"}, targetTempC : {-1, 0, 75, 76}, lowTempC : {90},
   highTempC : {90}, durationMinutes : {0, 3}, highPhaseMinutes : {0},
   lowPhaseMinutes : {0}]

BoostProfiles ==
  [mode : {"Boost"}, targetTempC : {40}, lowTempC : {90},
   highTempC : {39, 75, 76}, durationMinutes : {3, 4, 6},
   highPhaseMinutes : 0..3, lowPhaseMinutes : {0}]

FluctuatingProfiles ==
  [mode : {"Fluctuating"}, targetTempC : {57}, lowTempC : {-1, 50},
   highTempC : {49, 65, 76}, durationMinutes : {4, 7},
   highPhaseMinutes : 0..3, lowPhaseMinutes : 0..2]

SmallProfiles == FixedProfiles \cup BoostProfiles \cup FluctuatingProfiles

\* No time, one scheduler period, and a late call that skips over a boundary.
SmallDeltas == {0, 1, 3}
==============================================================================
