CONSTANTS
  Temperatures <- SmallTemperatures
  Deltas <- SmallDeltas
  NTC_MIN_VALID = 0
  NTC_MAX_VALID = 4
  HARD_FAULT_TEMP = 4
  NO_RISE_MIN_INCREASE = 2
  NO_RISE_WINDOW = 3
  STUCK_HEATER_GRACE = 2
  STUCK_HEATER_RISE = 3
  STUCK_HEATER_WINDOW = 3
  BUTTON_STUCK = 2
  UINT_MAX = 4
SPECIFICATION DetectorSpec
INVARIANTS
  NoRiseIsNoticed
  StuckSuspicionIsFounded
