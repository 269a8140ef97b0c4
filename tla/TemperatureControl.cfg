CONSTANTS
  HYSTERESIS_C = 1
  MIN_HEATER_ON_SECONDS = 3
  MIN_HEATER_OFF_SECONDS = 4
  HEATER_FORCE_OFF_ABOVE_TEMP_C = 75
  TIMER_MAX = 6
  HISTORY_MAX = 7
  Inputs <- SmallInputs
SPECIFICATION TimingSpec
INVARIANTS
  ColdChamberIsHeated
  HotChamberIsNotHeated
PROPERTIES
  MinimumOffTime
  MinimumOnTime
