CONSTANTS
  MAX_TARGET_TEMP_C = 75
  MAX_DURATION_MINUTES = 5940
  SECONDS_PER_MINUTE = 6
  UINT_RANGE = 65536
  FINISH_COOLDOWN_SECONDS = 2
  HYSTERESIS_C = 1
  MIN_HEATER_ON_SECONDS = 2
  MIN_HEATER_OFF_SECONDS = 3
  HEATER_FORCE_OFF_ABOVE_TEMP_C = 75
  TIMER_MAX = 4
  Presets <- SmallPresets
  PresetProfile <- SmallPresetProfile
  Profiles <- SmallProfiles
  Readings <- SmallReadings
  NoPreset = NoPreset
  NoToken = NoToken
  HARDWARE <- ShippedHardware
  SCANS = 3
SPECIFICATION Spec
INVARIANT IdleMeansOutputsOff
