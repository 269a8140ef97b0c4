CONSTANTS
  MAX_TARGET_TEMP_C = 75
  MAX_DURATION_MINUTES = 5940
  SECONDS_PER_MINUTE = 60
  UINT_RANGE = 65536
  SLOT_COUNT = 1
  BASE_ADDRESS = 33
  STORAGE_LENGTH = 42
  NoProfile = NoProfile
  NoCalibration = NoCalibration
  DefaultCalibration <- FactoryCalibration
  OFFSET_STEP_CENTI_C = 1000
  MIN_OFFSET_CENTI_C <- MinOffset
  MAX_OFFSET_CENTI_C = 1000
  SCALE_STEP_PPM = 200000
  MIN_SCALE_PPM = 800000
  MAX_SCALE_PPM = 1200000
  Profiles <- EditedProfiles
  Calibrating = FALSE
  MAX_CRASHES = 1
  MAX_WRITES = 3
SPECIFICATION Spec
INVARIANTS
  OnlySavedProfilesExecutable
