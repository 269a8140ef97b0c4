CONSTANTS
  MAX_TARGET_TEMP_C = 75
  MAX_DURATION_MINUTES = 5940
  SECONDS_PER_MINUTE = 60
  UINT_RANGE = 65536
  SLOT_COUNT = 2
  BASE_ADDRESS = 50
  STORAGE_LENGTH = 59
  NoProfile = NoProfile
  NoCalibration = NoCalibration
  DefaultCalibration <- FactoryCalibration
  OFFSET_STEP_CENTI_C = 1000
  MIN_OFFSET_CENTI_C <- MinOffset
  MAX_OFFSET_CENTI_C = 0
  SCALE_STEP_PPM = 200000
  MIN_SCALE_PPM = 800000
  MAX_SCALE_PPM = 1200000
  Profiles <- SmallProfiles
  Calibrating = TRUE
  MAX_CRASHES = 1
  MAX_WRITES = 3
SPECIFICATION Spec
INVARIANTS
  CalibrationCopiesAgree
  InterruptedWriteIsSafe
PROPERTIES
  ImplementsDurableRecords
