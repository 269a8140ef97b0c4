CONSTANTS
  MAX_TARGET_TEMP_C = 8
  MAX_DURATION_MINUTES = 6
  SECONDS_PER_MINUTE = 60
  UINT_RANGE = 65536
  DefaultDraft <- SmallDefaultDraft
  DURATION_STEP_MINUTES = 2
  BOOST_DELTA_STEP_C = 2
  MAX_BOOST_DELTA_C = 4
  BOOST_DURATION_STEP_MINUTES = 1
  MAX_FLUCT_OFFSET_C = 2
  FLUCT_DURATION_STEP_MINUTES = 1
  MIN_FLUCT_DURATION_MINUTES = 1
  MAX_FLUCT_DURATION_MINUTES = 3
  NoSlot = NoSlot
  EditorSlots = {0}
  SavedProfiles <- SmallSavedProfiles
  MAX_EDITS = 4
SPECIFICATION Spec
INVARIANT CleanUpToMode
PROPERTIES
  EditsKeepProgramValid
  DiscardRestoresBaseline
