CONSTANTS
  PRESET_COUNT = 2
  SLOT_COUNT = 1
SPECIFICATION Spec
INVARIANTS
  DisplayShowsSelection
PROPERTIES
  LatePressSparesTheRun
  BackStartsAtFirst
  PagesTurnOneByOne
