CONSTANTS
  Tasks = {runControlTask, inputScanTask}
  IntervalMs <- SmallIntervalMs
  InputScan = inputScanTask
  CLOCK_RANGE = 16
  MAX_PASS_MS = 3
  COUNTS_PER_STEP = 4
  MAX_TRAVEL = 7
SPECIFICATION LoopSpec
INVARIANT StepsAreDetents
PROPERTY TasksKeepTheirIntervals
