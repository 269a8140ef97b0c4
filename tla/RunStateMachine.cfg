CONSTANTS
  MAX_TARGET_TEMP_C = 75
  MAX_DURATION_MINUTES = 5940
  SECONDS_PER_MINUTE = 3
  UINT_RANGE = 65536
  FINISH_COOLDOWN_SECONDS = 4
  Profiles <- SmallProfiles
  Deltas <- SmallDeltas
SPECIFICATION Spec
INVARIANTS
  NeverRunsPastDuration
  AlarmOnlyAfterFullCooldown
  ResumableExactlyWhileActive
  FollowsSchedule
PROPERTIES
  HeatingStartsFreshOrContinues
  OnlyRunningTimeCounts
