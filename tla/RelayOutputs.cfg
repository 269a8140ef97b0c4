CONSTANT Hardware <- AllHardware
SPECIFICATION Spec
INVARIANTS
  HeaterNeverWithoutFan
  OffUntilCommanded
  SettledRelaysShowCommand
