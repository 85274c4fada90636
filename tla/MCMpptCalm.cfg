\* Does an automatic controller restart after the last fault?
CONSTANTS
  CtrlMax = 3
  ShortBackoff = 2
  LongBackoff = 3
  StopDelay = 1
  StallDelay = 2
  SweepDelay = 1
  RampStep = 1
  Paranoia = TRUE
  Boost = FALSE
  Steps <- MCSteps
  BootTargets <- MCBootTargets
  Trips <- MCTrips
  LfTrips <- MCLfTrips
  DcTargets <- MCDcTargets
  ManualSteps <- MCManualSteps
SPECIFICATION CalmSpec
INVARIANTS
  TypeOK
  BackoffHoldsConverterOff
  CalibratesWithConverterOff
  SweepNeverInBackoff
  ManualEndsScan
  BootCapImpliesManual
PROPERTIES
  BackoffCountsDown
  SwitchedOnForAReason
  RefinesInterlock
  BackoffExpires
  DcZeroStops
  RestartsWhenCalm
