\* Is the backflow switch open when a backoff starts?
CONSTANTS
  CtrlMax = 4
  ShortBackoff = 3
  LongBackoff = 5
  StopDelay = 2
  StallDelay = 4
  SweepDelay = 2
  RampStep = 1
  Paranoia = TRUE
  Boost = FALSE
  Steps <- MCSteps
  BootTargets <- MCAutomatic
  Trips <- MCTrips
  LfTrips <- MCLfTrips
  DcTargets <- MCNoTargets
  ManualSteps <- MCManualSteps
SPECIFICATION Spec
PROPERTY TripOpensSwitch
