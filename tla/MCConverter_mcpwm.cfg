\* Buck topology on the MCPWM driver.
CONSTANTS
  Word = 65536
  DriverPwmMax = 12
  PwmRectMin = 2
  LargeDecrease = 3
  FadeKnee = 1
  FadeDiv = 3
  UseMcpwm = TRUE
  Directions <- MCDirections
  DcmIdeals <- MCDcmIdeals
  ManualLs <- MCManualLs
SPECIFICATION Spec
INVARIANTS
  TypeOK
  RegistersFollowCounts
  PulsesFitPeriod
  DisabledMeansGatesLow
  EnabledMeansUnlatched
PROPERTY RectGrowsWithinLimit
