SPECIFICATION Spec
CONSTANTS
  CtrlMax = 4
  Steps <- MCSteps
  UseMcpwm = TRUE
  LfCalls <- MCBoth
INVARIANTS
  TypeOK
  BackoffHoldsConverterOff
PROPERTIES
  SoftStart
