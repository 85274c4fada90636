CONSTANTS
  Expiry = 4
  Wrap = 8
  Wait = 2
  Warm = 2
SPECIFICATION FairMemorySpec
PROPERTIES
  GateWaitsForVerdict
  GateOpens
