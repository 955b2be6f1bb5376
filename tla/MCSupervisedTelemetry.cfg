SPECIFICATION TelemetryFairSpec
CONSTANTS
  Pitches <- MCPitches
  ArmWindow = 1
  FallThreshold = 2
  MissedServiceLimit = 2
  SelfTestDeadline = 1
INVARIANTS
  SampleIsCoherent
PROPERTIES
  ServicedFaultIsReported
