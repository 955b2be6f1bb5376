SPECIFICATION Spec
CONSTANTS
  Pitches <- MCFewPitches
  ArmWindow = 1
  FallThreshold = 2
  MissedServiceLimit = 2
  SelfTestDeadline = 2
PROPERTIES
  DriverFaultIsRecorded
