SPECIFICATION Spec
CONSTANTS
  Pitches <- MCFewPitches
  ArmWindow = 1
  FallThreshold = 2
  MissedServiceLimit = 3
  SelfTestDeadline = 2
PROPERTIES
  ArmsOnlyServicedLoop
