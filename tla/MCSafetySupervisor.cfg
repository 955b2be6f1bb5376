SPECIFICATION FairSpec
CONSTANTS
  Pitches <- MCPitches
  ArmWindow = 1
  FallThreshold = 2
  MissedServiceLimit = 3
  SelfTestDeadline = 3
INVARIANTS
  DrivenOnlyWhileArmed
  StallBounded
PROPERTIES
  LeavingArmedReleases
  StallIsReal
  ImplementsDriveModes
  SelfTestConcludes
  StalledLoopDisarms
  DriverFaultEscalates
