SPECIFICATION FairSpec
CONSTANTS
  StalePeriods = 1
  CalibrationWindow = 2
  MaxHold = 0
  MaximumInterval = 1
  ConvergenceInterval = 2
  SamplesPerBalance = 2
  BalancesPerOuter = 1
  Pitches = {0}
  ArmWindow = 1
  FallThreshold = 2
  MissedServiceLimit = 1
  SelfTestDeadline = 1
INVARIANTS
  BlindnessIsBrief
  TypeOK
PROPERTIES
  DrivesOnEarnedEstimate
  ImplementsChain
  ImplementsSupervisor
  CalibratingIsLeft
