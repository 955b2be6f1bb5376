SPECIFICATION Spec
CONSTANTS
  StalePeriods = 2
  CalibrationWindow = 3
  MaxHold = 3
  MaximumInterval = 3
  ConvergenceInterval = 4
  SamplesPerBalance = 2
  BalancesPerOuter = 2
INVARIANTS
  ValidIsEarned
  DisturbanceDecides
PROPERTIES
  OuterIsRegular
