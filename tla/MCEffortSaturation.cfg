SPECIFICATION Spec
CONSTANTS
  PitchGain = 2
  PitchRateGain = 1
  PositionGain <- MCMinusOne
  VelocityGain <- MCMinusOne
  LqrYaw <- MCOuterLoop
  MaximumPositionDeviation = 2
  PitchLoop <- MCPitchLoop
  VelocityLoop <- MCOuterLoop
  YawLoop <- MCOuterLoop
  PitchDamping = 1
  MaximumLean = 2
  EffortLimit = 4
  MaximumDifferential = 2
  Pitches <- MCPitches
  PitchRates = {0, 1}
  Velocities <- MCSpeeds
  YawRates <- MCSpeeds
  Setpoints <- MCSetpoints
  Intervals = {1, 2}
INVARIANTS
  YawTakesLittle
PROPERTIES
  CorrectionFollowsError
  PositionHeldWhileSaturated
