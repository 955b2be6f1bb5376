SPECIFICATION FairSpec
CONSTANTS
  Strategies = {pid, lqr}
  pid = pid
  lqr = lqr
  NaN = NaN
  MaximumVelocity = 2
  MaximumYawRate = 1
  CommandTimeout = 2
  MaximumGain = 1
  MaxHold = 1
INVARIANTS
  TypeOK
  MotionIsThisSessions
  UncommandedMotionFades
  SessionIsItsOwn
PROPERTIES
  NeverReverses
  UncommandedRobotRests
