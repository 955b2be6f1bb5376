SPECIFICATION Spec
CONSTANTS
  Wheels = {left, right}
  left = left
  right = right
  Resolution = 5
  MaximumRate = 1
  LongestInterval = 2
  TravelBound = 3
SYMMETRY WheelSymmetry
INVARIANTS
  PositionIsTravelled
  VelocityIsPossible
