SPECIFICATION Spec
CONSTANTS
  FullScale = 3
  Efforts <- MCEfforts
  NotANumber = NotANumber
  Resistances = {50, 100}
  TripCurrents = {0, 1, 1000, 1371, 1372, 3000, 5500, 10000, 12000}
INVARIANTS
  UnpermittedIsReleased
  TripIsBelowRequested
PROPERTIES
  EffortsOrderMeans
