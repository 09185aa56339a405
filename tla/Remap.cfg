SPECIFICATION Spec
CONSTANTS
  nparts = 3
  ncon = 1
  tpwgts <- Uneven
  Tolerance = 2
  npasses = 3
  Inputs <- MCInputs
INVARIANTS NoPartLost SameNames
