SPECIFICATION Spec
CONSTANTS
  npes = 3
  Vertex <- MCVertex
  Owner <- MCOwner
  Adj <- MCAdj
  VWgt <- MCVWgt
  AdjWgt <- MCAdjWgt
  Parts = {0, 1, 2}
  Target <- MCTarget
  Ub = 120
  Level = 0
  Starts <- MCStarts
  npasses = 2
  IpcFactor = 1
  RedistFactor = 1
  VSize <- MCVSize
  Home <- MCHome
  Coupled = FALSE
INVARIANTS InfoExact HeavyPartsNeverGrow SeenCostNeverWorse
