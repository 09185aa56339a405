SPECIFICATION Spec
CONSTANTS
  npes = 3
  Vertex <- MCVertex
  Owner <- MCOwner
  Adj <- MCAdj
  KeepBit = 100
  Matchings <- MCMatchings
  VWgt <- MCVWgt
  AdjWgt <- MCAdjWgt
  Parts = {0, 1}
  Partitions <- MCPartitions
  Noises <- MCNoises
INVARIANTS DroppedAlike Contracted CutPreserved
PROPERTIES AllProjected
