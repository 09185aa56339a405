SPECIFICATION GeomSpec
CONSTANTS
  npes = 3
  nbits = 2
  Vertex <- MCVertex
  Owner <- MCOwner
  Adj <- MCAdj
  VWgt <- MCVWgt
  AdjWgt <- MCAdjWgt
  Wheres <- MCWheres
  Infos <- MCInfos
  Bins <- MCBins
INVARIANTS SortedByKey
