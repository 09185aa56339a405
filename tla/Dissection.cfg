SPECIFICATION MCSpec
CONSTANTS
  npes = 3
  Vertex <- MCVertex
  Owner <- MCOwner
  Adj <- MCAdj
  VWgt <- MCVWgt
  nparts = 4
  Ub = 200
  Starts <- MCStarts
  Rtypes = {"GREEDY", "2PHASE"}
  npasses = 2
INVARIANTS Separates ParamsExact OrderIsPermutation SizesDescribeOrder
PROPERTIES SeparatorNeverGrows
