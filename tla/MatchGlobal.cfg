SPECIFICATION Spec
CONSTANTS
  npes = 3
  Vertex <- MCVertex
  Owner <- MCOwner
  Adj <- MCAdj
  Weight <- MCWeight
  Home <- MCHome
  Heavy <- MCHeavy
  Orders <- MCOrders
  Levels = {0, 1}
  TwoHops = {FALSE, TRUE}
  NPASSES = 2
  KeepBit = 100
  MTypes = {"global", "local"}
INVARIANTS AgreedMatching BuffersSuffice NobodyForgotten
PROPERTIES MatchIsFinal AllMatched
