SPECIFICATION FairSpec
CONSTANTS
  npes = 3
  Vertex <- RingVertex
  Owner <- RingOwner
  Adj <- RingAdj
  Value <- Words
  Start <- AllZero
  Choices <- NewWords
  NoValue = NoValue
  MaxRound = 3
  Eager = {0}
INVARIANTS GhostsCoherent IInv
PROPERTIES ImplementsAbstract AllFinish
