SPECIFICATION MCSpec
INVARIANTS
  BookkeepingExact
  NoPartEmptied
  SerialInfoExact
  LimitsKept
  GainsAreSavings
  BestPassKept
PROPERTIES
  ExchangeKeepsDivisions
