SPECIFICATION FairSpec
CONSTANTS
  c1 = c1
  c2 = c2
  cpu = cpu
  ram = ram
  package = package
  board = board
  Clients = {c1, c2}
  SeriesNames = {cpu}
  Values = {1, 2}
  SensorLists <- OneOrder
  HistorySize = 2
  MaxUpdates = 3
INVARIANTS TypeOK
PROPERTIES ImplementsAtomicStore UpdateReturns
\* The number of updates is bounded.
CHECK_DEADLOCK FALSE
