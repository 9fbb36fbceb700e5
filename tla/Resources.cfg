SPECIFICATION FairSpec
CONSTANTS
  t = t
  u = u
  r = r
  s = s
  NoOne = NoOne
  Map = Map
  Threads <- MCThreads
  Types <- MCTypes
  Nests <- InOrder
  MaxCalls = 5
  MaxCells = 2
INVARIANTS TypeOK HalfUpdateUnseen UpdatesVisible CellsInv
PROPERTIES CallsEnd
CHECK_DEADLOCK FALSE
