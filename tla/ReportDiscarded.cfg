SPECIFICATION Spec
CONSTANTS
  root = root
  mid = mid
  left = left
  right = right
  later = later
  w1 = w1
  w2 = w2
  l1 = l1
  l2 = l2
  l3 = l3
  l4 = l4
  NoOne = NoOne
  Puppets <- Pair
  Respawns = {}
  PuppetOf <- Nothing
  Births <- Nothing
  Workers = {}
  Letters = {l1}
  Mail <- FaultyMail
  Family <- PairFamily
  Supervision <- PairSupervision
  MaxFaults = 1
  MaxMoves = 0
  Listening = "nobody"
  MaxDepth = 9
CHECK_DEADLOCK FALSE
PROPERTIES
  ReportsReachSupervision
