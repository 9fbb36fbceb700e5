SPECIFICATION Spec
CONSTANTS
  root = root
  mid = mid
  left = left
  right = right
  later = later
  w1 = w1
  w2 = w2
  l1 = l1
  l2 = l2
  l3 = l3
  l4 = l4
  NoOne = NoOne
  Puppets <- Pair
  Respawns <- Later
  PuppetOf <- LaterOf
  Births <- LaterBirth
  Workers = {}
  Letters = {l1, l2}
  Mail <- RestartMail
  Family <- PairFamily
  Supervision <- PairSupervision
  MaxFaults = 1
  MaxMoves = 1
  Listening = "nobody"
  MaxDepth = 8
CHECK_DEADLOCK FALSE
INVARIANTS
  SystemInv
  TypeOK
  TreeInv
  StoppedIsDown
