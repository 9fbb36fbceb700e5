SPECIFICATION Spec
CONSTANTS
  root = root
  mid = mid
  left = left
  right = right
  later = later
  w1 = w1
  w2 = w2
  l1 = l1
  l2 = l2
  l3 = l3
  l4 = l4
  NoOne = NoOne
  Puppets <- OnePuppet
  Respawns = {}
  PuppetOf <- Nothing
  Births <- Nothing
  Workers = {w1, w2}
  Letters = {l1, l2}
  Mail <- WorkerMail
  Family <- OneFamily
  Supervision <- OneSupervision
  MaxFaults = 2
  MaxMoves = 0
  Listening = "leaves"
  MaxDepth = 30
CHECK_DEADLOCK FALSE
SYMMETRY WorkerSymmetry
INVARIANTS
  SystemInv
