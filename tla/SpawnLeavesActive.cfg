SPECIFICATION Spec
CONSTANTS
  root = root
  mid = mid
  left = left
  right = right
  later = later
  w1 = w1
  w2 = w2
  l1 = l1
  l2 = l2
  l3 = l3
  l4 = l4
  NoOne = NoOne
  Puppets <- OnePuppet
  Respawns = {}
  PuppetOf <- Nothing
  Births <- OneBirth
  Workers = {}
  Letters = {l1}
  Mail <- OneAsk
  Family <- OneUnborn
  Supervision <- OneSupervision
  MaxFaults = 1
  MaxMoves = 0
  Listening = "nobody"
  MaxDepth = 30
CHECK_DEADLOCK FALSE
INVARIANTS
  ActiveRuns
