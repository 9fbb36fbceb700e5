SPECIFICATION FairSpec
CONSTANTS
  root = root
  mid = mid
  left = left
  right = right
  later = later
  w1 = w1
  w2 = w2
  l1 = l1
  l2 = l2
  l3 = l3
  l4 = l4
  NoOne = NoOne
  Puppets <- Chain
  Respawns = {}
  PuppetOf <- Nothing
  Births <- Nothing
  Workers = {}
  Letters = {l1, l2, l3}
  Mail <- ChainFails
  Family <- ChainUnborn
  Supervision <- ChainSupervision
  MaxFaults = 0
  MaxMoves = 0
  Listening = "nobody"
  MaxDepth = 20
CHECK_DEADLOCK FALSE
INVARIANTS
  SystemInv
PROPERTIES
  ImplementsDelivery
  CommandsResolve
  AsksResolve
  DownStops
