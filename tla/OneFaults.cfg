SPECIFICATION FairSpec
CONSTANTS
  root = root
  mid = mid
  left = left
  right = right
  later = later
  w1 = w1
  w2 = w2
  l1 = l1
  l2 = l2
  l3 = l3
  l4 = l4
  NoOne = NoOne
  Puppets <- OnePuppet
  Respawns = {}
  PuppetOf <- Nothing
  Births <- OneBirth
  Workers = {}
  Letters = {l1, l2, l3}
  Mail <- OneMail
  Family <- OneUnborn
  Supervision <- OneSupervision
  MaxFaults = 2
  MaxMoves = 0
  Listening = "leaves"
  MaxDepth = 30
CHECK_DEADLOCK FALSE
INVARIANTS
  BrokenInv
  SettledOrReported
  RecoveryBounded
  RecoveryInv
PROPERTIES
  SpawnedIsReady
  SpawnsEnd
  AsksResolve
  FailureHeard
