SPECIFICATION FairSpec
CONSTANTS
  a = a
  b = b
  message = message
  heavy = heavy
  future = future
  NoOne = NoOne
  NumThreads = 2
  Owners <- MCOwners
  Droppers = {}
  Jobs <- HeavyOnly
  Messages = {}
  Heavy <- MCHeavy
PROPERTIES EveryJobResolves
CHECK_DEADLOCK FALSE
