SPECIFICATION FairSpec
CONSTANTS
  a = a
  b = b
  message = message
  heavy = heavy
  future = future
  NoOne = NoOne
  NumThreads = 2
  Owners <- MCOwners
  Droppers <- MCOwners
  Jobs <- AllJobs
  Messages <- MCMessages
  Heavy <- MCHeavy
INVARIANTS TypeOK AcceptedJobsEnd JoinInsideHangs ShutdownInv
PROPERTIES JobsResolve DropsReturn
CHECK_DEADLOCK FALSE
