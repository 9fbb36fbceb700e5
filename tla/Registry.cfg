SPECIFICATION Spec
CONSTANTS
  p1 = p1
  p2 = p2
  c1 = c1
  c2 = c2
  NoMaster = NoMaster
  Pids <- TwoPids
  Callers <- TwoCallers
  MaxOps = 4
  Shared = {p1}
CHECK_DEADLOCK FALSE
SYMMETRY CallerSymmetry
INVARIANTS
  TypeOK
  CommandFindsPostman
  RegistrationWhole
  RegistrationInv
PROPERTIES
  RegistrationStands
  ImplementsTree
