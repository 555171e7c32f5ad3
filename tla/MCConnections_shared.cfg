SPECIFICATION Spec
CONSTANTS
  c1 = c1
  c2 = c2
  Proc = {c1, c2}
  NumServers = 2
  Metrics <- BothKinds
  NUMBER_OF_DATABASES = 1
  MaxOthers = 2
  Setups <- Together
INVARIANTS OwnDescriptor
CHECK_DEADLOCK FALSE
