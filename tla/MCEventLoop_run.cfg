SPECIFICATION FairSpec
CONSTANTS
  http = http
  k1 = k1
  k2 = k2
  Port = {http}
  Kid = {k1, k2}
  Setups <- Deployments
  MaxSignals = 2
  MaxClients = 2
INVARIANTS LoopSound
PROPERTIES TermStops Reaped ConnectionAccepted
CHECK_DEADLOCK FALSE
