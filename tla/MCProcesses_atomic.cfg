\* One "conf set" and the reloads of the main process.
SPECIFICATION PartSpec
CONSTANTS
  c1 = c1
  c2 = c2
  s1 = s1
  s2 = s2
  Proc = {c1, c2}
  NumServers = 2
  Metrics <- BothKinds
  NUMBER_OF_DATABASES = 1
  MaxOthers = 2
  Setups <- OneScraper
  Setter = {s1}
  Scopes = {"reloads"}
  Probe <- Probed
  MaxEdits = 2
INVARIANTS TransferIsAtomic
CHECK_DEADLOCK FALSE
