\* One kind of scraper, two servers; any edit, one "conf set", two that race.
SPECIFICATION PartSpec
CONSTANTS
  c1 = c1
  c2 = c2
  s1 = s1
  s2 = s2
  Proc = {c1, c2}
  NumServers = 2
  Metrics <- BothKinds
  NUMBER_OF_DATABASES = 1
  MaxOthers = 2
  Setups <- OneScraper
  Setter = {s1, s2}
  Scopes = {"file", "set", "sets", "reloads"}
  Probe <- Probed
  MaxEdits = 2
INVARIANTS DescriptorsSound 
PROPERTIES ChangesContained ReloadLikeRestart
CHECK_DEADLOCK FALSE
