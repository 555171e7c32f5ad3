SPECIFICATION Spec
CONSTANTS
  Scrapes <- SomeScrapes
  Returned <- SomeRows
  Missing = "null"
  MaxColumns = 3
  Bodies <- SomeBodies
  Address <- Addresses
  MaxValues = 2
INVARIANTS MetricsSound QueryByVersion ParsedIsDocument TreeIsMap ExpositionSound AlertsSound BridgeKeepsSamples
CHECK_DEADLOCK FALSE
