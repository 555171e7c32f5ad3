\* Three bridge requests, no failure.
CONSTANTS
    b1 = b1
    b2 = b2
    b3 = b3
    j1 = j1
    j2 = j2
    BridgeChild = {b1, b2, b3}
    JsonChild = {}
    NoText = NoText
    LastMetric = 2
    bridge_cache_max_size = 4
    bridge_cache_max_age = 1000
    JsonConfigured = FALSE
    BlockingTimeout = 1
    Faults = {}
    MaxTime = 3
SPECIFICATION Spec
INVARIANT OneScrape
CHECK_DEADLOCK FALSE
