\* Two bridge requests and a JSON request, every failure, and no fairness for
\* the holders of the locks.
CONSTANTS
    b1 = b1
    b2 = b2
    b3 = b3
    j1 = j1
    j2 = j2
    BridgeChild = {b1, b2}
    JsonChild = {j1}
    NoText = NoText
    LastMetric = 2
    bridge_cache_max_size = 3
    bridge_cache_max_age = 1000
    JsonConfigured = TRUE
    BlockingTimeout = 1
    Faults = {"write_error", "sigpipe", "no_memory"}
    MaxTime = 3
SPECIFICATION WaiterSpec
INVARIANTS TypeOK LockHasReleaser
PROPERTY WaiterAnswered
CHECK_DEADLOCK FALSE
