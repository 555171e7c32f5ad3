\* Three children, nothing assumed of the one that has the lock, every failure, resets and
\* shutdown; the cache is large enough and its age does not change.
CONSTANTS
    c1 = c1
    c2 = c2
    c3 = c3
    Child = {c1, c2, c3}
    Main = Main
    NoProc = NoProc
    LastPart = 2
    PartLength <- MCPartLength
    metrics_cache_max_size = 8
    MaxAges = {1000}
    blocking_timeout = 1500
    DefaultCacheSize = 8
    MaxCacheSize = 16
    DefaultBlockingTimeout = 30
    Faults = {"write_error", "sigpipe", "no_memory"}
    MaxTime = 3
SPECIFICATION FairSpec
INVARIANT HitIsWhole
PROPERTIES WaiterAnswered MainGoesOn
CHECK_DEADLOCK FALSE
