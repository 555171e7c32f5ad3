\* Every failure, a cache that overflows or not, ages that switch it on and off.
CONSTANTS
    c1 = c1
    c2 = c2
    c3 = c3
    Child = {c1, c2}
    Main = Main
    NoProc = NoProc
    LastPart = 2
    PartLength <- MCPartLength
    metrics_cache_max_size = 3
    MaxAges = {0, 500, 1000}
    blocking_timeout = 1500
    DefaultCacheSize = 8
    MaxCacheSize = 16
    DefaultBlockingTimeout = 30
    Faults = {"write_error", "sigpipe", "no_memory"}
    MaxTime = 3
SPECIFICATION Spec
SYMMETRY ChildSymmetry
INVARIANTS TypeOK LockAccounting OneScrape UnfinishedNotValid WithinSize
PROPERTY ImplementsGuardedCache
