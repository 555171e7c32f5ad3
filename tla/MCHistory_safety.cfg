\* Every failure, both timers, pids that are used again; rows grow old enough to be
\* deleted.
CONSTANTS
    p1 = p1
    p2 = p2
    p3 = p3
    Pid = {p1, p2}
    NoPid = NoPid
    Rows = 2
    history_interval = 1000
    history_retention = 1000
    PruneInterval = 1
    Faults = {"killed", "killed_cleanup", "killed_scrape", "db_error", "no_memory", "fork_error"}
    MaxTime = 3
SPECIFICATION Spec
SYMMETRY PidSymmetry
INVARIANTS TypeOK RecordedPidUnreaped OneRetentionWorker SnapshotsWhole
PROPERTY ImplementsSnapshotStore
