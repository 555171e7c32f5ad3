\* Workers are killed, but not between clearing their pid and their flag.
CONSTANTS
    p1 = p1
    p2 = p2
    p3 = p3
    Pid = {p1, p2}
    NoPid = NoPid
    Rows = 2
    history_interval = 1000
    history_retention = 1000
    PruneInterval = 1
    Faults = {"killed", "db_error", "no_memory", "fork_error"}
    MaxTime = 2
SPECIFICATION FairSpec
PROPERTY FlagsFreed
