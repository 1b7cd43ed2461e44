SPECIFICATION FairSpec
CONSTANTS
    Fds = {f1, f2, f3}
    None = None
    MaxPeers = 3
INVARIANTS
    FailsOnlyForPool
    NoLeak
    ReserveKept
PROPERTIES
    OthersUntouched
    BacklogDrains
    IsLifecycle
CHECK_DEADLOCK FALSE
