SPECIFICATION FairSpec
CONSTANTS
    Users = {user, loop}
    LoopThread = loop
    Fds = {f1, f2}
    Timers = {t1, t2, t3, t4}
    None = None
    MaxCalls = 3
INVARIANTS
    AbortsOnlyIfMisused
    OneChannelPerFd
    NotStuck
    StopHolds
PROPERTIES
    IsLifecycle
    StopSettles
    SpentAborts
CHECK_DEADLOCK FALSE
