SPECIFICATION FairSpec
CONSTANTS
    LoopThread = loop
    Callers = {a, b}
    Functors = {f1, f2, f3}
    None = None
    QuitCall = QuitCall
INVARIANTS
    RunOnceInOrder
    DeferredRunsThisRound
    SleepJustified
PROPERTIES
    FunctorEventuallyRuns
CHECK_DEADLOCK FALSE
