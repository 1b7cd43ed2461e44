SPECIFICATION FairThreadSpec
CONSTANTS
    LoopThread = loop
    Callers = {main, user}
    Functors = {f1, f2}
    None = None
    QuitCall = QuitCall
    Owner = main
PROPERTIES
    DestructorQuitsLiveLoop
    StartLoopReturns
    DestructorReturns
CHECK_DEADLOCK FALSE
