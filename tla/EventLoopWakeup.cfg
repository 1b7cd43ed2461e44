SPECIFICATION Spec
CONSTANTS
    LoopThread = loop
    Callers = {a}
    Functors = {f1, f2}
    None = None
    QuitCall = QuitCall
INVARIANT WakeupInterruptsPoll
CHECK_DEADLOCK FALSE
