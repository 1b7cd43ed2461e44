SPECIFICATION Spec
CONSTANTS
    Once = once
    Every = every
    Timers = {once, every}
    Interval <- MCInterval
    Delays = {1, 3}
    Micro = 2
    MinDelay = 2
    Word = 1000
    MaxClock = 8
PROPERTY CancelledNotRestarted
CHECK_DEADLOCK FALSE
