SPECIFICATION FairSpec
CONSTANTS
    Callers = {a, b}
    m1 = m1
    m2 = m2
    Messages = {m1, m2}
    Payload <- MCPayload
    None = None
    MaxInbox = 1
    MaxOutput = 4
INVARIANTS
    StreamInOrder
    WritesWhenNeeded
    DestroyedOnce
PROPERTIES
    DrainBeforeShutdown
    NoInputLost
    OutputDrains
    ShutdownHappens
    WriteCompleteTold
CHECK_DEADLOCK FALSE
