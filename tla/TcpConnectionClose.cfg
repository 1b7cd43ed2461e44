SPECIFICATION Spec
CONSTANTS
    Callers = {a}
    m1 = m1
    m2 = m2
    Messages = {m1, m2}
    Payload <- MCPayload
    None = None
    MaxInbox = 1
    MaxOutput = 4
INVARIANTS
    CloseAssertion
CHECK_DEADLOCK FALSE
