SPECIFICATION Spec
CONSTANTS
    r1 = r1
    r2 = r2
    Submits <- MCSubmit1
    Subs <- MCNone
    Streams <- MCStreams
    StreamOf <- MCOneStream
    Says <- MCSaysEnds
    QueueCap = 2
    StreamCap = 1
    Heartbeats = FALSE
    MaxSessions = 1
    MaxEvents = 0
INVARIANT
    ResultIsOutcome
CHECK_DEADLOCK FALSE
