SPECIFICATION Spec
CONSTANTS
    r1 = r1
    r2 = r2
    Submits <- MCNone
    Subs <- MCSubs2
    Streams <- MCStreams
    StreamOf <- MCOwnStreams
    Says <- MCSaysNone
    QueueCap = 2
    StreamCap = 1
    Heartbeats = FALSE
    MaxSessions = 2
    MaxEvents = 2
INVARIANTS
    OnlyThisSession
    ConnectedIsWired
    StreamsInOrder
CHECK_DEADLOCK FALSE
