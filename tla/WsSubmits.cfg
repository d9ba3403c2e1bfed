SPECIFICATION FairSpec
CONSTANTS
    r1 = r1
    r2 = r2
    Submits <- MCSubmits2
    Subs <- MCSub1
    Streams <- MCStreams
    StreamOf <- MCOneStream
    Says <- MCSaysOne
    QueueCap = 1
    StreamCap = 1
    Heartbeats = TRUE
    MaxSessions = 1
    MaxEvents = 0
INVARIANTS
    TypeOK
    LockOnlyToReceive
PROPERTIES
    RepliesKeepPromise
    EverySubmitReturns
    ConnectReturns
    HeartbeatAnswered
    ClosedOnceDropped
CHECK_DEADLOCK FALSE
