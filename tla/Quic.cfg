SPECIFICATION FairSpec
CONSTANTS
    c1 = c1
    Calls <- MCCalls
    Subs <- MCSubs
    Streams <- MCStreams
    StreamOf <- MCStreamOf
    StreamCap = 1
    MaxSessions = 2
    MaxEvents = 2
    None = None
INVARIANTS
    TypeOK
    OneConnection
    OwnTypeInOrder
    AloneGetsOwn
PROPERTIES
    ClosedReleasesAll
CHECK_DEADLOCK FALSE
