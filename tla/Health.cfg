SPECIFICATION FairSpec
CONSTANTS
    c1 = c1
    c2 = c2
    s1 = s1
    Callers <- MCCallers2
    Streams <- MCStream1
    Keepalive = TRUE
    MaxDisconnects = 1
INVARIANTS
    TypeOK
    CallsKeepTheirTransport
    StreamsFollow
PROPERTIES
    SlotKeepsPromise
    EveryCallReturns
