SPECIFICATION FairSpec
CONSTANTS
    c1 = c1
    s1 = s1
    s2 = s2
    hints = hints
    Calls <- MCCalls
    Subs <- MCSubs
    Streams <- MCStreams
    StreamOf <- MCStreamOf
    StreamCap = 1
    MaxEvents = 3
INVARIANTS
    TypeOK
PROPERTIES
    KeepsPromise
    NewsArrive
    AbandonedStops
