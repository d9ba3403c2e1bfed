SPECIFICATION FairSpec
CONSTANTS
    c1 = c1
    c2 = c2
    s1 = s1
    Callers <- MCCaller1
    Streams <- MCStream1
    Keepalive = FALSE
    MaxDisconnects = 1
PROPERTY
    LostLinkReplaced
