SPECIFICATION Spec
CONSTANTS
    u1 = u1
    u2 = u2
    h1 = h1
    h2 = h2
    us = us
    eu = eu
    ap = ap
    Callers <- MCUsers
    Updaters <- MCUpdaters
    Regions <- MCRegions
    Hinted <- MCHinted
    Workers <- MCWorkers
    Home <- MCHome
    Rtts = {1}
    MaxBroadcast = 2
    MaxClients = 3
    MaxCalls = 3
    None = None
INVARIANT
    OneSwitchPerCooldown
CHECK_DEADLOCK FALSE
