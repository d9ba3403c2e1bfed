SPECIFICATION FairSpec
CONSTANTS
    Workers <- MCWorkers
    Home <- MCHome
    Adverts <- MCAdverts
    MaxReconnects = 1
    MaxFailures = 7
    None = None
INVARIANTS
    TypeOK
    FirstThatAnswers
    NoneLeftUntried
PROPERTIES
    BackoffGrows
    ConnectEnds
CHECK_DEADLOCK FALSE
