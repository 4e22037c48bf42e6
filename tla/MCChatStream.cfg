CONSTANTS
    w1 = w1
    w2 = w2
    i1 = i1
    i2 = i2
    Workers <- MCWorkers
    Instances <- MCInstances
    MaxTurns = 2
    MaxMishaps = 2
    MaxSize = 5
    None = None
CONSTRAINTS FirstWorker FirstInstance NotOver
CHECK_DEADLOCK FALSE
SPECIFICATION FairChatSpec
INVARIANTS
    StreamTypeOK
    NoSilentEnd
    OneTextPerSource
    StaleOnlyElsewhere
PROPERTIES
    SpinnerClears
    KeepsConversation
