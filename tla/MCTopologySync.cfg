CONSTANTS
    w1 = w1
    w2 = w2
    vm = vm
    nic = nic
    Worker <- MCWorker
    Resource <- MCResource
    Interval = 2
    Window = 4
    MaxDuration = 1
    MaxTime = 8
    MaxFaults = 1
SYMMETRY Symmetry
CHECK_DEADLOCK FALSE
SPECIFICATION SyncSpec
INVARIANTS
    SyncTypeOK
    GraphCatchesUp
