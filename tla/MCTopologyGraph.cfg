CONSTANTS
    vm = vm
    nic = nic
    disk = disk
    subnet = subnet
    group = group
    Node <- MCNode
    Links <- MCLinks
    Origin = vm
    Target = subnet
    Depths = {2, 3}
    Rounds = 2
    MaxUpserts = 1
SYMMETRY Symmetry
CHECK_DEADLOCK FALSE
SPECIFICATION GraphSpec
INVARIANTS
    GraphTypeOK
    RadiusIsDistance
    PathIsWalk
