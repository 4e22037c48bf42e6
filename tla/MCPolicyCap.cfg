CONSTANTS
    r1 = r1
    r2 = r2
    r3 = r3
    once = once
    twice = twice
    Proposals <- MCProposals
    Policies <- MCPolicies
    MaxDaily <- MCMaxDaily
    MaxDay = 1
    None = None
SYMMETRY Symmetry
CHECK_DEADLOCK FALSE
SPECIFICATION PolicySpec
INVARIANTS
    PolicyTypeOK
    CapHolds
