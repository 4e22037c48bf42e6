CONSTANTS
    Proposals = {p1}
    Requests = {r1, r2}
    Prod = {p1}
    None = None
    ActionOf <- Deallocation
    ResourceOf <- OneResource
    CosmosFaults = TRUE
    Approver = r1
    Approved = p1
SPECIFICATION Spec
CHECK_DEADLOCK FALSE
SYMMETRY RequestSymmetry
CONSTRAINT NoAlertYet
INVARIANTS
    RemediationTypeOK
    ArmIsAuthorised
    WalTellsTruth
    RollbackJustified
PROPERTY KeepsContract
