CONSTANTS
    Proposals = {p1}
    Requests = {r1, r2}
    Prod = {p1}
    None = None
    ActionOf <- Deallocation
    ResourceOf <- OneResource
    CosmosFaults = FALSE
    Approver = r1
    Approved = p1
SPECIFICATION FairApprovedSpec
CHECK_DEADLOCK FALSE
INVARIANT WriteAheadHolds
PROPERTIES
    SentIsVerified
    PendingIsAlerted
