CONSTANTS
    Proposals = {p1}
    Requests = {r1, r2, r3}
    Prod = {p1}
    None = None
    ActionOf <- Restart
    ResourceOf <- OneResource
    CosmosFaults = FALSE
    Approver = r1
    Approved = p1
SPECIFICATION ApprovedSpec
CHECK_DEADLOCK FALSE
INVARIANT ExecutedOnce
