CONSTANTS
    Proposals = {p1, prod}
    Requests = {r1, r2, r3}
    Prod = {prod}
    None = None
SPECIFICATION ApprovalSpec
SYMMETRY RequestSymmetry
CHECK_DEADLOCK FALSE
INVARIANTS
    ApprovalTypeOK
    AcceptedDecisionStands
    ExecutingIsAuthorised
    ResumeSpeaksForDecision
PROPERTIES
    DecisionNeverReversed
