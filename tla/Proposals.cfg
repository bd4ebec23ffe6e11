SPECIFICATION Spec
CONSTANTS
    Proposals = {p1, p2}
    Requests = {r1, r2}
    NoProposal = NoProposal
    OneAtATime = TRUE
SYMMETRY Symmetry
INVARIANTS
    TypeOK
    ConfirmationIsForApproval
PROPERTIES
    
    ApprovedUnderReview
