SPECIFICATION Spec
CONSTANTS
    p1 = p1
    p2 = p2
    Process = {p1, p2}
    d1 = d1
    d2 = d2
    Campaign = {d1}
    Version = {v, w}
    Draft = Draft
    None = None
    v = v
    w = w
    MaxRejections = 2
    MaxEdits = 6
SYMMETRY Symmetry
INVARIANTS
    TypeOK
    ExecutedOnce
    OutcomeIsEvident
    ExecutesTheAuthorized
PROPERTY
    EvidenceIsKept
CHECK_DEADLOCK FALSE
