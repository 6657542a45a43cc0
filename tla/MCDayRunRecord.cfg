SPECIFICATION Spec
CONSTANTS
    p1 = p1
    p2 = p2
    Process = {p1, p2}
    d1 = d1
    d2 = d2
    Campaign = {d1, d2}
    Version = {v}
    Draft = Draft
    None = None
    v = v
    w = v
    MaxRejections = 1
    MaxEdits = 4
SYMMETRY Symmetry
PROPERTY
    RecordsAreAppendOnly
CHECK_DEADLOCK FALSE
