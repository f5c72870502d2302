SPECIFICATION Spec
CONSTANTS
    None = None
    Assets = {a1, a2}
    Locations = {l1, l2}
    Audits = {d1}
    Cases = {c1, c2}
    MaxMoves = 1
    MaxScans = 2
INVARIANTS
    FindingsAgreeWithTheSnapshot
    FindingsAreTheResult
PROPERTIES
    FindingsAreKept
    OneRelocationPerFinding
SYMMETRY Symmetry
CHECK_DEADLOCK FALSE
