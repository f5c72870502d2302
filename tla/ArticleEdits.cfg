SPECIFICATION Spec
CONSTANTS
    None = None
    t0 = t0
    t1 = t1
    Texts = {t0, t1}
    Original = t0
    Batches <- BatchesOf
    Stages = {s1}
    MaxFailures = 1
    Requests = {r1, r2}
    Users = {u1}
    Reviews = {v1}
INVARIANTS
    OneActiveVersion
    SearchFindsTheActiveVersion
    DraftsMeetTheirRequest
CHECK_DEADLOCK FALSE
PROPERTIES ImplementsRevisions
SYMMETRY Symmetry
