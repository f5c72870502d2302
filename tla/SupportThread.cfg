SPECIFICATION Spec
CONSTANTS
    None = None
    Users = {u1, u2}
    Keys = {k1, k2}
    Jobs = {j1, j2}
    MaxRounds = 3
INVARIANTS
    AtMostThreeQuestions
    ResolvedIsCaptured
SYMMETRY Symmetry
CHECK_DEADLOCK FALSE
