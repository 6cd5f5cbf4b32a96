SPECIFICATION Spec
CONSTANTS
    Closure = {c1, c2}
    First = c1
    MaxGen = 3
    Req = {r1, r2}
    MaxEvents = 4
INVARIANT PairTruth
INVARIANT AllOrNothing
INVARIANT FailedRollbackSuppresses
PROPERTY CommitHonest
SYMMETRY Symmetry
CHECK_DEADLOCK FALSE
