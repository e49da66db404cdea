\* Exp raises once its power is no float any more.
CONSTANTS
    Job <- OneOfEachKind
    NoJob = NoJob
    Expr <- SmallExprs
    Skew = 0
    MaxClock = 8
    MaxCancels = 0
SPECIFICATION Spec
INVARIANTS
    NextTickWithinMaximum
CHECK_DEADLOCK FALSE
