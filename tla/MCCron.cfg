\* A job of each kind, a clock that may jump, one restart.
CONSTANTS
    Job <- OneOfEachKind
    NoJob = NoJob
    Expr <- SmallExprs
    Skew = 1
    MaxClock = 6
    MaxCancels = 1
SPECIFICATION FairSpec
INVARIANTS
    TypeOK
    OneEntryPerJob
PROPERTIES
    NoEarlyTick
    NoOvertaking
    DueTicks
\* The scheduler may be dead at the end of time.
CHECK_DEADLOCK FALSE
