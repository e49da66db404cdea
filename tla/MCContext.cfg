\* Two runners, three accepted mutations, rejected ones at any time, one cancellation.
CONSTANTS
    a = a  b = b  r1 = r1  r2 = r2
    Field = {a, b}
    Value = {TRUE, FALSE}
    Bad = Bad
    None = None
    Default <- BothFalse
    Runner = {r1, r2}
    Cond <- Watches
    MaxChanges = 3
    MaxCancels = 1
SPECIFICATION Spec
INVARIANTS
    TypeOK
    SignalsChain
    WatcherUpToDate
\* No more mutations, and every runner stopped.
CHECK_DEADLOCK FALSE
