\* Callers of mutate_state may be cancelled while they await it.
CONSTANTS
    a = a  b = b  r1 = r1  r2 = r2
    Field = {a, b}
    Value = {TRUE, FALSE}
    Bad = Bad
    None = None
    Default <- BothFalse
    Runner = {r1, r2}
    Cond <- Watches
    MaxChanges = 1
    MaxCancels = 1
SPECIFICATION Spec
INVARIANT
    CalledWheneverChanged
\* No more mutations, and every runner stopped.
CHECK_DEADLOCK FALSE
