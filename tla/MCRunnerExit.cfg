\* A routine may raise ChanClosed, as a publisher to a stopped runner does.
CONSTANTS
    Strategies <- Mode
    Outcomes <- AllOutcomes
    MaxSignals = 2
    MaxCancels = 0
SPECIFICATION Spec
INVARIANT NormalExitMeansClosed
CHECK_DEADLOCK FALSE
