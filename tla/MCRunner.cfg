\* Every strategy, every way a routine may end, two cancellations of the loop, a fair event loop.
CONSTANTS
    Strategies <- Mode
    Outcomes <- AllOutcomes
    MaxSignals = 3
    MaxCancels = 2
SPECIFICATION FairSpec
INVARIANTS
    TypeOK
    OneRoutineAtATime
    NothingUnattended
    CallbackFindsTask
PROPERTIES
    ImplementsRunnerSpec
    BeginInOrder
    StopCompletes
    SignalServed
\* The runner stops: nothing is left to do once the loop has ended.
CHECK_DEADLOCK FALSE
