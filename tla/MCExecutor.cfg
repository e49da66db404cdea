\* A cron routine (Queue) and the root; start() and stop() alternate, with one
\* cancellation, or start() is called again and again.
CONSTANTS
    Routines <- Names
    CronRoutine <- CronNames
    Queued <- QueueNames
    Topic <- Topics
    Hears <- Hearing
    Lifecycles <- Both
    MaxStarts = 2
    MaxSignals = 1
    MaxCancels <- CancelOnlyAlternating
SPECIFICATION FairSpec
INVARIANTS
    TypeOK
    StopLeavesNothing
    StopTellsFailure
    StopDrains
    NoLoopOutOfReach
    NoCrossDelivery
PROPERTIES
    StopCompletes
\* Everything may be stopped for good.
CHECK_DEADLOCK FALSE
