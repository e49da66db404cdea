\* Every call may be cancelled, or only those of senders.
CONSTANTS
    s1 = s1  s2 = s2  r1 = r1  r2 = r2  r3 = r3
    Gone = Gone
    Sender <- Senders
    Receiver <- Receivers
    Regimes <- WithOrWithoutReceivers
    Sizes <- SizesUpTo2
    MaxQueue = 2
    MaxCancels = 1
SPECIFICATION FairSpec
INVARIANTS
    TypeOK
    NoLostWakeup
    CloseReleasesAll
    WaitsInsteadOfFailing
    ClosedMeansDrained
PROPERTIES
    ImplementsChan
    NoStuckWaiter
\* Tasks may all be waiting, in an empty channel, for one another.
CHECK_DEADLOCK FALSE
