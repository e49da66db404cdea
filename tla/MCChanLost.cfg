\* A waiting recv may be cancelled: its wakeup is lost.
CONSTANTS
    s1 = s1  s2 = s2  r1 = r1  r2 = r2  r3 = r3
    Gone = Gone
    Sender <- Senders
    Receiver <- TwoReceivers
    Regimes <- Everybody
    Sizes <- SizesUpTo2
    MaxQueue = 2
    MaxCancels = 1
SPECIFICATION Spec
INVARIANT
    NoSleepOnValue
\* Tasks may all be waiting, in an empty channel, for one another.
CHECK_DEADLOCK FALSE
