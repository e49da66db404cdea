\* Three voice events, and so up to six events.
CONSTANT
    MaxVoice = 3
SPECIFICATION FairSpec
INVARIANTS
    TypeOK
    OneReminderPerReset
PROPERTIES
    LatestDecides
    RemindedInTheEnd
\* Nobody speaks any more.
CHECK_DEADLOCK FALSE
