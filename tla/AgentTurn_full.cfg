SPECIFICATION FairSpec
CONSTANTS
    UserInput = {u1, u2}
    Trigger = {t1, t2}
    NoEvent = none
    Feedback = feedback
    MaxRounds = 1
    MaxFailures = 1
    MaxInterrupts = 2
CHECK_DEADLOCK FALSE
INVARIANTS
    NothingLost
    NeverTwice
    FlusherIsAwaitingATurn
PROPERTIES
    StoppedIsSilent
    WaitersAreHeard
    BufferedInTimeIsHeard
