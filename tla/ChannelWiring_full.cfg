SPECIFICATION FairSpec
CONSTANTS
    Registry = {r1, r2}
    Home = r1
    MaxTriggers = 3
    MaxSends = 2
CHECK_DEADLOCK FALSE
INVARIANTS
    OneDriver
    NothingLeaks
    WiredMeansHeard
    StoppedIsQuiet
PROPERTIES
    NothingRots
