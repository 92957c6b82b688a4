CONSTANTS
    Tools = {c1}
    SubAgents = {c2}
    Unknown = {c2, c3}
    Silent = {c2}
    FailedJob = error_tool
    Assistant = assistant
    NoCall = NoCall
    MaxInterrupts = 1
    MaxCancels = 1

SPECIFICATION FairSpec
INVARIANTS
    OneOutcome
    InterruptAnswersOnce
    RoundAnswersAll
PROPERTIES
    StruckIsAnswered
    PromotedIsHeard
CHECK_DEADLOCK FALSE
