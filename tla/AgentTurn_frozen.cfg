SPECIFICATION Spec
CONSTANTS
    UserInput = {u1, u2}
    Trigger = {t1}
    NoEvent = none
    Feedback = feedback
    MaxRounds = 1
    MaxFailures = 0
    MaxInterrupts = 1
CHECK_DEADLOCK FALSE
INVARIANTS
    NeverFrozen
