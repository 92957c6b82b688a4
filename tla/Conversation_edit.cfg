SPECIFICATION Spec
CONSTANTS
    None = None
    KeepTurns = 1
    MinCompactable = 4
    MaxMessages = 4
    MaxRounds = 1
    MaxCuts = 1
    MaxRestarts = 1
CHECK_DEADLOCK FALSE
PROPERTY EditHitsItsTurn
