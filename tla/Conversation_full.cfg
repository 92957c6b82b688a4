SPECIFICATION Spec
CONSTANTS
    None = None
    KeepTurns = 2
    MinCompactable = 4
    MaxMessages = 4
    MaxRounds = 1
    MaxCuts = 2
    MaxRestarts = 1
CHECK_DEADLOCK FALSE
PROPERTIES
    SpliceLosesNothing
    
    ResumeForgetsWhatWasCut
