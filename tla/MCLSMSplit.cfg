SPECIFICATION Spec
CONSTANTS
    NumKeys = 3
    NumLevels = 4
    MaxMemCompactLevel = 2
    Loads <- SplitLoad
INVARIANT
    ReadsCorrect
CHECK_DEADLOCK FALSE
