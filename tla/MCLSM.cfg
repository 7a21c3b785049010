SPECIFICATION Spec
CONSTANTS
    NumKeys = 3
    NumLevels = 4
    MaxMemCompactLevel = 2
    Loads <- BothLoads
INVARIANTS
    LevelsDisjoint
    ReadsCorrect
CHECK_DEADLOCK FALSE
