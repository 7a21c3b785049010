CONSTANTS
    UserKeys = {1, 2}
    kMaxHeight = 2
    Types = {1}
    MaxSequence = 3
    Keys = {1, 2}
    Loaded = 3
    MaxEntries = 4
SPECIFICATION Reads
INVARIANTS
    NoTornNode
    LandedRight
    GetNewest
    Positioned
    GetRight
    IteratorRight
CHECK_DEADLOCK FALSE
