SPECIFICATION Spec
CONSTANTS
    MaxBlock = 8
    MaxPage = 2
    ChipNumber = 2
    LeastBlocks = 2
    BadBlocks <- NoBad
    gmtBlkCount = 1
    cmtListLength = 3
    HOTLIST_LENGTH = 1
    CANDIDATELIST_LENGTH = 2
    Methods = {"NFTL", "BL", "DFTL", "STRIPE_STATIC", "STRIPE_DYNAMIC"}
    Orders <- InOrder
    Fills <- SomeFills
    WorkingSet = 4
    MaxLength = 2
    StrayKeys <- NoStray
    MaxRequests <- Bounds
INVARIANTS
    ReadsNewest
    ListsSound
    StopsOnlyWhenFull
CHECK_DEADLOCK FALSE
