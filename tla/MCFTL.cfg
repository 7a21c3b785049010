SPECIFICATION FairSpec
CONSTANTS
    MaxBlock = 5
    MaxPage = 2
    LeastBlocks = 1
    BadBlocks <- OneBad
    PageToLBARatio = 2
    WorkingSet = 4
    MaxLength = 3
INVARIANTS
    MappingConsistent
    SlackSuffices
PROPERTIES
    PageLifeCycle
    LogicalDiskSpec
    RequestsFinish
CHECK_DEADLOCK FALSE
