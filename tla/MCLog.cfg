CONSTANTS
    kBlockSize = 7
    kHeaderSize = 3
    Sizes = {0, 6}
    MaxRecords = 3
    Offsets = {0, 6}
    checksum_ = TRUE
    GroupBits = 3
    Bytes32 = 2
    Bytes64 = 4
SPECIFICATION Spec
INVARIANTS
    NothingInvented
    AckedRecordsRead
    DamageIsLocal
CHECK_DEADLOCK FALSE
