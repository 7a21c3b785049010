CONSTANTS
    Readers = {r1, r2}
    Files = {1, 2}
    Offsets = {0, 1}
    BlockSize <- MCBlockSize
    kNumShards = 2
    HashSpan = 2
    Hash <- MCHash
    kMinLength = 1
    TableEntries = 3
    BlockCapacity = 2
    MmapLimit = 1
    MaxId = 2
SYMMETRY ReaderSymmetry
SPECIFICATION Spec
INVARIANTS
    RefsExact
    RightBlock
CHECK_DEADLOCK FALSE
