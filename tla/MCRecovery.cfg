SPECIFICATION Spec
CONSTANTS
    ReuseLogs = {TRUE, FALSE}
    ReuseNew = {FALSE}
    MemCapacity = 2
    Batches <- TwoBatches
    MaxMerges = 1
    MaxFaults = 2
    MaxOpens = 3
INVARIANTS
    SyncedRecovered
    PrefixOfLog
    SequenceOrder
    BatchWhole
    OpenSucceeds
CHECK_DEADLOCK FALSE
