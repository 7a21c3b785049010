SPECIFICATION FairSpec
CONSTANTS
    Writers <- ThreeWriters
    Kinds <- ThreeKinds
    Manuals = {"m1"}
    MemCapacity = 0
    CompactionTrigger = 1
    SlowdownTrigger = 1
    StopTrigger = 1
    Faults <- AllFaults
    MaxCalls = 3
    MaxPasses = 1
INVARIANTS
    WriteAhead
    SyncedSurvive
    AckedVisible
PROPERTIES
    ErrorStopsWrites
    CallsReturn
CHECK_DEADLOCK FALSE
