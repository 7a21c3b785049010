SPECIFICATION Spec
CONSTANTS
    Callers <- ThreeCallers
    Destroyers = {"a2", "b1"}
    Processes <- TwoProcesses
    Process <- ProcessOf
    MaxInodes = 3
INVARIANTS
    LockExcludes
    OpenKeepsFiles
CHECK_DEADLOCK FALSE
