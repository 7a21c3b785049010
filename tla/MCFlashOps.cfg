SPECIFICATION Spec
CONSTANTS
  Keys <- TwoAlike
  FirstSequence = 19
  ByteValues = 4
  PageToLBARatio = 2
  EntrySize = 3
  PageSize = 2
  MemLimit = 1
  MaxPuts = 3
  MaxTables = 3
  MaxGets = 1
INVARIANTS
  ReadsSucceed
  ReadsNearTable
  FlushReadsSafe
PROPERTY
  QuietExit
CHECK_DEADLOCK FALSE
