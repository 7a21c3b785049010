SPECIFICATION Spec
CONSTANTS
    Keys = {k1, k2}
    HeadKey = head
    Values = {v1}
    NotFound = NotFound
    PutMayFail = FALSE
    MaxSets = 5
INVARIANTS
    IndexConsistent
    RecordsWhole
PROPERTY
    IndexSpec
