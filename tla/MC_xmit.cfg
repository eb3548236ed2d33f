SPECIFICATION Spec
CONSTANTS
    CountRepeatsPerControlSync = 1
    CyclePeriods = 3
    MaxAllowance = 6
INVARIANTS
    TypeOK
    SyncSpanBounded
