SPECIFICATION Spec
CONSTANTS
    FirstSlot = 2
    LastSlot = 11
    Increment = 2
    MaxDuration = 9
INVARIANTS
    TypeOK
    InRange
    SessionMatchesDuration
    CountersInRange
PROPERTIES
    EverySlotFished
