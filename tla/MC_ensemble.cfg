SPECIFICATION Spec
CONSTANTS
    Units = {1, 2, 3}
    Slots = {s1, s2}
    Off = Off
    RecordCount = 3
    MaxMissing = 2
    MaxQuiet = 1
    MaxMishaps = 1
INVARIANTS
    TypeOK
PROPERTIES
    UnitsAreCliques
    ImplementsElection
    SyncIsStable
    EventuallyInSync
CHECK_DEADLOCK FALSE
