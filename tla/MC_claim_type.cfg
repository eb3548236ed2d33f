SPECIFICATION Spec
CONSTANTS
    MasterIDRange = 64
    OffsetRange = 16
    PayloadRange = 4
    MaxOffset = 10
    Units = {2, 9}
    Master = 2
    OtherIDs = {63}
    Offsets = {10}
    WorkValues = {5}
    CountRepeats = 1
    ForeignTypes = {1, 3}
    UseCasePower = 0
INVARIANT
    TypeSurvives
