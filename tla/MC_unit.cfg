SPECIFICATION Spec
CONSTANTS
    Self = 3
    IDs = {1, 2, 3, 4}
    RecordCount = 2
    MaxMissing = 1
    CountSyncsPerMerger = 0
    CountFishingsPerDeepFishing = 0
    CountRepeatsPerControlSync = 0
    SoftDevice = TRUE
    PeriodsPerProvision = 0
    Traffic = {"MasterSync", "MergeMyMasterDepart", "AbandonMastership", "ControlScatterClique", "ControlNetGranularity"}
INVARIANTS
    TypeOK
    SlaveHasFormerClique
    MergerActiveIffRole
    RoleMatchesMode
    ListensOnlyInItsSlot
    SlotFindsItsRole
    PreludeMatchesTask
    MergerNamesSuperior
    PendingCallbacks
PROPERTIES
    OnlyBetterMasters
    ImplementsClique
