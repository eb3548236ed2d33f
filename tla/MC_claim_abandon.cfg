SPECIFICATION Spec
CONSTANTS
    Self = 3
    IDs = {1, 2, 3}
    RecordCount = 2
    MaxMissing = 1
    CountSyncsPerMerger = 1
    CountFishingsPerDeepFishing = 0
    CountRepeatsPerControlSync = 0
    SoftDevice = FALSE
    PeriodsPerProvision = 0
    Traffic = {"MasterSync"}
PROPERTY
    AbandonMergingForBetterClique
