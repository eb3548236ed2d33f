SPECIFICATION CoinSpec
CONSTANTS
    Self = 2
    IDs = {1, 2}
    RecordCount = 2
    MaxMissing = 1
    CountSyncsPerMerger = 1
    CountFishingsPerDeepFishing = 1
    CountRepeatsPerControlSync = 0
    SoftDevice = FALSE
    PeriodsPerProvision = 0
    Traffic = {"MasterSync", "MergeOther"}
PROPERTIES
    SyncPointsForever
    NoOrphan
    DeepFishingEnds
    MergerEnds
