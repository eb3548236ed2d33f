\* Slots of four ticks: a half slot is 2.  Syncs in time carry 22, late ones less.
CONSTANTS
    SlotDuration = 4
    CountSlots = 6
    SendLatency = 1
    GuessedSendLatency = 1
    MsgOverTheAirTimeInTicks = 1
    SessionSlots = {1, 4}
    SyncOffsets = {0, 19, 22, 24}
    Offsets = {0, 12, 24}
SPECIFICATION Spec
INVARIANTS TypeOK MergeSlotBeforeSyncPoint AtMostASlotLate
PROPERTIES OnlySilenceShortens OnlyDeepFishingLoses
\* A unit that is lost stops.
CHECK_DEADLOCK FALSE
