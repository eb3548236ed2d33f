CONSTANTS
    SlotDuration = 4
    CountSlots = 8
    SendLatency = 1
    GuessedSendLatency = 1
    MsgOverTheAirTimeInTicks = 1
    SessionSlots = {1}
    SyncOffsets = {30}
    Offsets = {0, 32}
SPECIFICATION Spec
INVARIANT SentOffsetValid
