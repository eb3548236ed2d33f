\* A slave hears a scatter half a period long and then a sync a tick late.
CONSTANTS
    SlotDuration = 4
    CountSlots = 8
    SendLatency = 1
    GuessedSendLatency = 1
    MsgOverTheAirTimeInTicks = 1
    SessionSlots = {1}
    SyncOffsets = {30}
    Offsets = {0, 16}
SPECIFICATION Spec
INVARIANT EndWithinTwoPeriods
