------------------------------ MODULE Message ------------------------------
(***************************************************************************)
(* The messages units exchange (src/message) and how they travel: the      *)
(* over-the-air encoding of Serializer, of MessageType and of              *)
(* NetGranularity (src/network/granularity.cpp).  A module of functions.   *)
(*                                                                         *)
(* Each field of a packet holds so many values as its bytes have: six for  *)
(* a master's ID, three for an offset, one each for type and payload.      *)
(***************************************************************************)
EXTENDS Integers

CONSTANTS
    MasterIDRange,   \* 2^(8 * OTAPayload::MasterIDLength)
    OffsetRange,     \* 2^(8 * OTAPayload::OffsetLength)
    PayloadRange,    \* 2^(8 * OTAPayload::WorkLength)
    MaxOffset        \* the largest offset sent, two sync periods at most

\* "OTA transmitted serialization must be as large as the maximum value"
\* (deltaSync.h), and a payload holds every NetGranularity.
ASSUME WidthAssumption ==
    /\ MasterIDRange \in Nat \ {0} /\ OffsetRange \in Nat \ {0}
    /\ PayloadRange \in Nat /\ PayloadRange > 3
    /\ MaxOffset \in Nat /\ MaxOffset < OffsetRange

-----------------------------------------------------------------------------
(* Types of messages *)

\* enum class MessageType: the values that are sent.
RawType == [
    MasterSync            |-> 1,  WorkSync            |-> 2,
    ControlNetGranularity |-> 3,  ControlScatterClique |-> 4,
    ControlWorkTime       |-> 5,  ControlWorkCycle    |-> 6,
    MergeOther            |-> 7,  MergeMyMasterDepart |-> 8,
    MergeMySlaveDepart    |-> 9,  AbandonMastership   |-> 10,
    Info                  |-> 11, Invalid             |-> 12]

Types == DOMAIN RawType

\* What messageTypeFromRaw() knows, in the order of its switch.
KnownRawTypes ==
    <<"MasterSync", "WorkSync", "ControlNetGranularity", "ControlScatterClique",
      "MergeOther", "MergeMyMasterDepart", "MergeMySlaveDepart",
      "AbandonMastership", "Info">>

\* A table that starts at 0, as arrays do.
MessageTypeFromRawMutant(raw) ==
    IF raw \in 0 .. 8 THEN KnownRawTypes[raw + 1] ELSE "Invalid"

MessageTypeFromRaw(raw) ==
    IF raw \in 1 .. 9 THEN KnownRawTypes[raw] ELSE "Invalid"

\* SyncMessage::doesCarrySync()
SyncCarriers == {"MasterSync", "WorkSync", "ControlNetGranularity", "ControlScatterClique"}

-----------------------------------------------------------------------------
(* Messages and packets *)

\* memcpy() of a field: as many low order bytes as the packet has for it.
LowBytes(n, range) == n % range

\* serializeSyncMessageIntoRadioBuffer()
Serialize(m) ==
    [type     |-> RawType[m.type],
     masterID |-> LowBytes(m.masterID, MasterIDRange),
     offset   |-> LowBytes(m.offset, OffsetRange),
     work     |-> LowBytes(m.work, PayloadRange)]

\* unserialize(); one of type Invalid stands for the nullptr that is returned
\* for a type byte that is not known, whatever the other fields are.
Unserialize(p) ==
    [type     |-> MessageTypeFromRaw(p.type),
     masterID |-> p.masterID,
     offset   |-> p.offset,
     work     |-> p.work]

\* A 32 bit value or an ID of 64 bits cast to the payload's byte.
ToPayload(n) == LowBytes(n, PayloadRange)

-----------------------------------------------------------------------------
(* NetGranularity *)

Granularities == {"Small", "Medium", "Large", "Invalid"}

\* getRaw(): enum class NetGranularity
GetRaw == [Small |-> 0, Medium |-> 1, Large |-> 2, Invalid |-> 3]

\* getFromRaw()
GetFromRaw(raw) ==
    IF raw \in 0 .. 2 THEN <<"Large", "Medium", "Small">>[raw + 1] ELSE "Invalid"

\* xmitPowerForGranularity(), in dBm
XmitPowerForGranularity == [Small |-> -40, Medium |-> -12, Large |-> 0, Invalid |-> -40]

=============================================================================
