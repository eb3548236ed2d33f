--------------------------- MODULE ScheduleProofs ---------------------------
(***************************************************************************)
(* Proofs about the times of a sync period, for every duration of slots,   *)
(* number of slots, latency and set of offsets that ScheduleAssumption     *)
(* admits.                                                                 *)
(***************************************************************************)
EXTENDS Schedule, TLAPS

USE DEF NoDelta, Steps, Listening, Sending, Idle

\* The durations of scheduleParameters.h are ordered as the schedule needs it.
LEMMA Durations ==
    /\ SlotDuration \in Nat /\ HalfSlot \in Nat /\ SendLatency \in Nat
    /\ GuessedSendLatency \in Nat /\ Period \in Nat /\ Period > 0
    /\ EarliestMergeTime \in Nat /\ EarliestMergeTime >= 2 * SlotDuration + PreflightDelta
    /\ PreflightDelta \in Nat /\ PreflightDelta >= SendLatency
    /\ DeltaSyncPointToSyncSlotMiddle \in Nat /\ DeltaSyncSlotStartToSyncSlotXmit \in Nat
    /\ EarliestMergeTime + SendLatency < Period
  <1> USE ScheduleAssumption
  <1>1. SlotDuration \in Nat /\ CountSlots \in Nat
    OBVIOUS
  <1>2. HalfSlot \in Nat
    BY <1>1 DEF HalfSlot
  <1>3. SendLatency \in Nat /\ GuessedSendLatency \in Nat
    BY <1>2
  <1>4. PreflightDelta \in Nat /\ PreflightDelta >= SendLatency
    BY <1>1, <1>3 DEF PreflightDelta, HFXOStartup
  <1>5. /\ EarliestMergeTime \in Nat
        /\ EarliestMergeTime >= 2 * SlotDuration + PreflightDelta
    BY <1>1, <1>4 DEF EarliestMergeTime
  <1>6. Period \in Nat
    BY <1>1 DEF Period
  <1>7. EarliestMergeTime + SendLatency < Period
    OBVIOUS
  <1>8. /\ DeltaSyncPointToSyncSlotMiddle \in Nat
        /\ DeltaSyncSlotStartToSyncSlotXmit \in Nat
    BY <1>1, <1>2, <1>3
    DEF DeltaSyncPointToSyncSlotMiddle, DeltaSyncSlotStartToSyncSlotXmit, HFXOStartup
  <1> QED BY <1>1, <1>2, <1>3, <1>4, <1>5, <1>6, <1>7, <1>8

\* adjustedRawTimeToMergeClique(): whatever the time in the period, the merge
\* slot is after the sync slot and its sync is sent before the sync point.
LEMMA MergeTimeInPeriod ==
    ASSUME NEW raw \in Int
    PROVE  LET t == AdjustedRawTimeToMergeClique(raw % Period)
           IN  t \in Nat /\ 2 * SlotDuration =< t /\ t + SendLatency < Period
  <1>1. raw % Period \in 0 .. Period - 1
    BY Durations
  <1> QED BY <1>1, Durations DEF AdjustedRawTimeToMergeClique

\* The same for both kinds of merger.
LEMMA MergeTimes ==
    ASSUME endTime \in Nat, NEW toa \in Nat,
           NEW t \in {PeriodTimeToMergeMyClique(toa), PeriodTimeToMergeOtherClique(toa)}
    PROVE  t \in Nat /\ 2 * SlotDuration =< t /\ t + SendLatency < Period
  <1>1. CASE t = PeriodTimeToMergeMyClique(toa)
    <2> DEFINE raw == ClampedDifference(endTime + DeltaSyncPointToSyncSlotMiddle,
                          TimeOfTransmittal(toa) - DeltaSyncPointToSyncSlotMiddle)
    <2>1. raw \in Int
      BY Durations DEF ClampedDifference, Later, TimeOfTransmittal
    <2> HIDE DEF raw
    <2>2. t = AdjustedRawTimeToMergeClique(raw % Period)
      BY <1>1 DEF raw, PeriodTimeToMergeMyClique
    <2> QED BY <2>1, <2>2, MergeTimeInPeriod
  <1>2. CASE t = PeriodTimeToMergeOtherClique(toa)
    <2> DEFINE raw == ClampedDifference(TimeOfTransmittal(toa) + Period, endTime)
    <2>1. raw \in Int
      BY Durations DEF ClampedDifference, Later, TimeOfTransmittal
    <2> HIDE DEF raw
    <2>2. t = AdjustedRawTimeToMergeClique(raw % Period)
      BY <1>2 DEF raw, PeriodTimeToMergeOtherClique
    <2> QED BY <2>1, <2>2, MergeTimeInPeriod
  <1> QED BY <1>1, <1>2

\* adjustBySyncMsg() never ends a period before its normal end, if it did not
\* end before already.
LEMMA SyncNeverShortens ==
    ASSUME endTime \in Nat, NEW toa \in Nat, NEW delta \in SyncOffsets,
           AdjustBySyncMsg(toa, delta)
    PROVE  endTime' \in Nat /\ (endTime >= Period => endTime' >= Period)
  <1>1. delta \in Nat
    BY ScheduleAssumption, Durations
  <1> QED BY <1>1, Durations DEF AdjustBySyncMsg, AdjustedSyncPeriodEndTimeFromMsg

\* A session of slots lasts a time.
LEMMA SlotTimes ==
    ASSUME NEW slots \in SessionSlots, NEW ordinal \in 2 .. CountSlots - slots + 1
    PROVE  (ordinal - 1) * SlotDuration \in Nat /\ slots * SlotDuration \in Nat
  <1>1. SlotDuration \in Nat /\ ordinal - 1 \in Nat /\ slots \in Nat
    BY ScheduleAssumption
  <1>2. \A m, n \in Nat : m * n \in Nat
    OBVIOUS
  <1> QED BY <1>1, <1>2

\* Every kind of fish slot that is scheduled has a start and a duration, and the
\* crystal is left on for it or not.
LEMMA FishSessionScheduled ==
    ASSUME TypeOK, ScheduleTrolling \/ ScheduleDeepFishing
    PROVE  /\ \E start, duration \in Nat : MemoTimeOfFishSession(start, duration)
           /\ \E isNear \in BOOLEAN : Fishing(isNear)
           /\ trollsNearEnd' \in BOOLEAN
           /\ ~ isMerger
  <1>1. CASE ScheduleTrolling
    <2>1. PICK slots \in SessionSlots : \E ordinal \in 2 .. CountSlots - slots + 1 :
            /\ MemoTimeOfFishSession((ordinal - 1) * SlotDuration, slots * SlotDuration)
            /\ trollsNearEnd' = IsFishSessionNearEndSyncPeriod(ordinal + slots - 1)
            /\ Fishing(ordinal \in {2, 3})
      BY <1>1 DEF ScheduleTrolling
    <2>2. PICK ordinal \in 2 .. CountSlots - slots + 1 :
            /\ MemoTimeOfFishSession((ordinal - 1) * SlotDuration, slots * SlotDuration)
            /\ trollsNearEnd' = IsFishSessionNearEndSyncPeriod(ordinal + slots - 1)
            /\ Fishing(ordinal \in {2, 3})
      BY <2>1
    <2>3. \E start, duration \in Nat : MemoTimeOfFishSession(start, duration)
      BY <2>2, SlotTimes, Zenon
    <2>4. /\ (ordinal \in {2, 3}) \in BOOLEAN
          /\ IsFishSessionNearEndSyncPeriod(ordinal + slots - 1) \in BOOLEAN
      BY DEF IsFishSessionNearEndSyncPeriod
    <2>5. trollsNearEnd' \in BOOLEAN /\ \E isNear \in BOOLEAN : Fishing(isNear)
      BY <2>2, <2>4, Zenon
    <2>6. ~ isMerger
      BY <1>1, Zenon DEF ScheduleTrolling
    <2> QED BY <2>3, <2>5, <2>6, Zenon
  <1>2. CASE ScheduleDeepFishing
    <2>1. deepDelta \in Nat /\ SlotDuration \in Nat
      BY <1>2, Durations DEF TypeOK, ScheduleDeepFishing
    <2>2. (deepDelta < ThreeSlotDuration) \in BOOLEAN
      OBVIOUS
    <2> QED BY <1>2, <2>1, <2>2, Zenon DEF ScheduleDeepFishing
  <1> QED BY <1>1, <1>2

-----------------------------------------------------------------------------

\* A unit waits for a merge slot in the role of merger only: without this the
\* next one could be scheduled at a time that was never computed.
MergerWaits == step = "mergeWait" => isMerger

\* For a merger, the time to merge is between the sync slot and the normal end.
MergeSlotInPeriod ==
    isMerger => 2 * SlotDuration =< mergeTime /\ mergeTime + SendLatency < Period

\* A timer for a prelude is set only when there is a slot of time for it.
PreludeInTime ==
    /\ step = "preludeWSync" => now + SlotDuration =< endTime
    /\ step = "preludeWFish" => now + SlotDuration =< fishStart

Inv == TypeOK /\ MergerWaits /\ MergeSlotInPeriod /\ PreludeInTime

\* The end of a sync slot schedules a fish slot, a merge slot or nothing.
LEMMA EndSyncSlotInv ==
    Inv /\ EndSyncSlot => Inv'
  <1> SUFFICES ASSUME Inv, EndSyncSlot PROVE Inv'
    OBVIOUS
  <1> USE DEF Inv, TypeOK, EndSyncSlot
  <1>1. now' \in Nat /\ endTime' \in Nat
    BY Durations DEF Later, AdjustByCliqueHistoryOffset
  <1>2. /\ deepDelta' \in Nat \cup {NoDelta} /\ isMerger' \in BOOLEAN /\ mergeTime' \in Nat
        /\ sentOffset' \in Nat /\ startedLate' \in Nat
        /\ MergeSlotInPeriod'
    BY DEF MergeSlotInPeriod
  <1>3. CASE ScheduleTrolling \/ ScheduleDeepFishing
    <2>1. PICK start \in Nat, duration \in Nat : MemoTimeOfFishSession(start, duration)
      BY <1>3, FishSessionScheduled
    <2>2. fishStart' \in Nat /\ fishDuration' \in Nat
      BY <1>1, <2>1 DEF MemoTimeOfFishSession, ClampTimeBeforeLatestSlotMark, Earlier
    <2>3. /\ step' \in {"fishWait", "preludeWFish", "lost"}
          /\ step' = "preludeWFish" => now' + SlotDuration =< fishStart'
      BY <1>3, FishSessionScheduled DEF Fishing, PreludeTil
    <2>4. trollsNearEnd' \in BOOLEAN
      BY <1>3, FishSessionScheduled
    <2> QED BY <1>1, <1>2, <2>2, <2>3, <2>4 DEF MergerWaits, PreludeInTime
  <1>4. CASE ScheduleMerge
    BY <1>1, <1>2, <1>4 DEF ScheduleMerge, MergerWaits, PreludeInTime
  <1>5. CASE OmitNonsyncSlot
    BY <1>1, <1>2, <1>5 DEF OmitNonsyncSlot, PreludeTil, MergerWaits, PreludeInTime
  <1> QED BY <1>3, <1>4, <1>5

\* What happens in the sync slot
LEMMA InSyncSlotInv ==
    Inv /\ InSyncSlot => Inv'
  <1> SUFFICES ASSUME Inv, InSyncSlot PROVE Inv'
    OBVIOUS
  <1> USE DEF Inv, TypeOK, MergerWaits, MergeSlotInPeriod, PreludeInTime
  <1>0. /\ 0 .. SlotDuration \subseteq Nat /\ Offsets \subseteq Nat
    BY ScheduleAssumption, Durations
  <1>1. ASSUME NEW toa \in 0 .. SlotDuration, NEW delta \in SyncOffsets, HearSync(toa, delta)
        PROVE  Inv'
    <2>1. endTime' \in Nat
      BY <1>0, <1>1, SyncNeverShortens DEF HearSync
    <2> QED BY <1>0, <1>1, <2>1 DEF HearSync
  <1>2. ASSUME NEW toa \in 0 .. SlotDuration, NEW delta \in Offsets, HearMerge(toa, delta)
        PROVE  Inv'
    <2>1. toa \in Nat /\ delta \in Nat
      BY <1>0
    <2> QED BY <2>1, <1>2 DEF HearMerge
  <1>3. ASSUME NEW toa \in 0 .. SlotDuration, NEW random \in Offsets, HearScatter(toa, random)
        PROVE  Inv'
    <2>1. toa \in Nat /\ random \in Nat
      BY <1>0
    <2> QED BY <2>1, <1>3, Durations DEF HearScatter, AdjustWithRandomAddedTime
  <1>4. ASSUME NEW random \in Offsets, EnactScatter(random)
        PROVE  Inv'
    <2>1. random \in Nat
      BY <1>0
    <2> QED BY <2>1, <1>4, Durations DEF EnactScatter, AdjustWithRandomAddedTime
  <1>5. CASE SendSync
    <2>1. now' \in Nat /\ sentOffset' \in Nat
      BY <1>5, Durations DEF SendSync, Later, ClampedDifference
    <2> QED BY <2>1, <1>5 DEF SendSync
  <1> QED BY <1>1, <1>2, <1>3, <1>4, <1>5, EndSyncSlotInv DEF InSyncSlot

\* What happens in the fish slot
LEMMA InFishSlotInv ==
    Inv /\ InFishSlot => Inv'
  <1> SUFFICES ASSUME Inv, InFishSlot PROVE Inv'
    OBVIOUS
  <1>0. /\ now \in Nat /\ endTime \in Nat /\ fishStart \in Nat /\ fishDuration \in Nat
        /\ now .. fishStart + fishDuration \subseteq Nat
    BY DEF Inv, TypeOK
  <1> USE DEF Inv, TypeOK, MergerWaits, MergeSlotInPeriod, PreludeInTime
  <1>1. CASE FishSlotStart
    BY <1>0, <1>1 DEF FishSlotStart, Later
  <1>2. ASSUME NEW toa \in now .. fishStart + fishDuration, MergeOtherClique(toa)
        PROVE  Inv'
    <2>1. toa \in Nat
      BY <1>0
    <2>2. mergeTime' \in Nat /\ 2 * SlotDuration =< mergeTime' /\ mergeTime' + SendLatency < Period
      BY <1>0, <1>2, <2>1, MergeTimes DEF MergeOtherClique
    <2> QED BY <1>2, <2>1, <2>2, Durations DEF MergeOtherClique
  <1>3. ASSUME NEW toa \in now .. fishStart + fishDuration, NEW delta \in SyncOffsets,
               MergeMyClique(toa, delta)
        PROVE  Inv'
    <2>1. toa \in Nat
      BY <1>0
    <2>2. mergeTime' \in Nat /\ 2 * SlotDuration =< mergeTime' /\ mergeTime' + SendLatency < Period
      BY <1>0, <1>3, <2>1, MergeTimes DEF MergeMyClique
    <2>3. endTime' \in Nat
      BY <1>0, <1>3, <2>1, SyncNeverShortens DEF MergeMyClique
    <2> QED BY <1>3, <2>1, <2>2, <2>3 DEF MergeMyClique
  <1>4. ASSUME NEW toa \in now .. fishStart + fishDuration, NEW delta \in SyncOffsets,
               JoinFishedClique(toa, delta)
        PROVE  Inv'
    <2>1. toa \in Nat
      BY <1>0
    <2>2. endTime' \in Nat
      BY <1>0, <1>4, <2>1, SyncNeverShortens DEF JoinFishedClique
    <2> QED BY <1>4, <2>1, <2>2 DEF JoinFishedClique
  <1>5. CASE FishSlotEnd
    BY <1>0, <1>5 DEF FishSlotEnd, SyncSlotAfter, PreludeTil
  <1> QED BY <1>1, <1>2, <1>3, <1>4, <1>5 DEF InFishSlot

\* The start of a period: a merger stays one or ends to be one.
LEMMA StartPeriodInv ==
    Inv /\ StartPeriod => Inv'
  <1> SUFFICES ASSUME Inv, StartPeriod PROVE Inv'
    OBVIOUS
  <1>1. now' \in Nat /\ startedLate' \in Nat /\ endTime' = Period
    <2>1. RollPeriodForward
      BY Zenon DEF StartPeriod, StartSyncSlot, StartSyncPeriodMaintain
    <2> QED BY <2>1, Durations DEF Inv, TypeOK, RollPeriodForward, ClampedDifference, Later
  <1>2. /\ sentOffset' = 0 /\ fishStart' = 0 /\ fishDuration' = 0
        /\ UNCHANGED <<deepDelta, mergeTime>>
    BY Zenon DEF StartPeriod, StartSyncSlot, StartSyncPeriodMaintain, RollPeriodForward
  <1>3. trollsNearEnd' \in BOOLEAN
    BY Zenon DEF StartPeriod, StartSyncSlot, StartSyncPeriodMaintain, RollPeriodForward
  <1>4. isMerger' \in BOOLEAN /\ (isMerger' => isMerger)
    <2>1. isMerger \in BOOLEAN
      BY Zenon DEF Inv, TypeOK
    <2>2. isMerger' = isMerger \/ isMerger' = FALSE
      BY Zenon DEF StartPeriod, StartSyncSlot, StartSyncPeriodMaintain
    <2>3. CASE isMerger' = isMerger
      BY <2>1, <2>3
    <2>4. CASE isMerger' = FALSE
      BY <2>4
    <2> QED BY <2>2, <2>3, <2>4
  <1>5. /\ step' \in {"listen", "maintain", "preludeWSync", "lost"} \cup Sending
        /\ step' = "preludeWSync" => now' + SlotDuration =< endTime'
    BY DEF StartPeriod, StartSyncSlot, StartSyncPeriodMaintain, PreludeTil
  <1> QED BY <1>1, <1>2, <1>3, <1>4, <1>5, Durations
          DEF Inv, TypeOK, MergerWaits, MergeSlotInPeriod, PreludeInTime

\* The invariant is inductive.
LEMMA InvInductive ==
    Inv /\ [Next]_vars => Inv'
  <1> SUFFICES ASSUME Inv, [Next]_vars PROVE Inv'
    OBVIOUS
  <1>1. CASE MergerStartAndEnd
    <2>1. now' \in Nat
      BY <1>1, Durations DEF Inv, TypeOK, MergerStartAndEnd, Later
    <2>2. isMerger' \in BOOLEAN /\ isMerger
      BY <1>1, Zenon DEF MergerStartAndEnd, Inv, MergerWaits
    <2> QED BY <1>1, <2>1, <2>2
            DEF Inv, TypeOK, MergerStartAndEnd, SyncSlotAfter, PreludeTil, MergerWaits,
                MergeSlotInPeriod, PreludeInTime
  <1>2. CASE RadioPreludeWSync
    <2>1. PICK t \in Nat : t = now'
      BY <1>2, Durations DEF RadioPreludeWSync, Inv, TypeOK, PreludeInTime
    <2> QED BY <1>2, <2>1
            DEF RadioPreludeWSync, Inv, TypeOK, MergerWaits, MergeSlotInPeriod, PreludeInTime
  <1>3. CASE RadioPreludeWFish
    <2>1. PICK t \in Nat : t = now'
      BY <1>3, Durations DEF RadioPreludeWFish, Inv, TypeOK, PreludeInTime
    <2> QED BY <1>3, <2>1
            DEF RadioPreludeWFish, Inv, TypeOK, MergerWaits, MergeSlotInPeriod, PreludeInTime
  <1>4. CASE UNCHANGED vars
    BY <1>4 DEF vars, Inv, TypeOK, MergerWaits, MergeSlotInPeriod, PreludeInTime
  <1> QED BY <1>1, <1>2, <1>3, <1>4, StartPeriodInv, InSyncSlotInv, InFishSlotInv DEF Next

\* Initial states
LEMMA InitInv == Init => Inv
  <1> SUFFICES ASSUME Init PROVE Inv
    OBVIOUS
  <1>1. isMerger \in BOOLEAN /\ ~ isMerger /\ trollsNearEnd \in BOOLEAN
    BY Zenon DEF Init
  <1>2. /\ now = 0 /\ endTime = 0 /\ step = "maintain" /\ fishStart = 0 /\ fishDuration = 0
        /\ deepDelta = NoDelta /\ mergeTime = 0 /\ sentOffset = 0 /\ startedLate = 0
    BY DEF Init
  <1> QED BY <1>1, <1>2 DEF Inv, TypeOK, MergerWaits, MergeSlotInPeriod, PreludeInTime

\* Whatever is heard, fished, scattered or reverted to, and however the period
\* was extended: timeOfThisMergeStart() gives a time before the sync point, as it asserts,
\* except in the period that a reversion ends at once.
THEOREM ScheduleMergeSlot == Spec => []MergeSlotBeforeSyncPoint
  <1>1. Inv => MergeSlotBeforeSyncPoint
    BY Durations DEF Inv, TypeOK, MergerWaits, MergeSlotInPeriod, MergeSlotBeforeSyncPoint
  <1> QED BY <1>1, InitInv, InvInductive, PTL DEF Spec

\* All times of a period keep their types: no difference of times is negative,
\* because no timer for a prelude is set unless there is time for it.
THEOREM ScheduleTypeOK == Spec => []TypeOK
  <1>1. Inv => TypeOK
    BY DEF Inv
  <1> QED BY <1>1, InitInv, InvInductive, PTL DEF Spec

\* No step but the reversion of a slave that heard nothing moves the end of a
\* period before its normal end: rollPeriodForward(), adjustBySyncMsg() and
\* adjustWithRandomAddedTime() only extend it.
THEOREM ScheduleOnlySilenceShortens == Spec => OnlySilenceShortens
  <1> DEFINE Step == endTime >= Period /\ endTime' < Period => step = "listen"
  <1>1. Inv /\ [Next]_vars => [Step]_vars
    <2> SUFFICES ASSUME Inv, Next, endTime >= Period, endTime' < Period
                 PROVE  step = "listen"
      OBVIOUS
    <2>0. /\ endTime \in Nat /\ now \in Nat /\ 0 .. SlotDuration \subseteq Nat
          /\ now .. fishStart + fishDuration \subseteq Nat /\ Offsets \subseteq Nat
      BY ScheduleAssumption, Durations DEF Inv, TypeOK
    <2>1. CASE StartPeriod
      <3>1. endTime' = Period
        BY <2>1, Zenon
        DEF StartPeriod, StartSyncSlot, StartSyncPeriodMaintain, RollPeriodForward
      <3> QED BY <3>1, Durations
    <2>2. CASE InSyncSlot
      <3>1. ASSUME NEW toa \in 0 .. SlotDuration, NEW delta \in SyncOffsets,
                   HearSync(toa, delta)
            PROVE  FALSE
        <4>1. endTime' \in Nat /\ endTime' >= Period
          BY <2>0, <3>1, SyncNeverShortens DEF HearSync
        <4> QED BY <4>1, Durations
      <3>2. ASSUME NEW random \in Offsets, AdjustWithRandomAddedTime(random)
            PROVE  FALSE
        <4>1. random \in Nat
          BY <2>0
        <4> QED BY <3>2, <4>1, Durations DEF AdjustWithRandomAddedTime
      <3>3. CASE endTime' = endTime
        BY <2>0, <3>3, Durations
      <3>4. CASE EndSyncSlot
        BY <3>3, <3>4 DEF EndSyncSlot
      <3> QED BY <2>2, <3>1, <3>2, <3>3, <3>4
              DEF InSyncSlot, HearMerge, HearScatter, EnactScatter, SendSync
    <2>3. CASE InFishSlot
      <3>1. ASSUME NEW toa \in now .. fishStart + fishDuration, NEW delta \in SyncOffsets,
                   AdjustBySyncMsg(toa, delta)
            PROVE  FALSE
        <4>1. endTime' \in Nat /\ endTime' >= Period
          BY <2>0, <3>1, SyncNeverShortens
        <4> QED BY <4>1, Durations
      <3>2. CASE endTime' = endTime
        BY <2>0, <3>2, Durations
      <3> QED BY <2>3, <3>1, <3>2
              DEF InFishSlot, FishSlotStart, MergeOtherClique, MergeMyClique,
                  JoinFishedClique, FishSlotEnd
    <2>4. CASE MergerStartAndEnd \/ RadioPreludeWSync \/ RadioPreludeWFish
      BY <2>0, <2>4, Durations DEF MergerStartAndEnd, RadioPreludeWSync, RadioPreludeWFish
    <2> QED BY <2>1, <2>2, <2>3, <2>4 DEF Next
  <1> QED BY <1>1, InitInv, InvInductive, PTL DEF Spec, OnlySilenceShortens

-----------------------------------------------------------------------------
(* How late a period starts and whether there is time for a prelude *)

\* In the sync slot, and at its end
SyncSlotTimes ==
    /\ step \in Listening \cup Sending => now =< Later(startedLate, SlotDuration)
    /\ step \in {"heard", "sent"} => now =< Later(startedLate, SlotDuration) + SendLatency
    /\ step \in Listening \cup Sending \cup {"heard", "sent"} => Period =< endTime

\* The sync slot ended before the sync point, however late it started and
\* whatever it did to the end of the period; when there is no prelude before the next
\* slot, it ended in the slot after it.
WaitTimes ==
    /\ step \in {"fishWait", "preludeWFish", "mergeWait"} =>
         SlotDuration =< now /\ now =< endTime
    /\ startedLate =< SlotDuration /\ step \in {"fishWait", "mergeWait"} =>
         now =< SlotDuration + SendLatency \/ (step = "fishWait" /\ now =< fishStart)

\* A fish slot starts before the sync point, also before the one it may move to.
\* It lasts one slot, in deep fishing, or ends about the normal end of the period
\* if that did not start late; and when it does not end near it, a slot before.
FishTimes ==
    /\ step \in {"fishWait", "preludeWFish", "fishing", "caught", "joined"} =>
         /\ fishStart =< endTime /\ fishDuration =< Period - SlotDuration
         /\ startedLate =< SlotDuration =>
              fishDuration = SlotDuration \/ fishStart + fishDuration =< Period + SendLatency
    /\ step \in {"fishing", "caught", "joined"} => fishStart =< now
    /\ step = "caught" => deepDelta = NoDelta
    /\ step \in {"fishWait", "preludeWFish", "fishing", "caught"}
         /\ deepDelta = NoDelta /\ ~ trollsNearEnd =>
         /\ fishDuration =< Period - 3 * SlotDuration
         /\ startedLate =< SlotDuration =>
              fishStart + fishDuration =< Period - 2 * SlotDuration + SendLatency

\* The prelude before a sync slot ends at the sync point.
PreludeTimes ==
    /\ step = "afterPrelude" => now + SlotDuration = endTime
    /\ step = "maintain" => now =< endTime

\* Lateness never grows to a period: when rollPeriodForward() runs, at least the
\* last slot of the new period is still to come.
LatenessBounded ==
    /\ startedLate =< Period - SlotDuration
    /\ step \in Idle \cup {"maintain"} => now =< endTime + (Period - SlotDuration)

TimesInv ==
    SyncSlotTimes /\ WaitTimes /\ FishTimes /\ PreludeTimes /\ LatenessBounded
    /\ AtMostASlotLate

\* A period is more than three slots and two latencies.
LEMMA PeriodIsLong ==
    /\ SlotDuration \in Nat /\ SendLatency \in Nat /\ Period \in Nat
    /\ SendLatency =< SlotDuration /\ 3 * SlotDuration + 2 * SendLatency < Period
    /\ DeltaSyncSlotStartToSyncSlotXmit \in Nat
    /\ DeltaSyncSlotStartToSyncSlotXmit =< SlotDuration
  <1>1. HalfSlot \in Nat /\ HalfSlot =< SlotDuration /\ SendLatency =< HalfSlot
    BY ScheduleAssumption DEF HalfSlot
  <1>2. EarliestMergeTime = 3 * SlotDuration + SendLatency
    BY Durations DEF EarliestMergeTime, PreflightDelta, HFXOStartup
  <1> QED BY <1>1, <1>2, Durations DEF DeltaSyncSlotStartToSyncSlotXmit

\* A trolling session leaves out the sync slot and ends with the period; if it is
\* not near the end, two slots before.
LEMMA SessionInPeriod ==
    ASSUME NEW slots \in SessionSlots, NEW ordinal \in 2 .. CountSlots - slots + 1
    PROVE  LET start == (ordinal - 1) * SlotDuration
               duration == slots * SlotDuration
           IN  /\ duration =< Period - SlotDuration
               /\ start + duration =< Period
               /\ ordinal \notin {2, 3} => 3 * SlotDuration =< start
               /\ ~ IsFishSessionNearEndSyncPeriod(ordinal + slots - 1) =>
                    /\ start + duration =< Period - 2 * SlotDuration
                    /\ duration =< Period - 3 * SlotDuration
  <1>1. /\ SlotDuration \in Nat /\ CountSlots \in Nat /\ slots \in Nat /\ ordinal \in Nat
        /\ slots =< CountSlots - 1 /\ ordinal - 1 + slots =< CountSlots
    BY ScheduleAssumption
  <1>2. \A m, n \in Int : m =< n => m * SlotDuration =< n * SlotDuration
    BY <1>1, SMT
  <1>3. slots * SlotDuration =< (CountSlots - 1) * SlotDuration
    BY <1>1, <1>2
  <1>4. (ordinal - 1 + slots) * SlotDuration =< CountSlots * SlotDuration
    BY <1>1, <1>2
  <1>5. /\ (CountSlots - 1) * SlotDuration = CountSlots * SlotDuration - SlotDuration
        /\ (CountSlots - 2) * SlotDuration = CountSlots * SlotDuration - 2 * SlotDuration
        /\ (CountSlots - 3) * SlotDuration = CountSlots * SlotDuration - 3 * SlotDuration
    BY <1>1
  <1>6. (ordinal - 1 + slots) * SlotDuration
          = (ordinal - 1) * SlotDuration + slots * SlotDuration
    BY <1>1
  <1>7. ASSUME ordinal \notin {2, 3}
        PROVE  3 * SlotDuration =< (ordinal - 1) * SlotDuration
    BY <1>1, <1>2, <1>7
  <1>8. ASSUME ~ IsFishSessionNearEndSyncPeriod(ordinal + slots - 1)
        PROVE  /\ (ordinal - 1 + slots) * SlotDuration =< (CountSlots - 2) * SlotDuration
               /\ slots * SlotDuration =< (CountSlots - 3) * SlotDuration
    <2>1. ordinal - 1 + slots =< CountSlots - 2 /\ slots =< CountSlots - 3
      BY <1>1, <1>8 DEF IsFishSessionNearEndSyncPeriod
    <2> QED BY <1>1, <1>2, <2>1
  <1> QED BY <1>3, <1>4, <1>5, <1>6, <1>7, <1>8 DEF Period

\* adjustBySyncMsg() does not move the sync point before the message.
LEMMA SyncPointAfterMsg ==
    ASSUME endTime \in Nat, NEW toa \in Nat, NEW delta \in SyncOffsets,
           AdjustBySyncMsg(toa, delta)
    PROVE  /\ endTime' \in Nat /\ toa =< endTime'
           /\ endTime >= Period => endTime' >= Period
  <1>1. delta \in Nat /\ delta =< Period
    BY ScheduleAssumption, Durations
  <1> QED BY <1>1, Durations DEF AdjustBySyncMsg, AdjustedSyncPeriodEndTimeFromMsg

\* What the end of a sync slot schedules: a fish slot without a prelude only in
\* the first slots, and after a slot that did not start late there is time for one,
\* unless a reversion ends the period at once.
LEMMA FishSlotScheduled ==
    ASSUME Inv, ScheduleTrolling \/ ScheduleDeepFishing,
           NEW end \in Nat, endTime' = end, NEW time \in Nat, now' = time,
           SlotDuration =< time, time =< end, UNCHANGED <<deepDelta, startedLate>>,
           startedLate =< SlotDuration => time =< SlotDuration + SendLatency
    PROVE  /\ step' \in {"fishWait", "preludeWFish", "lost"}
           /\ FishTimes'
           /\ step' = "lost" => startedLate > SlotDuration \/ end < Period
  <1>0. time + SlotDuration \in Nat
    BY PeriodIsLong
  <1>1. PICK start \in Nat, duration \in Nat :
          /\ MemoTimeOfFishSession(start, duration)
          /\ \/ step' = "fishWait"
             \/ 3 * SlotDuration =< start /\ PreludeTil(fishStart', "preludeWFish")
          /\ duration =< Period - SlotDuration
          /\ duration = SlotDuration \/ start + duration =< Period
          /\ deepDelta = NoDelta /\ ~ trollsNearEnd' =>
               /\ start + duration =< Period - 2 * SlotDuration
               /\ duration =< Period - 3 * SlotDuration
    <2>1. CASE ScheduleTrolling
      <3>1. PICK slots \in SessionSlots : \E ordinal \in 2 .. CountSlots - slots + 1 :
              /\ MemoTimeOfFishSession((ordinal - 1) * SlotDuration, slots * SlotDuration)
              /\ trollsNearEnd' = IsFishSessionNearEndSyncPeriod(ordinal + slots - 1)
              /\ Fishing(ordinal \in {2, 3})
        BY <2>1 DEF ScheduleTrolling
      <3>2. PICK ordinal \in 2 .. CountSlots - slots + 1 :
              /\ MemoTimeOfFishSession((ordinal - 1) * SlotDuration, slots * SlotDuration)
              /\ trollsNearEnd' = IsFishSessionNearEndSyncPeriod(ordinal + slots - 1)
              /\ Fishing(ordinal \in {2, 3})
        BY <3>1
      <3> DEFINE start == (ordinal - 1) * SlotDuration
                 duration == slots * SlotDuration
                 isNear == ordinal \in {2, 3}
      <3>3. start \in Nat /\ duration \in Nat /\ isNear \in BOOLEAN
        BY SlotTimes
      <3>4. /\ duration =< Period - SlotDuration
            /\ start + duration =< Period
            /\ ~ isNear => 3 * SlotDuration =< start
            /\ ~ IsFishSessionNearEndSyncPeriod(ordinal + slots - 1) =>
                 /\ start + duration =< Period - 2 * SlotDuration
                 /\ duration =< Period - 3 * SlotDuration
        BY SessionInPeriod
      <3>5. \/ step' = "fishWait"
            \/ ~ isNear /\ PreludeTil(fishStart', "preludeWFish")
        BY <3>2, Zenon DEF Fishing
      <3> HIDE DEF start, duration, isNear
      <3> QED BY <3>2, <3>3, <3>4, <3>5, Zenon DEF start, duration
    <2>2. CASE ScheduleDeepFishing
      <3>1. /\ deepDelta \in Nat /\ deepDelta # NoDelta
            /\ SlotDuration \in Nat /\ SlotDuration =< Period - SlotDuration
        BY <2>2, PeriodIsLong DEF ScheduleDeepFishing, Inv, TypeOK
      <3>2. MemoTimeOfFishSession(deepDelta, SlotDuration) /\ Fishing(deepDelta < ThreeSlotDuration)
        BY <2>2 DEF ScheduleDeepFishing
      <3> DEFINE isNear == deepDelta < ThreeSlotDuration
      <3>3. ~ isNear => 3 * SlotDuration =< deepDelta
        BY <3>1 DEF ThreeSlotDuration
      <3>4. \/ step' = "fishWait"
            \/ ~ isNear /\ PreludeTil(fishStart', "preludeWFish")
        BY <3>2, Zenon DEF Fishing
      <3> HIDE DEF isNear
      <3> QED BY <3>1, <3>2, <3>3, <3>4, Zenon
    <2> QED BY <2>1, <2>2
  <1> DEFINE s == Earlier(start, end)
  <1>2. s \in Nat /\ s =< start /\ s =< end /\ (s = start \/ s = end)
    BY DEF Earlier
  <1>3. fishStart' = s /\ fishDuration' = duration
    BY <1>1 DEF MemoTimeOfFishSession, ClampTimeBeforeLatestSlotMark
  <1> HIDE DEF s
  <1>4. /\ step' \in {"fishWait", "preludeWFish", "lost"}
        /\ step' = "lost" => 3 * SlotDuration =< start /\ time + SlotDuration > s
    <2>1. s \in Nat /\ time + SlotDuration \in Nat
      BY <1>0, <1>2
    <2> QED BY <1>1, <1>2, <1>3, <2>1 DEF PreludeTil
  <1>5. startedLate =< SlotDuration /\ end >= Period => time + SlotDuration =< 3 * SlotDuration
    BY PeriodIsLong
  <1>6. step' = "lost" => startedLate > SlotDuration \/ end < Period
    BY <1>1, <1>2, <1>4, <1>5, PeriodIsLong DEF Inv, TypeOK
  <1>7. FishTimes'
    <2>1. duration = SlotDuration \/ s + duration =< Period + SendLatency
      BY <1>1, <1>2, PeriodIsLong
    <2>2. deepDelta = NoDelta /\ ~ trollsNearEnd' =>
             /\ duration =< Period - 3 * SlotDuration
             /\ s + duration =< Period - 2 * SlotDuration + SendLatency
      BY <1>1, <1>2, PeriodIsLong
    <2> QED BY <1>1, <1>2, <1>3, <1>4, <2>1, <2>2 DEF FishTimes
  <1> QED BY <1>4, <1>6, <1>7

\* When the sync slot ends: after it, and before the sync point, even when the slot
\* started late or a slave that heard nothing moves the sync point to the next tick.
LEMMA SyncSlotEnds ==
    ASSUME Inv, TimesInv, EndSyncSlot
    PROVE  \E time \in Nat, end \in Nat :
             /\ now' = time /\ endTime' = end /\ SlotDuration =< time /\ time =< end
             /\ startedLate =< SlotDuration => time =< SlotDuration + SendLatency
             /\ UNCHANGED <<deepDelta, startedLate>>
  <1>1. /\ now \in Nat /\ endTime \in Nat /\ startedLate \in Nat
        /\ deepDelta \in Nat \cup {NoDelta}
        /\ now' = Later(now, SlotDuration)
        /\ deepDelta' = deepDelta /\ startedLate' = startedLate
    BY DEF Inv, TypeOK, EndSyncSlot
  <1>2. /\ startedLate =< Period - SlotDuration
        /\ now =< Later(startedLate, SlotDuration) + SendLatency
        /\ Period =< endTime
    <2>1. step \in Listening \cup {"heard", "sent"}
      BY DEF EndSyncSlot
    <2> QED BY <1>1, <2>1, PeriodIsLong
            DEF TimesInv, SyncSlotTimes, LatenessBounded, Later
  <1>3. PICK time \in Nat : now' = time
    BY <1>1, PeriodIsLong DEF Later
  <1>4. /\ SlotDuration =< time /\ time =< Period
        /\ startedLate =< SlotDuration => time =< SlotDuration + SendLatency
    BY <1>1, <1>2, <1>3, PeriodIsLong DEF Later
  <1>5. PICK end \in Nat : endTime' = end /\ time =< end
    <2>1. CASE endTime' = endTime
      BY <1>1, <1>2, <1>4, <2>1, PeriodIsLong
    <2>2. CASE AdjustByCliqueHistoryOffset(now')
      BY <1>3, <2>2 DEF AdjustByCliqueHistoryOffset
    <2> QED BY <2>1, <2>2 DEF EndSyncSlot
  <1> QED BY <1>1, <1>3, <1>4, <1>5

\* The end of a sync slot
LEMMA EndSyncSlotTimes ==
    Inv /\ TimesInv /\ EndSyncSlot => TimesInv'
  <1> SUFFICES ASSUME Inv, TimesInv, EndSyncSlot PROVE TimesInv'
    OBVIOUS
  <1>1. PICK time \in Nat, end \in Nat :
          /\ now' = time /\ endTime' = end /\ SlotDuration =< time /\ time =< end
          /\ startedLate =< SlotDuration => time =< SlotDuration + SendLatency
          /\ UNCHANGED <<deepDelta, startedLate>>
    BY SyncSlotEnds
  <1>2. startedLate \in Nat /\ startedLate =< Period - SlotDuration
    BY DEF Inv, TypeOK, TimesInv, LatenessBounded
  <1>3. CASE ScheduleTrolling \/ ScheduleDeepFishing
    <2>1. step' \in {"fishWait", "preludeWFish", "lost"} /\ FishTimes'
      BY <1>1, <1>3, FishSlotScheduled
    <2> QED BY <1>1, <1>2, <2>1
            DEF TimesInv, SyncSlotTimes, WaitTimes, PreludeTimes, LatenessBounded,
                AtMostASlotLate
  <1>4. CASE step' \in {"mergeWait", "preludeWSync", "lost"}
    <2>1. end \in Nat /\ time =< end + (Period - SlotDuration) /\ time =< end + SlotDuration
      BY <1>1, PeriodIsLong
    <2> QED BY <1>1, <1>2, <1>4, <2>1
            DEF TimesInv, SyncSlotTimes, WaitTimes, FishTimes, PreludeTimes,
                LatenessBounded, AtMostASlotLate
  <1> QED BY <1>3, <1>4 DEF EndSyncSlot, ScheduleMerge, OmitNonsyncSlot, PreludeTil

\* Within the sync slot, which neither a sync nor a scatter makes last longer
LEMMA InSyncSlotTimes ==
    Inv /\ TimesInv /\ InSyncSlot => TimesInv'
  <1> SUFFICES ASSUME Inv, TimesInv, InSyncSlot PROVE TimesInv'
    OBVIOUS
  <1> USE DEF TimesInv, WaitTimes, FishTimes, PreludeTimes, LatenessBounded,
              AtMostASlotLate
  <1>0. /\ now \in Nat /\ endTime \in Nat /\ startedLate \in Nat
        /\ deepDelta \in Nat \cup {NoDelta} /\ startedLate =< Period - SlotDuration
    BY DEF Inv, TypeOK
  <1>1. ASSUME NEW toa \in 0 .. SlotDuration, NEW delta \in SyncOffsets, HearSync(toa, delta)
        PROVE  TimesInv'
    <2>1. toa \in Nat /\ toa =< SlotDuration
      BY PeriodIsLong
    <2>2. Period =< endTime
      BY <1>1 DEF HearSync, SyncSlotTimes
    <2>3. PICK end \in Nat : end = endTime'
      BY <1>0, <1>1, <2>1, SyncPointAfterMsg DEF HearSync
    <2>4. Period =< end
      BY <1>0, <1>1, <2>1, <2>2, <2>3, SyncPointAfterMsg DEF HearSync
    <2>5. toa =< Later(startedLate, SlotDuration) + SendLatency
      BY <1>0, <2>1, PeriodIsLong DEF Later
    <2> QED BY <1>0, <1>1, <2>3, <2>4, <2>5 DEF HearSync, SyncSlotTimes
  <1>2. ASSUME NEW toa \in 0 .. SlotDuration, NEW delta \in Offsets, HearMerge(toa, delta)
        PROVE  TimesInv'
    <2>1. toa \in Nat /\ toa =< SlotDuration /\ delta \in Nat
      BY ScheduleAssumption, PeriodIsLong
    <2>2. toa =< Later(startedLate, SlotDuration)
      BY <1>0, <2>1, PeriodIsLong DEF Later
    <2> QED BY <1>0, <1>2, <2>2 DEF HearMerge, SyncSlotTimes
  <1>3. ASSUME NEW random \in Offsets, NEW time \in Nat,
               time =< Later(startedLate, SlotDuration),
               AdjustWithRandomAddedTime(random), now' = time,
               step' \in Listening \cup Sending,
               UNCHANGED <<deepDelta, startedLate>>
        PROVE  TimesInv'
    <2>1. random \in Nat
      BY ScheduleAssumption, PeriodIsLong
    <2>2. Period =< Period + random
      BY <2>1, PeriodIsLong
    <2> QED BY <1>0, <1>3, <2>2 DEF AdjustWithRandomAddedTime, SyncSlotTimes
  <1>4. ASSUME NEW toa \in 0 .. SlotDuration, NEW random \in Offsets, HearScatter(toa, random)
        PROVE  TimesInv'
    <2>1. toa \in Nat /\ toa =< Later(startedLate, SlotDuration)
      BY <1>0, PeriodIsLong DEF Later
    <2> QED BY <1>3, <1>4, <2>1 DEF HearScatter
  <1>5. ASSUME NEW random \in Offsets, EnactScatter(random)
        PROVE  TimesInv'
    <2>1. now =< Later(startedLate, SlotDuration)
      BY <1>5 DEF EnactScatter, SyncSlotTimes
    <2> QED BY <1>0, <1>3, <1>5, <2>1 DEF EnactScatter
  <1>6. CASE SendSync
    <2>1. now =< Later(startedLate, SlotDuration) /\ Period =< endTime
      BY <1>6 DEF SendSync, SyncSlotTimes
    <2> DEFINE start == Later(now, DeltaSyncSlotStartToSyncSlotXmit)
    <2>2. start + SendLatency =< Later(startedLate, SlotDuration) + SendLatency
      BY <1>0, <2>1, PeriodIsLong DEF Later
    <2>3. /\ now' = start + SendLatency /\ step' = "sent"
          /\ UNCHANGED <<endTime, deepDelta, startedLate>>
      BY <1>6 DEF SendSync
    <2> HIDE DEF start
    <2> QED BY <1>0, <2>1, <2>2, <2>3 DEF SyncSlotTimes
  <1> QED BY <1>1, <1>2, <1>4, <1>5, <1>6, EndSyncSlotTimes DEF InSyncSlot

\* A sync fished moves the sync point not before the fish slot.
LEMMA CatchTimes ==
    ASSUME Inv, TimesInv, step = "fishing",
           NEW toa \in now .. fishStart + fishDuration, now' = toa,
           UNCHANGED endTime \/ \E delta \in SyncOffsets : AdjustBySyncMsg(toa, delta),
           UNCHANGED <<fishStart, fishDuration, trollsNearEnd, startedLate>>,
           \/ step' = "caught" /\ deepDelta = NoDelta /\ UNCHANGED deepDelta
           \/ step' = "joined"
    PROVE  TimesInv'
  <1>1. /\ now \in Nat /\ endTime \in Nat /\ fishStart \in Nat /\ fishDuration \in Nat
        /\ startedLate \in Nat
    BY DEF Inv, TypeOK
  <1>2. toa \in Nat /\ now =< toa
    BY <1>1
  <1>3. fishStart =< now /\ fishStart =< endTime
    BY DEF TimesInv, FishTimes
  <1>4. fishStart =< toa
    BY <1>1, <1>2, <1>3
  <1>5. PICK end \in Nat : end = endTime' /\ fishStart =< end
    <2>1. CASE UNCHANGED endTime
      BY <1>1, <1>3, <2>1
    <2>2. ASSUME NEW delta \in SyncOffsets, AdjustBySyncMsg(toa, delta)
          PROVE  endTime' \in Nat /\ fishStart =< endTime'
      <3>1. PICK end \in Nat : end = endTime'
        BY <1>1, <1>2, <2>2, SyncPointAfterMsg
      <3>2. toa =< end
        BY <1>1, <1>2, <2>2, <3>1, SyncPointAfterMsg
      <3>3. fishStart =< end
        BY <1>1, <1>2, <1>4, <3>2
      <3> QED BY <3>1, <3>3
    <2> QED BY <2>1, <2>2
  <1>6. LatenessBounded'
    BY <1>1 DEF TimesInv, LatenessBounded
  <1>7. FishTimes'
    BY <1>1, <1>3, <1>4, <1>5 DEF TimesInv, FishTimes
  <1> QED BY <1>6, <1>7
          DEF TimesInv, SyncSlotTimes, WaitTimes, PreludeTimes, AtMostASlotLate

\* The fish slot ends at most the last slot of a period late, or a slot.
LEMMA FishSlotEndTimes ==
    Inv /\ TimesInv /\ FishSlotEnd => TimesInv'
  <1> SUFFICES ASSUME Inv, TimesInv, FishSlotEnd PROVE TimesInv'
    OBVIOUS
  <1>0. /\ endTime \in Nat /\ fishStart \in Nat /\ fishDuration \in Nat
        /\ startedLate \in Nat /\ startedLate =< Period - SlotDuration
    BY DEF Inv, TypeOK, TimesInv, LatenessBounded
  <1>1. /\ fishStart =< endTime /\ fishDuration =< Period - SlotDuration
        /\ startedLate =< SlotDuration =>
             fishDuration = SlotDuration \/ fishStart + fishDuration =< Period + SendLatency
    BY DEF FishSlotEnd, TimesInv, FishTimes
  <1>2. /\ fishStart + fishDuration =< endTime + (Period - SlotDuration)
        /\ startedLate =< SlotDuration /\ endTime >= Period
             => fishStart + fishDuration =< endTime + SlotDuration
    BY <1>0, <1>1, PeriodIsLong
  <1>3. /\ now' = fishStart + fishDuration
        /\ step' \in {"withoutPrelude", "preludeWSync", "lost"}
        /\ UNCHANGED <<endTime, startedLate>>
    BY DEF FishSlotEnd, SyncSlotAfter, PreludeTil
  <1> QED BY <1>0, <1>2, <1>3
          DEF TimesInv, SyncSlotTimes, WaitTimes, FishTimes, PreludeTimes,
              LatenessBounded, AtMostASlotLate

\* The fish slot
LEMMA InFishSlotTimes ==
    Inv /\ TimesInv /\ InFishSlot => TimesInv'
  <1> SUFFICES ASSUME Inv, TimesInv, InFishSlot PROVE TimesInv'
    OBVIOUS
  <1>1. CASE FishSlotStart
    <2>0. /\ now \in Nat /\ endTime \in Nat /\ fishStart \in Nat /\ fishDuration \in Nat
          /\ startedLate \in Nat /\ startedLate =< Period - SlotDuration
      BY DEF Inv, TypeOK, TimesInv, LatenessBounded
    <2>1. /\ fishStart =< endTime /\ now =< endTime
          /\ fishDuration =< Period - SlotDuration
          /\ startedLate =< SlotDuration =>
               /\ fishDuration = SlotDuration \/ fishStart + fishDuration =< Period + SendLatency
               /\ now =< SlotDuration + SendLatency \/ now =< fishStart
          /\ deepDelta = NoDelta /\ ~ trollsNearEnd =>
               /\ fishDuration =< Period - 3 * SlotDuration
               /\ startedLate =< SlotDuration =>
                    fishStart + fishDuration =< Period - 2 * SlotDuration + SendLatency
      BY <1>1 DEF FishSlotStart, TimesInv, FishTimes, WaitTimes
    <2> DEFINE start == Later(now, fishStart)
    <2>2. /\ start \in Nat /\ start =< endTime
          /\ startedLate =< SlotDuration =>
               fishDuration = SlotDuration \/ start + fishDuration =< Period + SendLatency
      BY <2>0, <2>1, PeriodIsLong DEF Later
    <2>3. startedLate =< SlotDuration /\ deepDelta = NoDelta /\ ~ trollsNearEnd =>
               start + fishDuration =< Period - 2 * SlotDuration + SendLatency
      BY <2>0, <2>1, PeriodIsLong DEF Later
    <2>4. /\ now' = start /\ fishStart' = start /\ step' = "fishing"
          /\ UNCHANGED <<endTime, fishDuration, deepDelta, trollsNearEnd, startedLate>>
      BY <1>1 DEF FishSlotStart
    <2> HIDE DEF start
    <2> QED BY <2>0, <2>1, <2>2, <2>3, <2>4
            DEF TimesInv, SyncSlotTimes, WaitTimes, FishTimes, PreludeTimes,
                LatenessBounded, AtMostASlotLate
  <1>2. ASSUME NEW toa \in now .. fishStart + fishDuration, MergeOtherClique(toa)
        PROVE  TimesInv'
    BY <1>2, CatchTimes DEF MergeOtherClique
  <1>3. ASSUME NEW toa \in now .. fishStart + fishDuration, NEW delta \in SyncOffsets,
               MergeMyClique(toa, delta)
        PROVE  TimesInv'
    BY <1>3, CatchTimes DEF MergeMyClique
  <1>4. ASSUME NEW toa \in now .. fishStart + fishDuration, NEW delta \in SyncOffsets,
               JoinFishedClique(toa, delta)
        PROVE  TimesInv'
    BY <1>4, CatchTimes DEF JoinFishedClique
  <1> QED BY <1>1, <1>2, <1>3, <1>4, FishSlotEndTimes DEF InFishSlot

\* When the sync of a merger is sent, and that there was time for a prelude when
\* the crystal was not left on
LEMMA MergerTimes ==
    ASSUME Inv, TimesInv, MergerStartAndEnd
    PROVE  \E time \in Nat :
             /\ now' = time /\ time =< endTime + (Period - SlotDuration)
             /\ endTime >= Period => time =< endTime + SlotDuration
             /\ step' = "lost" => startedLate > SlotDuration \/ endTime < Period
             /\ step' \in {"withoutPrelude", "preludeWSync", "lost"}
             /\ UNCHANGED <<endTime, startedLate>>
  <1>1. /\ now \in Nat /\ endTime \in Nat /\ mergeTime \in Nat /\ startedLate \in Nat
        /\ SlotDuration =< now /\ now =< endTime
        /\ startedLate =< SlotDuration => now =< SlotDuration + SendLatency
        /\ 2 * SlotDuration =< mergeTime /\ mergeTime + SendLatency < Period
    BY DEF MergerStartAndEnd, Inv, TypeOK, MergerWaits, MergeSlotInPeriod, TimesInv, WaitTimes
  <1>2. PICK time \in Nat : time = Later(now, mergeTime) + SendLatency
    BY <1>1, PeriodIsLong DEF Later
  <1>3. /\ time =< endTime + (Period - SlotDuration)
        /\ endTime >= Period => time =< endTime + SlotDuration
    BY <1>1, <1>2, PeriodIsLong DEF Later
  <1>4. /\ now' = time /\ SyncSlotAfter(IsMergerEndSyncPeriod)
        /\ UNCHANGED <<endTime, startedLate>>
    BY <1>2 DEF MergerStartAndEnd
  <1>5. ASSUME ~ IsMergerEndSyncPeriod, startedLate =< SlotDuration, endTime >= Period
        PROVE  time + SlotDuration =< endTime
    <2>1. MsgOverTheAirTimeInTicks \in Nat /\ 2 * SendLatency =< SlotDuration
      BY ScheduleAssumption, Durations DEF HalfSlot
    <2>2. mergeTime + SendLatency + 3 * SlotDuration =< Period
      BY <1>1, <1>5, <2>1, PeriodIsLong
      DEF IsMergerEndSyncPeriod, ClampedDifference, Later, SendDuration, TwoSlotDuration
    <2>3. time =< mergeTime + SendLatency + SlotDuration
      BY <1>1, <1>2, <1>5, <2>1, PeriodIsLong DEF Later
    <2> QED BY <1>1, <1>5, <2>2, <2>3, PeriodIsLong
  <1>6. /\ step' \in {"withoutPrelude", "preludeWSync", "lost"}
        /\ step' = "lost" => startedLate > SlotDuration \/ endTime < Period
    BY <1>1, <1>4, <1>5, PeriodIsLong DEF SyncSlotAfter, PreludeTil
  <1> QED BY <1>3, <1>4, <1>6

\* A period starts at most as late as the last one ended.
LEMMA StartPeriodTimes ==
    ASSUME Inv, TimesInv, StartPeriod
    PROVE  TimesInv' /\ (step' = "lost" => startedLate > SlotDuration)
  <1>1. /\ now \in Nat /\ endTime \in Nat /\ startedLate \in Nat
        /\ now =< endTime + (Period - SlotDuration)
        /\ step = "maintain" => now =< endTime
    <2>1. step \in Idle \cup {"maintain"}
      BY Zenon DEF StartPeriod, StartSyncSlot, StartSyncPeriodMaintain, Idle
    <2> QED BY <2>1 DEF Inv, TypeOK, TimesInv, LatenessBounded, PreludeTimes
  <1>2. PICK late \in Nat : late = ClampedDifference(now, endTime)
    BY <1>1 DEF ClampedDifference, Later
  <1>3. late =< Period - SlotDuration /\ (step = "maintain" => late = 0)
    BY <1>1, <1>2, PeriodIsLong DEF ClampedDifference, Later
  <1>4. now' = late /\ startedLate' = late /\ endTime' = Period
    BY <1>2, Zenon
    DEF StartPeriod, StartSyncSlot, StartSyncPeriodMaintain, RollPeriodForward
  <1>5. \/ step' \in {"listen", "maintain"} \cup Sending
        \/ step = "maintain" /\ PreludeTil(endTime', "preludeWSync")
    BY Zenon DEF StartPeriod, StartSyncSlot, StartSyncPeriodMaintain
  <1>6. /\ step' \in {"listen", "maintain", "preludeWSync"} \cup Sending
    BY <1>3, <1>4, <1>5, PeriodIsLong DEF PreludeTil
  <1>7. /\ late =< Later(late, SlotDuration) /\ late =< Period
        /\ late =< Period + (Period - SlotDuration) /\ (late =< SlotDuration => late =< Period)
    BY <1>3, PeriodIsLong DEF Later
  <1> QED BY <1>3, <1>4, <1>6, <1>7, PeriodIsLong
          DEF TimesInv, SyncSlotTimes, WaitTimes, FishTimes, PreludeTimes,
              LatenessBounded, AtMostASlotLate

\* The bounds on times are inductive relative to the invariant.
LEMMA TimesInductive ==
    Inv /\ TimesInv /\ [Next]_vars => TimesInv'
  <1> SUFFICES ASSUME Inv, TimesInv, [Next]_vars PROVE TimesInv'
    OBVIOUS
  <1>0. /\ now \in Nat /\ endTime \in Nat /\ fishStart \in Nat
        /\ startedLate \in Nat /\ startedLate =< Period - SlotDuration
    BY DEF Inv, TypeOK, TimesInv, LatenessBounded
  <1>1. CASE MergerStartAndEnd
    <2>1. PICK time \in Nat :
             /\ now' = time /\ time =< endTime + (Period - SlotDuration)
             /\ endTime >= Period => time =< endTime + SlotDuration
             /\ step' \in {"withoutPrelude", "preludeWSync", "lost"}
             /\ UNCHANGED <<endTime, startedLate>>
      BY <1>1, MergerTimes
    <2> QED BY <1>0, <2>1
            DEF TimesInv, SyncSlotTimes, WaitTimes, FishTimes, PreludeTimes,
                LatenessBounded, AtMostASlotLate
  <1>2. CASE RadioPreludeWSync
    <2>1. now + SlotDuration =< endTime
      BY <1>2 DEF RadioPreludeWSync, Inv, PreludeInTime
    <2>2. PICK time \in Nat : now' = time /\ time + SlotDuration = endTime
      BY <1>0, <1>2, <2>1, PeriodIsLong DEF RadioPreludeWSync
    <2>3. time =< endTime + (Period - SlotDuration) /\ time =< endTime + SlotDuration
      BY <1>0, <2>2, PeriodIsLong
    <2>4. step' = "afterPrelude" /\ UNCHANGED <<endTime, startedLate>>
      BY <1>2 DEF RadioPreludeWSync
    <2> QED BY <1>0, <2>2, <2>3, <2>4
            DEF TimesInv, SyncSlotTimes, WaitTimes, FishTimes, PreludeTimes,
                LatenessBounded, AtMostASlotLate
  <1>3. CASE RadioPreludeWFish
    <2>1. /\ now + SlotDuration =< fishStart /\ fishStart =< endTime /\ SlotDuration =< now
      BY <1>3 DEF RadioPreludeWFish, Inv, PreludeInTime, TimesInv, FishTimes, WaitTimes
    <2>2. PICK time \in Nat : /\ now' = time /\ SlotDuration =< time
                              /\ time =< endTime /\ time =< fishStart
      BY <1>0, <1>3, <2>1, PeriodIsLong DEF RadioPreludeWFish
    <2>3. /\ step = "preludeWFish" /\ step' = "fishWait"
          /\ UNCHANGED <<endTime, fishStart, fishDuration, deepDelta, trollsNearEnd, startedLate>>
      BY <1>3 DEF RadioPreludeWFish
    <2>4. FishTimes'
      BY <2>3 DEF TimesInv, FishTimes
    <2> QED BY <1>0, <2>2, <2>3, <2>4
            DEF TimesInv, SyncSlotTimes, WaitTimes, PreludeTimes,
                LatenessBounded, AtMostASlotLate
  <1>4. CASE UNCHANGED vars
    BY <1>4 DEF vars, TimesInv, SyncSlotTimes, WaitTimes, FishTimes, PreludeTimes,
                LatenessBounded, AtMostASlotLate
  <1> QED BY <1>1, <1>2, <1>3, <1>4, StartPeriodTimes, InSyncSlotTimes, InFishSlotTimes DEF Next

\* Initial states
LEMMA InitTimes == Init => TimesInv
  <1> SUFFICES ASSUME Init PROVE TimesInv
    OBVIOUS
  <1>1. now = 0 /\ endTime = 0 /\ step = "maintain" /\ startedLate = 0
    BY DEF Init
  <1> QED BY <1>1, PeriodIsLong
          DEF TimesInv, SyncSlotTimes, WaitTimes, FishTimes, PreludeTimes,
              LatenessBounded, AtMostASlotLate

\* All bounds on times hold in every reachable state.
THEOREM ScheduleTimes == Spec => []TimesInv
  BY InitInv, InvInductive, InitTimes, TimesInductive, PTL DEF Spec

\* A unit that starts a period at most one slot late and does not revert to a former
\* master ends it at most one slot late, fishing past the sync point or not:
\* fishSlotEnd() and mergerStartAndEnd() do not let lateness add up, and neither
\* does the prelude of a slot that comes before the next period.
THEOREM ScheduleAtMostASlotLate == Spec => []AtMostASlotLate
  <1>1. TimesInv => AtMostASlotLate
    BY DEF TimesInv
  <1> QED BY <1>1, ScheduleTimes, PTL

\* Reversions included, a period never starts so late that rollPeriodForward() ought
\* to have rolled over two: at least one slot of the new period is left.
THEOREM ScheduleLatenessBounded == Spec => []LatenessBounded
  <1>1. TimesInv => LatenessBounded
    BY DEF TimesInv
  <1> QED BY <1>1, ScheduleTimes, PTL

-----------------------------------------------------------------------------
(* Time for a prelude *)

\* After a fish slot of trolling there is time for a prelude, unless it is near the
\* end of the period and the crystal is left on.
LEMMA FishSlotEndInTime ==
    ASSUME Inv, TimesInv, FishSlotEnd, step' = "lost"
    PROVE  \/ startedLate > SlotDuration \/ endTime' < Period
           \/ step = "joined" \/ (step = "fishing" /\ deepDelta # NoDelta)
  <1>1. SUFFICES ASSUME startedLate =< SlotDuration, endTime >= Period,
                        step # "joined", ~ (step = "fishing" /\ deepDelta # NoDelta)
                 PROVE  FALSE
    <2>1. endTime' = endTime
      BY DEF FishSlotEnd
    <2>2. startedLate \in Nat /\ endTime \in Nat
      BY DEF Inv, TypeOK
    <2> QED BY <2>1, <2>2, PeriodIsLong
  <1>2. deepDelta = NoDelta /\ deepDelta' = NoDelta /\ step \in {"fishing", "caught"}
    BY <1>1 DEF FishSlotEnd, TimesInv, FishTimes
  <1>3. ~ trollsNearEnd
    BY <1>2, Zenon DEF FishSlotEnd, SyncSlotAfter
  <1>4. fishStart + fishDuration =< Period - 2 * SlotDuration + SendLatency
    BY <1>1, <1>2, <1>3 DEF TimesInv, FishTimes
  <1>5. /\ fishStart \in Nat /\ fishDuration \in Nat /\ endTime \in Nat
    BY DEF Inv, TypeOK
  <1>6. now' = fishStart + fishDuration /\ PreludeTil(endTime, "preludeWSync")
    BY DEF FishSlotEnd, SyncSlotAfter
  <1> QED BY <1>1, <1>4, <1>5, <1>6, PeriodIsLong DEF PreludeTil

\* deltaSubtraction() in sleepDuration.cpp has no clamp, and needs none: a prelude is
\* scheduled with less than a slot left only in a period that started more than
\* a slot late or that a reversion ended, and after deep fishing.
THEOREM ScheduleOnlyDeepFishingLoses == Spec => OnlyDeepFishingLoses
  <1> DEFINE Step == step' = "lost" /\ startedLate =< SlotDuration /\ endTime' >= Period
                       => step = "joined" \/ (step = "fishing" /\ deepDelta # NoDelta)
  <1>1. Inv /\ TimesInv /\ [Next]_vars => [Step]_vars
    <2> SUFFICES ASSUME Inv, TimesInv, Next,
                        step' = "lost", startedLate =< SlotDuration, endTime' >= Period
                 PROVE  step = "joined" \/ (step = "fishing" /\ deepDelta # NoDelta)
      OBVIOUS
    <2>0. startedLate \in Nat /\ endTime \in Nat
      BY DEF Inv, TypeOK
    <2>1. CASE StartPeriod
      BY <2>0, <2>1, StartPeriodTimes, PeriodIsLong
    <2>2. CASE EndSyncSlot
      <3>1. PICK time \in Nat, end \in Nat :
              /\ now' = time /\ endTime' = end /\ SlotDuration =< time /\ time =< end
              /\ startedLate =< SlotDuration => time =< SlotDuration + SendLatency
              /\ UNCHANGED <<deepDelta, startedLate>>
        BY <2>2, SyncSlotEnds
      <3>2. CASE ScheduleTrolling \/ ScheduleDeepFishing
        BY <2>0, <3>1, <3>2, FishSlotScheduled, PeriodIsLong
      <3>3. CASE OmitNonsyncSlot
        BY <3>1, <3>3, PeriodIsLong DEF OmitNonsyncSlot, PreludeTil
      <3> QED BY <2>2, <3>2, <3>3 DEF EndSyncSlot, ScheduleMerge
    <2>3. CASE FishSlotEnd
      BY <2>0, <2>3, FishSlotEndInTime, PeriodIsLong DEF FishSlotEnd
    <2>4. CASE MergerStartAndEnd
      BY <2>0, <2>4, MergerTimes, PeriodIsLong
    <2>5. CASE InSyncSlot /\ ~ EndSyncSlot
      BY <2>5 DEF InSyncSlot, HearSync, HearMerge, HearScatter, EnactScatter, SendSync,
                  Listening
    <2>6. CASE InFishSlot /\ ~ FishSlotEnd
      BY <2>6 DEF InFishSlot, FishSlotStart, MergeOtherClique, MergeMyClique, JoinFishedClique
    <2> QED BY <2>1, <2>2, <2>3, <2>4, <2>5, <2>6
            DEF Next, RadioPreludeWSync, RadioPreludeWFish
  <1> QED BY <1>1, InitInv, InvInductive, InitTimes, TimesInductive, PTL
          DEF Spec, OnlyDeepFishingLoses

-----------------------------------------------------------------------------
(* The sync point that is sent *)

\* A sync that arrives when its sending ends leads whoever hears it to the sync point
\* of the sender: neither clamp of SyncOffset::calculate() ever bites.
SentOffsetExact == step = "sent" => now + sentOffset = endTime

\* The transmission ends before the sync point, however late the slot started.
LEMMA SendSyncExact ==
    Inv /\ TimesInv /\ SendSync => now' + sentOffset' = endTime'
  <1> SUFFICES ASSUME Inv, TimesInv, SendSync PROVE now' + sentOffset' = endTime'
    OBVIOUS
  <1> DEFINE t == Later(now, DeltaSyncSlotStartToSyncSlotXmit)
             offset == ClampedDifference(ClampedDifference(endTime, t), SendLatency)
  <1>1. /\ now \in Nat /\ endTime \in Nat /\ startedLate \in Nat
        /\ startedLate =< Period - SlotDuration
        /\ now =< Later(startedLate, SlotDuration) /\ Period =< endTime
    BY DEF Inv, TypeOK, TimesInv, LatenessBounded, SyncSlotTimes, SendSync
  <1>2. t \in Nat /\ t + SendLatency =< endTime
    BY <1>1, PeriodIsLong DEF Later
  <1>3. now' = t + SendLatency /\ sentOffset' = offset /\ endTime' = endTime
    BY DEF SendSync
  <1> HIDE DEF t
  <1>4. offset = endTime - t - SendLatency
    BY <1>1, <1>2, PeriodIsLong DEF ClampedDifference, Later
  <1> HIDE DEF offset
  <1> QED BY <1>1, <1>2, <1>3, <1>4, PeriodIsLong

\* Every sync tells the sync point the sender itself keeps, whatever extended its
\* period before, and however late the period started.
THEOREM ScheduleSentOffsetExact == Spec => []SentOffsetExact
  <1>1. Init => SentOffsetExact
    BY DEF Init, SentOffsetExact
  <1>2. Inv /\ TimesInv /\ SentOffsetExact /\ [Next]_vars => SentOffsetExact'
    <2> SUFFICES ASSUME Inv, TimesInv, SentOffsetExact, [Next]_vars
                 PROVE  SentOffsetExact'
      OBVIOUS
    <2>1. CASE SendSync
      BY <2>1, SendSyncExact DEF SentOffsetExact
    <2>2. CASE step' # "sent"
      BY <2>2 DEF SentOffsetExact
    <2>3. CASE UNCHANGED <<step, now, sentOffset, endTime>>
      BY <2>3 DEF SentOffsetExact
    <2>4. CASE InSyncSlot
      <3>1. CASE EndSyncSlot
        <4>1. CASE ScheduleTrolling \/ ScheduleDeepFishing
          BY <2>2, <4>1, FishSessionScheduled DEF Inv, Fishing, PreludeTil
        <4>2. CASE ScheduleMerge \/ OmitNonsyncSlot
          BY <2>2, <4>2 DEF ScheduleMerge, OmitNonsyncSlot, PreludeTil
        <4> QED BY <3>1, <4>1, <4>2 DEF EndSyncSlot
      <3> QED BY <2>1, <2>2, <2>4, <3>1
              DEF InSyncSlot, HearSync, HearMerge, HearScatter, EnactScatter
    <2>5. CASE InFishSlot
      BY <2>2, <2>5
      DEF InFishSlot, SyncSlotAfter, PreludeTil, FishSlotStart, MergeOtherClique, MergeMyClique, JoinFishedClique,
          FishSlotEnd
    <2>6. CASE StartPeriod
      <3>1. step' # "sent"
        BY <2>6, Zenon
        DEF StartPeriod, StartSyncSlot, StartSyncPeriodMaintain, PreludeTil, Sending
      <3> QED BY <2>2, <3>1
    <2>7. CASE MergerStartAndEnd \/ RadioPreludeWSync \/ RadioPreludeWFish
      BY <2>2, <2>7
      DEF MergerStartAndEnd, RadioPreludeWSync, RadioPreludeWFish, SyncSlotAfter, PreludeTil
    <2> QED BY <2>3, <2>4, <2>5, <2>6, <2>7 DEF Next, vars
  <1> QED BY <1>1, <1>2, InitInv, InvInductive, InitTimes, TimesInductive, PTL DEF Spec

=============================================================================
