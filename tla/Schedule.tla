------------------------------ MODULE Schedule ------------------------------
(***************************************************************************)
(* The times of a sync period: Schedule (src/clique/schedule.cpp), the     *)
(* sync slot (src/slots/syncing/syncSlotSchedule.cpp), the fish slot       *)
(* (src/slots/fishing/fishSchedule.cpp), the merge slot                    *)
(* (src/cliqueMerger/cliqueMerger.cpp) and the radio prelude, the slot of  *)
(* time for starting the crystal before a slot (src/schedule/), for one    *)
(* unit in a build without SoftDevice, which has no provisioning periods.  *)
(*                                                                         *)
(* All times are ticks since _startTimeOfSyncPeriod, which is therefore 0, *)
(* as _unadjustedEndTimeOfSyncPeriod is Period: both change only when the  *)
(* period is rolled forward, and then every other time is rebased.  A step *)
(* happens at the time it gives to `now'; a timer set for a time past      *)
(* fires at once.  Who hears what, and in which role and mode, is the      *)
(* business of module SyncAgent: here it is nondeterministic.              *)
(***************************************************************************)
EXTENDS Integers

CONSTANTS
    SlotDuration,        \* ScheduleParameters::VirtualSlotDuration, in ticks
    CountSlots,          \* ScheduleParameters::CountSlots
    SendLatency,         \* PhysicalParameters::SendLatency
    GuessedSendLatency,  \* PhysicalParameters::GuessedSendLatency
    MsgOverTheAirTimeInTicks,
    SessionSlots,        \* the lengths of trolling sessions, in slots
    SyncOffsets,         \* deltas to the next sync point that syncs carry
    Offsets              \* deltas that merge messages carry, random offsets

\* ScheduleParameters::NormalSyncPeriodDuration
Period == CountSlots * SlotDuration
HalfSlot == SlotDuration \div 2
HFXOStartup == SlotDuration
PreflightDelta == HFXOStartup + SendLatency
DeltaSyncPointToSyncSlotMiddle == HalfSlot + HFXOStartup - SendLatency
DeltaSyncSlotStartToSyncSlotXmit == HalfSlot - SendLatency
EarliestMergeTime == 2 * SlotDuration + PreflightDelta
SendDuration == MsgOverTheAirTimeInTicks + SendLatency
ThreeSlotDuration == 3 * SlotDuration
TwoSlotDuration == 3 * SlotDuration    \* three, in spite of its name
DurationTilTwoSlotsFromEndSyncPeriod == Period - 2 * SlotDuration

\* The transmission lies in the slot, sessions and the merge slot in the period,
\* and DeltaSync::isValidValue() accepts the offsets.
ASSUME ScheduleAssumption ==
    /\ SlotDuration \in Nat \ {0} /\ CountSlots \in Nat
    /\ SendLatency \in 0 .. HalfSlot /\ GuessedSendLatency \in 0 .. HalfSlot
    /\ MsgOverTheAirTimeInTicks \in 0 .. SendLatency
    /\ EarliestMergeTime + SendLatency < Period
    /\ SessionSlots \subseteq 1 .. CountSlots - 1
    /\ SyncOffsets \subseteq 0 .. Period /\ Offsets \subseteq 0 .. Period

VARIABLES
    now,             \* LongClock::nowTime()
    endTime,         \* _endTimeOfSyncPeriod
    step,            \* what the unit is about, or the task its timer is set for
    fishStart,       \* _memoStartTimeOfFishSlot, then when the fish slot did start
    fishDuration,    \* FishingManager::getFishSessionDurationTicks()
    deepDelta,       \* deltaSyncPointToSyncPointOfFishee, or NoDelta: trolling
    trollsNearEnd,   \* the trolling session is near the end of the period
    isMerger,
    mergeTime,       \* periodTimeToMergeSlotStart
    sentOffset,      \* history: the offset this unit sent in this sync slot
    startedLate      \* history: how late this period was rolled forward

vars == <<now, endTime, step, fishStart, fishDuration, deepDelta, trollsNearEnd, isMerger,
          mergeTime, sentOffset, startedLate>>

NoDelta == -1

\* In the sync slot; "scattered" is listening as one's own master again.
Listening == {"listen", "scattered"}
Sending == {"sendSync", "sendControlSync"}

\* Until the sync slot: the crystal is still on, or its prelude is done, or yet to come.
Idle == {"withoutPrelude", "preludeWSync", "afterPrelude"}
Steps == Listening \cup Sending \cup Idle \cup
    {"heard", "sent", "preludeWFish", "fishWait", "fishing", "caught", "joined", "mergeWait",
     "maintain", "lost"}

Later(s, t) == IF s > t THEN s ELSE t
Earlier(s, t) == IF s < t THEN s ELSE t

\* TimeMath::clampedTimeDifference(), ClockDuration::clamped...()
ClampedDifference(s, t) == Later(s - t, 0)

-----------------------------------------------------------------------------
(* The end of the period *)

\* A sync point that is earlier than the one scheduled is taken as it is.
AdjustedSyncPeriodEndTimeFromMsgMutant(toa, delta) == toa + delta

\* Never sooner than the end scheduled: rather a period later.
AdjustedSyncPeriodEndTimeFromMsg(toa, delta) ==
    IF toa + delta < endTime THEN toa + delta + Period ELSE toa + delta

AdjustBySyncMsg(toa, delta) ==
    endTime' = AdjustedSyncPeriodEndTimeFromMsg(toa, delta)

\* adjustWithRandomAddedTime()
AdjustWithRandomAddedTime(random) == endTime' = Period + random

\* adjustByCliqueHistoryOffset() at time t: offsetToCurrentClique() is 1.
AdjustByCliqueHistoryOffset(t) == endTime' = t + 1

\* The start of a slot is used as it was computed.
ClampTimeBeforeLatestSlotMarkMutant(t, end) == t

ClampTimeBeforeLatestSlotMark(t, end) == Earlier(t, end)

-----------------------------------------------------------------------------
(* The time of the merge slot *)

TimeOfTransmittal(toa) == toa - GuessedSendLatency

\* The preflight is subtracted without looking.
AdjustedRawTimeToMergeCliqueMutant(rawTime) == rawTime - PreflightDelta

AdjustedRawTimeToMergeClique(rawTime) ==
    IF rawTime > EarliestMergeTime THEN rawTime - PreflightDelta ELSE EarliestMergeTime

\* From the sync point of the clique caught to the sync slot of the clique left
PeriodTimeToMergeMyClique(toa) ==
    AdjustedRawTimeToMergeClique(
        ClampedDifference(endTime + DeltaSyncPointToSyncSlotMiddle,
                          TimeOfTransmittal(toa) - DeltaSyncPointToSyncSlotMiddle) % Period)

\* From the sync point of this unit to the sync slot of the clique caught
PeriodTimeToMergeOtherClique(toa) ==
    AdjustedRawTimeToMergeClique(
        ClampedDifference(TimeOfTransmittal(toa) + Period, endTime) % Period)

-----------------------------------------------------------------------------
(* The radio prelude: a slot for the crystal to start, before the slot that    *)
(* uses the radio, unless the crystal is left on                               *)

\* radioPreludeTaskW...(): a timer for a slot before t.  With less than a slot left,
\* deltaSubtraction() fails an assertion, or sets the timer for a huge time.
PreludeTil(t, task) == step' = IF now' + SlotDuration =< t THEN task ELSE "lost"

\* fishing(), where the crystal is left on or not by tryUndoAfterSyncing()
Fishing(isFishSlotStartSyncPeriod) ==
    IF isFishSlotStartSyncPeriod THEN step' = "fishWait"
                                 ELSE PreludeTil(fishStart', "preludeWFish")

\* syncSlotAfterFishSlot(), syncSlotAfterMerging()
SyncSlotAfter(isEndSyncPeriod) ==
    IF isEndSyncPeriod THEN step' = "withoutPrelude" ELSE PreludeTil(endTime, "preludeWSync")

\* isCoverLastSleepingSlot(), isAbutLastSleepingSlot(): only the last counts.
IsFishSessionNearEndSyncPeriodMutant(endSlotOrdinal) == endSlotOrdinal >= CountSlots

IsFishSessionNearEndSyncPeriod(endSlotOrdinal) == endSlotOrdinal >= CountSlots - 1

\* DeepFishingPolicy::isFishSlotEndSyncPeriod(): true when it is far from the end.
DeepIsFishSlotEndSyncPeriod == deepDelta + SlotDuration < DurationTilTwoSlotsFromEndSyncPeriod

IsMergerEndSyncPeriod == ClampedDifference(Period, mergeTime + SendDuration) < TwoSlotDuration

\* theRadioPreludeTaskWSync()
RadioPreludeWSync ==
    /\ step = "preludeWSync"
    /\ now' = endTime - SlotDuration
    /\ step' = "afterPrelude"
    /\ UNCHANGED <<endTime, fishStart, fishDuration, deepDelta, trollsNearEnd, isMerger,
                   mergeTime, sentOffset, startedLate>>

\* theRadioPreludeTaskWFish()
RadioPreludeWFish ==
    /\ step = "preludeWFish"
    /\ now' = fishStart - SlotDuration
    /\ step' = "fishWait"
    /\ UNCHANGED <<endTime, fishStart, fishDuration, deepDelta, trollsNearEnd, isMerger,
                   mergeTime, sentOffset, startedLate>>

-----------------------------------------------------------------------------

Init ==
    /\ now = 0 /\ endTime = 0 /\ step = "maintain"
    /\ fishStart = 0 /\ fishDuration = 0 /\ deepDelta = NoDelta /\ trollsNearEnd = FALSE
    /\ isMerger = FALSE /\ mergeTime = 0 /\ sentOffset = 0
    /\ startedLate = 0

\* preludeToSyncPeriod(), rollPeriodForward() at the sync point or, when a slot
\* lasted longer, after it.
RollPeriodForward ==
    /\ now' = ClampedDifference(now, endTime)
    /\ startedLate' = now'
    /\ endTime' = Period
    /\ sentOffset' = 0
    /\ fishStart' = 0 /\ fishDuration' = 0 /\ trollsNearEnd' = FALSE
    /\ UNCHANGED <<deepDelta, mergeTime>>

\* startSyncSlotAfterPrelude(): a slot after the prelude began, or when the crystal
\* was left on; then a kind of sync slot, or none in mode Maintain.  In that mode,
\* and without power to fish, no one is a merger.
StartSyncSlot ==
    /\ step \in {"withoutPrelude", "afterPrelude"}
    /\ RollPeriodForward
    /\ step' \in {"listen", "maintain"} \cup Sending
    /\ isMerger' \in IF step' = "maintain" THEN {FALSE} ELSE {isMerger, FALSE}

\* startSyncPeriodMaintain(): when there is power again, a prelude to the next period
StartSyncPeriodMaintain ==
    /\ step = "maintain"
    /\ RollPeriodForward
    /\ step' = "maintain" \/ PreludeTil(endTime', "preludeWSync")
    /\ UNCHANGED isMerger

\* A sync of the own or a better clique in the sync slot: updateBySyncMessage().
\* A merger's time to merge stays (adjustMergerBySyncMsg() is not implemented).
HearSync(toa, delta) ==
    /\ step \in Listening
    /\ toa \in now .. SlotDuration
    /\ now' = toa
    /\ AdjustBySyncMsg(toa, delta)
    /\ step' = "heard"
    /\ UNCHANGED <<fishStart, fishDuration, deepDelta, trollsNearEnd, isMerger, mergeTime,
                   sentOffset, startedLate>>

\* getFishingDeltaFromMergeMsg() at its arrival, and switchToDeepFishing()
HearMerge(toa, delta) ==
    /\ step \in Listening
    /\ toa \in now .. SlotDuration
    /\ now' = toa
    /\ deepDelta = NoDelta
    /\ deepDelta' = toa + delta
    /\ UNCHANGED <<endTime, step, fishStart, fishDuration, trollsNearEnd, isMerger, mergeTime,
                   sentOffset, startedLate>>

\* A slave hears that its clique scatters and goes on listening.
HearScatter(toa, random) ==
    /\ step = "listen"
    /\ toa \in now .. SlotDuration
    /\ now' = toa
    /\ AdjustWithRandomAddedTime(random)
    /\ step' = "scattered"
    /\ UNCHANGED <<fishStart, fishDuration, deepDelta, trollsNearEnd, isMerger, mergeTime,
                   sentOffset, startedLate>>

\* A master scatters itself at the start of the slot of the last repeat, which
\* is then sent.
EnactScatter(random) ==
    /\ step = "sendControlSync"
    /\ AdjustWithRandomAddedTime(random)
    /\ step' = "sendSync"
    /\ UNCHANGED <<now, fishStart, fishDuration, deepDelta, trollsNearEnd, isMerger, mergeTime,
                   sentOffset, startedLate>>

\* SSTask::sendSync() with SyncOffset::calculate()
SendSync ==
    /\ step \in Sending
    /\ LET t == Later(now, DeltaSyncSlotStartToSyncSlotXmit)
       IN  /\ now' = t + SendLatency
           /\ sentOffset' = ClampedDifference(ClampedDifference(endTime, t), SendLatency)
    /\ step' = "sent"
    /\ UNCHANGED <<endTime, fishStart, fishDuration, deepDelta, trollsNearEnd, isMerger,
                   mergeTime, startedLate>>

-----------------------------------------------------------------------------

\* memoTimeOfFishSessionStart() for a start and a duration the policy gives
MemoTimeOfFishSession(start, duration) ==
    /\ fishStart' = ClampTimeBeforeLatestSlotMark(start, endTime')
    /\ fishDuration' = duration

\* getStartTimeToFish(): a trolling session of consecutive slots after the first.
\* The crystal is left on for the first two of them.
ScheduleTrolling ==
    /\ ~isMerger /\ deepDelta = NoDelta
    /\ \E slots \in SessionSlots : \E ordinal \in 2 .. CountSlots - slots + 1 :
         /\ MemoTimeOfFishSession((ordinal - 1) * SlotDuration, slots * SlotDuration)
         /\ trollsNearEnd' = IsFishSessionNearEndSyncPeriod(ordinal + slots - 1)
         /\ Fishing(ordinal \in {2, 3})

\* DeepFishingPolicy::getStartTimeToFish(): where the merge message said.  The
\* trolling session stays what it was when trolling was interrupted.
ScheduleDeepFishing ==
    /\ ~isMerger /\ deepDelta # NoDelta
    /\ MemoTimeOfFishSession(deepDelta, SlotDuration)
    /\ trollsNearEnd' \in BOOLEAN
    /\ Fishing(deepDelta < ThreeSlotDuration)

\* SyncSchedule::merger()
ScheduleMerge ==
    /\ isMerger
    /\ step' = "mergeWait"
    /\ UNCHANGED <<fishStart, fishDuration, trollsNearEnd>>

OmitNonsyncSlot ==
    /\ PreludeTil(endTime', "preludeWSync")
    /\ UNCHANGED <<fishStart, fishDuration, trollsNearEnd>>

\* endSyncSlotListen(), endSyncSlotSend().  A slave that heard nothing may
\* revert to a former master before the next slot is scheduled.
EndSyncSlot ==
    /\ step \in Listening \cup {"heard", "sent"}
    /\ now' = Later(now, SlotDuration)
    /\ \/ UNCHANGED endTime
       \/ step = "listen" /\ AdjustByCliqueHistoryOffset(now')
    /\ ScheduleTrolling \/ ScheduleDeepFishing \/ ScheduleMerge \/ OmitNonsyncSlot
    /\ UNCHANGED <<deepDelta, isMerger, mergeTime, sentOffset, startedLate>>

-----------------------------------------------------------------------------

\* SSTask::fishSlotStart(), a slot after the prelude began or with the crystal left on
FishSlotStart ==
    /\ step = "fishWait"
    /\ now' = Later(now, fishStart)
    /\ fishStart' = now'
    /\ step' = "fishing"
    /\ UNCHANGED <<endTime, fishDuration, deepDelta, trollsNearEnd, isMerger, mergeTime,
                   sentOffset, startedLate>>

\* A better clique is caught while trolling: initMergeMyClique() computes with
\* the schedule of the clique it leaves, and adjusts the schedule then.
MergeMyClique(toa, delta) ==
    /\ step = "fishing" /\ deepDelta = NoDelta
    /\ now' = toa
    /\ isMerger' = TRUE
    /\ mergeTime' = PeriodTimeToMergeMyClique(toa)
    /\ AdjustBySyncMsg(toa, delta)
    /\ step' = "caught"
    /\ UNCHANGED <<fishStart, fishDuration, deepDelta, trollsNearEnd, sentOffset, startedLate>>

\* Another clique is caught while trolling: initMergeOtherClique().  Its sync
\* was sent in the middle of its sync slot.
MergeOtherClique(toa) ==
    /\ step = "fishing" /\ deepDelta = NoDelta
    /\ now' = toa
    /\ isMerger' = TRUE
    /\ mergeTime' = PeriodTimeToMergeOtherClique(toa)
    /\ step' = "caught"
    /\ UNCHANGED <<endTime, fishStart, fishDuration, deepDelta, trollsNearEnd, sentOffset,
                   startedLate>>

\* A better clique is caught while deep fishing: join it and troll again.
JoinFishedClique(toa, delta) ==
    /\ step = "fishing" /\ deepDelta # NoDelta
    /\ now' = toa
    /\ AdjustBySyncMsg(toa, delta)
    /\ deepDelta' = NoDelta
    /\ step' = "joined"
    /\ UNCHANGED <<fishStart, fishDuration, trollsNearEnd, isMerger, mergeTime, sentOffset,
                   startedLate>>

\* SSTask::fishSlotEnd(): the whole duration after the start, whatever
\* memoTimeOfFishSessionEnd() clamped.  Deep fishing may be over; then it is the
\* trolling session that decides about the crystal.
FishSlotEnd ==
    /\ step \in {"fishing", "caught", "joined"}
    /\ now' = fishStart + fishDuration
    /\ deepDelta' \in {deepDelta, NoDelta}
    /\ SyncSlotAfter(IF deepDelta' = NoDelta THEN trollsNearEnd ELSE DeepIsFishSlotEndSyncPeriod)
    /\ UNCHANGED <<endTime, fishStart, fishDuration, trollsNearEnd, isMerger, mergeTime,
                   sentOffset, startedLate>>

\* SSTask::mergerStartAndEnd(): the MergeSync has arrived when it is sent.
MergerStartAndEnd ==
    /\ step = "mergeWait"
    /\ now' = Later(now, mergeTime) + SendLatency
    /\ SyncSlotAfter(IsMergerEndSyncPeriod)
    /\ isMerger' \in BOOLEAN
    /\ UNCHANGED <<endTime, fishStart, fishDuration, deepDelta, trollsNearEnd, mergeTime,
                   sentOffset, startedLate>>

-----------------------------------------------------------------------------

StartPeriod == StartSyncSlot \/ StartSyncPeriodMaintain

InSyncSlot ==
    \/ \E toa \in 0 .. SlotDuration :
         \/ \E delta \in SyncOffsets : HearSync(toa, delta)
         \/ \E delta \in Offsets : HearMerge(toa, delta)
         \/ \E random \in Offsets : HearScatter(toa, random)
    \/ \E random \in Offsets : EnactScatter(random)
    \/ SendSync
    \/ EndSyncSlot

InFishSlot ==
    \/ FishSlotStart
    \/ \E toa \in now .. fishStart + fishDuration :
         \/ MergeOtherClique(toa)
         \/ \E delta \in SyncOffsets : MergeMyClique(toa, delta) \/ JoinFishedClique(toa, delta)
    \/ FishSlotEnd

\* In step "lost" the unit has stopped, or sleeps for far longer than a period.
Next ==
    StartPeriod \/ InSyncSlot \/ InFishSlot \/ MergerStartAndEnd
    \/ RadioPreludeWSync \/ RadioPreludeWFish

Spec == Init /\ [][Next]_vars

-----------------------------------------------------------------------------

\* Types of all variables.
TypeOK ==
    /\ now \in Nat /\ endTime \in Nat /\ step \in Steps
    /\ fishStart \in Nat /\ fishDuration \in Nat
    /\ deepDelta \in Nat \cup {NoDelta} /\ trollsNearEnd \in BOOLEAN
    /\ isMerger \in BOOLEAN /\ mergeTime \in Nat
    /\ sentOffset \in Nat /\ startedLate \in Nat

\* endTime >= unadjustedEndTime, as adjust() asserts, except for a slave that
\* heard nothing and reverts: no sequence of syncs heard and fished, however the
\* period was extended or scattered before, ends it before its normal end.
OnlySilenceShortens == [][endTime >= Period /\ endTime' < Period => step = "listen"]_vars

\* The merge slot that is scheduled neither overlaps the sync slot nor lies past the
\* sync point, as timeOfThisMergeStart() asserts, although the sync point moves after
\* the time to merge was computed.  Only a reversion, which ends the period at once
\* (endTime < Period), leaves a merge slot past the sync point.
MergeSlotBeforeSyncPoint ==
    step = "mergeWait" /\ endTime >= Period
      => 2 * SlotDuration =< mergeTime /\ mergeTime + SendLatency < endTime

\* Lateness does not add up: a unit that starts a period at most one slot late,
\* and does not revert to a former master, ends it at most one slot late,
\* although a deep fisher may fish past the sync point every time.
AtMostASlotLate ==
    startedLate =< SlotDuration /\ endTime >= Period /\ step \in Idle
      => now =< endTime + SlotDuration

\* "If there is insufficient time before the next slot, the prelude should be left
\* done" (radioPrelude.h): in a period that starts at most one slot late there is
\* always time for the prelude that is scheduled, except when a slave reverts and ends
\* the period at once, and after a deep fish slot, where the crystal is left on far
\* from the end of the period and not near it.
OnlyDeepFishingLoses ==
    [][ step' = "lost" /\ startedLate =< SlotDuration /\ endTime' >= Period
          => step = "joined" \/ (step = "fishing" /\ deepDelta # NoDelta) ]_vars

=============================================================================
