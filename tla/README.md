# Verification of SleepSyncAgent

SleepSyncAgent keeps ultra low power radios in sync. Every unit runs the same
program. Time is divided into *sync periods* of `CountSlots` slots; a unit
listens or sends in the first, the *sync slot*, and sleeps for the rest, except
for one *fish slot* or *merge slot* in which it looks for other cliques or tells
one clique about another. Units that share a sync point form a *clique* with a
*master*, the unit with the least ID known.

Paths below are relative to `src/src/`.

## Inventory

| Component | State | Operations | Hard about it |
|---|---|---|---|
| Clique (`clique/`) | `masterID` | update by a sync, compare, revert, scatter, assume mastership | many callers; each must bring a better master or self |
| CliqueHistory (`cliqueHistory/`) | records, current index | `add`, step back | full history, long sequences |
| DropoutMonitor (`policy/`) | count of silent sync slots | count, reset | survives changes of mastership |
| Schedule (`clique/schedule.cpp`, `slots/syncing/`, `slots/fishing/fishSchedule.cpp`, `schedule/`) | start, end, unadjusted end of the period; time of the fish slot; what the timer is set for | roll forward, adjust by sync, scatter, reversion, clamp; a prelude before a slot, or none | several adjustments in one period; late slots; no time left for a prelude |
| Trolling policy (`fishPolicy/`) | two counters, direction, session, duration | `preFishing`, `restart`, duration changes | unsigned counters, durations changing under them |
| Deep fishing (`fishPolicy/deepFishingPolicy.cpp`, `slots/fishing/`) | mode, count, callback, place | switch on a Merge message, count, call back | callback runs many periods later |
| CliqueMerger (`cliqueMerger/`, `slots/merge/`) | active flag, IDs, kind, time, count of MergeSyncs | init from a catch, send, complete, deactivate | two schedules at once, modular time |
| Roles, modes, power (`syncAgentImp/`) | role, mode | transitions by measured voltage, catches, completion | three places that must agree |
| Tasks and radio prelude (`task/`, `schedule/`, `slots/sync/`, `receiver/`) | the task the timer holds, crystal on or off, who listens | fifteen tasks, each scheduling the next | one-shot timers: a missing one stops the unit |
| Message handlers (`messageHandler/`, `modules/syncBehaviour.cpp`) | none of their own | one per message type and slot | run in the radio's interrupt between any two tasks |
| Topology control (`network/`) | repeater: active, callback, count | start, repeat, abort, enact | mastership changes meanwhile |
| Provisioning (`provisioning/`) | counter | session, callback of the library, publication | no timer bounds the session |
| Granularity (`network/granularity.cpp`) | granularity of the clique, power of the radio; what the master remembers for later | provisioned, relayed, repeated, taken over; the radio configured again after provisioning | garbled payloads, a second change during the first or during a scatter |
| Wire format (`message/`) | none | serialize, unserialize | two tables that must match, fields of different width |
| Transmit policy (`policy/syncPolicy/`) | stage, alarm clock | ask in every sync slot, advance, disarm, reset | outlives mastership; shares the slot with work and control messages |
| Work (`work/`) | mailbox | put by the application, fetched in a sync slot | displaces sync, and is one |
| Ensemble of units | the channel | send, hear, lose, collide; fail and restart | nobody sees the whole: two masters, split cliques, masters that are gone |
| Logging | | | see "Not modelled" |

Interaction: exactly one task is scheduled at any time and runs to completion in
the timer's interrupt; a received message is handled to completion in the
radio's. They never overlap, so the interleavings are those of whole tasks and
whole handlers. Tasks and handlers share all the state above.

What makes the components correct: a slave can always go back in its history; no
path makes a unit follow a worse master; a slot finds the role and the crystal
it was scheduled for; role, mode and merger agree; a session lies between two
sync slots; slots start in the period; what is heard is what was sent, and a
clique takes over the granularity its master was told; a master does not leave
its clique without sync; units agree on the best of them in the end; every wait
ends.

## Modules

| Module | Models | Correspondence |
|---|---|---|
| `TrollingPolicy` | `fishPolicy/syncRecoveryfishPolicy.cpp`, `utils.h`, `slottedFishSession.cpp`, `fishPowerMgr.cpp` | one variable per C++ static; `PreFishing`, `Restart`, `ManageHigh`, `ManageLow` are the calls, `phase` the order the tasks impose on them |
| `Clique` | `clique/`, `cliqueHistory/`, `policy/dropoutMonitor.cpp` | operators for the member functions, and `CliqueSpec`: the abstract specification of how the clique may change at all |
| `CliqueMerger` | `cliqueMerger/`, `slots/merge/` | extends `Clique`; of the merge time only the zone of the period is kept, as `mergeSchedule.cpp` asks for it |
| `FishingManager` | `slots/fishing/`, `deepFishingPolicy.cpp` | extends `CliqueMerger` |
| `SendRepeater` | `network/sendRepeater.cpp`, `intraCliqueManager.cpp` | |
| `SyncAgent` | `task/`, `schedule/`, `messageHandler/`, `receiver/`, `syncAgentImp/`, `provisioning/`, `network/topology*.cpp` | composes the four above; one action per task and per handled message |
| `SyncAgentProperties`, `SyncAgentClaims` | | what a unit promises; what the repository says of it that does not hold |
| `Schedule` | `clique/schedule.cpp`, `scheduleParameters.h`, `slots/syncing/`, `fishSchedule.cpp`, `schedule/sleepDuration.cpp`, `syncSchedule.cpp`, `radioPrelude.cpp`, the times in `cliqueMerger.cpp` | ticks relative to the start of the period; `step` is the task the timer is set for; who hears what is nondeterministic |
| `ScheduleClaims` | | the same for times |
| `Message` | `message/message.cpp`, `serializer.cpp`, the encoding in `granularity.cpp` | functions; a field holds the values that its bytes have room for |
| `CliqueTopology` | `network/`, `modules/syncSender.cpp`, `messageFactory.h`, `provisioning/provisionTask.cpp`, the handlers of MasterSync, ControlNetGranularity and ControlScatterClique | extends `Message`; several units of a stable clique, which scatter in the end, with one message on the air at a time, which every unit hears or not |
| `XmitSyncPolicy` | `policy/syncPolicy/`, `syncSlotProperty.cpp`, `work/workOut.cpp`, the callers in `clique/` | extends `SendRepeater`; the sync slots of one unit, whole when it sends, in steps when it listens |
| `Election` | | abstract: what units promise together about mastership |
| `Ensemble` | `clique/`, `slots/sync/`, `messageHandler/`, `syncAgentImp.cpp`, `checkPowerReserve.cpp`, of several units | instantiates `Clique` for each unit and implements `Election` |
| `TrollingPolicyProofs`, `CliqueProofs`, `SyncAgentProofs`, `ScheduleProofs`, `CliqueTopologyProofs`, `XmitSyncPolicyProofs`, `EnsembleProofs` | | theorems |

An assert in the code is never a guard: the step goes on as it does in a build
without assertions, and the assertion is stated as a property. The history
variables of `Schedule` (`sentOffset`, `startedLate`) influence no step; those of
`XmitSyncPolicy` (`silent`, `allowance`) only bound how many due syncs in a row are
displaced (`MaxAllowance`).

The environment is free: other units may send any message of `Traffic` with any
ID at any moment a receiver is on; the supply voltage jumps between any two
measurements; coins fall either way; the application has mail or not; the
provisioning library succeeds or fails. A message that is lost is a message that
is not heard, so that losses are included.

In `SyncAgent` a place in the sync period is one of the zones `start`, `middle`
and `end`, because the code asks nothing else of it there; trolling may move
to any zone. `CliqueTopology` keeps the master of a clique as it is until it
scatters: other changes of mastership are in `SyncAgent`. A unit that has scattered
is foreign to the clique, and what it sends is among the foreign packets.

`Schedule` has the exact times and leaves out roles and messages. Times are
differences far below 2^32 and have no width there; the bytes of a packet have, in
`Message`. A slot that uses the radio is preceded by a slot of time for the crystal,
the prelude, unless the crystal was left on: `step` goes from the end of a slot to
`preludeWSync` or `preludeWFish`, from there a slot later to the slot itself, or
directly to it (`withoutPrelude`, `fishWait`). What is asked about the crystal is
what `radioPrelude.cpp` asks: where the trolling session, the deep fish slot or the
merge slot lies. When less than a slot is left until the slot itself, the
subtraction in `sleepDuration.cpp:34` or `:45` is of unsigned times and not clamped:
an assertion in the library fails or the timer is set for a time of days. The module
takes such a unit to `step = "lost"`, which it does not leave. It is the build
without SoftDevice: there are no provisioning periods in it.

`Ensemble` is the one module in which the other units are not free but run the same
program. Of a period it keeps in which of a few slots a unit has its sync slot, and
a sync slot is: all units of the slot decide (`StartSlot`), each that listens hears
the one sender or not (`Hear`), units of other slots may be fishing there
(`Catch`), and the slot ends for all (`EndSlot`). Two senders collide and nobody
hears either. A lost sync, a slave that sends WorkSync, a unit without power for a
slot, `PowerOff`, `Restart` (of a unit that is on, too), `Scatter` and `Assume`
are *mishaps*, of which there are at most `MaxMishaps` in a behaviour, in any order.
`MaxQuiet` stands for the bound that `XmitSyncPolicy` shows; in the isolated
stage a master only tosses a coin, and a longer silence has a vanishing
probability.

Three things in `Ensemble` are not mishaps and may happen without bound:

- Collisions: any set of masters of a slot may send.
- Merge messages. A unit of another slot may send one into any sync slot at any time:
  more than the code can, where a unit sends only to the clique it caught or left.
  By `messageTypeFromRaw()` (`message/message.cpp:50`) a MergeMyMasterDepart is heard
  as AbandonMastership, and all who listen and hear it assume mastership
  (`HearAbandon`). The other kinds leave mastership alone and only disturb the slot,
  and so does one that nobody hears.
- Reversions. One that leads to a former master ends the period at once
  (`cliqueReversion.cpp:50`, `schedule.cpp:314`), so that the sync slot of the unit
  moves; as `Schedule` shows, such a unit may also have no time for its prelude
  and stop. `EndSlot` moves it to any slot, or to `Off` until a restart.

## Runs

`pass` runs:

- `trolling` (10 slots, sessions of 1 or 3): `InRange`, `CountersInRange`,
  `SessionMatchesDuration` hold under any change of duration and any restart;
  `EverySlotFished`: an undisturbed order visits every slot forever. Ten slots
  are not a multiple of three, so that the up counter skips slots.
- `unit` (unit 3 of IDs 1..4: two better, one worse; a history of two
  records, which fills at once; limits of 0 and 1 so that every count ends; a build
  with SoftDevice, whose provisioning and control messages come on top of all else;
  5.8 million states): the properties of clique, merger, fishing, roles and radio,
  and `ImplementsClique`, the refinement of the abstract clique.
- `liveness` (a build without SoftDevice, see the differences below): `SyncPointsForever`,
  `NoOrphan`, `DeepFishingEnds`, `MergerEnds`.
- `schedule` (6 slots of 4 ticks, offsets at the edges 0, period, a sync in
  time and a late one; sessions of 1 and of 4 slots; 378 thousand states):
  `MergeSlotBeforeSyncPoint`, `OnlySilenceShortens`, `AtMostASlotLate`,
  `OnlyDeepFishingLoses`. A half slot of 2 ticks is more than the latency of 1, the
  relation that matters in the code (25 and 10). A unit in step `lost` stops, so
  deadlock is not an error here.
- `topology` (a master and a slave; packets with room for 64 IDs, 16 offsets and
  4 payloads, so that work value 5 is truncated and payload 3 is garbled; foreign
  packets of type bytes 0, 1 and 3: unknown, MasterSync, ControlNetGranularity;
  one repeat; 433 thousand states): `PowerNeverStale`, `RepeaterInClique`,
  `SyncSurvives`, `RepeatingEnds`, `MasterTakesOverLastTold`, which covers a change
  told while the repeater is busy with another. Control messages of every type are
  repeated, ControlScatterClique among them, up to the master's own scatter, after
  which nothing of the clique is left to observe.

- `xmit` (a cycle of 3 periods as in the code, 2 repeats): `SyncSpanBounded`, what
  `policyParameters.h:40` says, "The max span between MasterSyncs xmitted can be
  twice this", and what it does not say: one cycle more for each due sync whose slot
  a control message takes. The bound is tight: with one period less TLC finds a
  behaviour.
- `ensemble` (3 units in 2 sync slots, a history of 3 records, dropout after 2 silent
  slots, 1 mishap; 337 thousand states): `UnitsAreCliques`, each unit is a `Clique`,
  restarts apart; `ImplementsElection`, the refinement; `SyncIsStable`: only a mishap
  breaks sync; `EventuallyInSync`: once the coins fall well, all units with power
  follow the best of them in one slot, with counts of silent slots that its quiet
  slots explain. Three units are what the repository's README speaks of, and the least
  for a slave between two masters. One mishap is enough to lose a master or to bring
  it back in another slot; collisions, Merge messages and reversions add whatever else
  is needed to get to bad states, without bound. All units may end up off, where
  nothing happens any more, so deadlock is not an error.

Limits in the code that these bounds stand for: 6 history records, 80 missed
syncs, 6 MergeSyncs, 6 deep fishings, 4 repeats, 1600 slots of 50 ticks. The
code compares them with `>` and `<` only; 0, 1 or 2 reach the same branches.

`violation` runs: five statements in comments and assertions that the code does
not keep. Each is listed under `findings` in PROJECT.json with the line it quotes.

- `claim_abandon`: a merger that changes to a better clique in its sync slot goes
  on merging, because the master is compared with the message after its update.
- `claim_offset`: the end of a period that a scatter extended is sent as an offset.
- `claim_period`: a slave hears a scatter that moves the end of a period of 32 ticks to
  48, then a sync a tick late, whose sync point at 33 is moved a period on because it
  comes before 48: the period ends after 65 ticks, more than two normal ones, which
  `clique/schedule.cpp:200` and `:263` assert.
- `claim_type`: the enum of message types has two values that the decoding does
  not know, so that every MergeSync is heard as something else.
- `claim_granularity`: a master with Large sends 2 in its sync, and 2 is read as Small:
  the slave takes over Small and sends with -40 dBm. Small and Large are swapped in
  the other direction as well.

Smaller differences between comments and code, met while modelling and kept in
the models as the code has them:

- `currentCliqueRecordMasterID()` returns the master of record 0, whatever the
  current record is (`cliqueHistory/cliqueHistory.cpp:59`), while
  `clique/cliqueReversion.cpp:46` says "assert currentCliqueRecord is the former
  one": a slave reverts to itself. This is also what keeps masters that are gone
  from being followed again: with the former record, `ImplementsElection` fails;
- a merge slot is scheduled without a radio prelude, and when it is late in the
  period the next sync slot starts without the crystal
  (`schedule/syncSchedule.cpp:214`; `task/task.cpp:161` asserts
  `RadioPrelude::isDone()`);
- `DeepFishingPolicy::isFishSlotEndSyncPeriod()` is true when the fish slot lies far
  from the end of the period (`fishPolicy/deepFishingPolicy.cpp:102`): the crystal is
  left on for long, and is stopped where there is no time to start it again, while
  `schedule/radioPrelude.h:18` says "If there is insufficient time before the next slot,
  the prelude should be left done". `OnlyDeepFishingLoses` names it as the exception;
- `TwoSlotDuration` is three slots (`scheduleParameters.h:121`), and the comment at
  `slots/merge/mergeSchedule.cpp:64` says two;
- a reversion to a former master ends the period one tick later
  (`clique/schedule.cpp:314`). There is then no time for any prelude, and a merge slot
  that was computed before lies past the sync point, against the assertion at
  `slots/merge/mergeSchedule.cpp:27`;
- a control message takes the slot of a sync that is due, and "satisfies
  needXmitSync" (`slots/sync/syncSlot.cpp:84`), but receivers do not sync by
  ControlNetGranularity, ControlScatterClique or work control
  (`messageHandler/syncSlotMsgHandler.cpp:215`);
- `grabMastership()` resets the policy "so we don't xmit sync soon"
  (`clique/cliqueReversion.cpp:24`), which brings back the isolated stage, where
  every second slot is sent in; reversion through `revertToFormerMaster()` resets
  nothing (TODO at line 69);
- a master whose clique others join stays in the isolated stage until it hears
  sync itself (`clique/clique.cpp:115`);
- slaves of a master that is gone keep each other in its clique by WorkSyncs, which
  name it (`modules/syncBehaviour.cpp:139`);
- a master that restarts in another slot has the same ID as the master of its former
  slaves, who take no sync of it for a better clique until they drop out;
- the count of silent slots is also advanced in a slot in which sync was heard
  (`slots/sync/syncSlot.cpp:69`), and not at all in a slot in which the unit sends:
  a unit that has work in every slot never notices that its master is gone;
- `WorkIn::isHeardWork()` has no caller among the tasks and handlers;
- a master that becomes a slave goes on repeating downstream
  (`network/intraCliqueManager.cpp:30`; `topology.cpp:49` asks about it);
- after a late merge slot, provisioning periods can follow each other without end
  (`schedule/syncSchedule.cpp:253`, `syncMode.cpp:116`: "only ... one sync period"),
  since `startSyncSlotWithoutScheduledPrelude()` skips the bookkeeping
  (`task/task.cpp:152`). A unit that does so as a merger stays one, so that
  `MergerEnds` fails in a build with SoftDevice and run `liveness` is of one without;
- after provisioning the radio is configured for its use case
  (`provisioning/provisionTask.cpp:47`, `syncAgentImp/syncAgentImp.cpp:220`) and has its
  power, whatever the granularity of the clique, until that changes
  (`network/granularity.h:63` has it that the record "may not correspond with radio's
  XmitPower"). `PowerNeverStale` admits this and no other difference;
- a granularity that the master is told while it repeats a scatter is remembered
  (`network/intraCliqueManager.cpp:97`) and never taken over, although
  `network/topology.cpp:43` says "Master set its own granularity later": `start()`
  refuses, and the repeater ends with the scatter's callback;
- `initSyncMessage()` asserts `doesCarrySync()`, which is false for the two types
  of work control it is called with (`message/messageFactory.h:121`);
- after `restart()` the first session fished is the second of the order
  (`fishPolicy/syncRecoveryfishPolicy.cpp:61`, which has a TODO at line 92);
- deep fishing for a departed master can end in assumed mastership although the
  unit follows another master by then (`slots/fishing/deepFishing.cpp:37`);
- the count of missed syncs is not reset when a unit becomes a slave by fishing
  (`clique/cliqueReversion.cpp:41`), nor the count of MergeSyncs when a fall in
  power ends a merger (`slots/merge/mergePolicy.cpp:55`);
- a unit that fishes a sync of its own clique merges it with itself
  (`cliqueMerger/cliqueMerger.cpp:220`): `MergerNamesSuperior` says "not worse";
- a reversion ends the period before its normal end (`clique/schedule.cpp:196`),
  and a sync after a scatter in the same slot makes the end sooner (line 243):
  `OnlySilenceShortens` states what remains;
- a fish slot can end after the sync point (`slots/fishing/fishSchedule.cpp:116`);
  `AtMostASlotLate` bounds by how much;
- a sync that a unit hears while it is a merger leaves the time of its merge slot as it
  was (`modules/syncBehaviour.cpp:35`, FUTURE);
- the time of the merge slot counts the start of the crystal twice, so a MergeSync
  can miss the sync slot it is for (`cliqueMerger/cliqueMerger.cpp:212`).

Several are harmless in the field: a period that is too long is followed by a
normal one.

## Fairness

`Spec` of `SyncAgent` assumes that a task whose timer is set runs
(`WF(TimerTask)`: the timer is hardware and messages do not disable it) and that
a provisioning session ends with a callback (`WF(ProvisioningDone)`: the library
has its own timeout). No message is assumed to arrive. `MergerEnds` also needs
`CoinFairness`, strong fairness of the toss in `shouldScheduleMerge()`: a fair
coin shows heads infinitely often with probability one. `TrollingPolicy` assumes
that periods go on. `Schedule` states safety only. `CliqueTopology` assumes that
a transmission ends (the radio sends synchronously) and strong fairness of the
coin in `shouldSend()` for each unit; messages may be lost without bound, so its
liveness speaks of sending, not of hearing.

`Ensemble` assumes that a slot in progress ends, after those who can hear it heard
it or a loss was counted (`WF` of ending or hearing); that the sync slot of every slot
in which there are units comes again with every period; and strong fairness of
trolling: when the best unit can be caught in its slot again and again, it is
(`EverySlotFished` of `TrollingPolicy`; `MergerEnds` and `DeepFishingEnds` say that a
unit trolls again and again).

What coins and other units do is not a matter of fairness but the antecedent of
`EventuallyInSync`: from some time on no two messages collide and nobody tells
another clique to merge (`Calm`). `Calm` does not hold for ever in the field, where
masters toss coins and merge whom they catch. But what the property says is
enough for sync with probability one: from every state that can be reached, a
stretch of calm slots leads to `InSync`, there are finitely many states, and so
the probability that such a stretch comes within a fixed number of periods has a bound
above zero, again and again until it comes. And once there, `SyncIsStable` says
that sync stays without any calm: whatever the coins say, only a mishap breaks it.

`XmitSyncPolicy` states safety only.

## Theorems

For every value of the constants that the ASSUMEs admit:

- `TrollingPolicyProofs`: types, `InRange`, `SessionMatchesDuration`. `InRange` is
  not inductive: the counters, not the session, decide about the next session,
  and a longer duration must not meet a counter near the end. The inductive
  invariant adds `CountersInRange` (both counters start a session of the current
  duration in range; the duration is long only when `isMaxFishing`).
- `CliqueProofs`: a slave has a former record and never follows a worse master
  (`CliqueInv`, with the types and that the records up to the index are of masters
  it followed), and masters only get better until it is its own.
- `SyncAgentProofs`: `UnitImplementsClique`, the refinement; from it, without
  looking at tasks again, the clique's invariants for the unit. `UnitRoles`: four
  conjuncts that are inductive together and none alone. `UnitTypeOK`: the counts
  stay within limits; the count of deep fishings needs `DeepFishingCounted`, which
  relates it to the task between counting and the check. `UnitMergerNamesSuperior`.
- `ScheduleProofs`: types and `MergeSlotBeforeSyncPoint`, for every slot duration,
  number of slots, latency and offset; the invariant relates the time of the merge
  slot to the sync slot and to the normal period (`MergeTimes`), whichever way it was
  computed, and the property follows because nothing but a reversion ends a period
  before its normal end. `OnlySilenceShortens` from the lemma that a sync never moves
  the end before the normal end.
  `AtMostASlotLate` and `OnlyDeepFishingLoses` need a second invariant, `TimesInv`,
  step by step through the period and its preludes. The sync slot is over before the
  sync point (`SyncSlotEnds`). A trolling session starts after a prelude for which
  there was time, or with the crystal on, and ends with the period at the latest
  (`FishSlotScheduled`, `CatchTimes`); where the crystal is not left on at its end,
  there is time for the prelude (`FishSlotEndInTime`). All of this rests on
  `ScheduleLatenessBounded`, that a period never starts later than its last slot; it
  is needed because a reversion makes a period end while a long fish slot is still to
  come, and the next one starts that much later. The arithmetic over slots
  (`SessionInPeriod`) is the one place where products occur.
  `ScheduleSentOffsetExact` follows: `SyncOffset` never clamps, and a sync tells the
  sync point the sender keeps.

- `CliqueTopologyProofs`: `SyncSurvives` for every width of the fields, from
  `CodecInverse`, that unserialize inverts serialize on what fits and carries sync;
  `PowerNeverStale` and `RepeaterInClique` for every clique and number of repeats, from
  `TrySetInv`, `StartInv` and `StopInv`. They need the types of repeater and memory, so
  that what is repeated or enacted later is in range: the invariant is all together.
  `TopologyTakesOverAtEnd`: the master stops repeating a granularity only with its last
  repeat (`OnlyLastRepeatStops`), and then takes over what it was told last, which is
  valid (`MemoStaysValid`); a repeater busy with a scatter is another case, and takes
  nothing over. With `RepeatingEnds`, which is model-checked, this is
  `MasterTakesOverLastTold` at any size.

- `SyncAgentProofs` also has `UnitPreludeMatchesTask`, inductive as it stands (each
  task leaves the crystal as the one it schedules expects it), and
  `UnitPendingCallbacks`.
- `XmitSyncPolicyProofs`: `PolicySyncSpanBounded` for every cycle and number of
  repeats. The span alone is not inductive: the invariant `WithinSpan` bounds it by
  the position of the clock, with less room when the alarm of this cycle is past
  or disarmed than when it is still to come.
- `EnsembleProofs`: `EnsembleImplementsElection` for every set of units, slots and
  number of mishaps. The invariant is the types and that record 0 of every history
  is the unit itself, so that a reversion leads to self and never to a remembered
  master; `EnsembleNoResurrection` follows from the abstract specification alone.
  `EnsembleUnitsAreCliques`: each step is, for each unit, a step of module `Clique`, a
  restart or a stutter, with one lemma for each kind of change; `EnsembleCliquesAreSafe`
  is what the units inherit. `EnsembleSyncIsStable`: that all follow the best unit in
  one slot is not inductive, since a fisher that joins with a count near the limit
  drops out again. `InSync` therefore includes `CountsMatch`: between slots a slave
  has counted at most one silent slot more than the master was quiet for (the slot in
  which it sends is counted as well), and while the master sends, a slave that still
  listens may have any count because the sync will reset it. `MaxQuiet < MaxMissing`
  is used exactly once, where a slot ends without a sync. Merge messages come from
  units of another slot, and in sync there are none (`NobodyAbandons`).
  `EnsembleSyncForever`: with no mishap left, sync lasts.

Only model-checked: all liveness (`EverySlotFished`, `SyncPointsForever`, `NoOrphan`,
`DeepFishingEnds`, `MergerEnds`, `RepeatingEnds`, `MasterTakesOverLastTold`,
`EventuallyInSync`), which needs fairness. Every invariant and action property of a
passing run is also a theorem. The inductive invariants were checked by TLC on the
instances of the runs before they were proved.

## Not modelled

- Radio, clock, alarm clock, timer, mailbox, provisioning library: external, by what
  the code uses.
- Of work: the application's callbacks, and the flag in `work/workIn.cpp` that
  nobody reads. Messages of work control never reach their handlers
  (`claim_type`).
- Drift of clocks between units, and units out of range of each other: in `Ensemble`
  all units of a slot hear a clear message or it is counted lost.
- Logging, the test program, and code that is not reached from the tasks: the former
  design in `sleepingSlots/`, `sleepers/` and `cruft/`, and `SyncAgentImp::scatter()`.
  The functions of `policy/fishWaitingPolicy.cpp` are empty.

## Plan

Done, in this order: `TrollingPolicy`; `Clique` with its abstract specification;
`CliqueMerger`, `FishingManager`, `SendRepeater`, `SyncAgent`; `Schedule`;
`Message` and `CliqueTopology`; `XmitSyncPolicy`; `Ensemble` and `Election`; proofs.

Next: the step-by-step facts behind the leads-to properties of the
unit (that the counts of `DeepFishingEnds`, `MergerEnds` and `NoOrphan` move
only towards their end while nothing is heard), as action properties in
`SyncAgentProofs`; the liveness itself stays with TLC.
