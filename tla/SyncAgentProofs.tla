--------------------------- MODULE SyncAgentProofs ---------------------------
(***************************************************************************)
(* One unit, for every set of IDs, every limit and every traffic: its      *)
(* clique behaves as specified, and the chain of tasks, the radio, the     *)
(* roles and the modes agree.                                              *)
(***************************************************************************)
EXTENDS SyncAgentProperties, CliqueProofs

-----------------------------------------------------------------------------
(* The unit implements its clique *)

\* No task and no handler changes the clique but by a step of the clique.
LEMMA StepOfClique == [Next]_vars => [CliqueNext]_cliqueVars
<1> SUFFICES ASSUME [Next]_vars PROVE CliqueNext \/ UNCHANGED cliqueVars
  OBVIOUS
<1>1. CASE TimerTask
  <2>1. CASE EndSyncSlotListen
    BY <2>1 DEF EndSyncSlotListen, CliqueNext
  <2>2. CASE StartSyncSlotToSendControl
    BY <2>2 DEF StartSyncSlotToSendControl, Scatter, GrabMastership, CliqueNext
  <2>3. CASE FishSlotEnd
    BY <2>3 DEF FishSlotEnd, CheckFishingDone, DoneCallback, CliqueNext
  <2> QED
    BY <1>1, <2>1, <2>2, <2>3
    DEF TimerTask, StartSyncPeriodMaintain, RadioPreludeTaskWSync,
        SkipSyncSlotToMaintain, StartSyncSlotToSend, StartSyncSlotToListen, SendSync,
        EndSyncSlotSend, RadioPreludeTaskWFish, FishSlotStart, MergerStartAndEnd,
        ProvisionStart, ProvisionEnd
<1>2. CASE ProvisioningDone
  BY <1>2 DEF ProvisioningDone, ProvisionSucceed, ProvisionFail
<1>3. CASE RadioMessage
  <2>1. ASSUME NEW id \in IDs, HearSync(id) PROVE CliqueNext
    <3>1. FollowMaster(id)
      BY <2>1 DEF HearSync, FollowMaster
    <3> QED BY <3>1 DEF CliqueNext
  <2>2. ASSUME NEW id \in IDs, CatchWhileTrolling(id)
        PROVE  CliqueNext \/ UNCHANGED cliqueVars
    <3>1. CASE IsOtherCliqueBetter(id)
      <4>1. FollowMaster(id)
        BY <2>2, <3>1 DEF CatchWhileTrolling, ToMergerFromFisher, InitFromMsg,
                          InitMergeMyClique, FollowMaster
      <4> QED BY <4>1 DEF CliqueNext
    <3>2. CASE ~IsOtherCliqueBetter(id)
      BY <2>2, <3>2 DEF CatchWhileTrolling, ToMergerFromFisher, InitFromMsg,
                        InitMergeOtherClique
    <3> QED BY <3>1, <3>2
  <2>3. ASSUME NEW id \in IDs, CatchWhileDeepFishing(id) PROVE CliqueNext
    <3>1. FollowMaster(id)
      BY <2>3 DEF CatchWhileDeepFishing, FollowMaster
    <3> QED BY <3>1 DEF CliqueNext
  <2>4. CASE HearAbandonMastership
    BY <2>4 DEF HearAbandonMastership, CliqueNext
  <2>5. CASE HearScatter
    BY <2>5 DEF HearScatter, Scatter, GrabMastership, CliqueNext
  <2> QED
    BY <1>3, <2>1, <2>2, <2>3, <2>4, <2>5
    DEF RadioMessage, HearMerge, HearGranularity, GiveUpFishSlot
<1>4. CASE UNCHANGED vars
  BY <1>4 DEF vars, cliqueVars
<1> QED BY <1>1, <1>2, <1>3, <1>4 DEF Next

\* The unit implements the specification of its clique.
THEOREM UnitImplementsClique == Spec => ImplementsClique
<1>1. Init => CliqueInit
  BY DEF Init
<1> QED BY <1>1, StepOfClique, PTL DEF Spec, ImplementsClique, CliqueSpec

\* Therefore it never follows a worse master and never steps back beyond the
\* first record of its clique history, whatever it hears and misses.
THEOREM UnitCliqueInvariant ==
    Spec => [](SlaveHasFormerClique /\ MasterNeverWorseThanSelf)
<1>1. CliqueInv => SlaveHasFormerClique /\ MasterNeverWorseThanSelf
  BY DEF CliqueInv
<1> QED BY <1>1, UnitImplementsClique, CliqueInvariant, PTL DEF ImplementsClique

\* And the masters it follows get better until it is its own master again.
THEOREM UnitOnlyBetterMasters == Spec => OnlyBetterMasters
  BY UnitImplementsClique, CliqueOnlyBetterMasters DEF ImplementsClique

-----------------------------------------------------------------------------
(* Slots, roles and modes *)

\* The inductive invariant of roles.  The four agree only together: a catch makes a
\* merger of whoever listens in the fish slot, and only the task that is
\* scheduled says who that is.
RoleInv ==
    ListensOnlyInItsSlot /\ SlotFindsItsRole /\ RoleMatchesMode /\ MergerActiveIffRole

\* The task scheduled after a sync slot is for the role and mode it leaves.
LEMMA ScheduledForRole ==
    ASSUME NEW z, ScheduleNonSyncTask(z)
    PROVE  \/ task' \in {"radioPreludeTaskWSync", "provisionStart"}
           \/ /\ task' \in {"radioPreludeTaskWFish", "fishSlotStart"}
              /\ role = "Fisher" /\ mode = "SyncAndFishMerge"
           \/ task' = "mergerStartAndEnd" /\ role = "Merger"
  BY DEF ScheduleNonSyncTask, ScheduleFishing, ScheduleMerger, OmitNonsyncSlot

\* A change of mode brings the role and the merger along.
LEMMA BookkeepingKeepsRole ==
    ASSUME RoleMatchesMode, MergerActiveIffRole, BookkeepingAtPreludeToSyncSlot
    PROVE  RoleMatchesMode' /\ MergerActiveIffRole'
<1>1. PICK p \in PowerLevels : \/ TryModesWithoutFishing(p)
                              \/ TryModesWhileFishing(p)
                              \/ TryModesWhileProvisioning(p)
  BY DEF BookkeepingAtPreludeToSyncSlot
<1>2. CASE TryModesWithoutFishing(p)
  BY <1>2 DEF TryModesWithoutFishing, RoleMatchesMode, MergerActiveIffRole, mergerVars
<1>3. CASE ToSyncOnly
  BY <1>3 DEF ToSyncOnly, RoleMatchesMode, MergerActiveIffRole
<1>4. CASE TryModesWhileFishing(p) /\ ~ToSyncOnly
  BY <1>4 DEF TryModesWhileFishing, RoleMatchesMode, MergerActiveIffRole, mergerVars
<1>5. CASE TryModesWhileProvisioning(p) /\ ~ToSyncOnly
  BY <1>5 DEF TryModesWhileProvisioning, RoleMatchesMode, MergerActiveIffRole, mergerVars
<1> QED BY <1>1, <1>2, <1>3, <1>4, <1>5

\* The invariant holds when the loop starts.
LEMMA InitRoleInv == Init => RoleInv
  BY DEF Init, MergerInit, RoleInv, ListensOnlyInItsSlot, SlotFindsItsRole, RoleMatchesMode,
         MergerActiveIffRole

\* Every task, callback and message keeps it.
LEMMA StepRoleInv == RoleInv /\ [Next]_vars => RoleInv'
<1> SUFFICES ASSUME RoleInv, [Next]_vars PROVE RoleInv'
  OBVIOUS
<1> USE DEF RoleInv
<1>1. CASE StartSyncPeriodMaintain \/ RadioPreludeTaskWSync
  <2>1. RoleMatchesMode' /\ MergerActiveIffRole'
    BY <1>1, BookkeepingKeepsRole DEF StartSyncPeriodMaintain, RadioPreludeTaskWSync
  <2>2. ListensOnlyInItsSlot' /\ SlotFindsItsRole'
    BY <1>1 DEF StartSyncPeriodMaintain, RadioPreludeTaskWSync, ListensOnlyInItsSlot,
                SlotFindsItsRole
  <2> QED BY <2>1, <2>2
<1>2. ASSUME \/ SkipSyncSlotToMaintain \/ StartSyncSlotToSend \/ StartSyncSlotToSendControl
             \/ StartSyncSlotToListen \/ SendSync
      PROVE  RoleInv'
  <2>1. RoleMatchesMode' /\ MergerActiveIffRole'
    BY <1>2 DEF SkipSyncSlotToMaintain, StartSyncSlotToSend, StartSyncSlotToSendControl,
                StartSyncSlotToListen, SendSync, modeVars, mergerVars, RoleMatchesMode,
                MergerActiveIffRole
  <2>2. ListensOnlyInItsSlot' /\ SlotFindsItsRole'
    BY <1>2 DEF SkipSyncSlotToMaintain, StartSyncSlotToSend, StartSyncSlotToSendControl,
                StartSyncSlotToListen, SendSync, modeVars, ListensOnlyInItsSlot,
                SlotFindsItsRole, StartTasks, SendTasks
  <2> QED BY <2>1, <2>2
<1>3. CASE EndSyncSlotListen \/ EndSyncSlotSend
  <2>1. PICK z : ScheduleNonSyncTask(z)
    BY <1>3 DEF EndSyncSlotListen, EndSyncSlotSend
  <2>2. RoleMatchesMode' /\ MergerActiveIffRole'
    BY <1>3 DEF EndSyncSlotListen, EndSyncSlotSend, modeVars, mergerVars, RoleMatchesMode,
                MergerActiveIffRole
  <2>3. ListensOnlyInItsSlot' /\ SlotFindsItsRole'
    BY <1>3, <2>1, ScheduledForRole
    DEF EndSyncSlotListen, EndSyncSlotSend, StopReceiver, modeVars, ListensOnlyInItsSlot,
        SlotFindsItsRole
  <2> QED BY <2>2, <2>3
<1>4. CASE RadioPreludeTaskWFish \/ FishSlotStart \/ FishSlotEnd
  <2>1. RoleMatchesMode' /\ MergerActiveIffRole'
    BY <1>4 DEF RadioPreludeTaskWFish, FishSlotStart, FishSlotEnd, modeVars, mergerVars,
                RoleMatchesMode, MergerActiveIffRole
  <2>2. ListensOnlyInItsSlot' /\ SlotFindsItsRole'
    BY <1>4 DEF RadioPreludeTaskWFish, FishSlotStart, FishSlotEnd, StopReceiver,
                NextSyncSlot, modeVars, ListensOnlyInItsSlot, SlotFindsItsRole
  <2> QED BY <2>1, <2>2
<1>5. CASE MergerStartAndEnd
  <2>1. RoleMatchesMode' /\ MergerActiveIffRole'
    BY <1>5 DEF MergerStartAndEnd, StopMerger, SlotFindsItsRole, RoleMatchesMode,
                MergerActiveIffRole
  <2>2. ListensOnlyInItsSlot' /\ SlotFindsItsRole'
    BY <1>5 DEF MergerStartAndEnd, NextSyncSlot, ListensOnlyInItsSlot, SlotFindsItsRole
  <2> QED BY <2>1, <2>2
<1>6. CASE ProvisionStart \/ ProvisionEnd \/ ProvisioningDone
  <2>0. /\ UNCHANGED <<listening, modeVars, mergerVars>>
        /\ task \in {"provisionStart", "provisioning", "provisionEnd"}
        /\ task' \in {"provisioning", "provisionEnd", "radioPreludeTaskWSync",
                      "startSyncSlotWithoutScheduledPrelude"}
    BY <1>6 DEF ProvisionStart, ProvisionEnd, ProvisioningDone, ProvisionSucceed,
                ProvisionFail, NextSyncSlot
  <2>1. RoleMatchesMode' /\ MergerActiveIffRole'
    BY <2>0 DEF modeVars, mergerVars, RoleMatchesMode, MergerActiveIffRole
  <2>2. ListensOnlyInItsSlot' /\ SlotFindsItsRole'
    BY <2>0 DEF modeVars, ListensOnlyInItsSlot, SlotFindsItsRole
  <2> QED BY <2>1, <2>2
<1>7. ASSUME NEW id \in IDs, HearSync(id) PROVE RoleInv'
  <2>1. /\ isActive' <=> isActive
        /\ UNCHANGED <<role, mode, task>> /\ listening' = "off" /\ listening = "sync"
    <3>1. ~IsMergerStopped(id, masterID')
      BY <1>7 DEF HearSync, UpdateMastership, IsMergerStopped
    <3> QED BY <1>7, <3>1 DEF HearSync
  <2> QED BY <2>1 DEF ListensOnlyInItsSlot, SlotFindsItsRole, RoleMatchesMode,
                      MergerActiveIffRole
<1>8. ASSUME NEW id \in IDs, CatchWhileTrolling(id) PROVE RoleInv'
  BY <1>8 DEF CatchWhileTrolling, ToMergerFromFisher, InitFromMsg, ListensOnlyInItsSlot,
              SlotFindsItsRole, RoleMatchesMode, MergerActiveIffRole
<1>9. ASSUME NEW id \in IDs, CatchWhileDeepFishing(id) PROVE RoleInv'
  BY <1>9 DEF CatchWhileDeepFishing, modeVars, mergerVars, ListensOnlyInItsSlot,
              SlotFindsItsRole, RoleMatchesMode, MergerActiveIffRole
<1>10. CASE GiveUpFishSlot
  BY <1>10 DEF GiveUpFishSlot, modeVars, mergerVars, ListensOnlyInItsSlot,
               SlotFindsItsRole, RoleMatchesMode, MergerActiveIffRole
<1>11. ASSUME \/ \E type \in MergeTypes : HearMerge(type)
              \/ HearAbandonMastership \/ HearGranularity \/ HearScatter
              \/ UNCHANGED vars
       PROVE  RoleInv'
  <2>1. UNCHANGED <<loopVars, modeVars, mergerVars>>
    BY <1>11 DEF HearMerge, HearAbandonMastership, HearGranularity, HearScatter, vars
  <2> QED BY <2>1 DEF loopVars, modeVars, mergerVars, ListensOnlyInItsSlot,
                      SlotFindsItsRole, RoleMatchesMode, MergerActiveIffRole
<1> QED
  BY <1>1, <1>2, <1>3, <1>4, <1>5, <1>6, <1>7, <1>8, <1>9, <1>10, <1>11
  DEF Next, TimerTask, RadioMessage

\* The radio listens only in its slots, a slot finds the role it was scheduled
\* for, and role, mode and merger agree, in every build and at every power.
THEOREM UnitRoles ==
    Spec => [](ListensOnlyInItsSlot /\ SlotFindsItsRole /\ RoleMatchesMode
                 /\ MergerActiveIffRole)
<1>1. RoleInv => ListensOnlyInItsSlot /\ SlotFindsItsRole /\ RoleMatchesMode
                   /\ MergerActiveIffRole
  BY DEF RoleInv
<1> QED BY InitRoleInv, StepRoleInv, <1>1, PTL DEF Spec

\* No handler runs outside its slot.
THEOREM UnitListensOnlyInItsSlot == Spec => []ListensOnlyInItsSlot
  BY UnitRoles, PTL

\* No merger or fisher survives a fall in power.
THEOREM UnitRoleMatchesMode == Spec => []RoleMatchesMode
  BY UnitRoles, PTL

\* The merger's own flag and the role agree, as makeMergeMsg() asserts.
THEOREM UnitMergerActiveIffRole == Spec => []MergerActiveIffRole
  BY UnitRoles, PTL

-----------------------------------------------------------------------------
(* Types *)

\* The part of TypeOK about tasks, the radio and the modes.
LoopTypeOK ==
    /\ task \in Tasks
    /\ isRadioPreludeDone \in BOOLEAN
    /\ listening \in {"off", "sync", "fish"}
    /\ mode \in {"Maintain", "SyncOnly", "SyncAndFishMerge", "SyncAndProvision"}
    /\ role \in {"Merger", "Fisher", "NoFishing"}
    /\ provisionCounter \in 0 .. PeriodsPerProvision

\* The count of deep fishings is checked at every fish slot's end, so that it
\* passes its limit only while the last fish slot is scheduled or fished.
DeepFishingCounted ==
    fishingMode = "DeepFishing"
      /\ task \notin {"radioPreludeTaskWFish", "fishSlotStart", "fishSlotEnd"}
    => countFishings =< CountFishingsPerDeepFishing

\* The merger's state keeps its type: the count of MergeSyncs stays in bounds.
LEMMA StepMergerType == CliqueTypeOK /\ MergerTypeOK /\ [Next]_vars => MergerTypeOK'
<1> SUFFICES ASSUME CliqueTypeOK, MergerTypeOK, [Next]_vars PROVE MergerTypeOK'
  OBVIOUS
<1> USE MergerAssumption
<1>1. CASE UNCHANGED mergerVars
  BY <1>1 DEF mergerVars, MergerTypeOK
<1>2. CASE ToSyncOnly
  BY <1>2 DEF ToSyncOnly, MergerTypeOK
<1>3. CASE BookkeepingAtPreludeToSyncSlot
  BY <1>1, <1>2, <1>3
  DEF BookkeepingAtPreludeToSyncSlot, TryModesWithoutFishing, TryModesWhileFishing,
      TryModesWhileProvisioning
<1>4. ASSUME NEW id \in IDs, HearSync(id) PROVE MergerTypeOK'
  <2>1. isActive' \in BOOLEAN
    BY <1>4, Zenon DEF HearSync, StopMerger, MergerTypeOK
  <2> QED BY <1>4, <2>1 DEF HearSync, StopMerger, MergerTypeOK
<1>5. ASSUME NEW id \in IDs, CatchWhileTrolling(id) PROVE MergerTypeOK'
  BY <1>5 DEF CatchWhileTrolling, ToMergerFromFisher, InitFromMsg, PeriodTimeToMerge,
              InitMergeMyClique, InitMergeOtherClique, MergerTypeOK, KindsOfMerger, CliqueTypeOK
<1>6. CASE MergerStartAndEnd
  <2>1. countSentMergeSyncs' \in 0 .. CountSyncsPerMerger
    BY <1>6 DEF MergerStartAndEnd, StopMerger, IsCompletionOfMergerRole, CountedMergeSyncs,
                MergerTypeOK
  <2>2. isActive' \in BOOLEAN
    BY <1>6, Zenon DEF MergerStartAndEnd, StopMerger, MergerTypeOK
  <2> QED BY <1>6, <2>1, <2>2 DEF MergerStartAndEnd, MergerTypeOK
<1> QED
  BY <1>1, <1>3, <1>4, <1>5, <1>6
  DEF Next, TimerTask, ProvisioningDone, RadioMessage, StartSyncPeriodMaintain,
      RadioPreludeTaskWSync, SkipSyncSlotToMaintain, StartSyncSlotToSend,
      StartSyncSlotToSendControl, StartSyncSlotToListen, SendSync, EndSyncSlotListen,
      EndSyncSlotSend, RadioPreludeTaskWFish, FishSlotStart, FishSlotEnd, ProvisionStart,
      ProvisionEnd, ProvisionSucceed, ProvisionFail, CatchWhileDeepFishing, HearMerge,
      HearAbandonMastership, HearGranularity, HearScatter, GiveUpFishSlot, vars

\* The repeater's state keeps its type: its counter stays in bounds.
LEMMA StepRepeaterType == RepeaterTypeOK /\ [Next]_vars => RepeaterTypeOK'
<1> SUFFICES ASSUME RepeaterTypeOK, [Next]_vars PROVE RepeaterTypeOK'
  OBVIOUS
<1> USE RepeaterAssumption
<1>1. CASE UNCHANGED repeaterVars
  BY <1>1 DEF repeaterVars, RepeaterTypeOK
<1>2. ASSUME NEW cb \in DoneCallbacks, StartRepeating(cb) PROVE RepeaterTypeOK'
  <2>1. CASE ~repeaterIsActive
    <3>1. repeaterIsActive' \in BOOLEAN
      BY <1>2, <2>1, Zenon DEF StartRepeating
    <3>2. onDoneCallback' = cb /\ repeaterCounter' = 0
      BY <1>2, <2>1 DEF StartRepeating
    <3> QED BY <3>1, <3>2 DEF RepeaterTypeOK
  <2> QED BY <1>1, <1>2, <2>1 DEF StartRepeating
<1>3. CASE StopRepeating
  BY <1>3 DEF StopRepeating, RepeaterTypeOK
<1>4. CASE CountRepeat
  BY <1>4 DEF CountRepeat, IsRepeatingDone, RepeaterTypeOK
<1>5. CASE HearGranularity \/ HearScatter \/ ProvisioningDone
  <2>1. \/ UNCHANGED repeaterVars \/ StopRepeating
        \/ \E cb \in DoneCallbacks : StartRepeating(cb)
    <3>1. CASE HearGranularity \/ HearScatter
      BY <3>1 DEF HearGranularity, HearScatter, RepeatDownstream, DoneCallbacks
    <3>2. CASE ProvisioningDone
      BY <3>2 DEF ProvisioningDone, ProvisionSucceed, ProvisionFail, ProvisionTopology,
                  ProvisionWork, RepeatDownstream, RepeatUpstream, DoneCallbacks
    <3> QED BY <1>5, <3>1, <3>2
  <2> QED BY <1>1, <1>2, <1>3, <2>1
<1> QED
  BY <1>1, <1>4, <1>5
  DEF Next, TimerTask, RadioMessage, StartSyncPeriodMaintain, RadioPreludeTaskWSync,
      SkipSyncSlotToMaintain, StartSyncSlotToSend, StartSyncSlotToSendControl,
      StartSyncSlotToListen, SendSync, EndSyncSlotListen, EndSyncSlotSend,
      RadioPreludeTaskWFish, FishSlotStart, FishSlotEnd, MergerStartAndEnd, ProvisionStart,
      ProvisionEnd, HearSync, CatchWhileTrolling, CatchWhileDeepFishing, HearMerge,
      HearAbandonMastership, GiveUpFishSlot, vars

\* The fishing manager's state keeps its type: a deep fishing cannot be counted
\* beyond its limit, since the radio hears Merge messages only in sync slots.
LEMMA StepFishingType ==
    CliqueTypeOK /\ FishingTypeOK /\ DeepFishingCounted /\ ListensOnlyInItsSlot /\ [Next]_vars
      => FishingTypeOK' /\ DeepFishingCounted'
<1> SUFFICES ASSUME CliqueTypeOK, FishingTypeOK, DeepFishingCounted, ListensOnlyInItsSlot,
                    [Next]_vars
             PROVE  FishingTypeOK' /\ DeepFishingCounted'
  OBVIOUS
<1> USE FishingAssumption
<1> DEFINE FishTasks == {"radioPreludeTaskWFish", "fishSlotStart", "fishSlotEnd"}
           Kept == <<fishingMode, fishPolicyDoneCallback, deepZone>>
<1>1. ASSUME UNCHANGED fishingVars, task' \notin FishTasks => task \notin FishTasks
      PROVE  FishingTypeOK' /\ DeepFishingCounted'
  BY <1>1 DEF fishingVars, FishingTypeOK, DeepFishingCounted
<1>2. ASSUME UNCHANGED <<Kept, countFishings>>, trollZone' \in Zones, isMaxFishing' \in BOOLEAN,
             task \notin FishTasks
      PROVE  FishingTypeOK' /\ DeepFishingCounted'
  BY <1>2 DEF FishingTypeOK, DeepFishingCounted
<1>3. CASE BookkeepingAtPreludeToSyncSlot /\ task \notin FishTasks
  <2>1. PICK v \in PowerLevels : Manage(IsPowerHigh(v))
    BY <1>3 DEF BookkeepingAtPreludeToSyncSlot
  <2>2. isMaxFishing' \in BOOLEAN
    BY <2>1 DEF Manage, IsPowerHigh
  <2>3. UNCHANGED <<Kept, countFishings>> /\ trollZone' \in Zones
    BY <2>1 DEF Manage, FishingTypeOK, Zones
  <2> QED BY <1>2, <1>3, <2>2, <2>3
<1>4. CASE GrabMastership /\ task \notin FishTasks
  BY <1>2, <1>4 DEF GrabMastership, RestartTrollingMode, FishingTypeOK, Zones
<1>5. CASE EndSyncSlotListen \/ EndSyncSlotSend
  <2>1. PICK z \in Zones : ScheduleNonSyncTask(z)
    BY <1>5 DEF EndSyncSlotListen, EndSyncSlotSend, FishingTypeOK, Zones
  <2>2. UNCHANGED <<Kept, isMaxFishing>> /\ trollZone' \in Zones
    BY <2>1 DEF ScheduleNonSyncTask, ZonesAfterPreFishing
  <2>3. \/ countFishings' = countFishings
        \/ countFishings' = countFishings + 1 /\ task' \in FishTasks
             /\ fishingMode = "DeepFishing"
    BY <2>1 DEF ScheduleNonSyncTask, ScheduleFishing, ScheduleMerger, OmitNonsyncSlot
  <2>4. task \notin FishTasks
    BY <1>5 DEF EndSyncSlotListen, EndSyncSlotSend
  <2> QED BY <2>2, <2>3, <2>4 DEF FishingTypeOK, DeepFishingCounted
<1>6. CASE FishSlotEnd
  <2>1. /\ UNCHANGED <<countFishings, fishPolicyDoneCallback, deepZone, trollZone,
                       isMaxFishing>>
        /\ fishingMode' = IF IsDeepFishingDone THEN "Trolling" ELSE fishingMode
    BY <1>6 DEF FishSlotEnd, CheckFishingDone
  <2> QED BY <2>1 DEF IsDeepFishingDone, FishingTypeOK, DeepFishingCounted
<1>7. ASSUME NEW type \in MergeTypes, HearMerge(type)
      PROVE  FishingTypeOK' /\ DeepFishingCounted'
  BY <1>7 DEF HearMerge, SwitchToDeepFishing, CliqueTypeOK, FishingTypeOK,
              DeepFishingCounted, Callbacks
<1>8. ASSUME NEW id \in IDs, CatchWhileDeepFishing(id)
      PROVE  FishingTypeOK' /\ DeepFishingCounted'
  BY <1>8 DEF CatchWhileDeepFishing, FishingTypeOK, DeepFishingCounted
<1>9. CASE StartSyncSlotToSendControl \/ HearScatter
  <2>1. task \notin FishTasks
    BY <1>9 DEF StartSyncSlotToSendControl, HearScatter, StartTasks, ListensOnlyInItsSlot
  <2>2. GrabMastership \/ UNCHANGED fishingVars
    BY <1>9 DEF StartSyncSlotToSendControl, HearScatter, Scatter
  <2> QED BY <1>1, <1>4, <2>1, <2>2
<1>10. CASE StartSyncPeriodMaintain \/ RadioPreludeTaskWSync
  BY <1>3, <1>10 DEF StartSyncPeriodMaintain, RadioPreludeTaskWSync
<1>11. ASSUME \/ SkipSyncSlotToMaintain \/ StartSyncSlotToSend \/ StartSyncSlotToListen
              \/ SendSync \/ RadioPreludeTaskWFish \/ FishSlotStart \/ MergerStartAndEnd
              \/ ProvisionStart \/ ProvisionEnd \/ ProvisioningDone
       PROVE  UNCHANGED fishingVars /\ (task' \notin FishTasks => task \notin FishTasks)
  BY <1>11
  DEF SkipSyncSlotToMaintain, StartSyncSlotToSend, StartSyncSlotToListen, SendSync,
      RadioPreludeTaskWFish, FishSlotStart, MergerStartAndEnd, ProvisionStart, ProvisionEnd,
      ProvisioningDone, ProvisionSucceed, ProvisionFail, StartTasks, SendTasks
<1>12. ASSUME \/ \E id \in IDs : HearSync(id) \/ CatchWhileTrolling(id)
              \/ HearAbandonMastership \/ HearGranularity \/ GiveUpFishSlot
              \/ UNCHANGED vars
       PROVE  UNCHANGED <<fishingVars, task>>
  BY <1>12
  DEF HearSync, CatchWhileTrolling, HearAbandonMastership, HearGranularity, GiveUpFishSlot,
      loopVars, vars
<1> QED
  BY <1>1, <1>5, <1>6, <1>7, <1>8, <1>9, <1>10, <1>11, <1>12
  DEF Next, TimerTask, RadioMessage

\* The mode, the role and the provisioning counter keep their types.
LEMMA StepModeType ==
    ASSUME LoopTypeOK, [Next]_vars
    PROVE  /\ mode' \in {"Maintain", "SyncOnly", "SyncAndFishMerge", "SyncAndProvision"}
           /\ role' \in {"Merger", "Fisher", "NoFishing"}
           /\ provisionCounter' \in 0 .. PeriodsPerProvision
<1> USE AgentAssumption DEF LoopTypeOK
<1>1. CASE StartSyncPeriodMaintain \/ RadioPreludeTaskWSync
  <2>1. PICK p \in PowerLevels : \/ TryModesWithoutFishing(p)
                                \/ TryModesWhileFishing(p)
                                \/ TryModesWhileProvisioning(p)
    BY <1>1 DEF StartSyncPeriodMaintain, RadioPreludeTaskWSync, BookkeepingAtPreludeToSyncSlot
  <2>2. CASE TryModesWithoutFishing(p)
    BY <2>2 DEF TryModesWithoutFishing
  <2>3. CASE TryModesWhileFishing(p)
    BY <2>3 DEF TryModesWhileFishing, ToSyncOnly
  <2>4. CASE TryModesWhileProvisioning(p)
    BY <2>4 DEF TryModesWhileProvisioning, ToSyncOnly
  <2> QED BY <2>1, <2>2, <2>3, <2>4
<1>2. ASSUME NEW id \in IDs, HearSync(id) \/ CatchWhileTrolling(id)
      PROVE  UNCHANGED <<mode, provisionCounter>> /\ role' \in {"Merger", "Fisher", "NoFishing"}
  BY <1>2 DEF HearSync, StopMerger, CatchWhileTrolling, ToMergerFromFisher
<1>3. CASE MergerStartAndEnd
  BY <1>3 DEF MergerStartAndEnd, StopMerger
<1>4. CASE UNCHANGED modeVars
  BY <1>4 DEF modeVars
<1> QED
  BY <1>1, <1>2, <1>3, <1>4
  DEF Next, TimerTask, ProvisioningDone, RadioMessage, SkipSyncSlotToMaintain,
      StartSyncSlotToSend, StartSyncSlotToSendControl, StartSyncSlotToListen, SendSync,
      EndSyncSlotListen, EndSyncSlotSend, RadioPreludeTaskWFish, FishSlotStart, FishSlotEnd,
      ProvisionStart, ProvisionEnd, ProvisionSucceed, ProvisionFail, CatchWhileDeepFishing,
      HearMerge, HearAbandonMastership, HearGranularity, HearScatter, GiveUpFishSlot, vars

\* The task, the prelude and the receiver keep their types.
LEMMA StepTaskType ==
    ASSUME LoopTypeOK, [Next]_vars
    PROVE  /\ task' \in Tasks
           /\ isRadioPreludeDone' \in BOOLEAN
           /\ listening' \in {"off", "sync", "fish"}
<1> USE DEF LoopTypeOK, Tasks, StartTasks, SendTasks
<1>1. CASE EndSyncSlotListen \/ EndSyncSlotSend
  <2>1. PICK z : ScheduleNonSyncTask(z)
    BY <1>1 DEF EndSyncSlotListen, EndSyncSlotSend
  <2>2. task' \in Tasks
    BY <2>1, ScheduledForRole
  <2>3. isRadioPreludeDone' \in BOOLEAN
    BY <2>1, Zenon DEF ScheduleNonSyncTask, ScheduleFishing, ScheduleMerger, OmitNonsyncSlot
  <2>4. listening' \in {"off", "sync", "fish"}
    BY <1>1 DEF EndSyncSlotListen, EndSyncSlotSend, StopReceiver
  <2> QED BY <2>2, <2>3, <2>4
<1>2. ASSUME NEW near, near \in BOOLEAN, NextSyncSlot(near)
      PROVE  task' \in Tasks /\ isRadioPreludeDone' \in BOOLEAN
  BY <1>2 DEF NextSyncSlot
<1>3. CASE FishSlotEnd \/ MergerStartAndEnd \/ ProvisionEnd
  <2>1. listening' \in {"off", "sync", "fish"}
    BY <1>3 DEF FishSlotEnd, MergerStartAndEnd, ProvisionEnd, StopReceiver
  <2>2. PICK near \in BOOLEAN : NextSyncSlot(near)
    BY <1>3 DEF FishSlotEnd, MergerStartAndEnd, ProvisionEnd, IsFishSlotEnd,
                IsMergerEndSyncPeriod
  <2> QED BY <1>2, <2>1, <2>2
<1>4. CASE RadioPreludeTaskWSync \/ RadioPreludeTaskWFish \/ SkipSyncSlotToMaintain
  <2>1. isRadioPreludeDone' \in BOOLEAN
    BY <1>4, Zenon DEF RadioPreludeTaskWSync, RadioPreludeTaskWFish, SkipSyncSlotToMaintain
  <2> QED BY <1>4, <2>1 DEF RadioPreludeTaskWSync, RadioPreludeTaskWFish,
                            SkipSyncSlotToMaintain
<1>5. ASSUME \/ StartSyncPeriodMaintain \/ StartSyncSlotToSend \/ StartSyncSlotToSendControl
             \/ StartSyncSlotToListen \/ SendSync \/ FishSlotStart \/ ProvisionStart
             \/ ProvisioningDone
      PROVE  /\ UNCHANGED isRadioPreludeDone
             /\ task' \in Tasks
             /\ listening' \in {"off", "sync", "fish"}
  BY <1>5
  DEF StartSyncPeriodMaintain, StartSyncSlotToSend, StartSyncSlotToSendControl,
      StartSyncSlotToListen, SendSync, FishSlotStart, ProvisionStart, ProvisioningDone,
      ProvisionSucceed, ProvisionFail
<1>6. ASSUME RadioMessage \/ UNCHANGED vars
      PROVE  UNCHANGED <<isRadioPreludeDone, task>> /\ listening' \in {"off", "sync", "fish"}
  BY <1>6
  DEF RadioMessage, HearSync, CatchWhileTrolling, CatchWhileDeepFishing, HearMerge,
      HearAbandonMastership, HearGranularity, HearScatter, GiveUpFishSlot, loopVars, vars
<1> QED BY <1>1, <1>3, <1>4, <1>5, <1>6 DEF Next, TimerTask

\* TypeOK with what makes it inductive.
TypeInv == CliqueInv /\ RoleInv /\ DeepFishingCounted /\ TypeOK

\* All variables start in their types.
LEMMA InitTypeInv == Init => TypeInv
<1> SUFFICES ASSUME Init PROVE TypeInv
  OBVIOUS
<1> USE DEF Init
<1>1. CliqueInv /\ RoleInv
  BY CliqueInitInv, InitRoleInv
<1>2. MergerTypeOK
  <2>1. isActive \in BOOLEAN
    BY Zenon DEF MergerInit
  <2> QED BY <2>1, MergerAssumption DEF MergerInit, MergerTypeOK, Zones
<1>3. FishingTypeOK /\ DeepFishingCounted
  <2>1. isMaxFishing \in BOOLEAN
    BY Zenon DEF FishingInit
  <2> QED BY <2>1, FishingAssumption, CliqueAssumption
          DEF FishingInit, FishingTypeOK, DeepFishingCounted, Zones
<1>4. RepeaterTypeOK
  <2>1. repeaterIsActive \in BOOLEAN
    BY Zenon DEF RepeaterInit
  <2> QED BY <2>1, RepeaterAssumption DEF RepeaterInit, RepeaterTypeOK
<1>5. LoopTypeOK
  <2>1. isRadioPreludeDone \in BOOLEAN
    BY Zenon
  <2> QED BY <2>1, AgentAssumption DEF LoopTypeOK, Tasks
<1> QED BY <1>1, <1>2, <1>3, <1>4, <1>5 DEF TypeInv, TypeOK, CliqueInv, LoopTypeOK

\* The types of all variables, the bounds of all counters included, hold for
\* every traffic and every limit the policy parameters may set.
THEOREM UnitTypeOK == Spec => []TypeOK
<1>1. TypeInv /\ [Next]_vars => TypeInv'
  <2> SUFFICES ASSUME TypeInv, [Next]_vars PROVE TypeInv'
    OBVIOUS
  <2>1. CliqueInv' /\ RoleInv'
    BY StepOfClique, CliqueStepInv, StepRoleInv DEF TypeInv
  <2>2. MergerTypeOK' /\ RepeaterTypeOK'
    BY StepMergerType, StepRepeaterType DEF TypeInv, TypeOK
  <2>3. FishingTypeOK' /\ DeepFishingCounted'
    BY StepFishingType DEF TypeInv, TypeOK, RoleInv
  <2>4. LoopTypeOK'
    BY StepModeType, StepTaskType DEF TypeInv, TypeOK, LoopTypeOK
  <2> QED BY <2>1, <2>2, <2>3, <2>4 DEF TypeInv, TypeOK, LoopTypeOK, CliqueInv
<1>2. TypeInv => TypeOK
  BY DEF TypeInv
<1> QED BY InitTypeInv, <1>1, <1>2, PTL DEF Spec

-----------------------------------------------------------------------------
(* What a merger says, and other promises *)

\* Only a catch makes a merger active, and it names the better clique superior.
LEMMA StepMergerNames ==
    CliqueInv /\ MergerNamesSuperior /\ [Next]_vars => MergerNamesSuperior'
<1> SUFFICES ASSUME CliqueInv, MergerNamesSuperior, [Next]_vars PROVE MergerNamesSuperior'
  OBVIOUS
<1>1. ASSUME UNCHANGED <<superiorMasterID, inferiorMasterID, kindOfMerger>>,
             isActive' => isActive
      PROVE  MergerNamesSuperior'
  BY <1>1 DEF MergerNamesSuperior
<1>2. ASSUME NEW id \in IDs, CatchWhileTrolling(id) PROVE MergerNamesSuperior'
  <2>1. id \in Int /\ masterID \in Int
    BY CliqueAssumption DEF CliqueInv, CliqueTypeOK
  <2>2. CASE masterID > id
    BY <1>2, <2>1, <2>2 DEF CatchWhileTrolling, ToMergerFromFisher, InitFromMsg,
                            IsOtherCliqueBetter, InitMergeMyClique, MergerNamesSuperior
  <2>3. CASE ~(masterID > id)
    BY <1>2, <2>1, <2>3 DEF CatchWhileTrolling, ToMergerFromFisher, InitFromMsg,
                            IsOtherCliqueBetter, InitMergeOtherClique, MergerNamesSuperior
  <2> QED BY <2>2, <2>3
<1>3. ASSUME BookkeepingAtPreludeToSyncSlot
      PROVE  /\ UNCHANGED <<superiorMasterID, inferiorMasterID, kindOfMerger>>
             /\ isActive' => isActive
  BY <1>3
  DEF BookkeepingAtPreludeToSyncSlot, TryModesWithoutFishing, TryModesWhileFishing,
      TryModesWhileProvisioning, ToSyncOnly, mergerVars
<1>4. ASSUME MergerStartAndEnd \/ \E id \in IDs : HearSync(id)
      PROVE  /\ UNCHANGED <<superiorMasterID, inferiorMasterID, kindOfMerger>>
             /\ isActive' => isActive
  BY <1>4 DEF MergerStartAndEnd, HearSync, StopMerger
<1>5. CASE UNCHANGED mergerVars
  BY <1>1, <1>5 DEF mergerVars
<1> QED
  BY <1>1, <1>2, <1>3, <1>4, <1>5
  DEF Next, TimerTask, ProvisioningDone, RadioMessage, StartSyncPeriodMaintain,
      RadioPreludeTaskWSync, SkipSyncSlotToMaintain, StartSyncSlotToSend,
      StartSyncSlotToSendControl, StartSyncSlotToListen, SendSync, EndSyncSlotListen,
      EndSyncSlotSend, RadioPreludeTaskWFish, FishSlotStart, FishSlotEnd, ProvisionStart,
      ProvisionEnd, ProvisionSucceed, ProvisionFail, CatchWhileDeepFishing, HearMerge,
      HearAbandonMastership, HearGranularity, HearScatter, GiveUpFishSlot, vars

\* A merger never asks a better clique to join a worse one.
THEOREM UnitMergerNamesSuperior == Spec => []MergerNamesSuperior
<1>1. Init => MergerNamesSuperior
  BY DEF Init, MergerInit, MergerNamesSuperior
<1>2. Init => CliqueInv
  BY CliqueInitInv DEF Init
<1> QED BY <1>1, <1>2, StepOfClique, CliqueStepInv, StepMergerNames, PTL DEF Spec

-----------------------------------------------------------------------------
(* The crystal *)

\* Each task leaves the crystal as the task that it schedules will expect it; a
\* message changes neither.
LEMMA StepPrelude == PreludeMatchesTask /\ [Next]_vars => PreludeMatchesTask'
<1> SUFFICES ASSUME PreludeMatchesTask, [Next]_vars PROVE PreludeMatchesTask'
  OBVIOUS
<1> USE DEF PreludeMatchesTask
<1>1. CASE UNCHANGED <<task, isRadioPreludeDone>>
  BY <1>1
<1>2. ASSUME NEW isNearEnd, NextSyncSlot(isNearEnd) PROVE PreludeMatchesTask'
  BY <1>2 DEF NextSyncSlot
<1>3. CASE EndSyncSlotListen \/ EndSyncSlotSend
  <2>1. PICK z \in Zones \cup {trollZone} : ScheduleNonSyncTask(z)
    BY <1>3 DEF EndSyncSlotListen, EndSyncSlotSend, Zones
  <2>2. PICK tz \in ZonesAfterPreFishing(z) :
          LET on == isRadioPreludeDone /\ ~ShouldUndoAfterSyncing(tz)
          IN  \/ ScheduleMerger(on) \/ ScheduleFishing(on) \/ OmitNonsyncSlot
              \/ task' = "provisionStart"
    BY <2>1, Zenon DEF ScheduleNonSyncTask
  <2> QED BY <2>2 DEF ScheduleMerger, ScheduleFishing, OmitNonsyncSlot
<1>4. CASE FishSlotEnd \/ MergerStartAndEnd \/ ProvisionEnd
  BY <1>2, <1>4 DEF FishSlotEnd, MergerStartAndEnd, ProvisionEnd
<1>5. CASE TimerTask
  BY <1>3, <1>4, <1>5
  DEF TimerTask, StartSyncPeriodMaintain, RadioPreludeTaskWSync, SkipSyncSlotToMaintain,
      StartSyncSlotToSend, StartSyncSlotToSendControl, StartSyncSlotToListen, SendSync,
      RadioPreludeTaskWFish, FishSlotStart, ProvisionStart
<1>6. CASE ProvisioningDone
  BY <1>6 DEF ProvisioningDone, ProvisionSucceed, ProvisionFail
<1>7. CASE RadioMessage
  BY <1>1, <1>7
  DEF RadioMessage, HearSync, CatchWhileTrolling, CatchWhileDeepFishing, HearMerge,
      HearAbandonMastership, HearGranularity, HearScatter, GiveUpFishSlot, loopVars
<1> QED BY <1>1, <1>5, <1>6, <1>7 DEF Next, vars, loopVars

\* No fish slot, and no sync slot after a scheduled prelude, starts without the
\* crystal; none is left on for a period without sync slot.
THEOREM UnitPreludeMatchesTask == Spec => []PreludeMatchesTask
<1>1. Init => PreludeMatchesTask
  BY DEF Init, PreludeMatchesTask
<1> QED BY <1>1, StepPrelude, PTL DEF Spec

-----------------------------------------------------------------------------
(* Callbacks *)

FishingCallback == fishingMode = "DeepFishing" => fishPolicyDoneCallback \in Callbacks
RepeaterCallback == repeaterIsActive => onDoneCallback \in DoneCallbacks

\* Only a Merge message starts deep fishing, and it sets the callback.
LEMMA StepFishingCallback == FishingCallback /\ [Next]_vars => FishingCallback'
<1> SUFFICES ASSUME FishingCallback, [Next]_vars PROVE FishingCallback'
  OBVIOUS
<1>1. ASSUME fishPolicyDoneCallback' = fishPolicyDoneCallback,
             fishingMode' \in {fishingMode, "Trolling"}
      PROVE  FishingCallback'
  BY <1>1 DEF FishingCallback
<1>2. ASSUME NEW type \in MergeTypes, HearMerge(type) PROVE FishingCallback'
  BY <1>2 DEF HearMerge, SwitchToDeepFishing, FishingCallback, Callbacks
<1>3. CASE EndSyncSlotListen \/ EndSyncSlotSend
  <2>1. \E z \in Zones \cup {trollZone} : ScheduleNonSyncTask(z)
    BY <1>3 DEF EndSyncSlotListen, EndSyncSlotSend, Zones
  <2> QED BY <1>1, <2>1 DEF ScheduleNonSyncTask
<1>4. CASE FishSlotEnd
  BY <1>1, <1>4 DEF FishSlotEnd, CheckFishingDone
<1>5. CASE StartSyncSlotToSendControl \/ HearScatter
  BY <1>1, <1>5 DEF StartSyncSlotToSendControl, HearScatter, Scatter, GrabMastership,
                    RestartTrollingMode, fishingVars
<1>6. CASE StartSyncPeriodMaintain \/ RadioPreludeTaskWSync
  BY <1>1, <1>6 DEF StartSyncPeriodMaintain, RadioPreludeTaskWSync,
                    BookkeepingAtPreludeToSyncSlot, Manage
<1>7. ASSUME NEW id \in IDs, CatchWhileDeepFishing(id) PROVE FishingCallback'
  BY <1>1, <1>7 DEF CatchWhileDeepFishing
<1>8. CASE UNCHANGED fishingVars
  BY <1>1, <1>8 DEF fishingVars
<1>9. ASSUME \/ SkipSyncSlotToMaintain \/ StartSyncSlotToSend \/ StartSyncSlotToListen
             \/ SendSync \/ RadioPreludeTaskWFish \/ FishSlotStart \/ MergerStartAndEnd
             \/ ProvisionStart \/ ProvisionEnd \/ ProvisioningDone
      PROVE  UNCHANGED fishingVars
  BY <1>9
  DEF SkipSyncSlotToMaintain, StartSyncSlotToSend, StartSyncSlotToListen, SendSync,
      RadioPreludeTaskWFish, FishSlotStart, MergerStartAndEnd, ProvisionStart, ProvisionEnd,
      ProvisioningDone, ProvisionSucceed, ProvisionFail
<1>10. CASE TimerTask
  BY <1>3, <1>4, <1>5, <1>6, <1>8, <1>9, <1>10 DEF TimerTask
<1>11. CASE RadioMessage
  BY <1>2, <1>5, <1>7, <1>8, <1>11
  DEF RadioMessage, HearSync, CatchWhileTrolling, HearAbandonMastership, GiveUpFishSlot,
      HearGranularity
<1> QED BY <1>8, <1>9, <1>10, <1>11 DEF Next, vars

\* The repeater is started with a callback and keeps it.
LEMMA StepRepeaterCallback == RepeaterCallback /\ [Next]_vars => RepeaterCallback'
<1> SUFFICES ASSUME RepeaterCallback, [Next]_vars PROVE RepeaterCallback'
  OBVIOUS
<1> USE DEF RepeaterCallback
<1>1. CASE UNCHANGED repeaterVars
  BY <1>1 DEF repeaterVars
<1>2. ASSUME NEW cb \in DoneCallbacks, StartRepeating(cb) PROVE RepeaterCallback'
  BY <1>1, <1>2 DEF StartRepeating
<1>3. CASE StopRepeating
  BY <1>3 DEF StopRepeating
<1>4. CASE CountRepeat /\ repeaterIsActive
  BY <1>4 DEF CountRepeat
<1>5. CASE HearGranularity \/ HearScatter \/ ProvisioningDone
  <2>1. \/ UNCHANGED repeaterVars \/ StopRepeating
        \/ \E cb \in DoneCallbacks : StartRepeating(cb)
    <3>1. CASE HearGranularity \/ HearScatter
      BY <3>1 DEF HearGranularity, HearScatter, RepeatDownstream, DoneCallbacks
    <3>2. CASE ProvisioningDone
      BY <3>2 DEF ProvisioningDone, ProvisionSucceed, ProvisionFail, ProvisionTopology,
                  ProvisionWork, RepeatDownstream, RepeatUpstream, DoneCallbacks
    <3> QED BY <1>5, <3>1, <3>2
  <2> QED BY <1>1, <1>2, <1>3, <2>1
<1> QED
  BY <1>1, <1>4, <1>5
  DEF Next, TimerTask, RadioMessage, StartSyncPeriodMaintain, RadioPreludeTaskWSync,
      SkipSyncSlotToMaintain, StartSyncSlotToSend, StartSyncSlotToSendControl,
      StartSyncSlotToListen, SendSync, EndSyncSlotListen, EndSyncSlotSend,
      RadioPreludeTaskWFish, FishSlotStart, FishSlotEnd, MergerStartAndEnd, ProvisionStart,
      ProvisionEnd, HearSync, CatchWhileTrolling, CatchWhileDeepFishing, HearMerge,
      HearAbandonMastership, GiveUpFishSlot, vars

\* Whenever deep fishing or repeating ends, there is a callback to call, although
\* periods, other Merge messages and changes of mastership lie between.
THEOREM UnitPendingCallbacks == Spec => []PendingCallbacks
<1>1. Init => FishingCallback /\ RepeaterCallback
  BY DEF Init, FishingInit, RepeaterInit, FishingCallback, RepeaterCallback
<1>2. FishingCallback /\ RepeaterCallback => PendingCallbacks
  BY DEF PendingCallbacks, FishingCallback, RepeaterCallback
<1> QED BY <1>1, <1>2, StepFishingCallback, StepRepeaterCallback, PTL DEF Spec

=============================================================================
