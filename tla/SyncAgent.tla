------------------------------ MODULE SyncAgent ------------------------------
(***************************************************************************)
(* One unit running SyncAgent: the chain of timer tasks that makes up a    *)
(* sync period (src/task, src/schedule, src/provisioning), the radio       *)
(* callbacks that interleave with it (src/receiver, src/messageHandler)    *)
(* and the clique, merger, fishing and repeater state they share.          *)
(*                                                                         *)
(* Exactly one task is scheduled at any time.  It runs to completion in    *)
(* the timer's interrupt; a message is handled to completion in the        *)
(* radio's.  So a step is one task or one message, in any order.  Other    *)
(* units, the supply voltage, the coin tosses and the application's mail   *)
(* are the environment.                                                    *)
(*                                                                         *)
(* An assert in the code is not a guard here: it is a property, and the    *)
(* step goes on as the code does in a build without assertions.            *)
(***************************************************************************)
EXTENDS FishingManager, SendRepeater

CONSTANTS
    SoftDevice,             \* the build with provisioning (SOFTDEVICE_PRESENT)
    PeriodsPerProvision,    \* ProvisionManager::shouldProvision: counter > 5
    Traffic                 \* the types of message other units send

SyncTypes  == {"MasterSync", "WorkSync"}
MergeTypes == KindsOfMerger
MessageTypes == SyncTypes \cup MergeTypes \cup
    {"AbandonMastership", "ControlNetGranularity", "ControlScatterClique"}

ASSUME AgentAssumption ==
    /\ SoftDevice \in BOOLEAN
    /\ PeriodsPerProvision \in Nat
    /\ Traffic \subseteq MessageTypes

VARIABLES
    task,              \* the task the TaskTimer holds
    isRadioPreludeDone,\* RadioPrelude::isDone(): the HF crystal is on
    listening,         \* whose handler the radio would call: "off" "sync" "fish"
    mode,              \* SyncModeManager
    role,              \* MergerFisherRole
    provisionCounter   \* ProvisionManager

loopVars == <<task, isRadioPreludeDone, listening>>
modeVars == <<mode, role, provisionCounter>>
vars == <<cliqueVars, mergerVars, fishingVars, repeaterVars, loopVars, modeVars>>

SendTasks == {"sendSync", "sendWorkSync", "sendControlSync"}
StartTasks == {"startSyncSlotAfterPrelude", "startSyncSlotWithoutScheduledPrelude"}

\* "provisioning" is the one wait without a timer: for the provisioning library.
Tasks == SendTasks \cup StartTasks \cup
    {"startSyncPeriodMaintain", "radioPreludeTaskWSync",
     "endSyncSlotListen", "endSyncSlotSend",
     "radioPreludeTaskWFish", "fishSlotStart", "fishSlotEnd",
     "mergerStartAndEnd",
     "provisionStart", "provisioning", "provisionEnd"}

TypeOK ==
    /\ CliqueTypeOK /\ MergerTypeOK /\ FishingTypeOK /\ RepeaterTypeOK
    /\ task \in Tasks
    /\ isRadioPreludeDone \in BOOLEAN
    /\ listening \in {"off", "sync", "fish"}
    /\ mode \in {"Maintain", "SyncOnly", "SyncAndFishMerge", "SyncAndProvision"}
    /\ role \in {"Merger", "Fisher", "NoFishing"}
    /\ provisionCounter \in 0 .. PeriodsPerProvision

\* After checkPowerReserve found power: SyncAgentImp::init(), preludeToLoop()
\* and SyncSchedule::initialSyncPeriod().
Init ==
    /\ CliqueInit /\ MergerInit /\ FishingInit /\ RepeaterInit
    /\ task = "startSyncPeriodMaintain"
    /\ isRadioPreludeDone = FALSE
    /\ listening = "off"
    /\ mode = "Maintain"
    /\ role = "NoFishing"
    /\ provisionCounter = 0

-----------------------------------------------------------------------------
(* Power and modes *)

\* What PowerManager compares the supply with: ultra low, medium, high.
PowerLevels == 0 .. 3
IsPowerForSyncMode(p) == p >= 1
IsPowerForFishMode(p) == p >= 2
IsPowerHigh(p) == p >= 3

\* The merger is not told that its role ended.
ToSyncOnlyMutant ==
    /\ mode' = "SyncOnly"
    /\ role' = "NoFishing"
    /\ UNCHANGED <<mergerVars, provisionCounter>>

\* toSyncOnly(), ToNoFishingFromOther(): the count of MergeSyncs sent stays.
ToSyncOnly ==
    /\ mode' = "SyncOnly"
    /\ role' = "NoFishing"
    /\ isActive' = (isActive /\ role # "Merger")
    /\ UNCHANGED <<superiorMasterID, inferiorMasterID, kindOfMerger, mergeZone,
                   countSentMergeSyncs, provisionCounter>>

\* The step up to fishing leaves the role behind.
TryModesWithoutFishingMutant(p) ==
    /\ mode \in {"Maintain", "SyncOnly"}
    /\ mode' = IF ~IsPowerForSyncMode(p) THEN "Maintain"
               ELSE IF mode = "SyncOnly" /\ IsPowerForFishMode(p) THEN "SyncAndFishMerge"
               ELSE "SyncOnly"
    /\ UNCHANGED <<role, provisionCounter, mergerVars>>

\* checkPowerAndTryModeTransitions() in modes Maintain and SyncOnly
TryModesWithoutFishing(p) ==
    /\ mode \in {"Maintain", "SyncOnly"}
    /\ mode' = IF ~IsPowerForSyncMode(p) THEN "Maintain"
               ELSE IF mode = "SyncOnly" /\ IsPowerForFishMode(p) THEN "SyncAndFishMerge"
               ELSE "SyncOnly"
    /\ role' = IF mode' = "SyncAndFishMerge" THEN "Fisher" ELSE role
    /\ UNCHANGED <<provisionCounter, mergerVars>>

\* ... in mode SyncAndFishMerge; shouldProvision() is true every so often.
TryModesWhileFishing(p) ==
    /\ mode = "SyncAndFishMerge"
    /\ IF ~IsPowerForFishMode(p) THEN ToSyncOnly
       ELSE /\ IF SoftDevice /\ provisionCounter + 1 > PeriodsPerProvision
                 THEN mode' = "SyncAndProvision" /\ provisionCounter' = 0
                 ELSE /\ provisionCounter' = IF SoftDevice THEN provisionCounter + 1
                                                           ELSE provisionCounter
                      /\ UNCHANGED mode
            /\ UNCHANGED <<role, mergerVars>>

\* ... in mode SyncAndProvision
TryModesWhileProvisioning(p) ==
    /\ mode = "SyncAndProvision"
    /\ IF ~IsPowerForFishMode(p) THEN ToSyncOnly
       ELSE /\ mode' = "SyncAndFishMerge"
            /\ UNCHANGED <<role, provisionCounter, mergerVars>>

\* SyncSlot::bookkeepingAtPreludeToSyncSlot(): the mode and the length of
\* trolling sessions follow two measurements of the supply voltage.
BookkeepingAtPreludeToSyncSlot ==
    /\ \E p \in PowerLevels :
         \/ TryModesWithoutFishing(p)
         \/ TryModesWhileFishing(p)
         \/ TryModesWhileProvisioning(p)
    /\ \E v \in PowerLevels : Manage(IsPowerHigh(v))

-----------------------------------------------------------------------------
(* The radio *)

\* The receiver is left on at the end of a slot.
StopReceiverMutant == UNCHANGED listening

\* Receiver::stop()
StopReceiver == listening' = "off"

-----------------------------------------------------------------------------
(* Mastership and roles, with what they do to fishing and merging *)

GrabMastership ==
    /\ AssumeMastership
    /\ RestartTrollingMode

\* Scatter::scatter(): the random time added to the schedule is not kept here.
Scatter == GrabMastership

\* toMergerFromFisher()
ToMergerFromFisher(id) ==
    /\ role' = "Merger"
    /\ InitFromMsg(id)

\* stopMerger()
StopMerger ==
    /\ isActive' = FALSE
    /\ role' = "Fisher"
    /\ countSentMergeSyncs' = 0

-----------------------------------------------------------------------------
(* The sync slot *)

\* SSTask::startSyncPeriodMaintain()
StartSyncPeriodMaintain ==
    /\ task = "startSyncPeriodMaintain"
    /\ BookkeepingAtPreludeToSyncSlot
    /\ task' = IF mode' = "Maintain" THEN "startSyncPeriodMaintain"
                                     ELSE "radioPreludeTaskWSync"
    /\ UNCHANGED <<isRadioPreludeDone, listening, cliqueVars, repeaterVars>>

\* theRadioPreludeTaskWSync()
RadioPreludeTaskWSync ==
    /\ task = "radioPreludeTaskWSync"
    /\ task' = "startSyncSlotAfterPrelude"
    /\ isRadioPreludeDone' = TRUE
    /\ BookkeepingAtPreludeToSyncSlot
    /\ UNCHANGED <<listening, cliqueVars, repeaterVars>>

\* SSTask::startSyncSlotAfterPrelude() without the power for a sync slot
SkipSyncSlotToMaintain ==
    /\ task \in StartTasks
    /\ mode = "Maintain"
    /\ task' = "startSyncPeriodMaintain"
    /\ isRadioPreludeDone' = FALSE
    /\ UNCHANGED <<listening, modeVars, cliqueVars, mergerVars, fishingVars, repeaterVars>>

\* decideKind() is sendWorkSync, when the application left mail, or sendSync,
\* when the master's policy says so.
StartSyncSlotToSend ==
    /\ task \in StartTasks
    /\ mode # "Maintain"
    /\ \/ task' = "sendWorkSync"
       \/ IsSelfMaster /\ task' = "sendSync"
    /\ UNCHANGED <<isRadioPreludeDone, listening, modeVars, cliqueVars, mergerVars,
                   fishingVars, repeaterVars>>

\* decideKind() is sendControlSync.  The last repeat is enacted before it is
\* sent; enacting a scatter grabs mastership.
StartSyncSlotToSendControl ==
    /\ task \in StartTasks
    /\ mode # "Maintain"
    /\ repeaterIsActive
    /\ task' = "sendControlSync"
    /\ CountRepeat
    /\ IF IsRepeatingDone /\ onDoneCallback = "onDoneScatter"
         THEN Scatter
         ELSE UNCHANGED <<cliqueVars, fishingVars>>
    /\ UNCHANGED <<isRadioPreludeDone, listening, modeVars, mergerVars>>

\* decideKind() is listen.
StartSyncSlotToListen ==
    /\ task \in StartTasks
    /\ mode # "Maintain"
    /\ listening' = "sync"
    /\ task' = "endSyncSlotListen"
    /\ UNCHANGED <<isRadioPreludeDone, modeVars, cliqueVars, mergerVars, fishingVars,
                   repeaterVars>>

\* The task schedules itself instead of the end of the sync slot.
SendSyncMutant ==
    /\ task \in SendTasks
    /\ UNCHANGED vars

\* SSTask::sendSync()
SendSync ==
    /\ task \in SendTasks
    /\ task' = "endSyncSlotSend"
    /\ UNCHANGED <<isRadioPreludeDone, listening, modeVars, cliqueVars, mergerVars,
                   fishingVars, repeaterVars>>

-----------------------------------------------------------------------------
(* After the sync slot *)

\* Does RadioPrelude::shouldUndoAfterSyncing() hold, tz being the zone trolled?
ShouldUndoAfterSyncing(tz) ==
    /\ mode # "SyncAndProvision"
    /\ mode = "SyncAndFishMerge" =>
         CASE role = "Fisher"    -> ~IsFishSlotStart(fishingMode, tz)
           [] role = "Merger"    -> ~IsMergerStartSyncPeriod
           [] role = "NoFishing" -> TRUE

\* The fishing task is scheduled without asking whether the prelude is on.
ScheduleFishingMutant(on) ==
    /\ role = "Fisher"
    /\ task' = "fishSlotStart"
    /\ isRadioPreludeDone' = on
    /\ countFishings' = IF fishingMode = "DeepFishing" THEN countFishings + 1
                                                       ELSE countFishings

\* A deep fisher's start time is asked for without counting.
ScheduleFishingUncountedMutant(on) ==
    /\ role = "Fisher"
    /\ task' = IF on THEN "fishSlotStart" ELSE "radioPreludeTaskWFish"
    /\ isRadioPreludeDone' = on
    /\ UNCHANGED countFishings

\* SyncSchedule::fishing(), on being RadioPrelude::isDone().  Asking a deep
\* fisher for its start time counts a fishing.
ScheduleFishing(on) ==
    /\ role = "Fisher"
    /\ task' = IF on THEN "fishSlotStart" ELSE "radioPreludeTaskWFish"
    /\ isRadioPreludeDone' = on
    /\ countFishings' = IF fishingMode = "DeepFishing" THEN countFishings + 1
                                                       ELSE countFishings

\* SyncSchedule::merger(): the coin said to send a MergeSync this period.
ScheduleMerger(on) ==
    /\ role = "Merger"
    /\ task' = "mergerStartAndEnd"
    /\ isRadioPreludeDone' = on
    /\ UNCHANGED countFishings

\* SyncSchedule::omitNonsyncSlot(): no power to fish, the merger's coin said
\* no, or no role to play.
OmitNonsyncSlot ==
    /\ task' = "radioPreludeTaskWSync"
    /\ isRadioPreludeDone' = FALSE
    /\ UNCHANGED countFishings

\* scheduleNonSyncTask() when the trolling session is in zone z.  In SyncOnly
\* the prelude was just undone, so that omitting the slot is all there is.
ScheduleNonSyncTask(z) ==
    /\ \E tz \in ZonesAfterPreFishing(z) :
         LET on == isRadioPreludeDone /\ ~ShouldUndoAfterSyncing(tz)
         IN  /\ trollZone' = tz
             /\ \/ /\ mode = "SyncAndFishMerge"
                   /\ ScheduleMerger(on) \/ ScheduleFishing(on) \/ OmitNonsyncSlot
                \/ mode = "SyncOnly" /\ OmitNonsyncSlot
                \/ /\ mode = "SyncAndProvision"
                   /\ task' = "provisionStart"
                   /\ isRadioPreludeDone' = on
                   /\ UNCHANGED countFishings
    /\ UNCHANGED <<fishingMode, fishPolicyDoneCallback, deepZone, isMaxFishing>>

\* A master that listened checks whether its master dropped out, too.
EndSyncSlotListenMutant ==
    /\ task = "endSyncSlotListen"
    /\ StopReceiver
    /\ IF IsDropout
         THEN masterID' = Self /\ countMissing' = 0 /\ UNCHANGED history
         ELSE countMissing' = countMissing + 1 /\ UNCHANGED <<masterID, history>>
    /\ ScheduleNonSyncTask(trollZone)
    /\ UNCHANGED <<modeVars, mergerVars, repeaterVars>>

\* SSTask::endSyncSlotListen(): a slave checks whether its master dropped out;
\* reverting restarts trolling.
EndSyncSlotListen ==
    /\ task = "endSyncSlotListen"
    /\ StopReceiver
    /\ IF ~IsSelfMaster
         THEN CheckMasterDroppedOut
         ELSE UNCHANGED cliqueVars
    /\ ScheduleNonSyncTask(IF ~IsSelfMaster /\ IsDropout THEN "start" ELSE trollZone)
    /\ UNCHANGED <<modeVars, mergerVars, repeaterVars>>

\* SSTask::endSyncSlotSend()
EndSyncSlotSend ==
    /\ task = "endSyncSlotSend"
    /\ ScheduleNonSyncTask(trollZone)
    /\ UNCHANGED <<listening, modeVars, cliqueVars, mergerVars, repeaterVars>>

-----------------------------------------------------------------------------
(* Messages heard in the sync slot: SyncSlotMessageHandler::handle *)

\* handleSuperiorOrSameSyncWhileMerging() for a message of master id, called
\* when masterID has been updated to m already: is the merger stopped?
IsMergerStopped(id, m) == role = "Merger" /\ m # id

\* A MasterSync or WorkSync: filterSyncMsg().  One of a worse clique is ignored.
HearSync(id) ==
    /\ listening = "sync"
    /\ SyncTypes \cap Traffic # {}
    /\ IsMsgFromMyClique(id) \/ IsOtherCliqueBetter(id)
    /\ UpdateMastership(id, history)
    /\ countMissing' = 0
    /\ listening' = "off"
    /\ IF IsMergerStopped(id, masterID')
         THEN StopMerger
         ELSE UNCHANGED <<isActive, role, countSentMergeSyncs>>
    /\ UNCHANGED <<task, isRadioPreludeDone, mode, provisionCounter, fishingVars,
                   repeaterVars, superiorMasterID, inferiorMasterID, kindOfMerger,
                   mergeZone>>

\* handleEnticingInferiorMessage(), handleMasterMergedAwayMessage(),
\* handleSlaveMergedAwayMessage(): whoever is meant, go deep fishing.
HearMerge(type) ==
    /\ listening = "sync"
    /\ type \in Traffic
    /\ SwitchToDeepFishing(IF type = "MergeMyMasterDepart" THEN "endWithRecoverMaster"
                                                           ELSE "endWithNoAction")
    /\ UNCHANGED <<loopVars, modeVars, cliqueVars, mergerVars, repeaterVars>>

\* handleAbandonMastershipMessage()
HearAbandonMastership ==
    /\ listening = "sync"
    /\ "AbandonMastership" \in Traffic
    /\ AssumeMastership
    /\ UNCHANGED <<loopVars, modeVars, mergerVars, fishingVars, repeaterVars>>

\* NetworkTopology::handleNetGranularityMessage() for a message of my clique:
\* the master tells the clique, a slave stops telling the master.
HearGranularity ==
    /\ listening = "sync"
    /\ "ControlNetGranularity" \in Traffic
    /\ IF IsSelfMaster
         THEN RepeatDownstream("NetGranularity")
         ELSE repeaterIsActive /\ StopRepeating
    /\ UNCHANGED <<loopVars, modeVars, cliqueVars, mergerVars, fishingVars>>

\* NetworkTopology::handleScatterMessage() for a message of my clique: the
\* master tells the clique, a slave scatters, becoming master of itself.
HearScatter ==
    /\ listening = "sync"
    /\ "ControlScatterClique" \in Traffic
    /\ IF IsSelfMaster
         THEN RepeatDownstream("Scatter") /\ UNCHANGED <<cliqueVars, fishingVars>>
         ELSE /\ IF repeaterIsActive THEN StopRepeating ELSE UNCHANGED repeaterVars
              /\ Scatter
    /\ UNCHANGED <<loopVars, modeVars, mergerVars>>

-----------------------------------------------------------------------------
(* The fish slot *)

\* theRadioPreludeTaskWFish()
RadioPreludeTaskWFish ==
    /\ task = "radioPreludeTaskWFish"
    /\ task' = "fishSlotStart"
    /\ isRadioPreludeDone' = TRUE
    /\ UNCHANGED <<listening, modeVars, cliqueVars, mergerVars, fishingVars, repeaterVars>>

\* SSTask::fishSlotStart()
FishSlotStart ==
    /\ task = "fishSlotStart"
    /\ task' = "fishSlotEnd"
    /\ listening' = "fish"
    /\ UNCHANGED <<isRadioPreludeDone, modeVars, cliqueVars, mergerVars, fishingVars,
                   repeaterVars>>

\* The radio goes on listening after a catch.
CatchWhileTrollingMutant(id) ==
    /\ listening = "fish"
    /\ SyncTypes \cap Traffic # {}
    /\ fishingMode = "Trolling"
    /\ ToMergerFromFisher(id)
    /\ UNCHANGED <<loopVars, mode, provisionCounter, fishingVars, repeaterVars>>

\* doFishedSyncMsg() while trolling
CatchWhileTrolling(id) ==
    /\ listening = "fish"
    /\ SyncTypes \cap Traffic # {}
    /\ fishingMode = "Trolling"
    /\ ToMergerFromFisher(id)
    /\ listening' = "off"
    /\ UNCHANGED <<task, isRadioPreludeDone, mode, provisionCounter, fishingVars,
                   repeaterVars>>

\* The caught clique is joined without being compared.
CatchWhileDeepFishingMutant(id) ==
    /\ listening = "fish"
    /\ SyncTypes \cap Traffic # {}
    /\ fishingMode = "DeepFishing"
    /\ UpdateMastership(id, history)
    /\ fishingMode' = "Trolling"
    /\ listening' = "off"
    /\ UNCHANGED <<countMissing, countFishings, fishPolicyDoneCallback, deepZone,
                   trollZone, isMaxFishing, task, isRadioPreludeDone,
                   modeVars, mergerVars, repeaterVars>>

\* handleCatchFromDeepFishing() for a better clique: join it
CatchWhileDeepFishing(id) ==
    /\ listening = "fish"
    /\ SyncTypes \cap Traffic # {}
    /\ fishingMode = "DeepFishing"
    /\ IsOtherCliqueBetter(id)
    /\ UpdateMastership(id, history)
    /\ fishingMode' = "Trolling"
    /\ listening' = "off"
    /\ UNCHANGED <<countMissing, countFishings, fishPolicyDoneCallback, deepZone,
                   trollZone, isMaxFishing, task, isRadioPreludeDone,
                   modeVars, mergerVars, repeaterVars>>

\* A message that only ends listening: a Merge message of any clique, or, while
\* deep fishing, a WorkSync of a clique that is not better.
GiveUpFishSlot ==
    /\ listening = "fish"
    /\ \/ MergeTypes \cap Traffic # {}
       \/ fishingMode = "DeepFishing" /\ "WorkSync" \in Traffic
    /\ listening' = "off"
    /\ UNCHANGED <<task, isRadioPreludeDone, modeVars, cliqueVars, mergerVars, fishingVars,
                   repeaterVars>>

\* A task that runs in the next sync period: at its start when the prelude is
\* left on, else with its own prelude.
NextSyncSlot(isNearEnd) ==
    /\ task' = IF isNearEnd THEN "startSyncSlotWithoutScheduledPrelude"
                            ELSE "radioPreludeTaskWSync"
    /\ isRadioPreludeDone' = (isRadioPreludeDone /\ isNearEnd)

\* fishPolicyDoneCallback(): DeepFishing::endWith...()
DoneCallback ==
    IF fishPolicyDoneCallback = "endWithRecoverMaster"
      THEN AssumeMastership
      ELSE UNCHANGED cliqueVars

\* checkFishingDone(): deep fishing that is done calls back and gives way to
\* trolling.
CheckFishingDone ==
    IF IsDeepFishingDone
      THEN DoneCallback /\ fishingMode' = "Trolling"
      ELSE UNCHANGED <<cliqueVars, fishingMode>>

\* SSTask::fishSlotEnd(): the fishing mode that checkFishingDone() leaves
\* decides about the prelude (syncSlotAfterFishSlot()).
FishSlotEnd ==
    /\ task = "fishSlotEnd"
    /\ StopReceiver
    /\ CheckFishingDone
    /\ NextSyncSlot(IsFishSlotEnd(fishingMode', trollZone))
    /\ UNCHANGED <<countFishings, fishPolicyDoneCallback, deepZone, trollZone, isMaxFishing,
                   modeVars, mergerVars, repeaterVars>>

-----------------------------------------------------------------------------
(* The merge slot and provisioning *)

\* SSTask::mergerStartAndEnd(): send a MergeSync, be it the last
MergerStartAndEnd ==
    /\ task = "mergerStartAndEnd"
    /\ IF IsCompletionOfMergerRole
         THEN StopMerger
         ELSE countSentMergeSyncs' = CountedMergeSyncs /\ UNCHANGED <<isActive, role>>
    /\ NextSyncSlot(IsMergerEndSyncPeriod)
    /\ UNCHANGED <<superiorMasterID, inferiorMasterID, kindOfMerger, mergeZone, listening,
                   mode, provisionCounter, cliqueVars, fishingVars, repeaterVars>>

\* SSTask::provisionStart(): the provisioning library starts a session.
ProvisionStart ==
    /\ task = "provisionStart"
    /\ task' = "provisioning"
    /\ UNCHANGED <<isRadioPreludeDone, listening, modeVars, cliqueVars, mergerVars,
                   fishingVars, repeaterVars>>

\* handleNetGranularityProvisioning(), handleScatterProvisioning()
ProvisionTopology(property) ==
    IF IsSelfMaster THEN RepeatDownstream(property) ELSE RepeatUpstream

\* provisionWorkTime(), provisionWorkCycle(): a master keeps work to itself.
ProvisionWork == IF IsSelfMaster THEN UNCHANGED repeaterVars ELSE RepeatUpstream

\* ProvisionerCallback::succeed() notifies who subscribed to the property.
ProvisionSucceed(property) ==
    /\ task = "provisioning"
    /\ task' = "provisionEnd"
    /\ IF property = "Work" THEN ProvisionWork ELSE ProvisionTopology(property)
    /\ UNCHANGED <<isRadioPreludeDone, listening, modeVars, cliqueVars, mergerVars,
                   fishingVars>>

\* ProvisionerCallback::fail(), or succeed() with a value that is filtered out as
\* weak or that names no granularity.
ProvisionFail ==
    /\ task = "provisioning"
    /\ task' = "provisionEnd"
    /\ UNCHANGED <<isRadioPreludeDone, listening, modeVars, cliqueVars, mergerVars,
                   fishingVars, repeaterVars>>

\* SSTask::provisionEnd(), by the timer or at once when the session could not
\* start.  syncSlotAfterProvisioning() asks where the merge slot is.
ProvisionEnd ==
    /\ task \in {"provisionStart", "provisionEnd"}
    /\ NextSyncSlot(IsMergerEndSyncPeriod)
    /\ UNCHANGED <<listening, modeVars, cliqueVars, mergerVars, fishingVars, repeaterVars>>

-----------------------------------------------------------------------------

TimerTask ==
    \/ StartSyncPeriodMaintain \/ RadioPreludeTaskWSync
    \/ SkipSyncSlotToMaintain \/ StartSyncSlotToSend \/ StartSyncSlotToSendControl
    \/ StartSyncSlotToListen \/ SendSync \/ EndSyncSlotListen \/ EndSyncSlotSend
    \/ RadioPreludeTaskWFish \/ FishSlotStart \/ FishSlotEnd
    \/ MergerStartAndEnd
    \/ ProvisionStart \/ ProvisionEnd

ProvisioningDone ==
    \/ \E property \in {"NetGranularity", "Scatter", "Work"} : ProvisionSucceed(property)
    \/ ProvisionFail

RadioMessage ==
    \/ \E id \in IDs : HearSync(id) \/ CatchWhileTrolling(id) \/ CatchWhileDeepFishing(id)
    \/ \E type \in MergeTypes : HearMerge(type)
    \/ HearAbandonMastership \/ HearGranularity \/ HearScatter
    \/ GiveUpFishSlot

Next == TimerTask \/ ProvisioningDone \/ RadioMessage

\* The timer fires, and a provisioning session ends with a callback.
Fairness == WF_vars(TimerTask) /\ WF_vars(ProvisioningDone)

Spec == Init /\ [][Next]_vars /\ Fairness

=============================================================================
