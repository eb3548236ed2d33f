------------------------- MODULE SyncAgentProperties -------------------------
(***************************************************************************)
(* What one unit promises, whatever the other units send and however the   *)
(* supply voltage moves.                                                   *)
(***************************************************************************)
EXTENDS SyncAgent

-----------------------------------------------------------------------------
(* Safety *)

\* Whatever the tasks and the message handlers do to the master, the clique
\* history and the dropout monitor is a step of the clique: no handler follows
\* a worse master, and no task counts a silent slot or reverts as a master.
ImplementsClique == CliqueSpec

\* The invariant in cliqueMerger.cpp ("true => role is Merger"), and its
\* converse that makeMergeMsg() asserts before a MergeSync is sent.
MergerActiveIffRole == isActive <=> role = "Merger"

\* The role in the sleeping part of the period agrees with the power mode, so
\* that no merger or fisher survives a fall in power, and a fisher has the
\* mode that schedules its fish slots.
RoleMatchesMode == role = "NoFishing" <=> mode \in {"Maintain", "SyncOnly"}

\* The radio listens only between the two tasks of one slot: no handler runs
\* outside its slot, and assert(not Ensemble::isRadioInUse()) holds when a sync
\* period starts.
ListensOnlyInItsSlot ==
    /\ listening = "sync" => task = "endSyncSlotListen" /\ mode # "Maintain"
    /\ listening = "fish" => task = "fishSlotEnd"

\* A slot finds the role it was scheduled for, although messages, catches and
\* the end of a merger change the role in between: whatever the fish slot
\* catches finds a fisher (assert(isFisher()) in toMerger(), a second catch in
\* one slot included), and a merge slot finds a merger (assert(isActive) in
\* makeMergeMsg()).
SlotFindsItsRole ==
    /\ task \in {"radioPreludeTaskWFish", "fishSlotStart"} \/ listening = "fish"
         => role = "Fisher" /\ mode = "SyncAndFishMerge"
    /\ task = "mergerStartAndEnd" => role = "Merger"

\* The crystal is on when a fish slot starts and ends and after a scheduled
\* prelude (asserts in fishTask.cpp, task.cpp), and off when a period without
\* sync slot starts or a prelude is waited for (asserts in syncSchedule.cpp).
PreludeMatchesTask ==
    /\ task \in {"fishSlotStart", "fishSlotEnd", "startSyncSlotAfterPrelude"}
         => isRadioPreludeDone
    /\ task \in {"startSyncPeriodMaintain", "radioPreludeTaskWSync", "radioPreludeTaskWFish"}
         => ~isRadioPreludeDone

\* A merger always speaks for the better clique: the superior it names is not
\* worse than the inferior, and strictly better when self changed cliques.
MergerNamesSuperior ==
    isActive =>
      /\ superiorMasterID =< inferiorMasterID
      /\ kindOfMerger # "MergeOther" => superiorMasterID < inferiorMasterID

\* Deep fishing ends with the callback it was started with
\* (assert(fishPolicyDoneCallback != nullptr)), and an active repeater has one.
PendingCallbacks ==
    /\ fishingMode = "DeepFishing" => fishPolicyDoneCallback \in Callbacks
    /\ repeaterIsActive => onDoneCallback \in DoneCallbacks

-----------------------------------------------------------------------------
(* Liveness *)

AtSyncPoint == task \in StartTasks \cup {"startSyncPeriodMaintain"}

\* Sync periods follow each other forever: no task ends without scheduling
\* another one, in any mode, and messages cannot keep a slot from ending.
SyncPointsForever == []<>AtSyncPoint

\* A sync ends the listening of a sync slot before the slot ends.
HasHeardSync == task = "endSyncSlotListen" /\ listening = "off"

\* A unit does not stay an orphan: a slave that goes on listening hears sync
\* again and again, or else becomes a master itself.
NoOrphan ==
    []<>(task = "endSyncSlotListen") => []<>(IsSelfMaster \/ HasHeardSync)

\* Deep fishing that goes on fishing ends.
DeepFishingEnds ==
    []<>(task = "fishSlotEnd") => []<>(fishingMode = "Trolling")

\* The coin toss in shouldScheduleMerge() comes up heads again and again: a
\* period of a merger, ending its sync slot in either way, schedules the merge
\* slot infinitely often if it could infinitely often.
CoinFairness == SF_vars((EndSyncSlotListen \/ EndSyncSlotSend) /\ task' = "mergerStartAndEnd")

CoinSpec == Spec /\ CoinFairness

\* Role Merger ends: "After role Merger xmits this count of MergeSync, revert
\* to role Fisher" (policyParameters.h), whatever the unit hears meanwhile.
MergerEnds == role = "Merger" ~> role # "Merger"

=============================================================================
