--------------------------- MODULE XmitSyncPolicy ---------------------------
(***************************************************************************)
(* When a master transmits sync: the adaptive policy (src/policy), what    *)
(* resets, advances and disarms it (src/clique), and the messages that     *)
(* take the place of a due MasterSync in a sync slot                       *)
(* (src/slots/sync/syncSlotProperty.cpp): repeats of a control message     *)
(* first, then work from the application.                                  *)
(*                                                                         *)
(* Sync slots only.  One that sends is a single step; one that listens     *)
(* starts, handles messages and ends.  What happens between two of them    *)
(* (fishing, provisioning, mail) is a step of its own.                     *)
(***************************************************************************)
EXTENDS SendRepeater

CONSTANTS
    CyclePeriods,   \* Policy::CountSyncPeriodsToChooseMasterSyncXmits
    MaxAllowance    \* a bound of the model on allowance

ASSUME PolicyAssumption ==
    /\ CyclePeriods \in Nat \ {0}
    /\ MaxAllowance \in Nat

VARIABLES
    selfMaster,        \* Clique::isSelfMaster()
    isAdvancedStage,   \* the joined stage; else the isolated one
    clock,             \* RandomAlarmingCircularClock
    mail,              \* the application left work in WorkOut's mailbox
    listening,         \* a sync slot that listens is in progress
    silent,            \* history: this master's sync slots since sync was sent
                       \* or heard, in the joined stage
    allowance          \* history: a cycle for each due sync since then whose
                       \* slot went to a message that nobody syncs by

policyVars == <<selfMaster, isAdvancedStage, clock>>
historyVars == <<silent, allowance>>
vars == <<repeaterVars, policyVars, mail, listening, historyVars>>

-----------------------------------------------------------------------------
(* The clock, a library: it alarms in a random tick of each cycle *)

Wraps == [tick : {0}, alarm : 0 .. CyclePeriods - 1, isArmed : {TRUE}]

\* tickWithAlarm(): the cycle ends with its last tick or before the next one.
TickWithAlarm(isAlarm) ==
    \E c \in IF clock.tick = CyclePeriods THEN Wraps ELSE {clock} :
      /\ isAlarm = (c.isArmed /\ c.tick = c.alarm)
      /\ \/ clock' = [c EXCEPT !.tick = c.tick + 1]
         \/ c.tick + 1 = CyclePeriods /\ clock' \in Wraps

\* disarmForOneCycle()
DisarmForOneCycle == clock' = [clock EXCEPT !.isArmed = FALSE]

-----------------------------------------------------------------------------
(* The policy and its callers in Clique *)

\* AdaptiveTransmitSyncPolicy::reset()
ResetTransmitSyncPolicy == clock' \in Wraps /\ isAdvancedStage' = FALSE

\* Clique::shouldTransmitSync(): only a master asks its policy, which in the
\* isolated stage tosses a coin.
ShouldTransmitSync(need) ==
    \/ ~selfMaster /\ ~need /\ UNCHANGED clock
    \/ selfMaster /\ ~isAdvancedStage /\ UNCHANGED clock
    \/ selfMaster /\ isAdvancedStage /\ TickWithAlarm(need)

\* Clique::grabMastership()
GrabMastership == selfMaster' = TRUE /\ ResetTransmitSyncPolicy

\* Clique::updateBySyncMessage() and heardSync(), for a sync of the same or of a
\* better clique
HeardSync(isBetter) ==
    /\ selfMaster' = (selfMaster /\ ~isBetter)
    /\ isAdvancedStage' = TRUE
    /\ IF selfMaster' THEN DisarmForOneCycle ELSE UNCHANGED clock

-----------------------------------------------------------------------------
(* The history *)

\* Sync was sent or heard, or nobody depends on this unit's sync.
Restarted == silent' = 0 /\ allowance' = 0

\* A sync slot without sync; one that was due is displaced if need.
Silence(need) ==
    IF selfMaster /\ isAdvancedStage
      THEN /\ need => allowance + CyclePeriods =< MaxAllowance
           /\ silent' = silent + 1
           /\ allowance' = IF need THEN allowance + CyclePeriods ELSE allowance
      ELSE Restarted

-----------------------------------------------------------------------------
(* The sync slot: SyncSlotProperty::decideKind() and what it dispatches *)

\* The repeater sends MasterSyncs to change the granularity; nobody syncs by
\* the other control messages, although some of them doCarrySync().
ControlKeepsSync == onDoneCallback = "onDoneGranularityWithAction"

\* The coin in shouldSend() fell heads.  The last repeat of a scatter scatters.
SendControlSync ==
    /\ ~listening /\ repeaterIsActive
    /\ CountRepeat
    /\ IF IsRepeatingDone /\ onDoneCallback = "onDoneScatter"
         THEN GrabMastership /\ Restarted
         ELSE \E need \in BOOLEAN :
                /\ ShouldTransmitSync(need)
                /\ IF ControlKeepsSync THEN Restarted ELSE Silence(need)
                /\ UNCHANGED <<selfMaster, isAdvancedStage>>
    /\ UNCHANGED <<mail, listening>>

\* No repeat, and mail: WorkOut::isNeedSendWork(), fetch()
SendWorkSync ==
    /\ ~listening /\ mail
    /\ \E need \in BOOLEAN : ShouldTransmitSync(need)
    /\ mail' = FALSE
    /\ Restarted
    /\ UNCHANGED <<repeaterVars, selfMaster, isAdvancedStage, listening>>

\* No repeat, no mail, and sync is due.
SendMasterSync ==
    /\ ~listening /\ ~mail
    /\ ShouldTransmitSync(TRUE)
    /\ Restarted
    /\ UNCHANGED <<repeaterVars, selfMaster, isAdvancedStage, mail, listening>>

\* A master whose repeater waits for its coin to fall heads sends nothing else.
ListenMutant ==
    /\ ~listening /\ ~mail
    /\ \E need \in BOOLEAN : ShouldTransmitSync(need) /\ (need => repeaterIsActive)
    /\ listening' = TRUE
    /\ Silence(FALSE)
    /\ UNCHANGED <<repeaterVars, selfMaster, isAdvancedStage, mail>>

\* Nothing to send.
Listen ==
    /\ ~listening /\ ~mail
    /\ ShouldTransmitSync(FALSE)
    /\ listening' = TRUE
    /\ Silence(FALSE)
    /\ UNCHANGED <<repeaterVars, selfMaster, isAdvancedStage, mail>>

\* filterSyncMsg(): the sync ends the listening.
HearSync(isBetter) ==
    /\ listening
    /\ HeardSync(isBetter)
    /\ listening' = FALSE
    /\ Restarted
    /\ UNCHANGED <<repeaterVars, mail>>

\* NetworkTopology::handleNetGranularityMessage(), of my clique
HearGranularity ==
    /\ listening
    /\ IF selfMaster THEN RepeatDownstream("NetGranularity")
                     ELSE repeaterIsActive /\ StopRepeating
    /\ UNCHANGED <<policyVars, mail, listening, historyVars>>

\* NetworkTopology::handleScatterMessage(), of my clique
HearScatter ==
    /\ listening
    /\ IF selfMaster
         THEN RepeatDownstream("Scatter") /\ UNCHANGED <<policyVars, historyVars>>
         ELSE /\ IF repeaterIsActive THEN StopRepeating ELSE UNCHANGED repeaterVars
              /\ GrabMastership
              /\ Restarted
    /\ UNCHANGED <<mail, listening>>

\* SyncSlot::endListen(): a slave's master may have dropped out.  Reverting by
\* the history either grabs mastership or comes back to self without a reset.
EndListen ==
    /\ listening
    /\ listening' = FALSE
    /\ \/ UNCHANGED <<policyVars, historyVars>>
       \/ ~selfMaster /\ GrabMastership /\ Restarted
       \/ /\ ~selfMaster /\ selfMaster' = TRUE
          /\ UNCHANGED <<isAdvancedStage, clock, historyVars>>
    /\ UNCHANGED <<repeaterVars, mail>>

-----------------------------------------------------------------------------
(* Between sync slots, and the application *)

\* A better clique is caught in a fish slot and joined.
CatchBetter ==
    /\ ~listening
    /\ selfMaster' = FALSE
    /\ isAdvancedStage' = TRUE
    /\ Restarted
    /\ UNCHANGED <<repeaterVars, clock, mail, listening>>

\* assumeMastership(), on AbandonMastership or after deep fishing in vain
AssumeMastership ==
    /\ selfMaster' = TRUE
    /\ UNCHANGED <<repeaterVars, isAdvancedStage, clock, mail, listening, historyVars>>

\* A provisioned property is told downstream by a master, upstream by a slave;
\* a master keeps work to itself.
Provision(property) ==
    /\ ~listening
    /\ property = "Work" => ~selfMaster
    /\ IF selfMaster THEN RepeatDownstream(property) ELSE RepeatUpstream
    /\ UNCHANGED <<policyVars, mail, listening, historyVars>>

\* The application puts work in the mailbox.
PutMail ==
    /\ mail' = TRUE
    /\ UNCHANGED <<repeaterVars, policyVars, listening, historyVars>>

\* Clique::init()
Init ==
    /\ RepeaterInit
    /\ selfMaster = TRUE /\ isAdvancedStage = FALSE /\ clock \in Wraps
    /\ mail = FALSE
    /\ listening = FALSE
    /\ silent = 0 /\ allowance = 0

Next ==
    \/ SendControlSync \/ SendWorkSync \/ SendMasterSync
    \/ Listen
    \/ \E isBetter \in BOOLEAN : HearSync(isBetter)
    \/ HearGranularity \/ HearScatter \/ EndListen
    \/ CatchBetter \/ AssumeMastership
    \/ \E property \in {"NetGranularity", "Scatter", "Work"} : Provision(property)
    \/ PutMail

Spec == Init /\ [][Next]_vars

-----------------------------------------------------------------------------

\* Types of all variables; the history is bounded only by SyncSpanBounded.
TypeOK ==
    /\ RepeaterTypeOK
    /\ selfMaster \in BOOLEAN /\ isAdvancedStage \in BOOLEAN
    /\ clock \in [tick : 0 .. CyclePeriods, alarm : 0 .. CyclePeriods - 1,
                  isArmed : BOOLEAN]
    /\ mail \in BOOLEAN /\ listening \in BOOLEAN
    /\ silent \in Nat /\ allowance \in 0 .. MaxAllowance

\* policyParameters.h:40 "The max span between MasterSyncs xmitted can be twice
\* this": in the joined stage a master leaves its clique without sync for less
\* than two cycles, and a cycle more for each due sync whose slot a control
\* message took; also when it heard sync and disarmed, became a slave and a
\* master again in the middle of a cycle, or was reset.
SyncSpanBounded == silent < 2 * CyclePeriods + allowance

=============================================================================
