------------------------------ MODULE Ensemble ------------------------------
(***************************************************************************)
(* Several units on one radio channel: who is master when they hear each   *)
(* other's syncs in shared sync slots and in fish slots, and messages      *)
(* collide or are lost, units lack the power for a slot, work, scatter,    *)
(* fail and restart.                                                       *)
(*                                                                         *)
(* Of the schedule, only which of a few slots of the period is a unit's    *)
(* sync slot.  Of a unit, its clique (module Clique), and for how many of  *)
(* its slots a master has been quiet.  A message is a sync (MasterSync or  *)
(* WorkSync), which names the master of the sender's clique, or a Merge    *)
(* message into the sync slot of another clique.  As messageTypeFromRaw()  *)
(* decodes these, MergeMyMasterDepart is heard as AbandonMastership, and   *)
(* the others leave mastership alone: they only collide.  Whom a unit      *)
(* merges, and how often it has told it, is not remembered: it may tell    *)
(* any slot but its own, at any time.                                      *)
(***************************************************************************)
EXTENDS Integers, FiniteSets

CONSTANTS
    Units,         \* the IDs
    Slots,         \* where in the period a sync slot may be
    Off,           \* instead of a slot: no power, or stopped
    RecordCount,   \* CliqueHistory: RecordCount
    MaxMissing,    \* Policy::maxMissingSyncsPerDropout
    MaxQuiet,      \* sync slots in a row in which a master sends no sync
    MaxMishaps     \* a bound of the model on faults and disturbances

\* A master is quiet for less than two cycles (XmitSyncPolicy), and a slave
\* waits longer than that before it drops out.
ASSUME EnsembleAssumption ==
    /\ Units \subseteq Nat \ {0} /\ IsFiniteSet(Units)
    /\ Off \notin Slots /\ Off \notin Units
    /\ RecordCount \in Nat /\ RecordCount >= 2
    /\ MaxMissing \in Nat /\ MaxQuiet \in Nat /\ MaxQuiet < MaxMissing
    /\ MaxMishaps \in Nat

VARIABLES
    clique,    \* of each unit: masterID, history, countMissing
    slot,      \* of each unit
    quiet,     \* of each unit that is master
    air,       \* the sync slot in progress, or Idle
    mishaps    \* how many are still to come

vars == <<clique, slot, quiet, air, mishaps>>

C(u) == INSTANCE Clique WITH
    Self <- u, IDs <- Units,
    masterID <- clique[u].masterID,
    history <- clique[u].history,
    countMissing <- clique[u].countMissing

\* senders of sync; merge: the Merge message sent, if any; ears: who listens; awake:
\* who will end a listening slot
Idle == [slot |-> Off, senders |-> {}, merge |-> "None", ears |-> {}, awake |-> {}]

KindsOfMerge == {"None", "MergeMyMasterDepart"}

On == {u \in Units : slot[u] # Off}

IsMaster(u) == clique[u].masterID = u

TypeOK ==
    /\ \A u \in Units : C(u)!CliqueTypeOK
    /\ slot \in [Units -> Slots \cup {Off}]
    /\ quiet \in [Units -> 0 .. MaxQuiet]
    /\ air.slot \in Slots \cup {Off}
    /\ air.ears \subseteq air.awake
    /\ air.senders \subseteq On /\ air.merge \in KindsOfMerge /\ air.awake \subseteq On
    /\ mishaps \in 0 .. MaxMishaps

-----------------------------------------------------------------------------
(* The clique of a unit *)

\* SyncAgentImp::init(), Clique::init(), CliqueHistory::init()
InitialClique(u) ==
    [masterID     |-> u,
     history      |-> [index   |-> 0,
                       masters |-> [i \in 0 .. RecordCount - 1 |-> IF i = 0 THEN u ELSE 0]],
     countMissing |-> 0]

\* updateMastership(), starting from the history h
UpdatedMastership(u, id, h) ==
    [clique[u] EXCEPT !.masterID = id,
                      !.history = IF clique[u].masterID # id THEN C(u)!Add(h, id) ELSE h]

\* The master of the former record, as the name of the function promises.
RevertedMutant(u) ==
    LET h == C(u)!Former(clique[u].history)
    IN  [clique[u] EXCEPT !.masterID = h.masters[h.index], !.history = h]

\* revertByCliqueHistory(): grabMastership() or revertToFormerMaster(), the master
Reverted(u) ==
    LET h == C(u)!Former(clique[u].history)
    IN  IF C(u)!IsCurrentCliqueRecordSelf(h)
          THEN [clique[u] EXCEPT !.masterID = u, !.history = h]
          ELSE UpdatedMastership(u, C(u)!CurrentCliqueRecordMasterID(h), h)

\* It is revertToFormerMaster(), which ends the period at once.
IsDisplaced(u) ==
    /\ C(u)!IsDropout
    /\ ~C(u)!IsCurrentCliqueRecordSelf(C(u)!Former(clique[u].history))

\* checkMasterDroppedOut()
CheckedDropout(u) ==
    IF C(u)!IsDropout
      THEN [Reverted(u) EXCEPT !.countMissing = 0]
      ELSE [clique[u] EXCEPT !.countMissing = @ + 1]

-----------------------------------------------------------------------------
(* A sync slot *)

\* The unit whose sync can be heard: only one sends.
Clear(v) == air.senders = {v} /\ air.merge = "None"

\* filterSyncMsg(): of v, the sender, would u keep the sync?
IsKept(u, v) ==
    LET id == clique[v].masterID
    IN  C(u)!IsMsgFromMyClique(id) \/ C(u)!IsOtherCliqueBetter(id)

\* A master that is due may stay quiet once more.
IsDueMutant(u) == IsMaster(u) /\ quiet[u] > MaxQuiet

\* The transmit policy's clock alarms now at the latest.
IsDue(u) == IsMaster(u) /\ quiet[u] = MaxQuiet

There(s) == {u \in Units : slot[u] = s}

\* The units of slot s decide what to do: masters send when they like and at the
\* latest when due; a slave sends when it has work, and who lacks power is
\* asleep, which are mishaps.
StartSlot(s, senders, asleep, merge) ==
    LET others == There(s) \ (senders \cup asleep)
        charge == Cardinality(asleep) + Cardinality({u \in senders : ~IsMaster(u)})
    IN  /\ air = Idle /\ There(s) # {}
        /\ \A u \in others : ~IsDue(u)
        /\ charge =< mishaps
        /\ mishaps' = mishaps - charge
        /\ quiet' = [u \in Units |-> IF u \in senders THEN 0
                                     ELSE IF u \in others /\ IsMaster(u) THEN quiet[u] + 1
                                     ELSE quiet[u]]
        /\ air' = [slot |-> s, senders |-> senders, merge |-> merge,
                   ears |-> others, awake |-> others]
        /\ UNCHANGED <<clique, slot>>

\* A sync does not end the count of silent slots.
HearMutant(u, v) ==
    /\ u \in air.ears /\ Clear(v) /\ IsKept(u, v)
    /\ clique' = [clique EXCEPT ![u] =
         UpdatedMastership(u, clique[v].masterID, clique[u].history)]
    /\ quiet' = [quiet EXCEPT ![u] = 0]
    /\ air' = [air EXCEPT !.ears = @ \ {u}]
    /\ UNCHANGED <<slot, mishaps>>

\* SyncSlotMessageHandler: u follows the sender's master, and the sync ends its
\* listening and its count of silent slots.
Hear(u, v) ==
    /\ u \in air.ears /\ Clear(v) /\ IsKept(u, v)
    /\ clique' = [clique EXCEPT ![u] =
         [UpdatedMastership(u, clique[v].masterID, clique[u].history)
            EXCEPT !.countMissing = 0]]
    /\ quiet' = [quiet EXCEPT ![u] = 0]
    /\ air' = [air EXCEPT !.ears = @ \ {u}]
    /\ UNCHANGED <<slot, mishaps>>

\* A MergeMyMasterDepart is heard as AbandonMastership: whoever listens assumes
\* mastership and goes on listening.
HearAbandon(u) ==
    /\ u \in air.ears /\ air.senders = {} /\ air.merge = "MergeMyMasterDepart"
    /\ clique' = [clique EXCEPT ![u].masterID = u]
    /\ UNCHANGED <<slot, quiet, air, mishaps>>

\* The fish slot of u is this sync slot.
Fishes(u, v) == slot[u] \in Slots \ {air.slot} /\ Clear(v)

\* A fisher joins whatever clique it caught.
CatchMutant(u, v) ==
    /\ Fishes(u, v)
    /\ clique' = [clique EXCEPT ![u] =
         UpdatedMastership(u, clique[v].masterID, clique[u].history)]
    /\ slot' = [slot EXCEPT ![u] = air.slot]
    /\ quiet' = [quiet EXCEPT ![u] = 0]
    /\ UNCHANGED <<air, mishaps>>

\* initMergeMyClique(), handleCatchFromDeepFishing(): u joins a better clique, and its
\* sync slot moves there.  The count of silent slots stays.
Catch(u, v) ==
    /\ Fishes(u, v)
    /\ C(u)!IsOtherCliqueBetter(clique[v].masterID)
    /\ clique' = [clique EXCEPT ![u] =
         UpdatedMastership(u, clique[v].masterID, clique[u].history)]
    /\ slot' = [slot EXCEPT ![u] = air.slot]
    /\ quiet' = [quiet EXCEPT ![u] = 0]
    /\ UNCHANGED <<air, mishaps>>

\* SyncSlot::endListen() of all who listened.  A clear sync that a unit would have
\* kept and did not hear is lost, a mishap.  A displaced unit comes to another slot
\* or, without time for the radio's prelude, stops (Schedule).
EndSlot ==
    LET lost      == {u \in air.ears : \E v \in Units : Clear(v) /\ IsKept(u, v)}
        slaves    == {u \in air.awake : ~IsMaster(u)}
        displaced == {u \in slaves : IsDisplaced(u)}
    IN  /\ air # Idle
        /\ Cardinality(lost) =< mishaps
        /\ mishaps' = mishaps - Cardinality(lost)
        /\ clique' = [u \in Units |-> IF u \in slaves THEN CheckedDropout(u) ELSE clique[u]]
        /\ slot' \in {f \in [Units -> Slots \cup {Off}] :
                       \A u \in Units \ displaced : f[u] = slot[u]}
        /\ air' = Idle
        /\ UNCHANGED quiet

-----------------------------------------------------------------------------
(* Mishaps between sync slots *)

Mishap == air = Idle /\ mishaps > 0 /\ mishaps' = mishaps - 1 /\ UNCHANGED air

\* Power on reset: all memory is lost, and the sync slot is anywhere.
Restart(u) ==
    /\ Mishap
    /\ clique' = [clique EXCEPT ![u] = InitialClique(u)]
    /\ \E s \in Slots : slot' = [slot EXCEPT ![u] = s]
    /\ quiet' = [quiet EXCEPT ![u] = 0]

\* The supply fails for good, or until a restart.
PowerOff(u) ==
    /\ Mishap
    /\ u \in On
    /\ clique' = [clique EXCEPT ![u] = InitialClique(u)]
    /\ slot' = [slot EXCEPT ![u] = Off]
    /\ quiet' = [quiet EXCEPT ![u] = 0]

\* assumeMastership(): deep fishing in vain, or a master that abandons
Assume(u) ==
    /\ Mishap
    /\ u \in On
    /\ clique' = [clique EXCEPT ![u].masterID = u]
    /\ UNCHANGED <<slot, quiet>>

\* scatterSync(): mastership, and a random time for the sync slot
Scatter(u) ==
    /\ Mishap
    /\ u \in On
    /\ clique' = [clique EXCEPT ![u].masterID = u]
    /\ \E s \in Slots : slot' = [slot EXCEPT ![u] = s]
    /\ UNCHANGED quiet

-----------------------------------------------------------------------------

Init ==
    /\ clique = [u \in Units |-> InitialClique(u)]
    /\ slot \in [Units -> Slots]
    /\ quiet = [u \in Units |-> 0]
    /\ air = Idle
    /\ mishaps = MaxMishaps

\* A unit of another slot may send a Merge message.  Any unit may have been master of
\* those it tells; a MergeOther or MergeMySlaveDepart is a MergeMyMasterDepart that
\* collides or that nobody hears.
SyncSlot(s) ==
    \E senders \in SUBSET There(s) : \E asleep \in SUBSET (There(s) \ senders) :
        \E merge \in {"None"} \cup {"MergeMyMasterDepart" : v \in On \ There(s)} :
            StartSlot(s, senders, asleep, merge)

Next ==
    \/ \E s \in Slots : SyncSlot(s)
    \/ \E u \in Units : HearAbandon(u) \/ \E v \in Units : Hear(u, v) \/ Catch(u, v)
    \/ EndSlot
    \/ \E u \in Units : Restart(u) \/ PowerOff(u) \/ Assume(u) \/ Scatter(u)

\* The best unit with power: LEAST_ID_IS_BETTER_CLIQUE
IsBest(b) == b \in On /\ \A u \in On : b =< u

\* Slots end and come again with every period; and merging and deep fishing end
\* (MergerEnds, DeepFishingEnds of SyncAgent), so that trolling comes by every slot
\* again and again (EverySlotFished of TrollingPolicy).
Fairness ==
    /\ WF_vars(EndSlot \/ \E u, v \in Units : Hear(u, v))
    /\ \A s \in Slots : []<>(air.slot = s \/ There(s) = {})
    /\ \A u \in Units : SF_vars(\E b \in Units : IsBest(b) /\ Catch(u, b))

Spec == Init /\ [][Next]_vars /\ Fairness

-----------------------------------------------------------------------------

\* Every unit of the ensemble behaves as the clique of module Clique, restarts
\* apart.
UnitsAreCliques ==
    /\ \A u \in Units : C(u)!CliqueInit
    /\ [][\A u \in Units :
            clique'[u] = clique[u] \/ C(u)!CliqueNext \/ (C(u)!CliqueInit)']_clique

Leader == [u \in Units |-> IF slot[u] = Off THEN Off ELSE clique[u].masterID]

Elect == INSTANCE Election WITH None <- Off, leader <- Leader

\* The units elect masters: nobody follows a master that it did not learn of from
\* a follower, histories and reversions included.
ImplementsElection == Elect!Spec

\* All units with power follow the best of them, b, in its sync slot.
InSyncWith(b) ==
    IsBest(b) /\ \A u \in On : clique[u].masterID = b /\ slot[u] = slot[b]

\* No slave of b has counted more silent slots than b was quiet for; the slot in
\* which b sends is counted too.
CountsMatch(b) ==
    LET silent(u) == clique[u].countMissing
        slaves    == On \ {b}
    IN  \/ air = Idle /\ \A u \in slaves : silent(u) =< quiet[b] + 1
        \/ /\ air.slot = slot[b] /\ air.senders = {}
           /\ \A u \in slaves : silent(u) =< quiet[b]
        \/ /\ air.slot = slot[b] /\ air.senders = {b}
           /\ \A u \in slaves : u \in air.ears \/ silent(u) = 0

InSync == \E b \in Units : InSyncWith(b) /\ CountsMatch(b)

\* Only a mishap breaks sync: whatever the coins of the master say, in whatever order
\* its sync is heard, and though isDropout() counts the slots in which there was
\* sync, no slave drops out of a clique whose master is well.
SyncIsStable == [][InSync /\ mishaps' = mishaps => InSync']_vars

\* No messages collide, and nobody tells another clique to merge.
Calm == air.merge = "None" /\ Cardinality(air.senders) =< 1

\* syncBehaviour.cpp:86 "they should eventually hear my clique master's sync and
\* relinquish mastership", README "algorithm seems to achieve sync (for three
\* units)": from any state that mishaps, reversions, collisions and Merge messages
\* leave behind, when the coins then fall well for long enough, the units that have
\* power, if any, come to follow the best of them, in one sync slot, and stay so.
EventuallyInSync == <>[]Calm => <>[](On # {} => InSync)

=============================================================================
