------------------------------- MODULE Clique -------------------------------
(***************************************************************************)
(* What a unit knows about its clique: the master it follows               *)
(* (src/clique/cliqueRoles.cpp, clique.cpp, cliqueReversion.cpp), the      *)
(* former masters (src/cliqueHistory) and the sync slots without sync      *)
(* since the last sync it heard (src/policy/dropoutMonitor.cpp).           *)
(*                                                                         *)
(* The operators are the member functions; SyncAgent composes them into    *)
(* the tasks and message handlers that call them.  Times (the schedule     *)
(* and the offsets in the history) are not part of this module.            *)
(***************************************************************************)
EXTENDS Integers

CONSTANTS
    Self,           \* System::ID()
    IDs,            \* the IDs of all units; the least is the best master
    RecordCount,    \* CliqueHistory: RecordCount
    MaxMissing      \* Policy::maxMissingSyncsPerDropout

\* No unit has the ID 0, the value of a record never written.
ASSUME CliqueAssumption ==
    /\ IDs \subseteq Nat \ {0}
    /\ Self \in IDs
    /\ RecordCount \in Nat /\ RecordCount >= 2
    /\ MaxMissing \in Nat

VARIABLES
    masterID,
    history,       \* [index |-> currentCliqueIndex, masters |-> cliqueRecords]
    countMissing   \* countSyncSlotsWithoutSyncMsg

cliqueVars == <<masterID, history, countMissing>>

NoID == 0
RecordIndexes == 0 .. RecordCount - 1

CliqueTypeOK ==
    /\ masterID \in IDs
    /\ history \in [index : RecordIndexes, masters : [RecordIndexes -> IDs \cup {NoID}]]
    /\ countMissing \in 0 .. MaxMissing

-----------------------------------------------------------------------------
(* CliqueHistory *)

\* A full history overwrites its last record instead of keeping it.
AddMutant(h, id) ==
    [index   |-> (h.index + 1) % RecordCount,
     masters |-> [h.masters EXCEPT ![(h.index + 1) % RecordCount] = id]]

\* add(): an exhausted history stays as it is.
Add(h, id) ==
    IF h.index < RecordCount - 1
      THEN [index   |-> h.index + 1,
            masters |-> [h.masters EXCEPT ![h.index + 1] = id]]
      ELSE h

\* setCurrentCliqueRecordToFormerClique()
Former(h) == [h EXCEPT !.index = h.index - 1]

IsCurrentCliqueRecordSelf(h) == h.masters[h.index] = Self

\* currentCliqueRecordMasterID() reads record 0, not the current record.
CurrentCliqueRecordMasterID(h) == h.masters[0]

-----------------------------------------------------------------------------
(* Comparison of cliques and mastership *)

IsSelfMaster == masterID = Self

IsMsgFromMyClique(id) == masterID = id

\* The comparison with its arguments the other way round.
IsOtherCliqueBetterMutant(id) == masterID < id

\* LEAST_ID_IS_BETTER_CLIQUE
IsOtherCliqueBetter(id) == masterID > id

\* updateMastership(), starting from the history h.
UpdateMastership(id, h) ==
    /\ masterID' = id
    /\ history' = IF masterID # id THEN Add(h, id) ELSE h

\* setSelfMastership(), assumeMastership(): the history and the dropout
\* monitor keep what they held under the last master.
AssumeMastership ==
    /\ masterID' = Self
    /\ UNCHANGED <<history, countMissing>>

\* One silent slot more before the dropout.
IsDropoutMutant == countMissing + 1 > MaxMissing + 1

\* DropoutMonitor::isDropout(): would one more silent slot be too many?
IsDropout == countMissing + 1 > MaxMissing

\* onMasterDropout(), revertByCliqueHistory(): grabMastership() when the former
\* record is self, else revertToFormerMaster().
RevertByCliqueHistory ==
    LET h == Former(history)
    IN  IF IsCurrentCliqueRecordSelf(h)
          THEN masterID' = Self /\ history' = h
          ELSE UpdateMastership(CurrentCliqueRecordMasterID(h), h)

\* The slot's silence is not counted while the history is exhausted.
CheckMasterDroppedOutMutant ==
    IF history.index < RecordCount - 1 /\ IsDropout
      THEN RevertByCliqueHistory /\ countMissing' = 0
      ELSE UNCHANGED cliqueVars

\* checkMasterDroppedOut(): isDropout() resets the count it found too large.
CheckMasterDroppedOut ==
    IF IsDropout
      THEN RevertByCliqueHistory /\ countMissing' = 0
      ELSE countMissing' = countMissing + 1 /\ UNCHANGED <<masterID, history>>

\* A sync of the same or a better clique is heard in the sync slot (and ends the
\* count of silent slots) or fished (and does not): updateBySyncMessage().
FollowMaster(id) ==
    /\ IsMsgFromMyClique(id) \/ IsOtherCliqueBetter(id)
    /\ UpdateMastership(id, history)
    /\ countMissing' \in {0, countMissing}

CliqueInit ==
    /\ masterID = Self
    /\ history = [index   |-> 0,
                  masters |-> [i \in RecordIndexes |-> IF i = 0 THEN Self ELSE NoID]]
    /\ countMissing = 0

CliqueNext ==
    \/ \E id \in IDs : FollowMaster(id)
    \/ AssumeMastership
    \/ ~IsSelfMaster /\ CheckMasterDroppedOut

\* What the clique is to the rest of a unit: the only ways its master, its
\* history and its dropout monitor change.
CliqueSpec == CliqueInit /\ [][CliqueNext]_cliqueVars

-----------------------------------------------------------------------------

\* A unit that follows another master can always step back in its clique
\* history: assert(currentCliqueIndex > 0) in
\* setCurrentCliqueRecordToFormerClique() holds after any number of joins,
\* reversions, scatters and abandonments, also when the history is exhausted;
\* and the record it finally goes back to is its own.
SlaveHasFormerClique ==
    /\ masterID # Self => history.index > 0
    /\ history.masters[0] = Self

\* No unit ever follows a master worse than itself: updateMastership() is
\* called only with a "superior or self" ID on every path to it.
MasterNeverWorseThanSelf == masterID =< Self

\* A unit changes its master only for a better one or for itself.
OnlyBetterMasters == [][masterID' =< masterID \/ masterID' = Self]_cliqueVars

=============================================================================
