---------------------------- MODULE CliqueProofs ----------------------------
(***************************************************************************)
(* For every set of IDs, length of the history and dropout limit: a unit   *)
(* never follows a worse master and can always revert.                     *)
(***************************************************************************)
EXTENDS Clique, TLAPS

Histories == [index : RecordIndexes, masters : [RecordIndexes -> IDs \cup {NoID}]]

\* The inductive invariant: reversion reads record 0, so that record must be
\* self's own, and a slave must have one to step back from.
CliqueInv == CliqueTypeOK /\ SlaveHasFormerClique /\ MasterNeverWorseThanSelf

\* Adding a record to a history leaves a history that can be stepped back in,
\* with the same first record: add() also when it is exhausted.
LEMMA AddHistory ==
    ASSUME NEW h \in Histories, NEW id \in IDs
    PROVE  /\ Add(h, id) \in Histories
           /\ Add(h, id).index > 0
           /\ Add(h, id).masters[0] = h.masters[0]
<1> USE CliqueAssumption DEF RecordIndexes
<1>1. h.index \in 0 .. RecordCount - 1 /\ h.masters \in [0 .. RecordCount - 1 -> IDs \cup {NoID}]
  BY DEF Histories
<1>2. CASE h.index < RecordCount - 1
  <2> DEFINE m == [h.masters EXCEPT ![h.index + 1] = id]
  <2>1. m \in [0 .. RecordCount - 1 -> IDs \cup {NoID}] /\ m[0] = h.masters[0]
    BY <1>1, <1>2
  <2>2. Add(h, id) = [index |-> h.index + 1, masters |-> m]
    BY <1>2 DEF Add
  <2> HIDE DEF m
  <2> QED BY <1>1, <1>2, <2>1, <2>2 DEF Histories
<1>3. CASE ~(h.index < RecordCount - 1)
  BY <1>1, <1>3 DEF Add
<1> QED BY <1>2, <1>3

\* Following the same or a better master, starting from a history h, keeps the
\* invariant (updateMastership()).
LEMMA UpdateMastershipKeeps ==
    ASSUME CliqueInv, NEW h \in Histories, NEW id \in IDs,
           h.masters[0] = Self, id =< Self,
           id = masterID => h = history,
           UpdateMastership(id, h)
    PROVE  masterID' \in IDs /\ history' \in Histories
           /\ SlaveHasFormerClique' /\ MasterNeverWorseThanSelf'
<1>1. masterID' = id /\ history' = IF masterID # id THEN Add(h, id) ELSE h
  BY DEF UpdateMastership
<1>2. CASE masterID = id
  BY <1>1, <1>2 DEF CliqueInv, SlaveHasFormerClique, MasterNeverWorseThanSelf
<1>3. CASE masterID # id
  BY <1>1, <1>3, AddHistory DEF SlaveHasFormerClique, MasterNeverWorseThanSelf
<1> QED BY <1>2, <1>3

\* A slave that reverts becomes its own master: the former record is its own,
\* or record 0, which is read instead, is.
LEMMA RevertToSelf ==
    ASSUME CliqueInv, ~IsSelfMaster, RevertByCliqueHistory
    PROVE  masterID' = Self /\ history' \in Histories /\ SlaveHasFormerClique'
<1> DEFINE h == Former(history)
<1>1. history \in Histories /\ history.index > 0 /\ history.masters[0] = Self
  BY DEF CliqueInv, CliqueTypeOK, Histories, SlaveHasFormerClique, IsSelfMaster
<1>2. h = [index |-> history.index - 1, masters |-> history.masters]
  BY <1>1 DEF Former, Histories
<1>3. h \in Histories /\ h.masters[0] = Self
  BY <1>1, <1>2, CliqueAssumption DEF Histories, RecordIndexes
<1> HIDE DEF h
<1>4. CASE IsCurrentCliqueRecordSelf(h)
  BY <1>3, <1>4 DEF RevertByCliqueHistory, h, SlaveHasFormerClique
<1>5. CASE ~IsCurrentCliqueRecordSelf(h)
  <2>1. masterID' = Self /\ history' = Add(h, Self)
    BY <1>3, <1>5 DEF RevertByCliqueHistory, h, UpdateMastership,
                      CurrentCliqueRecordMasterID, IsSelfMaster
  <2> QED BY <1>3, <2>1, AddHistory, CliqueAssumption DEF SlaveHasFormerClique
<1> QED BY <1>4, <1>5

\* The invariant holds when the clique is initialised.
LEMMA CliqueInitInv == CliqueInit => CliqueInv
<1> SUFFICES ASSUME CliqueInit PROVE CliqueInv
  OBVIOUS
<1> USE CliqueAssumption DEF CliqueInit
<1>1. CliqueTypeOK
  BY DEF CliqueTypeOK, RecordIndexes
<1>2. SlaveHasFormerClique
  BY DEF SlaveHasFormerClique, RecordIndexes
<1>3. MasterNeverWorseThanSelf
  BY DEF MasterNeverWorseThanSelf
<1> QED BY <1>1, <1>2, <1>3 DEF CliqueInv

\* Every way the clique changes keeps the invariant.
LEMMA CliqueStepInv == CliqueInv /\ [CliqueNext]_cliqueVars => CliqueInv'
<1> SUFFICES ASSUME CliqueInv, [CliqueNext]_cliqueVars PROVE CliqueInv'
  OBVIOUS
<1> USE CliqueAssumption
<1>0. /\ masterID \in IDs /\ history \in Histories /\ countMissing \in 0 .. MaxMissing
      /\ history.masters[0] = Self /\ masterID =< Self
  BY DEF CliqueInv, CliqueTypeOK, Histories, SlaveHasFormerClique, MasterNeverWorseThanSelf
<1>1. ASSUME NEW id \in IDs, FollowMaster(id) PROVE CliqueInv'
  <2>1. id =< Self
    <3>1. id \in Int /\ masterID \in Int /\ Self \in Int
      BY <1>0
    <3>2. masterID = id \/ masterID > id
      BY <1>1 DEF FollowMaster, IsMsgFromMyClique, IsOtherCliqueBetter
    <3> QED BY <1>0, <3>1, <3>2
  <2>2. UpdateMastership(id, history)
    BY <1>1 DEF FollowMaster
  <2>3. countMissing' \in 0 .. MaxMissing
    BY <1>0, <1>1 DEF FollowMaster
  <2> QED BY <1>0, <2>1, <2>2, <2>3, UpdateMastershipKeeps DEF CliqueInv, CliqueTypeOK, Histories
<1>2. CASE AssumeMastership
  BY <1>0, <1>2 DEF AssumeMastership, CliqueInv, CliqueTypeOK, Histories,
                    SlaveHasFormerClique, MasterNeverWorseThanSelf
<1>3. CASE ~IsSelfMaster /\ CheckMasterDroppedOut
  <2>1. CASE IsDropout
    <3>1. RevertByCliqueHistory /\ countMissing' = 0
      BY <1>3, <2>1 DEF CheckMasterDroppedOut
    <3>2. masterID' = Self /\ history' \in Histories /\ SlaveHasFormerClique'
      BY <1>3, <3>1, RevertToSelf
    <3> QED BY <3>1, <3>2 DEF CliqueInv, CliqueTypeOK, Histories, MasterNeverWorseThanSelf
  <2>2. CASE ~IsDropout
    <3>1. /\ countMissing' = countMissing + 1 /\ ~(countMissing + 1 > MaxMissing)
          /\ UNCHANGED <<masterID, history>>
      BY <1>3, <2>2 DEF CheckMasterDroppedOut, IsDropout
    <3> QED BY <1>0, <3>1 DEF CliqueInv, CliqueTypeOK, SlaveHasFormerClique,
                              MasterNeverWorseThanSelf
  <2> QED BY <2>1, <2>2
<1>4. CASE UNCHANGED cliqueVars
  BY <1>4 DEF cliqueVars, CliqueInv, CliqueTypeOK, SlaveHasFormerClique,
              MasterNeverWorseThanSelf
<1> QED BY <1>1, <1>2, <1>3, <1>4 DEF CliqueNext

\* A clique never has a master worse than self, and a slave can always revert:
\* the assertion in setCurrentCliqueRecordToFormerClique() never fails.
THEOREM CliqueInvariant == CliqueSpec => []CliqueInv
  BY CliqueInitInv, CliqueStepInv, PTL DEF CliqueSpec

\* A step of the clique gives it a better master, the same, or self.
LEMMA CliqueStepBetter ==
    CliqueInv /\ [CliqueNext]_cliqueVars
      => [masterID' =< masterID \/ masterID' = Self]_cliqueVars
<1> SUFFICES ASSUME CliqueInv, CliqueNext
             PROVE  masterID' =< masterID \/ masterID' = Self
  OBVIOUS
<1>0. IDs \subseteq Int /\ masterID \in Int
  BY CliqueAssumption DEF CliqueInv, CliqueTypeOK
<1>1. ASSUME NEW id \in IDs, FollowMaster(id) PROVE masterID' =< masterID
  BY <1>0, <1>1 DEF FollowMaster, UpdateMastership, IsMsgFromMyClique, IsOtherCliqueBetter
<1>2. CASE AssumeMastership
  BY <1>2 DEF AssumeMastership
<1>3. CASE ~IsSelfMaster /\ CheckMasterDroppedOut
  BY <1>0, <1>3, RevertToSelf DEF CheckMasterDroppedOut
<1> QED BY <1>1, <1>2, <1>3 DEF CliqueNext

\* Apart from reverting to itself, a unit only ever follows better masters.
THEOREM CliqueOnlyBetterMasters == CliqueSpec => OnlyBetterMasters
  BY CliqueInitInv, CliqueStepInv, CliqueStepBetter, PTL DEF CliqueSpec, OnlyBetterMasters

=============================================================================
