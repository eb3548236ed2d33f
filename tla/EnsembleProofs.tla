--------------------------- MODULE EnsembleProofs ---------------------------
(***************************************************************************)
(* The ensemble implements the election, for every finite set of units,    *)
(* number of slots, length of the history, limits and number of mishaps.   *)
(***************************************************************************)
EXTENDS Ensemble, FiniteSetTheorems, TLAPS

Indexes == 0 .. RecordCount - 1

Histories == [index : Indexes, masters : [Indexes -> Units \cup {0}]]

Cliques == [masterID : Units, history : Histories, countMissing : 0 .. MaxMissing]

\* A slave can step back in its history, which begins with the unit itself.
Good(u, c) ==
    /\ c \in Cliques
    /\ c.history.masters[0] = u
    /\ c.masterID # u => c.history.index > 0

Airs == [slot : Slots \cup {Off}, senders : SUBSET Units, merge : KindsOfMerge,
         ears : SUBSET Units, awake : SUBSET Units]

\* Whoever takes part in a slot has power; a Merge message comes from a unit of another
\* slot; the cliques are good.
Inv ==
    /\ clique \in [Units -> Cliques]
    /\ \A u \in Units : Good(u, clique[u])
    /\ slot \in [Units -> Slots \cup {Off}]
    /\ quiet \in [Units -> 0 .. MaxQuiet]
    /\ air \in Airs
    /\ air.ears \subseteq air.awake /\ air.senders \subseteq On /\ air.awake \subseteq On
    /\ air.senders # {} => air.slot # Off
    /\ air.merge # "None" => \E v \in On : slot[v] # air.slot
    /\ mishaps \in 0 .. MaxMishaps

-----------------------------------------------------------------------------
(* The clique of a unit *)

\* What is added to a history comes after its first record.
LEMMA AddGood ==
    ASSUME NEW u \in Units, NEW id \in Units, NEW h \in Histories, h.masters[0] = u
    PROVE  /\ C(u)!Add(h, id) \in Histories
           /\ C(u)!Add(h, id).masters[0] = u
           /\ C(u)!Add(h, id).index > 0
<1> USE EnsembleAssumption DEF Histories, Indexes
<1>1. CASE h.index < RecordCount - 1
  <2>1. C(u)!Add(h, id) = [index |-> h.index + 1,
                           masters |-> [h.masters EXCEPT ![h.index + 1] = id]]
    BY <1>1 DEF C!Add
  <2>2. h.index + 1 \in Indexes /\ h.index + 1 > 0
    BY <1>1
  <2>3. [h.masters EXCEPT ![h.index + 1] = id] \in [Indexes -> Units \cup {0}]
    BY <2>2
  <2>4. [h.masters EXCEPT ![h.index + 1] = id][0] = u
    BY <2>2
  <2> QED BY <2>1, <2>2, <2>3, <2>4
<1>2. CASE ~(h.index < RecordCount - 1)
  BY <1>2 DEF C!Add
<1> QED BY <1>1, <1>2

\* A unit that follows another master records it.
LEMMA UpdatedGood ==
    ASSUME NEW u \in Units, NEW id \in Units, Good(u, clique[u])
    PROVE  /\ Good(u, UpdatedMastership(u, id, clique[u].history))
           /\ UpdatedMastership(u, id, clique[u].history).masterID = id
<1> DEFINE h == clique[u].history
<1>1. h \in Histories /\ h.masters[0] = u /\ clique[u] \in Cliques
  BY DEF Good, Cliques
<1>2. CASE clique[u].masterID # id
  <2> DEFINE g == C(u)!Add(h, id)
  <2>1. UpdatedMastership(u, id, h) = [clique[u] EXCEPT !.masterID = id, !.history = g]
    BY <1>2 DEF UpdatedMastership
  <2>2. g \in Histories /\ g.masters[0] = u /\ g.index > 0
    BY <1>1, AddGood
  <2> HIDE DEF g
  <2> QED BY <1>1, <2>1, <2>2 DEF Good, Cliques
<1>3. CASE clique[u].masterID = id
  <2>1. UpdatedMastership(u, id, h) = [clique[u] EXCEPT !.masterID = id, !.history = h]
    BY <1>3 DEF UpdatedMastership
  <2> QED BY <1>1, <1>3, <2>1 DEF Good, Cliques
<1> QED BY <1>2, <1>3

\* Whatever the history of a slave, it reverts to itself.
LEMMA RevertedGood ==
    ASSUME NEW u \in Units, Good(u, clique[u]), clique[u].masterID # u
    PROVE  Good(u, Reverted(u)) /\ Reverted(u).masterID = u
<1> DEFINE h == C(u)!Former(clique[u].history)
<1>1. /\ clique[u] \in Cliques /\ clique[u].history \in Histories
      /\ clique[u].history.index > 0 /\ clique[u].history.masters[0] = u
  BY DEF Good, Cliques
<1>2. h = [clique[u].history EXCEPT !.index = clique[u].history.index - 1]
  BY DEF C!Former
<1>3. h \in Histories /\ h.masters[0] = u
  BY <1>1, <1>2, EnsembleAssumption DEF Histories, Indexes
<1>4. CASE C(u)!IsCurrentCliqueRecordSelf(h)
  <2>1. Reverted(u) = [clique[u] EXCEPT !.masterID = u, !.history = h]
    BY <1>4 DEF Reverted
  <2> HIDE DEF h
  <2> QED BY <1>1, <1>3, <2>1 DEF Good, Cliques
<1>5. CASE ~C(u)!IsCurrentCliqueRecordSelf(h)
  <2>1. C(u)!CurrentCliqueRecordMasterID(h) = u
    BY <1>3 DEF C!CurrentCliqueRecordMasterID
  <2>2. Reverted(u) = UpdatedMastership(u, u, h)
    BY <1>5, <2>1 DEF Reverted
  <2>3. UpdatedMastership(u, u, h)
          = [clique[u] EXCEPT !.masterID = u, !.history = C(u)!Add(h, u)]
    BY DEF UpdatedMastership
  <2>4. C(u)!Add(h, u) \in Histories /\ C(u)!Add(h, u).masters[0] = u
    BY <1>3, AddGood
  <2> HIDE DEF h
  <2> QED BY <1>1, <2>2, <2>3, <2>4 DEF Good, Cliques
<1> QED BY <1>4, <1>5

\* The end of a slot leaves a slave with its master or on its own.
LEMMA CheckedGood ==
    ASSUME NEW u \in Units, Good(u, clique[u]), clique[u].masterID # u
    PROVE  /\ Good(u, CheckedDropout(u))
           /\ CheckedDropout(u).masterID \in {clique[u].masterID, u}
<1>1. CASE C(u)!IsDropout
  <2>1. CheckedDropout(u) = [Reverted(u) EXCEPT !.countMissing = 0]
    BY <1>1 DEF CheckedDropout
  <2>2. Good(u, Reverted(u)) /\ Reverted(u).masterID = u
    BY RevertedGood
  <2>3. 0 \in 0 .. MaxMissing
    BY EnsembleAssumption
  <2> QED BY <2>1, <2>2, <2>3 DEF Good, Cliques
<1>2. CASE ~C(u)!IsDropout
  <2>1. CheckedDropout(u)
          = [clique[u] EXCEPT !.countMissing = clique[u].countMissing + 1]
    BY <1>2 DEF CheckedDropout
  <2>2. clique[u].countMissing + 1 \in 0 .. MaxMissing
    BY <1>2, EnsembleAssumption DEF C!IsDropout, Good, Cliques
  <2> QED BY <2>1, <2>2 DEF Good, Cliques
<1> QED BY <1>1, <1>2

\* A unit that restarts.
LEMMA InitialGood ==
    ASSUME NEW u \in Units
    PROVE  Good(u, InitialClique(u)) /\ InitialClique(u).masterID = u
<1>1. 0 \in Indexes /\ 0 \in 0 .. MaxMissing
  BY EnsembleAssumption DEF Indexes
<1>2. [i \in Indexes |-> IF i = 0 THEN u ELSE 0] \in [Indexes -> Units \cup {0}]
  OBVIOUS
<1>3. [i \in Indexes |-> IF i = 0 THEN u ELSE 0][0] = u
  BY <1>1
<1> DEFINE m == [i \in Indexes |-> IF i = 0 THEN u ELSE 0]
<1>4. InitialClique(u) = [masterID |-> u, history |-> [index |-> 0, masters |-> m],
                          countMissing |-> 0]
  BY DEF InitialClique, Indexes
<1>5. m \in [Indexes -> Units \cup {0}] /\ m[0] = u
  BY <1>2, <1>3
<1> HIDE DEF m
<1> QED BY <1>1, <1>4, <1>5 DEF Good, Cliques, Histories

-----------------------------------------------------------------------------

\* A step that changes the clique of one unit keeps the cliques good.
LEMMA OneClique ==
    ASSUME Inv, NEW u \in Units, NEW c, Good(u, c), clique' = [clique EXCEPT ![u] = c]
    PROVE  clique' \in [Units -> Cliques] /\ \A v \in Units : Good(v, clique'[v])
<1>1. c \in Cliques
  BY DEF Good
<1>2. clique' \in [Units -> Cliques]
  BY <1>1 DEF Inv
<1>3. ASSUME NEW v \in Units PROVE Good(v, clique'[v])
  BY <1>3 DEF Inv
<1> QED BY <1>2, <1>3

\* Good survives a change of the master to self.
LEMMA SelfGood ==
    ASSUME NEW u \in Units, Good(u, clique[u])
    PROVE  /\ Good(u, [clique[u] EXCEPT !.masterID = u])
           /\ [clique[u] EXCEPT !.masterID = u].masterID = u
BY DEF Good, Cliques

\* A number of mishaps is a number.
LEMMA Counted ==
    ASSUME NEW S \in SUBSET Units
    PROVE  Cardinality(S) \in Nat
BY FS_Subset, FS_CardinalityType, EnsembleAssumption

-----------------------------------------------------------------------------
(* The invariant, one lemma for each action *)

\* The decision at the start of a slot: no master is quiet for too long.
LEMMA StartSlotInv ==
    ASSUME Inv, NEW s \in Slots, NEW senders \in SUBSET There(s),
           NEW asleep \in SUBSET There(s),
           NEW merge \in {"None"} \cup {"MergeMyMasterDepart" : v \in On \ There(s)},
           StartSlot(s, senders, asleep, merge)
    PROVE  Inv'
<1> DEFINE others == There(s) \ (senders \cup asleep)
           charge == Cardinality(asleep) + Cardinality({u \in senders : ~IsMaster(u)})
<1>1. /\ \A u \in others : ~IsDue(u)
      /\ charge =< mishaps /\ mishaps' = mishaps - charge
      /\ quiet' = [u \in Units |-> IF u \in senders THEN 0
                                   ELSE IF u \in others /\ IsMaster(u) THEN quiet[u] + 1
                                   ELSE quiet[u]]
      /\ air' = [slot |-> s, senders |-> senders, merge |-> merge,
                 ears |-> others, awake |-> others]
      /\ clique' = clique /\ slot' = slot
  BY DEF StartSlot
<1>2. There(s) \subseteq On /\ others \subseteq On /\ On \subseteq Units /\ On' = On
  BY <1>1, EnsembleAssumption DEF On, There
<1>3. quiet' \in [Units -> 0 .. MaxQuiet]
  <2>1. ASSUME NEW u \in Units PROVE quiet'[u] \in 0 .. MaxQuiet
    <3>1. quiet[u] \in 0 .. MaxQuiet
      BY DEF Inv
    <3>2. CASE u \in others /\ IsMaster(u) /\ u \notin senders
      <4>1. quiet[u] # MaxQuiet
        BY <1>1, <3>2 DEF IsDue
      <4>2. quiet'[u] = quiet[u] + 1
        BY <1>1, <3>2
      <4> QED BY <3>1, <4>1, <4>2, EnsembleAssumption
    <3>3. CASE ~(u \in others /\ IsMaster(u) /\ u \notin senders)
      <4>1. quiet'[u] = 0 \/ quiet'[u] = quiet[u]
        BY <1>1, <3>3
      <4> QED BY <3>1, <4>1, EnsembleAssumption
    <3> QED BY <3>2, <3>3
  <2> QED BY <1>1, <2>1
<1>4. mishaps' \in 0 .. MaxMishaps
  <2>1. Cardinality(asleep) \in Nat /\ Cardinality({u \in senders : ~IsMaster(u)}) \in Nat
    BY <1>2, Counted
  <2> QED BY <1>1, <2>1, EnsembleAssumption DEF Inv
<1>5. merge \in KindsOfMerge
  BY DEF KindsOfMerge
<1>6. air' \in Airs /\ air'.slot # Off
  BY <1>1, <1>2, <1>5, EnsembleAssumption DEF Airs
<1>7. air'.merge # "None" => \E v \in On' : slot'[v] # air'.slot
  <2>1. merge # "None" => \E v \in On : v \notin There(s)
    OBVIOUS
  <2>2. \A v \in On : v \notin There(s) => slot[v] # s
    BY <1>2 DEF There
  <2> QED BY <1>1, <1>2, <2>1, <2>2
<1> HIDE DEF others, charge
<1> QED BY <1>1, <1>2, <1>3, <1>4, <1>6, <1>7 DEF Inv

\* A sync heard: the unit follows the sender's master.
LEMMA HearInv ==
    ASSUME Inv, NEW u \in Units, NEW v \in Units, Hear(u, v)
    PROVE  Inv' /\ clique'[u].masterID = clique[v].masterID
<1> DEFINE c == [UpdatedMastership(u, clique[v].masterID, clique[u].history)
                   EXCEPT !.countMissing = 0]
<1>1. clique[v].masterID \in Units /\ Good(u, clique[u])
  BY DEF Inv, Cliques
<1>2. /\ Good(u, UpdatedMastership(u, clique[v].masterID, clique[u].history))
      /\ UpdatedMastership(u, clique[v].masterID, clique[u].history).masterID
           = clique[v].masterID
  BY <1>1, UpdatedGood
<1>3. Good(u, c) /\ c.masterID = clique[v].masterID
  BY <1>2, EnsembleAssumption DEF Good, Cliques
<1>4. clique' = [clique EXCEPT ![u] = c]
  BY DEF Hear
<1> HIDE DEF c
<1>5. clique' \in [Units -> Cliques] /\ \A w \in Units : Good(w, clique'[w])
  BY <1>3, <1>4, OneClique
<1>6. quiet' \in [Units -> 0 .. MaxQuiet]
  BY EnsembleAssumption DEF Hear, Inv
<1>7. /\ air' = [air EXCEPT !.ears = air.ears \ {u}]
      /\ slot' = slot /\ mishaps' = mishaps /\ On' = On
  BY DEF Hear, On
<1>8. /\ air' \in Airs
      /\ air'.ears \subseteq air'.awake
      /\ air'.senders \subseteq On' /\ air'.awake \subseteq On'
      /\ air'.senders # {} => air'.slot # Off
      /\ air'.merge # "None" => \E w \in On' : slot'[w] # air'.slot
  <2>1. air \in Airs
    BY DEF Inv
  <2>2. /\ air' \in Airs
        /\ air'.ears = air.ears \ {u} /\ air'.awake = air.awake
        /\ air'.senders = air.senders /\ air'.slot = air.slot /\ air'.merge = air.merge
    BY <1>7, <2>1 DEF Airs
  <2> QED BY <1>7, <2>2 DEF Inv
<1>9. clique'[u].masterID = clique[v].masterID
  BY <1>3, <1>4 DEF Inv
<1> QED BY <1>5, <1>6, <1>7, <1>8, <1>9 DEF Inv

\* An AbandonMastership heard: the unit is on its own.
LEMMA HearAbandonInv ==
    ASSUME Inv, NEW u \in Units, HearAbandon(u)
    PROVE  Inv' /\ clique'[u].masterID = u
<1> DEFINE c == [clique[u] EXCEPT !.masterID = u]
<1>1. Good(u, c) /\ c.masterID = u
  BY SelfGood DEF Inv
<1>2. clique' = [clique EXCEPT ![u] = c]
  BY DEF HearAbandon
<1> HIDE DEF c
<1>3. clique' \in [Units -> Cliques] /\ \A w \in Units : Good(w, clique'[w])
  BY <1>1, <1>2, OneClique
<1>4. slot' = slot /\ quiet' = quiet /\ air' = air /\ mishaps' = mishaps /\ On' = On
  BY DEF HearAbandon, On
<1>5. clique'[u].masterID = u
  BY <1>1, <1>2 DEF Inv
<1> QED BY <1>3, <1>4, <1>5 DEF Inv

\* A sync fished: the unit moves to the slot of the sender.
LEMMA CatchInv ==
    ASSUME Inv, NEW u \in Units, NEW v \in Units, Catch(u, v)
    PROVE  Inv' /\ clique'[u].masterID = clique[v].masterID /\ slot'[u] # Off
<1> DEFINE c == UpdatedMastership(u, clique[v].masterID, clique[u].history)
<1>1. clique[v].masterID \in Units /\ Good(u, clique[u])
  BY DEF Inv, Cliques
<1>2. Good(u, c) /\ c.masterID = clique[v].masterID
  BY <1>1, UpdatedGood
<1>3. clique' = [clique EXCEPT ![u] = c]
  BY DEF Catch
<1> HIDE DEF c
<1>4. clique' \in [Units -> Cliques] /\ \A w \in Units : Good(w, clique'[w])
  BY <1>2, <1>3, OneClique
<1>5. quiet' \in [Units -> 0 .. MaxQuiet]
  BY EnsembleAssumption DEF Catch, Inv
<1>6. air.slot # Off /\ air.merge = "None"
  BY DEF Catch, Fishes, Clear, Inv
<1>7. slot' = [slot EXCEPT ![u] = air.slot] /\ air' = air /\ mishaps' = mishaps
  BY DEF Catch
<1>8. slot' \in [Units -> Slots \cup {Off}] /\ slot'[u] # Off
  BY <1>6, <1>7 DEF Inv, Airs
<1>9. On \subseteq On'
  BY <1>6, <1>7 DEF On, Inv
<1>10. clique'[u].masterID = clique[v].masterID
  BY <1>2, <1>3 DEF Inv
<1> QED BY <1>4, <1>5, <1>6, <1>7, <1>8, <1>9, <1>10 DEF Inv

\* The end of a slot: masters stay, and slaves keep their master or are on their
\* own; who has no power gets none.
LEMMA EndSlotInv ==
    ASSUME Inv, EndSlot
    PROVE  /\ Inv'
           /\ \A u \in Units : /\ clique'[u].masterID \in {clique[u].masterID, u}
                               /\ slot[u] = Off => slot'[u] = Off
<1> DEFINE lost      == {u \in air.ears : \E v \in Units : Clear(v) /\ IsKept(u, v)}
           slaves    == {u \in air.awake : ~IsMaster(u)}
           displaced == {u \in slaves : IsDisplaced(u)}
<1>1. /\ Cardinality(lost) =< mishaps /\ mishaps' = mishaps - Cardinality(lost)
      /\ clique' = [u \in Units |-> IF u \in slaves THEN CheckedDropout(u) ELSE clique[u]]
      /\ air' = Idle /\ quiet' = quiet
  BY DEF EndSlot
<1>1a. /\ slot' \in [Units -> Slots \cup {Off}]
       /\ \A u \in Units \ displaced : slot'[u] = slot[u]
  BY DEF EndSlot
<1>2. ASSUME NEW u \in Units
      PROVE  Good(u, clique'[u]) /\ clique'[u].masterID \in {clique[u].masterID, u}
  <2>1. CASE u \in slaves
    <3>1. clique'[u] = CheckedDropout(u)
      BY <1>1, <2>1
    <3>2. Good(u, clique[u]) /\ clique[u].masterID # u
      BY <2>1 DEF Inv, IsMaster
    <3> QED BY <3>1, <3>2, CheckedGood
  <2>2. CASE u \notin slaves
    <3>1. clique'[u] = clique[u]
      BY <1>1, <2>2
    <3> QED BY <3>1 DEF Inv
  <2> QED BY <2>1, <2>2
<1>3. clique' \in [Units -> Cliques]
  <2>1. \A u \in Units : clique'[u] \in Cliques
    BY <1>2 DEF Good
  <2> QED BY <1>1, <2>1
<1>4. mishaps' \in 0 .. MaxMishaps
  <2>1. lost \in SUBSET Units
    BY DEF Inv, Airs
  <2>2. Cardinality(lost) \in Nat
    BY <2>1, Counted
  <2> QED BY <1>1, <2>2, EnsembleAssumption DEF Inv
<1>5. air' \in Airs /\ air'.ears \subseteq air'.awake
      /\ air'.senders = {} /\ air'.awake = {} /\ air'.merge = "None"
  BY <1>1 DEF Idle, Airs, KindsOfMerge
<1>6. ASSUME NEW u \in Units, slot[u] = Off PROVE slot'[u] = Off
  <2>1. u \notin displaced
    BY <1>6 DEF Inv, On
  <2> QED BY <1>1a, <1>6, <2>1
<1> HIDE DEF lost, slaves, displaced
<1> QED BY <1>1, <1>1a, <1>2, <1>3, <1>4, <1>5, <1>6 DEF Inv

\* Mishaps: a unit is on its own or off.
LEMMA MishapInv ==
    ASSUME Inv, NEW u \in Units, Restart(u) \/ PowerOff(u) \/ Assume(u) \/ Scatter(u)
    PROVE  /\ Inv' /\ clique'[u].masterID = u
           /\ \A v \in Units \ {u} : clique'[v] = clique[v] /\ slot'[v] = slot[v]
<1>1. PICK c : clique' = [clique EXCEPT ![u] = c] /\ Good(u, c) /\ c.masterID = u
  <2>1. CASE Restart(u) \/ PowerOff(u)
    <3>1. clique' = [clique EXCEPT ![u] = InitialClique(u)]
      BY <2>1 DEF Restart, PowerOff
    <3> QED BY <3>1, InitialGood
  <2>2. CASE Assume(u) \/ Scatter(u)
    <3>1. clique' = [clique EXCEPT ![u] = [clique[u] EXCEPT !.masterID = u]]
      BY <2>2 DEF Assume, Scatter
    <3>2. Good(u, clique[u])
      BY DEF Inv
    <3> QED BY <3>1, <3>2, SelfGood
  <2> QED BY <2>1, <2>2
<1>2. clique' \in [Units -> Cliques] /\ \A w \in Units : Good(w, clique'[w])
  BY <1>1, OneClique
<1>3. PICK s \in Slots \cup {Off} : slot' = [slot EXCEPT ![u] = s]
  <2>1. CASE Restart(u) \/ Scatter(u)
    BY <2>1 DEF Restart, Scatter
  <2>2. CASE PowerOff(u)
    BY <2>2 DEF PowerOff
  <2>3. CASE Assume(u)
    <3>1. slot' = [slot EXCEPT ![u] = slot[u]] /\ slot[u] \in Slots \cup {Off}
      BY <2>3 DEF Assume, Inv
    <3> QED BY <3>1
  <2> QED BY <2>1, <2>2, <2>3
<1>4. quiet' \in [Units -> 0 .. MaxQuiet]
  BY EnsembleAssumption DEF Restart, PowerOff, Assume, Scatter, Inv
<1>5. air' = air /\ air = Idle /\ mishaps' \in 0 .. MaxMishaps
  BY EnsembleAssumption DEF Restart, PowerOff, Assume, Scatter, Mishap, Inv
<1>6. /\ air' \in Airs /\ air'.ears \subseteq air'.awake
      /\ air'.senders = {} /\ air'.awake = {} /\ air'.merge = "None"
  BY <1>5 DEF Idle, Inv
<1> QED BY <1>1, <1>2, <1>3, <1>4, <1>5, <1>6 DEF Inv

-----------------------------------------------------------------------------
(* The election *)

\* What the mapping says of one unit, before and after a step.
LEMMA LeaderOf ==
    ASSUME NEW u \in Units
    PROVE  /\ Leader[u] = IF slot[u] = Off THEN Off ELSE clique[u].masterID
           /\ Leader'[u] = IF slot'[u] = Off THEN Off ELSE clique'[u].masterID
BY DEF Leader

\* A step whose every unit has made one of its choices is a step of the election.
LEMMA ChoicesElect ==
    ASSUME Inv', \A u \in Units : Leader'[u] \in Elect!Choices(u)
    PROVE  Elect!Next
<1>1. Leader' \in [Units -> Units \cup {Off}]
  BY DEF Leader, Inv, Cliques
<1> QED BY <1>1 DEF Elect!Next

\* A unit that keeps its clique and its slot keeps its leader, which is a choice.
LEMMA KeptLeader ==
    ASSUME NEW u \in Units, clique'[u].masterID = clique[u].masterID, slot'[u] = slot[u]
    PROVE  Leader'[u] \in Elect!Choices(u)
BY LeaderOf DEF Elect!Choices

\* The master of a sender that has power is followed.
LEMMA SenderFollows ==
    ASSUME Inv, NEW v \in Units, Clear(v)
    PROVE  clique[v].masterID \in Elect!Followed /\ clique[v].masterID \in Units
<1>1. v \in On /\ clique[v].masterID \in Units
  BY DEF Inv, Clear, Cliques
<1>2. Leader[v] = clique[v].masterID /\ Leader[v] # Off
  BY <1>1, LeaderOf, EnsembleAssumption DEF On
<1> QED BY <1>1, <1>2 DEF Elect!Followed

\* Following a sender whose master is the same or better is a choice.
LEMMA FollowElects ==
    ASSUME Inv, Inv', NEW u \in Units, NEW v \in Units, Clear(v), IsKept(u, v),
           u \in On, u \in On', clique'[u].masterID = clique[v].masterID,
           \A w \in Units \ {u} : clique'[w] = clique[w] /\ slot'[w] = slot[w]
    PROVE  Elect!Next
<1> DEFINE id == clique[v].masterID
<1>1. Leader[u] = clique[u].masterID /\ Leader'[u] = id
  BY LeaderOf DEF On
<1>2. id \in Elect!Followed /\ id \in Units /\ clique[u].masterID \in Units
  BY SenderFollows DEF Inv, Cliques
<1>3. clique[u].masterID = id \/ clique[u].masterID > id
  BY DEF IsKept, C!IsMsgFromMyClique, C!IsOtherCliqueBetter
<1>4. Leader[u] # Off
  BY <1>1, <1>2, EnsembleAssumption
<1>5. id = Leader[u] \/ id < Leader[u]
  BY <1>1, <1>2, <1>3, EnsembleAssumption
<1>6. Leader'[u] \in Elect!Choices(u)
  BY <1>1, <1>2, <1>4, <1>5 DEF Elect!Choices
<1>7. \A w \in Units : Leader'[w] \in Elect!Choices(w)
  BY <1>6, KeptLeader
<1> QED BY <1>7, ChoicesElect

\* Every step of the ensemble keeps the invariant and is one of the election.
LEMMA EnsembleStep == Inv /\ [Next]_vars => Inv' /\ [Elect!Next]_Leader
<1> SUFFICES ASSUME Inv, [Next]_vars PROVE Inv' /\ [Elect!Next]_Leader
  OBVIOUS
<1>1. CASE \E s \in Slots : SyncSlot(s)
  <2>1. Leader' = Leader
    BY <1>1 DEF SyncSlot, StartSlot, Leader
  <2> QED BY <1>1, <2>1, StartSlotInv DEF SyncSlot
<1>2. ASSUME NEW u \in Units, NEW v \in Units, Hear(u, v)
      PROVE  Inv' /\ [Elect!Next]_Leader
  <2>1. Inv' /\ clique'[u].masterID = clique[v].masterID
    BY <1>2, HearInv
  <2>2. u \in On /\ u \in On' /\ Clear(v) /\ IsKept(u, v)
    BY <1>2 DEF Hear, Inv, On
  <2>3. \A w \in Units \ {u} : clique'[w] = clique[w] /\ slot'[w] = slot[w]
    BY <1>2 DEF Hear, Inv
  <2> QED BY <2>1, <2>2, <2>3, FollowElects
<1>3. ASSUME NEW u \in Units, NEW v \in Units, Catch(u, v)
      PROVE  Inv' /\ [Elect!Next]_Leader
  <2>1. Inv' /\ clique'[u].masterID = clique[v].masterID /\ slot'[u] # Off
    BY <1>3, CatchInv
  <2>2. u \in On /\ u \in On' /\ Clear(v) /\ IsKept(u, v)
    BY <1>3, <2>1, EnsembleAssumption DEF Catch, Fishes, On, IsKept
  <2>3. \A w \in Units \ {u} : clique'[w] = clique[w] /\ slot'[w] = slot[w]
    BY <1>3 DEF Catch, Inv
  <2> QED BY <2>1, <2>2, <2>3, FollowElects
<1>4. CASE EndSlot
  <2>1. /\ Inv'
        /\ \A u \in Units : /\ clique'[u].masterID \in {clique[u].masterID, u}
                            /\ slot[u] = Off => slot'[u] = Off
    BY <1>4, EndSlotInv
  <2>2. \A u \in Units : Leader'[u] \in Elect!Choices(u)
    BY <2>1, LeaderOf DEF Elect!Choices
  <2> QED BY <2>1, <2>2, ChoicesElect
<1>5. ASSUME NEW u \in Units, Restart(u) \/ PowerOff(u) \/ Assume(u) \/ Scatter(u)
      PROVE  Inv' /\ [Elect!Next]_Leader
  <2>1. /\ Inv' /\ clique'[u].masterID = u
        /\ \A v \in Units \ {u} : clique'[v] = clique[v] /\ slot'[v] = slot[v]
    BY <1>5, MishapInv
  <2>2. Leader'[u] \in Elect!Choices(u)
    BY <2>1, LeaderOf DEF Elect!Choices
  <2>3. \A v \in Units : Leader'[v] \in Elect!Choices(v)
    BY <2>1, <2>2, KeptLeader
  <2> QED BY <2>1, <2>3, ChoicesElect
<1>7. ASSUME NEW u \in Units, HearAbandon(u) PROVE Inv' /\ [Elect!Next]_Leader
  <2>1. /\ Inv' /\ clique'[u].masterID = u /\ slot' = slot
        /\ \A v \in Units \ {u} : clique'[v] = clique[v]
    BY <1>7, HearAbandonInv DEF HearAbandon, Inv
  <2>2. Leader'[u] \in Elect!Choices(u)
    BY <2>1, LeaderOf DEF Elect!Choices
  <2>3. \A v \in Units : Leader'[v] \in Elect!Choices(v)
    BY <2>1, <2>2, KeptLeader
  <2> QED BY <2>1, <2>3, ChoicesElect
<1>6. CASE UNCHANGED vars
  <2>1. Inv'
    BY <1>6 DEF Inv, vars, On
  <2>2. Leader' = Leader
    BY <1>6 DEF vars, Leader
  <2> QED BY <2>1, <2>2
<1> QED BY <1>1, <1>2, <1>3, <1>4, <1>5, <1>6, <1>7 DEF Next

\* All units start as masters of themselves.
LEMMA EnsembleInit == Init => Inv /\ Elect!Init
<1> SUFFICES ASSUME Init PROVE Inv /\ Elect!Init
  OBVIOUS
<1>1. \A u \in Units : Good(u, clique[u]) /\ clique[u].masterID = u
  BY InitialGood DEF Init
<1>2. clique \in [Units -> Cliques]
  BY <1>1 DEF Init, Good
<1>3. \A u \in Units : slot[u] # Off
  BY EnsembleAssumption DEF Init
<1>4. /\ air \in Airs /\ air.ears = {} /\ air.awake = {} /\ air.senders = {}
      /\ air.merge = "None"
  BY DEF Init, Idle, Airs, KindsOfMerge
<1>5. quiet \in [Units -> 0 .. MaxQuiet] /\ mishaps \in 0 .. MaxMishaps
  BY EnsembleAssumption DEF Init
<1>6. Inv
  BY <1>1, <1>2, <1>4, <1>5 DEF Init, Inv
<1>7. Leader = [u \in Units |-> u]
  BY <1>1, <1>3 DEF Leader
<1> QED BY <1>6, <1>7 DEF Elect!Init

\* The invariant implies the types of the ensemble and of each unit's clique.
LEMMA InvTypes == Inv => TypeOK
<1> SUFFICES ASSUME Inv PROVE TypeOK
  OBVIOUS
<1>1. ASSUME NEW u \in Units PROVE C(u)!CliqueTypeOK
  BY DEF Inv, Cliques, Histories, Indexes, C!CliqueTypeOK, C!RecordIndexes, C!NoID
<1> QED BY <1>1 DEF TypeOK, Inv, Airs

\* Types: counts within their limits, and only units with power in a slot.
THEOREM EnsembleTypeOK == Spec => []TypeOK
BY EnsembleInit, EnsembleStep, InvTypes, PTL DEF Spec

\* Units that hear each other's syncs, fish, fail and revert by their history
\* implement the election.
THEOREM EnsembleImplementsElection == Spec => ImplementsElection
<1>1. Inv /\ [Next]_vars => [Elect!Next]_Leader
  BY EnsembleStep
<1>2. Inv /\ [Next]_vars => Inv'
  BY EnsembleStep
<1>3. Init => Inv
  BY EnsembleInit
<1>4. Init => Elect!Init
  BY EnsembleInit
<1> QED BY <1>1, <1>2, <1>3, <1>4, PTL DEF Spec, ImplementsElection, Elect!Spec

\* A step of the election brings no leader back that nobody follows, itself apart.
LEMMA ChoicesResurrectNobody ==
    Elect!Next => \A m \in Units :
                    m \notin Elect!Followed /\ m \in Elect!Followed' => Leader'[m] = m
<1> SUFFICES ASSUME Elect!Next, NEW m \in Units, m \notin Elect!Followed,
                    m \in Elect!Followed'
             PROVE  Leader'[m] = m
  OBVIOUS
<1>1. PICK u \in Units : Leader'[u] = m /\ m # Off
  BY DEF Elect!Followed
<1>2. m \in Elect!Choices(u)
  BY <1>1 DEF Elect!Next
<1>3. m # Leader[u]
  BY <1>1 DEF Elect!Followed
<1>4. m = u
  BY <1>1, <1>2, <1>3 DEF Elect!Choices
<1> QED BY <1>1, <1>4

\* The ID of a unit that is gone, once its last follower gave it up, does not come
\* back through any history.
THEOREM EnsembleNoResurrection == Spec => Elect!NoResurrection
<1>1. Inv /\ [Next]_vars =>
        [\A m \in Units :
           m \notin Elect!Followed /\ m \in Elect!Followed' => Leader'[m] = m]_Leader
  BY EnsembleStep, ChoicesResurrectNobody
<1>2. Inv /\ [Next]_vars => Inv'
  BY EnsembleStep
<1>3. Init => Inv
  BY EnsembleInit
<1> QED BY <1>1, <1>2, <1>3, PTL DEF Spec, Elect!NoResurrection

-----------------------------------------------------------------------------
(* Each unit is a clique *)

\* What may become of the clique of one unit in a step.
CliqueStep(u) == clique'[u] = clique[u] \/ C(u)!CliqueNext \/ (C(u)!CliqueInit)'

\* Following a master that is the same or better is a step of the clique.
LEMMA FollowIsCliqueStep ==
    ASSUME Inv, NEW u \in Units, NEW id \in Units,
           C(u)!IsMsgFromMyClique(id) \/ C(u)!IsOtherCliqueBetter(id),
           NEW count \in {0, clique[u].countMissing},
           clique'[u] = [UpdatedMastership(u, id, clique[u].history)
                           EXCEPT !.countMissing = count]
    PROVE  CliqueStep(u)
<1> DEFINE h == IF clique[u].masterID # id
                  THEN C(u)!Add(clique[u].history, id) ELSE clique[u].history
<1>1. clique[u] \in Cliques
  BY DEF Inv
<1>2. clique'[u] = [clique[u] EXCEPT !.masterID = id, !.history = h, !.countMissing = count]
  BY <1>1 DEF UpdatedMastership, Cliques
<1> HIDE DEF h
<1>3. /\ clique'[u].masterID = id /\ clique'[u].history = h
      /\ clique'[u].countMissing = count
  BY <1>1, <1>2 DEF Cliques
<1>4. C(u)!UpdateMastership(id, clique[u].history)
  BY <1>3 DEF C!UpdateMastership, h
<1>5. C(u)!FollowMaster(id)
  BY <1>3, <1>4 DEF C!FollowMaster
<1> QED BY <1>5 DEF CliqueStep, C!CliqueNext

\* Becoming one's own master is a step of the clique.
LEMMA AssumeIsCliqueStep ==
    ASSUME Inv, NEW u \in Units, clique'[u] = [clique[u] EXCEPT !.masterID = u]
    PROVE  CliqueStep(u)
<1>1. clique[u] \in Cliques
  BY DEF Inv
<1>2. /\ clique'[u].masterID = u /\ clique'[u].history = clique[u].history
      /\ clique'[u].countMissing = clique[u].countMissing
  BY <1>1 DEF Cliques
<1>3. C(u)!AssumeMastership
  BY <1>2 DEF C!AssumeMastership
<1> QED BY <1>3 DEF CliqueStep, C!CliqueNext

\* The end of a slot that was silent for a slave is a step of the clique.
LEMMA CheckIsCliqueStep ==
    ASSUME Inv, NEW u \in Units, ~IsMaster(u), clique'[u] = CheckedDropout(u)
    PROVE  CliqueStep(u)
<1> DEFINE h == C(u)!Former(clique[u].history)
<1>1. clique[u] \in Cliques /\ ~C(u)!IsSelfMaster
  BY DEF Inv, IsMaster, C!IsSelfMaster
<1>2. CASE C(u)!IsDropout
  <2>1. clique'[u] = [Reverted(u) EXCEPT !.countMissing = 0]
    BY <1>2 DEF CheckedDropout
  <2>2. ASSUME C(u)!IsCurrentCliqueRecordSelf(h)
        PROVE  C(u)!RevertByCliqueHistory /\ clique'[u].countMissing = 0
    <3>1. Reverted(u) = [clique[u] EXCEPT !.masterID = u, !.history = h]
      BY <2>2 DEF Reverted
    <3> HIDE DEF h
    <3>2. /\ clique'[u].masterID = u /\ clique'[u].history = h
          /\ clique'[u].countMissing = 0
      BY <1>1, <2>1, <3>1 DEF Cliques
    <3> QED BY <2>2, <3>2 DEF C!RevertByCliqueHistory, h
  <2>3. ASSUME ~C(u)!IsCurrentCliqueRecordSelf(h)
        PROVE  C(u)!RevertByCliqueHistory /\ clique'[u].countMissing = 0
    <3> DEFINE id == C(u)!CurrentCliqueRecordMasterID(h)
               g  == IF clique[u].masterID # id THEN C(u)!Add(h, id) ELSE h
    <3>1. Reverted(u) = [clique[u] EXCEPT !.masterID = id, !.history = g]
      BY <2>3 DEF Reverted, UpdatedMastership
    <3> HIDE DEF g, id
    <3>2. /\ clique'[u].masterID = id /\ clique'[u].history = g
          /\ clique'[u].countMissing = 0
      BY <1>1, <2>1, <3>1 DEF Cliques
    <3>3. C(u)!UpdateMastership(id, h)
      BY <3>2 DEF C!UpdateMastership, g
    <3> QED BY <2>3, <3>2, <3>3 DEF C!RevertByCliqueHistory, id
  <2>4. C(u)!RevertByCliqueHistory /\ clique'[u].countMissing = 0
    BY <2>2, <2>3
  <2>5. C(u)!CheckMasterDroppedOut
    BY <1>2, <2>4 DEF C!CheckMasterDroppedOut
  <2> QED BY <1>1, <2>5 DEF CliqueStep, C!CliqueNext
<1>3. CASE ~C(u)!IsDropout
  <2>1. clique'[u] = [clique[u] EXCEPT !.countMissing = clique[u].countMissing + 1]
    BY <1>3 DEF CheckedDropout
  <2>2. /\ clique'[u].masterID = clique[u].masterID
        /\ clique'[u].history = clique[u].history
        /\ clique'[u].countMissing = clique[u].countMissing + 1
    BY <1>1, <2>1 DEF Cliques
  <2>3. C(u)!CheckMasterDroppedOut
    BY <1>3, <2>2 DEF C!CheckMasterDroppedOut
  <2> QED BY <1>1, <2>3 DEF CliqueStep, C!CliqueNext
<1> QED BY <1>2, <1>3

\* A restart puts the clique of a unit into its initial state.
LEMMA RestartIsCliqueInit ==
    ASSUME NEW u \in Units, clique'[u] = InitialClique(u)
    PROVE  CliqueStep(u)
<1>1. (C(u)!CliqueInit)'
  BY DEF InitialClique, C!CliqueInit, C!RecordIndexes, C!NoID
<1> QED BY <1>1 DEF CliqueStep

\* Every step of the ensemble is a step, a restart or a stutter of each clique.
LEMMA EnsembleStepsAreCliqueSteps ==
    ASSUME Inv, [Next]_vars, NEW w \in Units
    PROVE  CliqueStep(w)
<1>0. CASE clique'[w] = clique[w]
  BY <1>0 DEF CliqueStep
<1>1. ASSUME NEW u \in Units, NEW v \in Units, Hear(u, v) PROVE CliqueStep(w)
  <2> DEFINE c == [UpdatedMastership(u, clique[v].masterID, clique[u].history)
                     EXCEPT !.countMissing = 0]
  <2>1. clique' = [clique EXCEPT ![u] = c] /\ IsKept(u, v)
    BY <1>1 DEF Hear
  <2>2. CASE w = u
    <3>1. clique'[u] = c
      BY <2>1 DEF Inv
    <3>2. clique[v].masterID \in Units
      BY DEF Inv, Cliques
    <3> QED BY <2>1, <2>2, <3>1, <3>2, FollowIsCliqueStep DEF IsKept
  <2> HIDE DEF c
  <2>3. CASE w # u
    BY <1>0, <2>1, <2>3 DEF Inv
  <2> QED BY <2>2, <2>3
<1>2. ASSUME NEW u \in Units, NEW v \in Units, Catch(u, v) PROVE CliqueStep(w)
  <2> DEFINE id == clique[v].masterID
             c  == UpdatedMastership(u, id, clique[u].history)
  <2>1. clique' = [clique EXCEPT ![u] = c] /\ C(u)!IsOtherCliqueBetter(id)
    BY <1>2 DEF Catch
  <2>2. CASE w = u
    <3>1. clique'[u] = c /\ id \in Units /\ clique[u] \in Cliques
      BY <2>1 DEF Inv, Cliques
    <3>2. c = [c EXCEPT !.countMissing = clique[u].countMissing]
      BY <3>1 DEF UpdatedMastership, Cliques
    <3> QED BY <2>1, <2>2, <3>1, <3>2, FollowIsCliqueStep
  <2> HIDE DEF c
  <2>3. CASE w # u
    BY <1>0, <2>1, <2>3 DEF Inv
  <2> QED BY <2>2, <2>3
<1>3. CASE EndSlot
  <2>1. \/ clique'[w] = clique[w]
        \/ ~IsMaster(w) /\ clique'[w] = CheckedDropout(w)
    BY <1>3 DEF EndSlot
  <2> QED BY <1>0, <2>1, CheckIsCliqueStep
<1>4. ASSUME NEW u \in Units, Restart(u) \/ PowerOff(u) PROVE CliqueStep(w)
  <2>1. clique' = [clique EXCEPT ![u] = InitialClique(u)]
    BY <1>4 DEF Restart, PowerOff
  <2>2. CASE w = u
    BY <2>1, <2>2, RestartIsCliqueInit DEF Inv
  <2>3. CASE w # u
    BY <1>0, <2>1, <2>3 DEF Inv
  <2> QED BY <2>2, <2>3
<1>5. ASSUME NEW u \in Units, Assume(u) \/ Scatter(u) \/ HearAbandon(u)
      PROVE  CliqueStep(w)
  <2>1. clique' = [clique EXCEPT ![u] = [clique[u] EXCEPT !.masterID = u]]
    BY <1>5 DEF Assume, Scatter, HearAbandon
  <2>2. CASE w = u
    BY <2>1, <2>2, AssumeIsCliqueStep DEF Inv
  <2>3. CASE w # u
    BY <1>0, <2>1, <2>3 DEF Inv
  <2> QED BY <2>2, <2>3
<1>6. CASE UNCHANGED vars
  BY <1>0, <1>6 DEF vars
<1>7. CASE \E s \in Slots : SyncSlot(s)
  BY <1>0, <1>7 DEF SyncSlot, StartSlot
<1> QED BY <1>1, <1>2, <1>3, <1>4, <1>5, <1>6, <1>7 DEF Next

\* Whatever is sent, heard, fished, lost or collides, and whoever fails, each of any
\* number of units changes master, history and count of silent slots only as
\* module Clique says, or restarts: what is proved of one clique holds of every unit.
THEOREM EnsembleUnitsAreCliques == Spec => UnitsAreCliques
<1>1. Init => \A u \in Units : C(u)!CliqueInit
  <2> SUFFICES ASSUME Init, NEW u \in Units PROVE C(u)!CliqueInit
    OBVIOUS
  <2>1. clique[u] = InitialClique(u)
    BY DEF Init
  <2> QED BY <2>1 DEF InitialClique, C!CliqueInit, C!RecordIndexes, C!NoID
<1>2. Inv /\ [Next]_vars =>
        [\A u \in Units :
           clique'[u] = clique[u] \/ C(u)!CliqueNext \/ (C(u)!CliqueInit)']_clique
  BY EnsembleStepsAreCliqueSteps DEF CliqueStep
<1>3. Inv /\ [Next]_vars => Inv'
  BY EnsembleStep
<1>4. Init => Inv
  BY EnsembleInit
<1> QED BY <1>1, <1>2, <1>3, <1>4, PTL DEF Spec, UnitsAreCliques

-----------------------------------------------------------------------------
(* What the units inherit from the clique *)

\* assert(currentCliqueIndex > 0) holds in every unit, and nobody ever follows a
\* master worse than itself.
CliquesAreSafe ==
    \A u \in Units : C(u)!SlaveHasFormerClique /\ C(u)!MasterNeverWorseThanSelf

\* The master of a unit becomes the unit itself, stays, or is replaced by a better.
LEMMA MastersImprove ==
    ASSUME Inv, [Next]_vars, NEW w \in Units
    PROVE  clique'[w].masterID = w \/ clique'[w].masterID =< clique[w].masterID
<1>0. \A u \in Units : clique[u].masterID \in Units /\ clique[u].masterID \in Nat
  BY EnsembleAssumption DEF Inv, Cliques
<1>1. CASE clique'[w].masterID = clique[w].masterID
  BY <1>0, <1>1
<1>2. ASSUME NEW u \in Units, NEW v \in Units, IsKept(u, v),
             clique'[u].masterID = clique[v].masterID
      PROVE  clique'[u].masterID =< clique[u].masterID
  <2>1. clique[u].masterID = clique[v].masterID \/ clique[u].masterID > clique[v].masterID
    BY <1>2 DEF IsKept, C!IsMsgFromMyClique, C!IsOtherCliqueBetter
  <2> QED BY <1>0, <1>2, <2>1
<1>3. ASSUME NEW u \in Units, NEW v \in Units, Hear(u, v) \/ Catch(u, v)
      PROVE  clique'[w].masterID =< clique[w].masterID
  <2>1. clique'[u].masterID = clique[v].masterID /\ IsKept(u, v)
    BY <1>3, HearInv, CatchInv DEF Hear, Catch, IsKept
  <2>2. w # u => clique'[w] = clique[w]
    BY <1>3 DEF Hear, Catch, Inv
  <2> QED BY <1>0, <1>2, <2>1, <2>2
<1>4. CASE EndSlot
  BY <1>1, <1>4, EndSlotInv
<1>5. ASSUME NEW u \in Units, Restart(u) \/ PowerOff(u) \/ Assume(u) \/ Scatter(u)
      PROVE  clique'[w].masterID \in {w, clique[w].masterID}
  <2>1. clique'[u].masterID = u /\ \A v \in Units \ {u} : clique'[v] = clique[v]
    BY <1>5, MishapInv
  <2> QED BY <2>1
<1>6. CASE clique' = clique
  BY <1>1, <1>6
<1>7. ASSUME NEW u \in Units, HearAbandon(u)
      PROVE  clique'[w].masterID \in {w, clique[w].masterID}
  BY <1>7, HearAbandonInv DEF HearAbandon, Inv
<1>8. CASE \E s \in Slots : SyncSlot(s)
  BY <1>6, <1>8 DEF SyncSlot, StartSlot
<1> QED BY <1>1, <1>3, <1>4, <1>5, <1>6, <1>7, <1>8 DEF Next, vars

\* In an ensemble of any number of units, with any losses, collisions, failures and
\* reversions, no unit ever follows a master worse than itself and every slave
\* can step back in its history.
THEOREM EnsembleCliquesAreSafe == Spec => []CliquesAreSafe
<1> DEFINE Better == \A u \in Units : clique[u].masterID =< u
<1>1. Init => Better
  <2> SUFFICES ASSUME Init, NEW u \in Units PROVE clique[u].masterID =< u
    OBVIOUS
  <2>1. clique[u].masterID = u
    BY DEF Init, InitialClique
  <2> QED BY <2>1, EnsembleAssumption
<1>2. Inv /\ Better /\ [Next]_vars => Better'
  <2> SUFFICES ASSUME Inv, Inv', Better, [Next]_vars, NEW u \in Units
               PROVE  clique'[u].masterID =< u
    BY EnsembleStep
  <2>1. clique'[u].masterID = u \/ clique'[u].masterID =< clique[u].masterID
    BY MastersImprove
  <2>2. /\ clique[u].masterID \in Nat /\ clique'[u].masterID \in Nat /\ u \in Nat
        /\ clique[u].masterID =< u
    BY EnsembleAssumption DEF Inv, Cliques
  <2> QED BY <2>1, <2>2
<1>3. Inv /\ Better => CliquesAreSafe
  <2> SUFFICES ASSUME Inv, Better, NEW u \in Units
               PROVE  C(u)!SlaveHasFormerClique /\ C(u)!MasterNeverWorseThanSelf
    BY DEF CliquesAreSafe
  <2> QED BY DEF Inv, Good, C!SlaveHasFormerClique, C!MasterNeverWorseThanSelf
<1>4. Inv /\ [Next]_vars => Inv'
  BY EnsembleStep
<1>5. Init => Inv
  BY EnsembleInit
<1> QED BY <1>1, <1>2, <1>3, <1>4, <1>5, PTL DEF Spec

-----------------------------------------------------------------------------
(* Sync is stable *)

\* Only nobody costs nothing.
LEMMA NoCharge ==
    ASSUME NEW S \in SUBSET Units, Cardinality(S) = 0
    PROVE  S = {}
BY FS_Subset, FS_EmptySet, EnsembleAssumption

\* What sync says of b and of each unit with power.
LEMMA InSyncUnit ==
    ASSUME Inv, NEW b \in Units, InSyncWith(b)
    PROVE  /\ b \in On /\ slot[b] # Off /\ slot[b] \in Slots /\ quiet[b] \in 0 .. MaxQuiet
           /\ \A u \in On : /\ u \in Units /\ slot[u] = slot[b] /\ clique[u] \in Cliques
                            /\ clique[u].masterID = b
                            /\ clique[u].countMissing \in 0 .. MaxMissing
           /\ \A u \in Units : slot[u] \in Slots => u \in On
BY EnsembleAssumption DEF Inv, InSyncWith, IsBest, On, Cliques

\* A slot starts: all units are in it, nobody but b may send, and if it does not it
\* was quiet for one slot more.
LEMMA StartIsStable ==
    ASSUME Inv, NEW b \in Units, InSyncWith(b), CountsMatch(b), mishaps' = mishaps,
           NEW s \in Slots, NEW senders \in SUBSET There(s),
           NEW asleep \in SUBSET There(s),
           NEW merge \in {"None"} \cup {"MergeMyMasterDepart" : v \in On \ There(s)},
           StartSlot(s, senders, asleep, merge)
    PROVE  InSyncWith(b)' /\ CountsMatch(b)'
<1> DEFINE others == There(s) \ (senders \cup asleep)
           idle   == {u \in senders : ~IsMaster(u)}
<1>1. /\ air = Idle /\ There(s) # {}
      /\ \A u \in others : ~IsDue(u)
      /\ Cardinality(asleep) + Cardinality(idle) =< mishaps
      /\ mishaps' = mishaps - (Cardinality(asleep) + Cardinality(idle))
      /\ quiet' = [u \in Units |-> IF u \in senders THEN 0
                                   ELSE IF u \in others /\ IsMaster(u) THEN quiet[u] + 1
                                   ELSE quiet[u]]
      /\ air' = [slot |-> s, senders |-> senders, merge |-> merge,
                 ears |-> others, awake |-> others]
      /\ clique' = clique /\ slot' = slot /\ On' = On
  BY DEF StartSlot, On
<1>2. asleep = {} /\ idle = {}
  <2>1. asleep \in SUBSET Units /\ idle \in SUBSET Units
    BY DEF There
  <2>2. Cardinality(asleep) \in Nat /\ Cardinality(idle) \in Nat /\ mishaps \in Nat
    BY <2>1, Counted, EnsembleAssumption DEF Inv
  <2>3. Cardinality(asleep) = 0 /\ Cardinality(idle) = 0
    BY <1>1, <2>2
  <2> QED BY <2>1, <2>3, NoCharge
<1>3. There(s) = On /\ s = slot[b]
  BY <1>1, InSyncUnit DEF On, There
<1>4. senders = {} \/ senders = {b}
  BY <1>2, <1>3, InSyncUnit DEF IsMaster
<1>5. \A u \in On \ {b} : clique[u].countMissing =< quiet[b] + 1
  <2>1. air.slot # slot[b]
    BY <1>1, InSyncUnit DEF Idle
  <2> QED BY <2>1 DEF CountsMatch
<1>6. InSyncWith(b)'
  BY <1>1 DEF InSyncWith, IsBest
<1>7. CASE senders = {}
  <2>1. b \in others /\ IsMaster(b)
    BY <1>2, <1>3, <1>7, InSyncUnit DEF IsMaster
  <2>2. quiet'[b] = quiet[b] + 1
    BY <1>1, <1>7, <2>1
  <2>3. air'.slot = slot'[b] /\ air'.senders = {}
    BY <1>1, <1>3, <1>7
  <2> HIDE DEF others
  <2>4. \A u \in On' \ {b} : clique'[u].countMissing =< quiet'[b]
    BY <1>1, <1>5, <2>2
  <2> QED BY <1>6, <2>3, <2>4 DEF CountsMatch
<1>8. CASE senders = {b}
  <2>1. air'.slot = slot'[b] /\ air'.senders = {b} /\ air'.ears = On' \ {b}
    BY <1>1, <1>2, <1>3, <1>8
  <2> QED BY <1>6, <2>1 DEF CountsMatch
<1> QED BY <1>4, <1>7, <1>8

\* A sync heard can only be that of b, and ends the count of the unit that heard it.
LEMMA HearIsStable ==
    ASSUME Inv, NEW b \in Units, InSyncWith(b), CountsMatch(b),
           NEW u \in Units, NEW v \in Units, Hear(u, v)
    PROVE  InSyncWith(b)' /\ CountsMatch(b)'
<1>1. v = b /\ air.senders = {b} /\ air.slot = slot[b]
      /\ \A w \in On \ {b} : w \in air.ears \/ clique[w].countMissing = 0
  BY DEF Hear, Clear, CountsMatch, Idle
<1> DEFINE c == [UpdatedMastership(u, b, clique[u].history) EXCEPT !.countMissing = 0]
<1>2. u \in On /\ clique[b].masterID = b
  BY InSyncUnit DEF Hear, Inv
<1>3. /\ clique' = [clique EXCEPT ![u] = c] /\ slot' = slot /\ On' = On
      /\ air' = [air EXCEPT !.ears = air.ears \ {u}]
  BY <1>1, <1>2 DEF Hear, On
<1>4. c.masterID = b /\ c.countMissing = 0
  <2>1. clique[u] \in Cliques
    BY DEF Inv
  <2> QED BY <2>1 DEF UpdatedMastership, Cliques
<1> HIDE DEF c
<1>5. \A w \in On' : /\ clique'[w].masterID = b /\ slot'[w] = slot'[b]
                     /\ clique'[w].countMissing = IF w = u THEN 0 ELSE clique[w].countMissing
  BY <1>3, <1>4, InSyncUnit DEF Inv
<1>6. InSyncWith(b)'
  BY <1>3, <1>5 DEF InSyncWith, IsBest
<1>7. air'.slot = air.slot /\ air'.senders = air.senders /\ air'.ears = air.ears \ {u}
  BY <1>3 DEF Inv, Airs
<1>8. \A w \in On' \ {b} : w \in air'.ears \/ clique'[w].countMissing = 0
  BY <1>1, <1>3, <1>5, <1>7
<1> QED BY <1>1, <1>3, <1>6, <1>7, <1>8 DEF CountsMatch

\* Nobody is elsewhere to fish the sync of b.
LEMMA NothingToCatch ==
    ASSUME Inv, NEW b \in Units, InSyncWith(b), CountsMatch(b),
           NEW u \in Units, NEW v \in Units, Catch(u, v)
    PROVE  FALSE
<1>1. air.slot = slot[b]
  BY DEF Catch, Fishes, Clear, CountsMatch, Idle
<1> QED BY <1>1, InSyncUnit DEF Catch, Fishes

\* Nobody is elsewhere to send a Merge message.
LEMMA NobodyAbandons ==
    ASSUME Inv, NEW b \in Units, InSyncWith(b), CountsMatch(b),
           NEW u \in Units, HearAbandon(u)
    PROVE  FALSE
<1>1. air.slot = slot[b]
  BY DEF HearAbandon, CountsMatch, Idle
<1>2. PICK v \in On : slot[v] # air.slot
  BY DEF HearAbandon, Inv
<1> QED BY <1>1, <1>2, InSyncUnit

\* The end of the slot counts one more silent slot, which is still less than it takes
\* for a dropout, because b has not been quiet for too long or was just heard.
LEMMA EndIsStable ==
    ASSUME Inv, NEW b \in Units, InSyncWith(b), CountsMatch(b), mishaps' = mishaps, EndSlot
    PROVE  InSyncWith(b)' /\ CountsMatch(b)'
<1> DEFINE lost      == {u \in air.ears : \E v \in Units : Clear(v) /\ IsKept(u, v)}
           slaves    == {u \in air.awake : ~IsMaster(u)}
           displaced == {u \in slaves : IsDisplaced(u)}
<1>1. /\ air # Idle
      /\ Cardinality(lost) =< mishaps /\ mishaps' = mishaps - Cardinality(lost)
      /\ clique' = [u \in Units |-> IF u \in slaves THEN CheckedDropout(u) ELSE clique[u]]
      /\ air' = Idle /\ quiet' = quiet
  BY DEF EndSlot
<1>2. lost = {}
  <2>1. lost \in SUBSET Units
    BY DEF Inv, Airs
  <2>2. Cardinality(lost) \in Nat /\ mishaps \in Nat
    BY <2>1, Counted, EnsembleAssumption DEF Inv
  <2>3. Cardinality(lost) = 0
    BY <1>1, <2>2
  <2> QED BY <2>1, <2>3, NoCharge
<1>3. \A u \in On \ {b} : clique[u].countMissing =< quiet[b]
  <2>1. CASE air.senders = {} /\ \A u \in On \ {b} : clique[u].countMissing =< quiet[b]
    BY <2>1
  <2>2. CASE /\ air.slot = slot[b] /\ air.senders = {b}
             /\ \A u \in On \ {b} : u \in air.ears \/ clique[u].countMissing = 0
    <3>1. ASSUME NEW u \in On \ {b} PROVE u \notin air.ears
      <4>0. air.merge = "None"
        BY <2>2, InSyncUnit DEF Inv
      <4>1. Clear(b) /\ clique[u].masterID = b /\ clique[b].masterID = b
        BY <2>2, <4>0, InSyncUnit DEF Clear
      <4>2. IsKept(u, b)
        BY <4>1 DEF IsKept, C!IsMsgFromMyClique
      <4> QED BY <1>2, <4>1, <4>2
    <3>2. 0 =< quiet[b]
      BY InSyncUnit, EnsembleAssumption
    <3> QED BY <2>2, <3>1, <3>2
  <2> QED BY <1>1, <2>1, <2>2 DEF CountsMatch
<1>4. ASSUME NEW u \in On
      PROVE  /\ u \in Units /\ clique[u] \in Cliques /\ clique[u].masterID = b
             /\ clique[u].countMissing \in 0 .. MaxMissing /\ quiet[b] \in 0 .. MaxQuiet
  BY InSyncUnit
<1>5. ASSUME NEW u \in slaves
      PROVE  /\ u \in On /\ u # b /\ clique[u].countMissing =< quiet[b]
             /\ ~C(u)!IsDropout
  <2> DEFINE n == clique[u].countMissing
  <2>1. u \in On /\ u # b
    <3>1. u \in On
      BY DEF Inv
    <3> QED BY <3>1, <1>4 DEF IsMaster
  <2>2. n \in 0 .. MaxMissing /\ quiet[b] \in 0 .. MaxQuiet /\ n =< quiet[b]
    BY <1>3, <1>4, <2>1
  <2>3. ~(n + 1 > MaxMissing)
    BY <2>2, EnsembleAssumption
  <2> QED BY <2>1, <2>2, <2>3 DEF C!IsDropout
<1>6. slot' = slot /\ On' = On
  <2>1. displaced = {}
    BY <1>5 DEF IsDisplaced
  <2>2. slot' \in [Units -> Slots \cup {Off}] /\ \A u \in Units : slot'[u] = slot[u]
    BY <2>1 DEF EndSlot
  <2>3. slot' = slot
    BY <2>2 DEF Inv
  <2> QED BY <2>3 DEF On
<1>7. ASSUME NEW u \in On
      PROVE  /\ clique'[u].masterID = b
             /\ u # b => clique'[u].countMissing =< quiet[b] + 1
  <2> DEFINE n == clique[u].countMissing
  <2>1. CASE u \in slaves
    <3>1. clique'[u] = [clique[u] EXCEPT !.countMissing = n + 1]
      BY <1>1, <1>4, <1>5, <2>1 DEF CheckedDropout
    <3>2. n =< quiet[b] /\ n \in Nat /\ quiet[b] \in Nat
      BY <1>4, <1>5, <2>1, EnsembleAssumption
    <3> HIDE DEF n
    <3>3. clique'[u].masterID = b /\ clique'[u].countMissing = n + 1
      BY <1>4, <3>1 DEF Cliques
    <3> QED BY <3>2, <3>3
  <2>2. CASE u \notin slaves
    <3>1. clique'[u] = clique[u]
      BY <1>1, <1>4, <2>2
    <3>2. u # b => n =< quiet[b] + 1
      BY <1>3, <1>4, EnsembleAssumption
    <3> QED BY <1>4, <3>1, <3>2
  <2> QED BY <2>1, <2>2
<1>8. InSyncWith(b)'
  BY <1>6, <1>7 DEF InSyncWith, IsBest
<1> QED BY <1>1, <1>6, <1>7, <1>8 DEF CountsMatch

\* A step without a mishap keeps sync.
LEMMA NextIsStable ==
    ASSUME Inv, Next, InSync, mishaps' = mishaps
    PROVE  InSync'
<1>0. PICK b \in Units : InSyncWith(b) /\ CountsMatch(b)
  BY DEF InSync
<1>1. ASSUME NEW s \in Slots, SyncSlot(s)
      PROVE  InSyncWith(b)' /\ CountsMatch(b)'
  BY <1>0, <1>1, StartIsStable DEF SyncSlot
<1>2. ASSUME NEW u \in Units, NEW v \in Units, Hear(u, v) \/ Catch(u, v)
      PROVE  InSyncWith(b)' /\ CountsMatch(b)'
  BY <1>0, <1>2, HearIsStable, NothingToCatch
<1>3. CASE EndSlot
  BY <1>0, <1>3, EndIsStable DEF InSync
<1>4. ASSUME NEW u \in Units, Restart(u) \/ PowerOff(u) \/ Assume(u) \/ Scatter(u)
      PROVE  FALSE
  <2>1. mishaps \in Nat /\ mishaps' = mishaps - 1
    BY <1>4, EnsembleAssumption DEF Restart, PowerOff, Assume, Scatter, Mishap, Inv
  <2> QED BY <2>1
<1>5. ASSUME NEW u \in Units, HearAbandon(u) PROVE FALSE
  BY <1>0, <1>5, NobodyAbandons
<1> QED BY <1>1, <1>2, <1>3, <1>4, <1>5 DEF Next, InSync

\* For every number of units, and every MaxQuiet less than MaxMissing, only a mishap
\* breaks sync: units that follow the best of them in one slot stay so through
\* every quiet slot of the master and every order of hearing it.
THEOREM EnsembleSyncIsStable == Spec => SyncIsStable
<1>1. Inv /\ [Next]_vars => [InSync /\ mishaps' = mishaps => InSync']_vars
  BY NextIsStable
<1>2. Inv /\ [Next]_vars => Inv'
  BY EnsembleStep
<1>3. Init => Inv
  BY EnsembleInit
<1> QED BY <1>1, <1>2, <1>3, PTL DEF Spec, SyncIsStable

\* Mishaps are used up and never come back.
LEMMA MishapsOnlyFall ==
    ASSUME Inv, Next
    PROVE  mishaps' =< mishaps
<1>0. mishaps \in Nat
  BY EnsembleAssumption DEF Inv
<1>1. ASSUME NEW n \in Nat, mishaps' = mishaps - n PROVE mishaps' =< mishaps
  BY <1>0, <1>1
<1>2. ASSUME NEW s \in Slots, NEW senders \in SUBSET There(s),
             NEW asleep \in SUBSET There(s), NEW merge, StartSlot(s, senders, asleep, merge)
      PROVE  mishaps' =< mishaps
  <2> DEFINE idle == {u \in senders : ~IsMaster(u)}
  <2>1. mishaps' = mishaps - (Cardinality(asleep) + Cardinality(idle))
    BY <1>2 DEF StartSlot
  <2>2. asleep \in SUBSET Units /\ idle \in SUBSET Units
    BY DEF There
  <2>3. Cardinality(asleep) \in Nat /\ Cardinality(idle) \in Nat
    BY <2>2, Counted
  <2>4. Cardinality(asleep) + Cardinality(idle) \in Nat
    BY <2>3
  <2> QED BY <1>1, <2>1, <2>4
<1>3. CASE EndSlot
  <2> DEFINE lost == {u \in air.ears : \E v \in Units : Clear(v) /\ IsKept(u, v)}
  <2>1. mishaps' = mishaps - Cardinality(lost)
    BY <1>3 DEF EndSlot
  <2>2. lost \in SUBSET Units
    BY DEF Inv, Airs
  <2> QED BY <1>1, <2>1, <2>2, Counted
<1>4. CASE mishaps' = mishaps \/ mishaps' = mishaps - 1
  BY <1>0, <1>4
<1>5. ASSUME NEW s \in Slots, SyncSlot(s) PROVE mishaps' =< mishaps
  BY <1>2, <1>5 DEF SyncSlot
<1> QED BY <1>3, <1>4, <1>5
        DEF Next, Hear, HearAbandon, Catch, Restart, PowerOff, Assume, Scatter, Mishap

\* When no mishap is left, sync once reached is kept forever: the safety half of
\* EventuallyInSync, for every number of units.
THEOREM EnsembleSyncForever == Spec => [](InSync /\ mishaps = 0 => []InSync)
<1> DEFINE Stable == InSync /\ mishaps = 0
<1>1. Inv /\ Stable /\ [Next]_vars => Stable'
  <2> SUFFICES ASSUME Inv, Stable, [Next]_vars PROVE Stable'
    OBVIOUS
  <2>1. CASE UNCHANGED vars
    BY <2>1 DEF vars, InSync, InSyncWith, CountsMatch, IsBest, On
  <2>2. CASE Next
    <3>1. mishaps' =< mishaps /\ mishaps' \in 0 .. MaxMishaps /\ mishaps = 0
      BY <2>2, MishapsOnlyFall, EnsembleStep DEF Inv
    <3>2. mishaps' = 0
      BY <3>1, EnsembleAssumption
    <3> QED BY <2>2, <3>2, NextIsStable
  <2> QED BY <2>1, <2>2
<1>2. Inv /\ [Next]_vars => Inv'
  BY EnsembleStep
<1>3. Init => Inv
  BY EnsembleInit
<1> QED BY <1>1, <1>2, <1>3, PTL DEF Spec

=============================================================================
