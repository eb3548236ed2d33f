------------------------ MODULE CliqueTopologyProofs ------------------------
(***************************************************************************)
(* For every clique, every width of the packet's fields and every number   *)
(* of repeats: what carries sync survives the encoding, a radio never      *)
(* keeps the power of an earlier granularity, who scatters has stopped     *)
(* repeating, and a master takes over what it was told last.               *)
(***************************************************************************)
EXTENDS CliqueTopology, TLAPS

\* The inductive invariant.
Inv == TypeOK /\ PowerNeverStale /\ SyncSurvives /\ RepeaterInClique

\* The repeaters' conjunct of TypeOK.
RepeaterType ==
    repeater \in [Units -> [type : Types, value : Payloads, counter : 0 .. CountRepeats]]

\* What carries sync is encoded with the same value that decodes it.
LEMMA SyncTypesMatch ==
    \A type \in SyncCarriers : MessageTypeFromRaw(RawType[type]) = type
  BY DEF SyncCarriers, MessageTypeFromRaw, RawType, KnownRawTypes

\* Serializer: what fits into a packet and carries sync comes out as it went in.
LEMMA CodecInverse ==
    ASSUME NEW type \in SyncCarriers, NEW id \in 0 .. MasterIDRange - 1,
           NEW delta \in 0 .. OffsetRange - 1, NEW work \in Payloads
    PROVE  LET m == [type |-> type, masterID |-> id, offset |-> delta, work |-> work]
           IN  Unserialize(Serialize(m)) = m
<1> DEFINE m == [type |-> type, masterID |-> id, offset |-> delta, work |-> work]
<1>1. /\ id % MasterIDRange = id
      /\ delta % OffsetRange = delta
      /\ work % PayloadRange = work
  BY WidthAssumption DEF Payloads
<1>2. MessageTypeFromRaw(RawType[type]) = type
  BY SyncTypesMatch
<1> QED
  BY <1>1, <1>2 DEF Serialize, Unserialize, LowBytes

\* The encodings of message types and granularities have their ranges.
LEMMA Encodings ==
    /\ \A type \in Types : RawType[type] \in Nat
    /\ SyncCarriers \subseteq Types /\ "Invalid" \in Types
    /\ "Invalid" \notin SyncCarriers
    /\ \A g \in Granularities : GetRaw[g] \in Payloads
    /\ \A g \in Granularities : XmitPowerForGranularity[g] \in Int
    /\ \A raw : GetFromRaw(raw) \in Granularities
<1>1. /\ \A type \in Types : RawType[type] \in Nat
      /\ SyncCarriers \subseteq Types /\ "Invalid" \in Types
      /\ "Invalid" \notin SyncCarriers
  BY DEF Types, RawType, SyncCarriers
<1>2. \A g \in Granularities : GetRaw[g] \in Payloads
  BY WidthAssumption DEF Granularities, GetRaw, Payloads
<1>3. \A g \in Granularities : XmitPowerForGranularity[g] \in Int
  BY DEF Granularities, XmitPowerForGranularity
<1>4. \A raw : GetFromRaw(raw) \in Granularities
  BY DEF GetFromRaw, Granularities
<1> QED BY <1>1, <1>2, <1>3, <1>4

\* What a unit of the clique sends survives when it carries sync.
LEMMA SendInv ==
    ASSUME NEW u \in Units, NEW type \in Types, NEW id \in 0 .. MasterIDRange - 1,
           NEW delta \in Offsets, NEW work \in Payloads, TypeOK,
           SendMessage(u, type, id, delta, work)
    PROVE  /\ air'.sent.type \in Types /\ air'.packet.type \in Nat /\ air'.to \subseteq Units
           /\ SyncSurvives'
<1> DEFINE m == [type |-> type, masterID |-> id, offset |-> delta, work |-> work]
<1>1. /\ air' = [sent |-> m, packet |-> Serialize(m), to |-> members \ {u}]
      /\ members \subseteq Units
  BY DEF SendMessage, TypeOK
<1>2. Serialize(m).type \in Nat
  BY Encodings DEF Serialize
<1>3. delta \in 0 .. OffsetRange - 1
  BY TopologyAssumption, WidthAssumption
<1>4. ASSUME type \in SyncCarriers PROVE Unserialize(Serialize(m)) = m
  BY <1>3, <1>4, CodecInverse
<1> HIDE DEF m
<1>5. m.type = type
  BY DEF m
<1> QED BY <1>1, <1>2, <1>4, <1>5 DEF SyncSurvives

\* trySetGranularity() changes record and radio together.
LEMMA TrySetInv ==
    ASSUME NEW u \in Units, NEW g \in Granularities, TypeOK, PowerNeverStale,
           TrySetGranularity(u, g)
    PROVE  /\ granularity' \in [Units -> Granularities] /\ xmitPower' \in [Units -> Int]
           /\ PowerNeverStale'
<1>1. CASE g = "Invalid"
  BY <1>1 DEF TrySetGranularity, TypeOK, PowerNeverStale
<1>2. CASE g # "Invalid"
  <2>1. /\ granularity' = [granularity EXCEPT ![u] = g]
        /\ xmitPower' = [xmitPower EXCEPT ![u] = XmitPowerForGranularity[g]]
    BY <1>2 DEF TrySetGranularity
  <2> QED BY <1>2, <2>1, Encodings DEF TypeOK, PowerNeverStale
<1> QED BY <1>1, <1>2

\* SendRepeater::start() at a unit of the clique keeps the types of what is repeated
\* and who repeats in the clique.
LEMMA StartInv ==
    ASSUME TypeOK, RepeaterInClique, NEW u \in members, NEW type \in Types,
           NEW value \in Payloads, Start(u, type, value), UNCHANGED members
    PROVE  RepeaterType' /\ RepeaterInClique'
<1>1. u \in Units /\ repeater \in [Units -> [type : Types, value : Payloads,
                                           counter : 0 .. CountRepeats]]
  BY DEF TypeOK
<1>2. CASE IsActive(u)
  BY <1>1, <1>2 DEF Start, RepeaterType, RepeaterInClique, IsActive
<1>3. CASE ~IsActive(u)
  <2>1. repeater' = [repeater EXCEPT ![u] = [type |-> type, value |-> value, counter |-> 0]]
    BY <1>3 DEF Start
  <2>2. RepeaterType'
    BY <1>1, <2>1, TopologyAssumption DEF RepeaterType
  <2>3. ASSUME NEW w \in Units, IsActive(w)' PROVE w \in members'
    <3>1. CASE w = u
      BY <3>1
    <3>2. CASE w # u
      BY <1>1, <2>1, <2>3, <3>2 DEF IsActive, RepeaterInClique
    <3> QED BY <3>1, <3>2
  <2> QED BY <2>2, <2>3 DEF RepeaterInClique
<1> QED BY <1>2, <1>3

\* masterTellCliqueGranularityChange() keeps the types of memory and repeater.
LEMMA TellInv ==
    ASSUME TypeOK, RepeaterInClique, NEW g \in Granularities, Master \in members,
           MasterTellCliqueGranularityChange(g), UNCHANGED members
    PROVE  memo' \in Granularities /\ RepeaterType' /\ RepeaterInClique'
<1>1. "MasterSync" \in Types /\ GetRaw[g] \in Payloads
  BY Encodings DEF Types, RawType
<1> QED BY <1>1, StartInv DEF MasterTellCliqueGranularityChange

\* A unit whose repeater is stopped may scatter.
LEMMA StopInv ==
    ASSUME TypeOK, RepeaterInClique, NEW u \in Units, Abort(u),
           members' \in {members, members \ {u}}
    PROVE  RepeaterType' /\ RepeaterInClique'
<1>1. /\ repeater' = [repeater EXCEPT ![u] = Idle]
      /\ repeater \in [Units -> [type : Types, value : Payloads, counter : 0 .. CountRepeats]]
  BY DEF Abort, TypeOK
<1>2. Idle \in [type : Types, value : Payloads, counter : 0 .. CountRepeats]
  BY Encodings, TopologyAssumption, WidthAssumption DEF Idle, Payloads
<1>3. RepeaterType'
  BY <1>1, <1>2 DEF RepeaterType
<1>4. ASSUME NEW w \in Units, IsActive(w)' PROVE w \in members'
  <2>1. w # u /\ repeater'[w] = repeater[w]
    BY <1>1, <1>4 DEF IsActive
  <2>2. w \in members
    BY <1>4, <2>1 DEF IsActive, RepeaterInClique
  <2> QED BY <2>1, <2>2
<1> QED BY <1>3, <1>4 DEF RepeaterInClique

\* Provisioning preserves the invariant.
LEMMA ProvisionInv ==
    ASSUME Inv, NEW u \in Units, Provision(u) PROVE Inv'
<1> DEFINE Goal == memo' \in Granularities /\ RepeaterType' /\ RepeaterInClique'
<1>0. TypeOK /\ PowerNeverStale /\ SyncSurvives /\ RepeaterInClique
  BY DEF Inv
<1>1. /\ u \in members /\ UNCHANGED <<members, granularity, air>>
      /\ xmitPower' = [xmitPower EXCEPT ![u] = UseCasePower]
  BY DEF Provision
<1>2. xmitPower' \in [Units -> Int] /\ PowerNeverStale'
  BY <1>0, <1>1, TopologyAssumption DEF TypeOK, PowerNeverStale
<1>a. ASSUME UNCHANGED <<memo, repeater>> PROVE Goal
  BY <1>0, <1>1, <1>a DEF TypeOK, RepeaterType, RepeaterInClique, IsActive
<1>b. ASSUME NEW type \in Types, NEW value \in Payloads, Start(u, type, value), UNCHANGED memo
      PROVE  Goal
  BY <1>0, <1>1, <1>b, StartInv DEF TypeOK
<1>3. /\ {"ControlNetGranularity", "ControlScatterClique", "ControlWorkTime",
          "ControlWorkCycle"} \subseteq Types
      /\ 1 \in Payloads
  BY WidthAssumption DEF Types, RawType, Payloads
<1>4. ASSUME NEW raw \in Payloads, ProvisionNetGranularity(u, raw) PROVE Goal
  <2> DEFINE g == GetFromRaw(raw)
  <2>1. g \in Granularities /\ GetRaw[g] \in Payloads
    BY Encodings
  <2>2. CASE g = "Invalid"
    BY <1>4, <1>a, <2>2 DEF ProvisionNetGranularity
  <2>3. CASE g # "Invalid" /\ u = Master
    <3>1. MasterTellCliqueGranularityChange(g)
      BY <1>4, <2>3 DEF ProvisionNetGranularity
    <3> QED BY <1>0, <1>1, <2>1, <2>3, <3>1, TellInv
  <2>4. CASE g # "Invalid" /\ u # Master
    <3>1. Start(u, "ControlNetGranularity", GetRaw[g]) /\ UNCHANGED memo
      BY <1>4, <2>4 DEF ProvisionNetGranularity
    <3> QED BY <1>3, <1>b, <2>1, <3>1
  <2> QED BY <2>2, <2>3, <2>4
<1>5. ASSUME ProvisionScatter(u) PROVE Goal
  BY <1>3, <1>5, <1>b DEF ProvisionScatter
<1>6. ASSUME NEW type \in {"ControlWorkTime", "ControlWorkCycle"}, NEW value \in WorkValues,
             ProvisionWork(u, type, value)
      PROVE  Goal
  <2>1. ToPayload(value) \in Payloads
    BY TopologyAssumption, WidthAssumption DEF ToPayload, LowBytes, Payloads
  <2> QED BY <1>3, <1>6, <1>b, <2>1 DEF ProvisionWork
<1>7. ASSUME ProvisionNothing PROVE Goal
  BY <1>7, <1>a DEF ProvisionNothing
<1>8. Goal
  BY <1>4, <1>5, <1>6, <1>7 DEF Provision
<1> QED BY <1>0, <1>1, <1>2, <1>8 DEF Inv, TypeOK, RepeaterType, SyncSurvives

\* Silence is a state of the air like any other.
LEMMA SilenceOK ==
    /\ Silence.sent.type = "Invalid" /\ Silence.packet.type \in Nat /\ Silence.to = {}
  BY DEF Silence, NoMessage, Serialize, RawType

\* Every kind of sending preserves the invariant.
LEMMA SendStepInv ==
    ASSUME Inv, Send PROVE Inv'
<1> DEFINE AirOK == /\ air'.sent.type \in Types /\ air'.packet.type \in Nat
                    /\ air'.to \subseteq Units
                    /\ SyncSurvives'
<1>0. TypeOK /\ PowerNeverStale /\ SyncSurvives /\ RepeaterInClique
  BY DEF Inv
<1>a. /\ Master \in Units /\ Master \in 0 .. MasterIDRange - 1
      /\ OtherIDs \subseteq 0 .. MasterIDRange - 1 /\ OtherIDs \subseteq Int
  BY TopologyAssumption, WidthAssumption
<1>b. ASSUME AirOK, UNCHANGED <<members, granularity, xmitPower, memo, repeater>>
      PROVE  Inv'
  BY <1>0, <1>b DEF Inv, TypeOK, PowerNeverStale, RepeaterInClique, IsActive
<1>1. ASSUME NEW delta \in Offsets, SendMasterSync(delta) PROVE Inv'
  <2>1. "MasterSync" \in Types /\ GetRaw[granularity[Master]] \in Payloads
    BY <1>0, <1>a, Encodings DEF Types, RawType, TypeOK
  <2>2. AirOK
    BY <1>0, <1>1, <1>a, <2>1, SendInv DEF SendMasterSync
  <2> QED BY <1>1, <1>b, <2>2 DEF SendMasterSync
<1>2. ASSUME NEW u \in Units, NEW delta \in Offsets, NEW value \in WorkValues,
             SendWorkSync(u, delta, ToPayload(value))
      PROVE  Inv'
  <2>1. "WorkSync" \in Types /\ ToPayload(value) \in Payloads
    BY TopologyAssumption, WidthAssumption
      DEF Types, RawType, ToPayload, LowBytes, Payloads
  <2>2. AirOK
    BY <1>0, <1>2, <1>a, <2>1, SendInv DEF SendWorkSync
  <2> QED BY <1>2, <1>b, <2>2 DEF SendWorkSync
<1>3. ASSUME NEW u \in Units, NEW delta \in Offsets,
             NEW type \in {"MergeOther", "MergeMyMasterDepart", "MergeMySlaveDepart"},
             NEW superior \in OtherIDs \cup {Master}, NEW inferior \in OtherIDs \cup {Master},
             SendMergeSync(u, type, delta, superior, inferior)
      PROVE  Inv'
  <2>1. type \in Types
    BY DEF Types, RawType
  <2>2. ToPayload(inferior) \in Payloads
    BY <1>a, WidthAssumption DEF ToPayload, LowBytes, Payloads
  <2>3. superior \in 0 .. MasterIDRange - 1
    BY <1>a
  <2>4. AirOK
    BY <1>0, <1>3, <2>1, <2>2, <2>3, SendInv DEF SendMergeSync
  <2> QED BY <1>3, <1>b, <2>4 DEF SendMergeSync
<1>4. ASSUME NEW u \in Units, NEW delta \in Offsets, SendControlSync(u, delta) PROVE Inv'
  <2>1. /\ repeater[u].type \in Types /\ repeater[u].value \in Payloads
        /\ repeater[u].counter \in 0 .. CountRepeats
        /\ repeater \in [Units -> [type : Types, value : Payloads, counter : 0 .. CountRepeats]]
    BY <1>0 DEF TypeOK
  <2>2. AirOK
    BY <1>0, <1>4, <1>a, <2>1, SendInv DEF SendControlSync
  <2>3. memo' = memo /\ memo \in Granularities
    BY <1>0, <1>4 DEF SendControlSync, TypeOK
  <2>4. CASE IsDone(u)
    <3>1. Abort(u) /\ OnDone(u)
      BY <1>4, <2>4 DEF SendControlSync, Abort
    <3>2. members' \in {members, members \ {u}}
      BY <3>1 DEF OnDone, Scatter
    <3>3. RepeaterType' /\ RepeaterInClique'
      BY <1>0, <3>1, <3>2, StopInv
    <3>4. /\ granularity' \in [Units -> Granularities] /\ xmitPower' \in [Units -> Int]
          /\ PowerNeverStale'
      <4>1. CASE TrySetGranularity(u, memo)
        BY <1>0, <2>3, <4>1, TrySetInv
      <4>2. CASE UNCHANGED <<granularity, xmitPower>>
        BY <1>0, <4>2 DEF TypeOK, PowerNeverStale
      <4> QED BY <3>1, <4>1, <4>2 DEF OnDone
    <3> QED BY <1>0, <2>2, <2>3, <3>2, <3>3, <3>4 DEF Inv, TypeOK, RepeaterType
  <2>5. CASE ~IsDone(u)
    <3>1. /\ repeater' = [repeater EXCEPT ![u].counter = @ + 1]
          /\ UNCHANGED <<members, granularity, xmitPower>>
          /\ IsActive(u)
      BY <1>4, <2>5 DEF SendControlSync
    <3>2. repeater[u].counter + 1 \in 0 .. CountRepeats
      BY <2>1, <2>5, TopologyAssumption DEF IsDone
    <3>3. RepeaterType'
      BY <2>1, <3>1, <3>2 DEF RepeaterType
    <3>4. ASSUME NEW w \in Units, IsActive(w)' PROVE w \in members'
      <4>1. IsActive(w)
        <5>1. CASE w = u
          BY <3>1, <5>1
        <5>2. CASE w # u
          BY <2>1, <3>1, <3>4, <5>2 DEF IsActive
        <5> QED BY <5>1, <5>2
      <4> QED BY <1>0, <3>1, <4>1 DEF RepeaterInClique
    <3> QED BY <1>0, <2>2, <2>3, <3>1, <3>3, <3>4
          DEF Inv, TypeOK, RepeaterType, RepeaterInClique, PowerNeverStale
  <2> QED BY <2>4, <2>5
<1>5. ASSUME NEW type \in ForeignTypes, NEW id, NEW work, SendForeign(type, id, work)
      PROVE  Inv'
  <2>1. /\ air'.sent.type = "Invalid" /\ air'.packet.type = type
        /\ air'.to \subseteq Units
    BY <1>0, <1>5 DEF SendForeign, NoMessage, TypeOK
  <2>2. AirOK
    BY <2>1, Encodings, TopologyAssumption DEF SyncSurvives
  <2> QED BY <1>5, <1>b, <2>2 DEF SendForeign
<1> QED BY <1>1, <1>2, <1>3, <1>4, <1>5 DEF Send

\* Whatever a unit hears, its handler preserves the invariant.
LEMMA HearInv ==
    ASSUME Inv, NEW v \in Units, Hear(v) PROVE Inv'
<1> DEFINE m == Unserialize(air.packet)
           g == GetFromRaw(m.work)
<1>0. TypeOK /\ PowerNeverStale /\ SyncSurvives /\ RepeaterInClique
  BY DEF Inv
<1>1. /\ air'.sent.type \in Types /\ air'.packet.type \in Nat /\ air'.to \subseteq Units
      /\ SyncSurvives'
  <2>1. CASE air' = Silence
    BY <2>1, SilenceOK, Encodings DEF SyncSurvives
  <2>2. CASE air' = [air EXCEPT !.to = @ \ {v}]
    <3>1. air'.sent = air.sent /\ air'.packet = air.packet /\ air'.to \subseteq air.to
      BY <2>2
    <3> QED BY <1>0, <3>1 DEF TypeOK, SyncSurvives
  <2> QED BY <2>1, <2>2 DEF Hear
<1>2. g \in Granularities
  BY Encodings
<1> HIDE DEF m, g
<1>3. /\ \/ HandleMasterSync(v, m) \/ HandleNetGranularity(v, m)
         \/ HandleScatter(v, m) \/ HandleOther(m)
      /\ v \in members
  BY DEF Hear, m
<1>a. ASSUME UNCHANGED <<members, repeater>> PROVE RepeaterType' /\ RepeaterInClique'
  BY <1>0, <1>a DEF TypeOK, RepeaterType, RepeaterInClique, IsActive
<1>b. ASSUME Abort(v), members' \in {members, members \ {v}}
      PROVE  RepeaterType' /\ RepeaterInClique'
  BY <1>0, <1>b, StopInv
<1>4. CASE HandleMasterSync(v, m)
  <2>1. UNCHANGED <<members, memo, repeater>>
    BY <1>4 DEF HandleMasterSync
  <2>2. /\ granularity' \in [Units -> Granularities] /\ xmitPower' \in [Units -> Int]
        /\ PowerNeverStale'
    <3>1. CASE g # granularity[v]
      <4>1. TrySetGranularity(v, g)
        BY <1>4, <3>1 DEF HandleMasterSync, g
      <4> QED BY <1>0, <1>2, <4>1, TrySetInv
    <3>2. CASE g = granularity[v]
      BY <1>0, <1>4, <3>2 DEF HandleMasterSync, g, TypeOK, PowerNeverStale
    <3> QED BY <3>1, <3>2
  <2> QED BY <1>0, <1>1, <1>a, <2>1, <2>2 DEF Inv, TypeOK, RepeaterType
<1>5. CASE HandleNetGranularity(v, m)
  <2>1. UNCHANGED <<members, granularity, xmitPower>>
    BY <1>5 DEF HandleNetGranularity
  <2>2. \/ v = Master /\ MasterTellCliqueGranularityChange(g)
        \/ Abort(v) /\ UNCHANGED memo
        \/ UNCHANGED <<memo, repeater>>
    BY <1>5 DEF HandleNetGranularity, g
  <2>3. memo' \in Granularities /\ RepeaterType' /\ RepeaterInClique'
    <3>1. CASE v = Master /\ MasterTellCliqueGranularityChange(g)
      BY <1>0, <1>2, <1>3, <2>1, <3>1, TellInv
    <3>2. CASE Abort(v) /\ UNCHANGED memo
      BY <1>0, <1>b, <2>1, <3>2 DEF TypeOK
    <3>3. CASE UNCHANGED <<memo, repeater>>
      BY <1>0, <1>a, <2>1, <3>3 DEF TypeOK
    <3> QED BY <2>2, <3>1, <3>2, <3>3
  <2> QED BY <1>0, <1>1, <2>1, <2>3 DEF Inv, TypeOK, RepeaterType, PowerNeverStale
<1>6. CASE HandleScatter(v, m)
  <2>1. UNCHANGED <<granularity, xmitPower, memo>>
    BY <1>6 DEF HandleScatter
  <2>2. members' \subseteq Units /\ RepeaterType' /\ RepeaterInClique'
    <3>1. CASE UNCHANGED <<members, repeater>>
      BY <1>0, <1>a, <3>1 DEF TypeOK
    <3>2. CASE Start(v, "ControlScatterClique", 1) /\ UNCHANGED members
      <4>1. "ControlScatterClique" \in Types /\ 1 \in Payloads
        BY WidthAssumption DEF Types, RawType, Payloads
      <4> QED BY <1>0, <1>3, <3>2, <4>1, StartInv DEF TypeOK
    <3>3. CASE Abort(v) /\ Scatter(v)
      <4>1. members' = members \ {v}
        BY <3>3 DEF Scatter
      <4> QED BY <1>0, <1>b, <3>3, <4>1 DEF TypeOK
    <3> QED BY <1>6, <3>1, <3>2, <3>3 DEF HandleScatter
  <2> QED BY <1>0, <1>1, <2>1, <2>2 DEF Inv, TypeOK, RepeaterType, PowerNeverStale
<1>7. CASE HandleOther(m)
  BY <1>0, <1>1, <1>7, <1>a DEF HandleOther, Inv, TypeOK, RepeaterType, PowerNeverStale
<1> QED BY <1>3, <1>4, <1>5, <1>6, <1>7

\* The invariant holds at first.
LEMMA InitInv == Init => Inv
<1> SUFFICES ASSUME Init PROVE Inv
  OBVIOUS
<1>1. "Large" \in Granularities /\ "Small" \in Granularities /\ "Large" # "Invalid"
  BY DEF Granularities
<1>2. Idle \in [type : Types, value : Payloads, counter : 0 .. CountRepeats]
  BY Encodings, TopologyAssumption, WidthAssumption DEF Idle, Payloads
<1>3. PowerNeverStale
  BY <1>1 DEF Init, PowerNeverStale
<1>4. TypeOK
  BY <1>1, <1>2, SilenceOK, Encodings DEF Init, TypeOK
<1>5. SyncSurvives
  BY SilenceOK, Encodings DEF Init, SyncSurvives
<1>6. RepeaterInClique
  BY DEF Init, RepeaterInClique, IsActive
<1> QED BY <1>3, <1>4, <1>5, <1>6 DEF Inv

\* Every step of the clique preserves the invariant.
LEMMA NextInv == Inv /\ [Next]_vars => Inv'
<1> SUFFICES ASSUME Inv, [Next]_vars PROVE Inv'
  OBVIOUS
<1>1. ASSUME NEW u \in Units, Provision(u) PROVE Inv'
  BY <1>1, ProvisionInv
<1>2. CASE Send
  BY <1>2, SendStepInv
<1>3. ASSUME NEW v \in Units, Hear(v) PROVE Inv'
  BY <1>3, HearInv
<1>4. CASE EndTransmission
  BY <1>4, SilenceOK, Encodings
    DEF EndTransmission, Inv, TypeOK, PowerNeverStale, SyncSurvives, RepeaterInClique, IsActive
<1>5. CASE UNCHANGED vars
  BY <1>5 DEF vars, Inv, TypeOK, PowerNeverStale, SyncSurvives, RepeaterInClique, IsActive
<1> QED BY <1>1, <1>2, <1>3, <1>4, <1>5 DEF Next

\* The types of granularities, powers, repeaters and of what is on the air.
THEOREM TopologyTypeOK == Spec => []TypeOK
<1>1. Inv => TypeOK
  BY DEF Inv
<1> QED BY <1>1, InitInv, NextInv, PTL DEF Spec

\* trySetGranularity() and initEnsembleProtocol(): whatever is provisioned, remembered
\* or heard, garbled payloads included, a unit's granularity is valid and its radio
\* has the power of this granularity or of its use case, never of an earlier one.
THEOREM TopologyPowerNeverStale == Spec => []PowerNeverStale
<1>1. Inv => PowerNeverStale
  BY DEF Inv
<1> QED BY <1>1, InitInv, NextInv, PTL DEF Spec

\* handleScatterMessage() and onDoneScatter(): a unit that scatters has stopped
\* repeating, so no callback of the clique it was in comes after.
THEOREM TopologyRepeaterInClique == Spec => []RepeaterInClique
<1>1. Inv => RepeaterInClique
  BY DEF Inv
<1> QED BY <1>1, InitInv, NextInv, PTL DEF Spec

\* Serializer: every message a unit sends that carries sync is heard with the
\* type, master, offset and payload it was sent with, whatever the widths of the
\* fields.
THEOREM TopologySyncSurvives == Spec => []SyncSurvives
<1>1. Inv => SyncSurvives
  BY DEF Inv
<1> QED BY <1>1, InitInv, NextInv, PTL DEF Spec

-----------------------------------------------------------------------------
(* The safety half of MasterTakesOverLastTold *)

\* A master that stops repeating a granularity has taken over what it was told last.
TakesOverAtEnd ==
    [][repeater[Master].type = "MasterSync" /\ ~IsActive(Master)'
         => granularity'[Master] = memo']_vars

\* Only a valid granularity is remembered.
MemoValid == memo # "Invalid"

\* The guards before masterTellCliqueGranularityChange() keep the memory valid.
LEMMA MemoStaysValid == MemoValid /\ [Next]_vars => MemoValid'
<1> SUFFICES ASSUME MemoValid, [Next]_vars PROVE memo' # "Invalid"
  BY DEF MemoValid
<1>0. CASE memo' = memo
  BY <1>0 DEF MemoValid
<1>1. ASSUME NEW u \in Units, Provision(u) PROVE memo' # "Invalid"
  BY <1>0, <1>1 DEF Provision, ProvisionNetGranularity, ProvisionScatter, ProvisionWork,
                    ProvisionNothing, MasterTellCliqueGranularityChange
<1>2. CASE Send
  BY <1>0, <1>2 DEF Send, SendMasterSync, SendControlSync, SendWorkSync, SendMergeSync,
                    SendForeign
<1>3. ASSUME NEW v \in Units, Hear(v) PROVE memo' # "Invalid"
  BY <1>0, <1>3 DEF Hear, HandleMasterSync, HandleNetGranularity, HandleScatter, HandleOther,
                    MasterTellCliqueGranularityChange
<1>4. CASE EndTransmission \/ UNCHANGED vars
  BY <1>0, <1>4 DEF EndTransmission, vars
<1> QED BY <1>1, <1>2, <1>3, <1>4 DEF Next

\* Only the last repeat stops the repeater of the master.  A request while it is busy
\* is refused, and messages of the clique abort the repeaters of slaves only.
LEMMA OnlyLastRepeatStops ==
    ASSUME Inv, [Next]_vars, IsActive(Master), ~IsActive(Master)'
    PROVE  \E delta \in Offsets : SendControlSync(Master, delta) /\ IsDone(Master)
<1> DEFINE Kept == repeater'[Master] = repeater[Master]
<1>0. ~Kept /\ Master \in Units /\ repeater \in [Units -> [type : Types, value : Payloads,
                                                        counter : 0 .. CountRepeats]]
  BY TopologyAssumption DEF IsActive, Inv, TypeOK
<1>1. ASSUME NEW u \in Units, NEW type, NEW value, Start(u, type, value) PROVE Kept
  BY <1>0, <1>1 DEF Start
<1>2. ASSUME NEW u \in Units, Provision(u) PROVE Kept
  <2>1. \/ UNCHANGED repeater
        \/ \E type, value : Start(u, type, value)
    <3>1. ASSUME NEW raw \in Payloads, ProvisionNetGranularity(u, raw) PROVE <2>1
      BY <3>1 DEF ProvisionNetGranularity, MasterTellCliqueGranularityChange
    <3>2. ASSUME NEW type, NEW value, ProvisionWork(u, type, value) PROVE <2>1
      BY <3>2 DEF ProvisionWork
    <3>3. ASSUME ProvisionScatter(u) \/ ProvisionNothing PROVE <2>1
      BY <3>3 DEF ProvisionScatter, ProvisionNothing
    <3> QED BY <1>2, <3>1, <3>2, <3>3 DEF Provision
  <2> QED BY <1>1, <2>1
<1>3. ASSUME NEW v \in Units, Hear(v) PROVE Kept
  <2>1. \/ \E type, value : Start(Master, type, value)
        \/ v # Master /\ Abort(v)
        \/ UNCHANGED repeater
    BY <1>3 DEF Hear, HandleMasterSync, HandleNetGranularity, HandleScatter, HandleOther,
                MasterTellCliqueGranularityChange
  <2> QED BY <1>0, <1>1, <2>1 DEF Abort
<1>4. CASE UNCHANGED repeater
  BY <1>0, <1>4
<1>5. ASSUME NEW u \in Units, NEW delta \in Offsets, SendControlSync(u, delta)
      PROVE  u = Master /\ IsDone(u)
  <2>1. CASE u # Master
    BY <1>0, <1>5, <2>1 DEF SendControlSync
  <2>2. CASE u = Master /\ ~IsDone(u)
    <3>1. repeater'[u] = [repeater[u] EXCEPT !.counter = repeater[u].counter + 1]
      BY <1>0, <1>5, <2>2 DEF SendControlSync
    <3>2. repeater'[u].counter = repeater[u].counter + 1 /\ repeater[u].counter \in Nat
      BY <1>0, <3>1
    <3>3. repeater'[u].counter # 0
      BY <3>2
    <3> QED BY <2>2, <3>3 DEF IsActive, Idle
  <2> QED BY <2>1, <2>2
<1>6. CASE Send
  BY <1>4, <1>5, <1>6 DEF Send, SendMasterSync, SendWorkSync, SendMergeSync, SendForeign
<1> QED BY <1>0, <1>2, <1>3, <1>4, <1>6 DEF Next, EndTransmission, vars

\* onDoneGranularityWithAction(): whatever the master is told while it repeats a
\* granularity, and however often, it stops repeating only by taking over what it was
\* told last.  What it is told while it repeats a scatter it remembers in vain.
THEOREM TopologyTakesOverAtEnd == Spec => TakesOverAtEnd
<1> DEFINE Repeats == repeater[Master].type = "MasterSync"
<1>1. Inv /\ MemoValid /\ [Next]_vars =>
        [Repeats /\ ~IsActive(Master)' => granularity'[Master] = memo']_vars
  <2> SUFFICES ASSUME Inv, MemoValid, [Next]_vars, Repeats, ~IsActive(Master)'
               PROVE  granularity'[Master] = memo'
    OBVIOUS
  <2>1. IsActive(Master)
    BY DEF IsActive, Idle
  <2>2. PICK delta \in Offsets : SendControlSync(Master, delta) /\ IsDone(Master)
    BY <2>1, OnlyLastRepeatStops
  <2>3. TrySetGranularity(Master, memo) /\ memo' = memo
    BY <2>2 DEF SendControlSync, OnDone
  <2> QED BY <2>3, TopologyAssumption DEF TrySetGranularity, MemoValid, Inv, TypeOK
<1>2. Init => MemoValid
  BY DEF Init, MemoValid
<1> QED BY <1>1, <1>2, InitInv, NextInv, MemoStaysValid, PTL DEF Spec, TakesOverAtEnd

=============================================================================
