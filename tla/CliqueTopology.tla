--------------------------- MODULE CliqueTopology ---------------------------
(***************************************************************************)
(* The granularity of a clique and how its units agree on it: provisioned  *)
(* at one of them (src/network/topologyProvisioner.cpp), relayed to the    *)
(* master, repeated by the master in its syncs (intraCliqueManager.cpp,    *)
(* sendRepeater.cpp) and taken over by whoever hears them                  *)
(* (src/messageHandler, topology.cpp).  Told to scatter in the same way,   *)
(* the units leave the clique one by one.                                  *)
(*                                                                         *)
(* A stable clique: the master stays the same until it scatters.  One      *)
(* message is on the air at a time and each unit hears it or does not;     *)
(* units of other cliques, those that have scattered among them, and       *)
(* garbled packets whose CRC is valid by chance are foreign.               *)
(***************************************************************************)
EXTENDS Message

CONSTANTS
    Units, Master,       \* the IDs of the clique's units and of its master
    OtherIDs,            \* IDs of masters of other cliques
    Offsets,             \* the offsets that are sent
    WorkValues,          \* values of work that are provisioned
    CountRepeats,        \* Policy::CountRepeatsPerControlSync
    ForeignTypes,        \* type bytes of packets sent by others
    UseCasePower         \* transmit power of radioUseCaseSleepSync

ASSUME TopologyAssumption ==
    /\ Units \subseteq 0 .. MasterIDRange - 1 /\ Master \in Units
    /\ OtherIDs \subseteq 0 .. MasterIDRange - 1
    /\ Offsets \subseteq 0 .. MaxOffset
    /\ WorkValues \subseteq Nat
    /\ CountRepeats \in Nat
    /\ ForeignTypes \subseteq Nat
    /\ UseCasePower \in Int

VARIABLES
    members,       \* the units that have not scattered
    granularity,   \* of each unit: Granularity's _granularity
    xmitPower,     \* of each unit's radio
    memo,          \* IntraCliqueManager's _granularity at the master
    repeater,      \* of each unit: what SendRepeater repeats, or Idle
    air            \* [sent |-> message, packet |-> what travels, to |-> the units
                   \* that may hear it], or Silence

vars == <<members, granularity, xmitPower, memo, repeater, air>>

Payloads == 0 .. PayloadRange - 1

\* A message that no unit of the clique sent.
NoMessage == [type |-> "Invalid", masterID |-> 0, offset |-> 0, work |-> 0]
Silence == [sent |-> NoMessage, packet |-> Serialize(NoMessage), to |-> {}]

Idle == [type |-> "Invalid", value |-> 0, counter |-> 0]
IsActive(u) == repeater[u] # Idle

-----------------------------------------------------------------------------

\* An invalid granularity is stored like any other.
TrySetGranularityMutant(u, g) ==
    /\ granularity' = [granularity EXCEPT ![u] = g]
    /\ xmitPower' = [xmitPower EXCEPT ![u] = XmitPowerForGranularity[g]]

\* trySetGranularity(): the record and the radio, or neither
TrySetGranularity(u, g) ==
    IF g = "Invalid"
      THEN UNCHANGED <<granularity, xmitPower>>
      ELSE /\ granularity' = [granularity EXCEPT ![u] = g]
           /\ xmitPower' = [xmitPower EXCEPT ![u] = XmitPowerForGranularity[g]]

\* A new control message replaces the one that is being repeated.
StartMutant(u, type, value) ==
    repeater' = [repeater EXCEPT ![u] = [type |-> type, value |-> value, counter |-> 0]]

\* SendRepeater::start(): refused while busy
Start(u, type, value) ==
    IF IsActive(u)
      THEN UNCHANGED repeater
      ELSE repeater' = [repeater EXCEPT ![u] = [type |-> type, value |-> value, counter |-> 0]]

\* IntraCliqueManager::abort()
Abort(u) == repeater' = [repeater EXCEPT ![u] = Idle]

\* masterTellCliqueGranularityChange(), doDownstreamCliqueSizeChange(): what is
\* remembered for later is replaced also while the repeater is busy.
MasterTellCliqueGranularityChange(g) ==
    /\ memo' = g
    /\ Start(Master, "MasterSync", GetRaw[g])

\* clique.scatterSync(): the unit is a clique of its own.
Scatter(u) == members' = members \ {u}

-----------------------------------------------------------------------------
(* Provisioning *)

\* handleNetGranularityProvisioning() for the byte of a provisioned value
ProvisionNetGranularity(u, raw) ==
    LET g == GetFromRaw(raw)
    IN  IF g = "Invalid" THEN UNCHANGED <<memo, repeater>>
        ELSE IF u = Master THEN MasterTellCliqueGranularityChange(g)
        ELSE Start(u, "ControlNetGranularity", GetRaw[g]) /\ UNCHANGED memo

\* handleScatterProvisioning(): upstream or downstream, with a dummy parameter
ProvisionScatter(u) == Start(u, "ControlScatterClique", 1) /\ UNCHANGED memo

\* provisionWorkTime(), provisionWorkCycle() at a slave.  A master calls back
\* the application.
ProvisionWork(u, type, value) ==
    u # Master /\ Start(u, type, ToPayload(value)) /\ UNCHANGED memo

\* ProvisionerCallback::fail(), a value for another subscriber, or
\* Provisioner::start() failed
ProvisionNothing == UNCHANGED <<memo, repeater>>

\* provisionStart() until provisionEnd(), in which initEnsembleProtocol()
\* configures the radio for its use case again, whatever the granularity.
Provision(u) ==
    /\ u \in members /\ air = Silence
    /\ \/ \E raw \in Payloads : ProvisionNetGranularity(u, raw)
       \/ ProvisionScatter(u)
       \/ \E type \in {"ControlWorkTime", "ControlWorkCycle"}, value \in WorkValues :
            ProvisionWork(u, type, value)
       \/ ProvisionNothing
    /\ xmitPower' = [xmitPower EXCEPT ![u] = UseCasePower]
    /\ UNCHANGED <<members, granularity, air>>

-----------------------------------------------------------------------------
(* Sending *)

\* MessageFactory fills the message, SyncSender serializes and transmits it.
SendMessage(u, type, id, delta, work) ==
    LET m == [type |-> type, masterID |-> id, offset |-> delta, work |-> work]
    IN  /\ u \in members /\ air = Silence
        /\ air' = [sent |-> m, packet |-> Serialize(m), to |-> members \ {u}]

\* sendMasterSync(): the payload is the granularity.
SendMasterSync(delta) ==
    /\ SendMessage(Master, "MasterSync", Master, delta, GetRaw[granularity[Master]])
    /\ UNCHANGED <<members, granularity, xmitPower, memo, repeater>>

\* sendWorkSync() by any unit names the master of the clique.
SendWorkSync(u, delta, work) ==
    /\ SendMessage(u, "WorkSync", Master, delta, work)
    /\ UNCHANGED <<members, granularity, xmitPower, memo, repeater>>

\* sendMergeSync(): the payload has the low order byte of the inferior's ID.
SendMergeSync(u, type, delta, superior, inferior) ==
    /\ SendMessage(u, type, superior, delta, ToPayload(inferior))
    /\ UNCHANGED <<members, granularity, xmitPower, memo, repeater>>

\* Counting never reaches the end.
IsDoneMutant(u) == repeater[u].counter + 1 > CountRepeats + 1

\* checkDoneAndEnactControl() after shouldSend() counted this repeat
IsDone(u) == repeater[u].counter + 1 > CountRepeats

\* The callback is called for a slave's repeater only.
OnDoneMutant(u) == UNCHANGED <<members, granularity, xmitPower>>

\* _onDoneCallback(): the master does to itself what it told its slaves, with
\* what it remembers (onDoneGranularityWithAction()) or onDoneScatter(); a slave
\* waits for the master (onDoneRepeatingUpstream()).
OnDone(u) ==
    /\ IF u = Master /\ repeater[u].type = "MasterSync"
         THEN TrySetGranularity(u, memo)
         ELSE UNCHANGED <<granularity, xmitPower>>
    /\ IF u = Master /\ repeater[u].type = "ControlScatterClique"
         THEN Scatter(u)
         ELSE UNCHANGED members

\* Heads in shouldSend(): sendControlSync(), and with the last repeat the callback
SendControlSync(u, delta) ==
    /\ IsActive(u)
    /\ SendMessage(u, repeater[u].type, Master, delta, repeater[u].value)
    /\ IF IsDone(u)
         THEN /\ repeater' = [repeater EXCEPT ![u] = Idle]
              /\ OnDone(u)
         ELSE /\ repeater' = [repeater EXCEPT ![u].counter = @ + 1]
              /\ UNCHANGED <<members, granularity, xmitPower>>
    /\ UNCHANGED memo

\* Another clique, or a packet that was garbled
SendForeign(type, id, work) ==
    /\ air = Silence
    /\ air' = [sent   |-> NoMessage,
               packet |-> [type |-> type, masterID |-> id, offset |-> 0, work |-> work],
               to     |-> members]
    /\ UNCHANGED <<members, granularity, xmitPower, memo, repeater>>

-----------------------------------------------------------------------------
(* Hearing *)

\* handleGranularityAspectOfMasterSync(): of whatever clique the master is
HandleMasterSync(v, m) ==
    /\ m.type = "MasterSync"
    /\ IF GetFromRaw(m.work) # granularity[v]
         THEN TrySetGranularity(v, GetFromRaw(m.work))
         ELSE UNCHANGED <<granularity, xmitPower>>
    /\ UNCHANGED <<members, memo, repeater>>

\* handleNetGranularityMessage(): the master tells its clique, a slave stops
\* relaying since another does.
HandleNetGranularity(v, m) ==
    /\ m.type = "ControlNetGranularity"
    /\ IF GetFromRaw(m.work) # "Invalid" /\ m.masterID = Master
         THEN IF v = Master
                THEN MasterTellCliqueGranularityChange(GetFromRaw(m.work))
                ELSE Abort(v) /\ UNCHANGED memo
         ELSE UNCHANGED <<memo, repeater>>
    /\ UNCHANGED <<members, granularity, xmitPower>>

\* A slave scatters and goes on repeating.
HandleScatterMutant(v, m) ==
    /\ m.type = "ControlScatterClique"
    /\ IF m.masterID # Master THEN UNCHANGED <<members, repeater>>
       ELSE IF v = Master THEN Start(v, "ControlScatterClique", 1) /\ UNCHANGED members
       ELSE Scatter(v) /\ UNCHANGED repeater
    /\ UNCHANGED <<granularity, xmitPower, memo>>

\* handleScatterMessage(): the master tells its clique, a slave scatters at once.
HandleScatter(v, m) ==
    /\ m.type = "ControlScatterClique"
    /\ IF m.masterID # Master THEN UNCHANGED <<members, repeater>>
       ELSE IF v = Master THEN Start(v, "ControlScatterClique", 1) /\ UNCHANGED members
       ELSE Abort(v) /\ Scatter(v)
    /\ UNCHANGED <<granularity, xmitPower, memo>>

\* All other messages leave the topology alone; unknown ones are ignored.
HandleOther(m) ==
    /\ m.type \notin {"MasterSync", "ControlNetGranularity", "ControlScatterClique"}
    /\ UNCHANGED <<members, granularity, xmitPower, memo, repeater>>

\* MessageDispatcher::dispatch() at unit v
Hear(v) ==
    LET m == Unserialize(air.packet)
    IN  /\ v \in air.to \cap members
        /\ \/ HandleMasterSync(v, m)
           \/ HandleNetGranularity(v, m)
           \/ HandleScatter(v, m)
           \/ HandleOther(m)
        /\ air' = IF air.to = {v} THEN Silence ELSE [air EXCEPT !.to = @ \ {v}]

\* The rest of the clique does not hear it, or its CRC is not valid there.
EndTransmission ==
    /\ air # Silence
    /\ air' = Silence
    /\ UNCHANGED <<members, granularity, xmitPower, memo, repeater>>

-----------------------------------------------------------------------------

\* The memory of IntraCliqueManager is zero at first: Small.
Init ==
    /\ members = Units
    /\ granularity = [u \in Units |-> "Large"]
    /\ xmitPower = [u \in Units |-> XmitPowerForGranularity["Large"]]
    /\ memo = "Small"
    /\ repeater = [u \in Units |-> Idle]
    /\ air = Silence

Send ==
    \/ \E delta \in Offsets :
         \/ SendMasterSync(delta)
         \/ \E u \in Units :
              \/ SendControlSync(u, delta)
              \/ \E work \in WorkValues : SendWorkSync(u, delta, ToPayload(work))
              \/ \E other \in OtherIDs :
                   \/ SendMergeSync(u, "MergeOther", delta, Master, other)
                   \/ \E type \in {"MergeMyMasterDepart", "MergeMySlaveDepart"} :
                        SendMergeSync(u, type, delta, other, Master)
    \/ \E type \in ForeignTypes, id \in OtherIDs \cup {Master}, work \in Payloads :
         SendForeign(type, id, work)

Next ==
    \/ \E u \in Units : Provision(u) \/ Hear(u)
    \/ Send
    \/ EndTransmission

\* Transmissions end, and the coin that decides about a repeat comes up heads.
Fairness ==
    /\ WF_vars(EndTransmission)
    /\ \A u \in Units : SF_vars(\E delta \in Offsets : SendControlSync(u, delta))

Spec == Init /\ [][Next]_vars /\ Fairness

-----------------------------------------------------------------------------

\* Types of all variables.
TypeOK ==
    /\ members \subseteq Units
    /\ granularity \in [Units -> Granularities]
    /\ xmitPower \in [Units -> Int]
    /\ memo \in Granularities
    /\ repeater \in [Units -> [type : Types, value : Payloads,
                               counter : 0 .. CountRepeats]]
    /\ air.sent.type \in Types /\ air.packet.type \in Nat /\ air.to \subseteq Units

\* No garbled payload, provisioned value or memory of an earlier one makes the
\* granularity a unit reports to others invalid, and the power of its radio is
\* never left from an earlier granularity: it is the present one's, or that of the
\* radio's use case since the unit was provisioned.
PowerNeverStale ==
    \A u \in Units :
      /\ granularity[u] # "Invalid"
      /\ xmitPower[u] \in {XmitPowerForGranularity[granularity[u]], UseCasePower}

\* Who repeats a message of the clique is still in it: no unit scatters while it
\* repeats, and onDoneRepeatingUpstream() finds a slave as it asserts.
RepeaterInClique == \A u \in Units : IsActive(u) => u \in members

\* A message that carries sync is heard as it was sent: its type, master, offset
\* and payload survive serialize() and unserialize(), repeats of control messages
\* included.
SyncSurvives ==
    air.sent.type \in SyncCarriers => Unserialize(air.packet) = air.sent

\* Repeating ends, although provisionings and messages of other units go on
\* asking for more.
RepeatingEnds == \A u \in Units : IsActive(u) ~> ~IsActive(u)

\* A master that repeats a granularity takes over the one it was told, unless it is
\* told another one before: also one it was told while it repeats an earlier one,
\* which start() refuses.
MasterTakesOverLastTold ==
    \A g \in Granularities :
      repeater[Master].type = "MasterSync" /\ memo = g
        ~> granularity[Master] = g \/ memo # g

\* serializer.cpp:47 "Matched pairs for each field": the type that is heard is
\* the type that was sent.
TypeSurvives ==
    air.sent # NoMessage => Unserialize(air.packet).type = air.sent.type

\* granularity.h:53 "Other member's of clique should be xmitting with same
\* granularity": a slave that hears its master's sync takes over what it says.
SlaveTakesOverGranularity ==
    [][\A v \in Units \ {Master} :
         Hear(v) /\ air.sent.type = "MasterSync"
           => GetRaw[granularity'[v]] = air.sent.work]_vars

=============================================================================
