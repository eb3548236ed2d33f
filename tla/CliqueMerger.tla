---------------------------- MODULE CliqueMerger ----------------------------
(***************************************************************************)
(* The merger (src/cliqueMerger/cliqueMerger.cpp) and its completion       *)
(* policy (src/slots/merge/mergePolicy.cpp).  A fisher that caught the     *)
(* sync of another clique tells one of the two cliques about the other,    *)
(* once per sync period at a time periodTimeToMergeSlotStart.  Of that     *)
(* time only what src/slots/merge/mergeSchedule.cpp asks is kept: whether  *)
(* it is near the start or near the end of the sync period.                *)
(***************************************************************************)
EXTENDS Clique

CONSTANT CountSyncsPerMerger   \* Policy::CountSyncsPerMerger

ASSUME MergerAssumption == CountSyncsPerMerger \in Nat

VARIABLES
    isActive,
    superiorMasterID, inferiorMasterID,
    kindOfMerger,
    mergeZone,            \* where periodTimeToMergeSlotStart lies
    countSentMergeSyncs

mergerVars == <<isActive, superiorMasterID, inferiorMasterID, kindOfMerger,
                mergeZone, countSentMergeSyncs>>

\* The parts of a sync period: within three slots of its start, within three
\* slots of its end, or neither.
Zones == {"start", "middle", "end"}

KindsOfMerger == {"MergeOther", "MergeMyMasterDepart", "MergeMySlaveDepart"}

MergerTypeOK ==
    /\ isActive \in BOOLEAN
    /\ superiorMasterID \in IDs \cup {NoID}
    /\ inferiorMasterID \in IDs \cup {NoID}
    /\ kindOfMerger \in KindsOfMerger \cup {"Invalid"}
    /\ mergeZone \in Zones
    /\ countSentMergeSyncs \in 0 .. CountSyncsPerMerger

IsMergerStartSyncPeriod == mergeZone = "start"
IsMergerEndSyncPeriod == mergeZone = "end"

\* periodTimeToMergeMyClique(), periodTimeToMergeOtherClique(): the time to
\* merge is in any part of the period; module Schedule computes it.
PeriodTimeToMerge == mergeZone' \in Zones

\* initMergeMyClique(): self joins the clique of master id and will tell the
\* clique it leaves.  The dropout monitor keeps its count.
InitMergeMyClique(id) ==
    /\ superiorMasterID' = id
    /\ inferiorMasterID' = masterID
    /\ kindOfMerger' = IF IsSelfMaster THEN "MergeMyMasterDepart"
                                       ELSE "MergeMySlaveDepart"
    /\ UpdateMastership(id, history)
    /\ UNCHANGED countMissing

\* Superior and inferior exchanged.
InitMergeOtherCliqueMutant(id) ==
    /\ superiorMasterID' = id
    /\ inferiorMasterID' = masterID
    /\ kindOfMerger' = "MergeOther"
    /\ UNCHANGED cliqueVars

\* initMergeOtherClique(): self stays and will tell the clique of master id.
InitMergeOtherClique(id) ==
    /\ superiorMasterID' = masterID
    /\ inferiorMasterID' = id
    /\ kindOfMerger' = "MergeOther"
    /\ UNCHANGED cliqueVars

\* CliqueMerger::initFromMsg()
InitFromMsg(id) ==
    /\ isActive' = TRUE
    /\ PeriodTimeToMerge
    /\ IF IsOtherCliqueBetter(id) THEN InitMergeMyClique(id)
                                  ELSE InitMergeOtherClique(id)
    /\ UNCHANGED countSentMergeSyncs

\* The MergeSync is sent but not counted.
CountedMergeSyncsMutant == countSentMergeSyncs

\* checkCompletionOfMergerRole() counts the MergeSync just sent ...
CountedMergeSyncs == countSentMergeSyncs + 1

\* ... and decides whether it was the last.
IsCompletionOfMergerRole == CountedMergeSyncs > CountSyncsPerMerger

\* Static initial values; PeriodTime is 0.
MergerInit ==
    /\ isActive = FALSE
    /\ superiorMasterID = NoID /\ inferiorMasterID = NoID
    /\ kindOfMerger = "Invalid"
    /\ mergeZone = "start"
    /\ countSentMergeSyncs = 0

=============================================================================
