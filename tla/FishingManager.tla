--------------------------- MODULE FishingManager ---------------------------
(***************************************************************************)
(* FishingManager (src/slots/fishing/fishingManager.cpp) with its two      *)
(* modes: trolling, of which only the part of the sync period being fished *)
(* is kept here (module TrollingPolicy has the order of slots), and deep   *)
(* fishing (src/fishPolicy/deepFishingPolicy.cpp), which looks at one      *)
(* place a few times and then calls back (src/slots/fishing/               *)
(* deepFishing.cpp).                                                       *)
(***************************************************************************)
EXTENDS CliqueMerger

CONSTANT CountFishingsPerDeepFishing  \* FishingParameters::...

ASSUME FishingAssumption == CountFishingsPerDeepFishing \in Nat

VARIABLES
    fishingMode,
    countFishings,            \* DeepFishingPolicy
    fishPolicyDoneCallback,   \* DeepFishing::endWith...
    deepZone,                 \* where deltaSyncPointToSyncPointOfFishee lies
    trollZone,                \* where the current trolling session lies
    isMaxFishing              \* FishPowerMgr

fishingVars == <<fishingMode, countFishings, fishPolicyDoneCallback, deepZone,
                 trollZone, isMaxFishing>>

Callbacks == {"endWithNoAction", "endWithRecoverMaster"}

FishingTypeOK ==
    /\ fishingMode \in {"Trolling", "DeepFishing"}
    /\ countFishings \in 0 .. CountFishingsPerDeepFishing + 1
    /\ fishPolicyDoneCallback \in Callbacks \cup {"nullptr"}
    /\ deepZone \in Zones
    /\ trollZone \in Zones
    /\ isMaxFishing \in BOOLEAN

\* isFishSlotStartSyncPeriod()
IsFishSlotStart(fm, tz) ==
    IF fm = "Trolling" THEN tz = "start" ELSE deepZone = "start"

\* isFishSlotEndSyncPeriod().  For deep fishing the comparison in the code is
\* true for a session that ends BEFORE the last two slots.
IsFishSlotEnd(fm, tz) ==
    IF fm = "Trolling" THEN tz = "end" ELSE deepZone # "end"

\* The callback of the last happening is kept and the count goes on.
SwitchToDeepFishingMutant(cb) ==
    /\ fishingMode' = "DeepFishing"
    /\ deepZone' \in Zones
    /\ UNCHANGED <<countFishings, fishPolicyDoneCallback, trollZone, isMaxFishing>>

\* switchToDeepFishing(): only the first of a series of Merge messages counts.
SwitchToDeepFishing(cb) ==
    /\ fishingMode # "DeepFishing"
    /\ fishingMode' = "DeepFishing"
    /\ countFishings' = 0
    /\ fishPolicyDoneCallback' = cb
    /\ deepZone' \in Zones
    /\ UNCHANGED <<trollZone, isMaxFishing>>

\* restartTrollingMode(): in either mode, back to the first slot.
RestartTrollingMode ==
    /\ trollZone' = "start"
    /\ UNCHANGED <<fishingMode, countFishings, fishPolicyDoneCallback, deepZone,
                   isMaxFishing>>

\* preFishing() when the trolling session is in z: trolling moves on.
ZonesAfterPreFishing(z) == IF fishingMode = "Trolling" THEN Zones ELSE {z}

\* DeepFishingPolicy::checkDone()
IsDeepFishingDone ==
    /\ fishingMode = "DeepFishing"
    /\ countFishings > CountFishingsPerDeepFishing

\* FishPowerMgr::manage(): a session made longer restarts trolling.
Manage(isPowerHigh) ==
    /\ isMaxFishing' = isPowerHigh
    /\ trollZone' = IF isPowerHigh /\ ~isMaxFishing THEN "start" ELSE trollZone
    /\ UNCHANGED <<fishingMode, countFishings, fishPolicyDoneCallback, deepZone>>

FishingInit ==
    /\ fishingMode = "Trolling"
    /\ countFishings = 0
    /\ fishPolicyDoneCallback = "nullptr"
    /\ deepZone = "start"
    /\ trollZone = "start"
    /\ isMaxFishing = FALSE

=============================================================================
