--------------------------- MODULE TrollingPolicy ---------------------------
(***************************************************************************)
(* SyncRecoveryTrollingPolicy (src/fishPolicy/syncRecoveryfishPolicy.cpp)  *)
(* with the two components that change its parameters: SlottedFishSession  *)
(* (the length of a fishing session) and FishPowerMgr (which sets that     *)
(* length from the supply voltage).                                        *)
(*                                                                         *)
(* A unit that trolls listens, once per sync period, to a session of       *)
(* `durationInSlots' consecutive slots.  Two counters walk towards each    *)
(* other through the slots FirstSlot..LastSlot and are used in turn.       *)
(***************************************************************************)
EXTENDS Integers

CONSTANTS
    FirstSlot,     \* FishingParameters::FirstSlotOrdinalToFish
    LastSlot,      \* FishingParameters::LastSlotOrdinalShouldFish
    Increment,     \* slots FishPowerMgr adds when power is high
    MaxDuration    \* FishingParameters::MaxTrollingRealFishSessionDurationSlots

\* A longest session fits between the first and the last slot.
ASSUME SlotAssumption ==
    /\ FirstSlot \in Nat /\ LastSlot \in Nat
    /\ Increment \in Nat \ {0} /\ MaxDuration \in Nat
    /\ FirstSlot + Increment =< LastSlot

VARIABLES
    upCounter, downCounter,
    currentStartSlotOrdinal, currentEndSlotOrdinal,
    direction,         \* TRUE: the next session comes from upCounter
    durationInSlots,   \* SlottedFishSession
    isMaxFishing,      \* FishPowerMgr
    phase              \* where the sync period is: "sync" (prelude and sync
                       \* slot) or "fish" (from preFishing to the fish slot's end)

session == <<currentStartSlotOrdinal, currentEndSlotOrdinal>>
order   == <<upCounter, downCounter, direction, session>>
vars    == <<order, durationInSlots, isMaxFishing, phase>>

Slots == FirstSlot .. LastSlot

-----------------------------------------------------------------------------

GetInitialUpCounter == FirstSlot

\* The bug of not counting the session's own first slot.
GetInitialDownCounterMutant(d) == LastSlot - d

GetInitialDownCounter(d) == LastSlot - d + 1

\* The skip test applied to the session's first slot instead of its end.
IncrementCounterMutant(c, d) ==
    IF c + d > LastSlot THEN GetInitialUpCounter ELSE c + d

\* incrementCounterModuloSleepingSlots: skip past a session that would
\* overlap the following sync slot.
IncrementCounter(c, d) ==
    IF c + d + d > LastSlot THEN GetInitialUpCounter ELSE c + d

\* decrementCounterModuloSleepingSlots: the test comes before the
\* subtraction, the counters are unsigned.
DecrementCounter(c, d) ==
    IF c < FirstSlot + d THEN GetInitialDownCounter(d) ELSE c - d

\* The session keeps the end it had for the previous duration.
SetSessionForStartSlotMutant(s, d) ==
    /\ currentStartSlotOrdinal' = s
    /\ currentEndSlotOrdinal' =
         s + (currentEndSlotOrdinal - currentStartSlotOrdinal)

SetSessionForStartSlot(s, d) ==
    /\ currentStartSlotOrdinal' = s
    /\ currentEndSlotOrdinal' = s + d - 1

\* SyncRecoveryTrollingPolicy::restart with sessions of d slots.
RestartOrder(d) ==
    /\ upCounter' = GetInitialUpCounter
    /\ downCounter' = GetInitialDownCounter(d)
    /\ SetSessionForStartSlot(GetInitialUpCounter, d)
    /\ direction' = TRUE

\* SlottedFishSession::incrementFishSessionDuration(Increment): a session that
\* would not fit the period is refused, else the order restarts.
IncrementFishSessionDuration ==
    IF durationInSlots + Increment > MaxDuration
      THEN UNCHANGED <<order, durationInSlots>>
      ELSE /\ durationInSlots' = durationInSlots + Increment
           /\ RestartOrder(durationInSlots + Increment)

\* SlottedFishSession::setDurationToMinDuration() does not restart the order.
SetDurationToMinDuration ==
    /\ durationInSlots' = 1
    /\ UNCHANGED order

-----------------------------------------------------------------------------

Init ==
    /\ upCounter = FirstSlot
    /\ downCounter = LastSlot
    /\ currentStartSlotOrdinal = FirstSlot
    /\ currentEndSlotOrdinal = FirstSlot
    /\ direction = TRUE
    /\ durationInSlots = 1
    /\ isMaxFishing = FALSE
    /\ phase = "sync"

\* restart() after a master dropout, a reversion or a scatter.
Restart ==
    /\ phase = "sync"
    /\ RestartOrder(durationInSlots)
    /\ UNCHANGED <<durationInSlots, isMaxFishing, phase>>

\* preFishing(): proceedToNextFishSlotOrdinal.
PreFishing ==
    /\ phase = "sync"
    /\ phase' = "fish"
    /\ LET up   == IncrementCounter(upCounter, durationInSlots)
           down == DecrementCounter(downCounter, durationInSlots)
       IN  /\ upCounter'   = IF direction THEN up ELSE upCounter
           /\ downCounter' = IF direction THEN downCounter ELSE down
           /\ SetSessionForStartSlot(IF direction THEN up ELSE down, durationInSlots)
    /\ direction' = ~direction
    /\ UNCHANGED <<durationInSlots, isMaxFishing>>

\* The fish slot (or the period without one) ends.
EndPeriod ==
    /\ phase = "fish"
    /\ phase' = "sync"
    /\ UNCHANGED <<order, durationInSlots, isMaxFishing>>

\* High power makes the session longer each time it is measured.
ManageHighMutant ==
    /\ phase = "sync"
    /\ isMaxFishing' = TRUE
    /\ IncrementFishSessionDuration
    /\ UNCHANGED phase

\* FishPowerMgr::manage() with Vcc of 2.7V or more, not at maximum before
ManageHigh ==
    /\ phase = "sync"
    /\ ~isMaxFishing
    /\ isMaxFishing' = TRUE
    /\ IncrementFishSessionDuration
    /\ UNCHANGED phase

\* FishPowerMgr::manage() with less
ManageLow ==
    /\ phase = "sync"
    /\ SetDurationToMinDuration
    /\ isMaxFishing' = FALSE
    /\ UNCHANGED phase

Next == Restart \/ PreFishing \/ EndPeriod \/ ManageHigh \/ ManageLow

\* Every sync period calls preFishing and every sync period ends.
Spec == Init /\ [][Next]_vars /\ WF_vars(PreFishing) /\ WF_vars(EndPeriod)

-----------------------------------------------------------------------------

\* Types of all variables: what the C++ declarations promise.
TypeOK ==
    /\ upCounter \in Int /\ downCounter \in Int
    /\ currentStartSlotOrdinal \in Int /\ currentEndSlotOrdinal \in Int
    /\ direction \in BOOLEAN /\ isMaxFishing \in BOOLEAN
    /\ durationInSlots \in {1, 1 + Increment}
    /\ phase \in {"sync", "fish"}

\* The assertion isInRange() in setSessionForStartSlot never fails: no
\* sequence of duration changes, restarts and steps of either counter makes a
\* session overlap the sync slot before it or the one after it.
InRange ==
    /\ currentStartSlotOrdinal >= FirstSlot
    /\ currentEndSlotOrdinal =< LastSlot

\* The session a unit is fishing has the duration it is scheduled with, although
\* setDurationToMinDuration changes the duration without touching the session.
SessionMatchesDuration ==
    phase = "fish" =>
      currentEndSlotOrdinal = currentStartSlotOrdinal + durationInSlots - 1

\* What makes InRange inductive: with the current duration, both counters
\* start sessions that lie in range, and the duration is long only at maximum.
CountersInRange ==
    /\ FirstSlot =< upCounter   /\ upCounter + durationInSlots - 1 =< LastSlot
    /\ FirstSlot =< downCounter /\ downCounter + durationInSlots - 1 =< LastSlot
    /\ ~isMaxFishing => durationInSlots = 1

Disturb == Restart \/ ManageHigh \/ (ManageLow /\ durationInSlots' # durationInSlots)

\* A drifted master can be found wherever it is: once the order is neither
\* restarted nor given another duration, every slot is fished again and again,
\* in spite of the slots that the up counter skips at the end of the period.
EverySlotFished ==
    <>[][~Disturb]_vars =>
      \A s \in Slots :
        []<>(phase = "fish" /\ s \in currentStartSlotOrdinal .. currentEndSlotOrdinal)

=============================================================================
