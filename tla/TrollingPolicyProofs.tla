------------------------ MODULE TrollingPolicyProofs ------------------------
(***************************************************************************)
(* For every number of slots and every session length that fits between    *)
(* two sync slots: trolling stays in range and fishes whole sessions.      *)
(***************************************************************************)
EXTENDS TrollingPolicy, TLAPS

\* The inductive invariant: the counters in range carry the session.
IInv == TypeOK /\ CountersInRange /\ InRange /\ SessionMatchesDuration

\* A step of the up counter starts a session of d slots that lies in range:
\* incrementCounterModuloSleepingSlots() skips past the end.
LEMMA IncrementInRange ==
    ASSUME NEW c \in Int, NEW d \in {1, 1 + Increment}, FirstSlot =< c
    PROVE  /\ IncrementCounter(c, d) \in Int
           /\ FirstSlot =< IncrementCounter(c, d)
           /\ IncrementCounter(c, d) + d - 1 =< LastSlot
  BY SlotAssumption DEF IncrementCounter, GetInitialUpCounter

\* So does a step of the down counter: the test in
\* decrementCounterModuloSleepingSlots() keeps it from underflowing.
LEMMA DecrementInRange ==
    ASSUME NEW c \in Int, NEW d \in {1, 1 + Increment},
           FirstSlot =< c, c + d - 1 =< LastSlot
    PROVE  /\ DecrementCounter(c, d) \in Int
           /\ FirstSlot =< DecrementCounter(c, d)
           /\ DecrementCounter(c, d) + d - 1 =< LastSlot
  BY SlotAssumption DEF DecrementCounter, GetInitialDownCounter

\* restart() with a session length of d slots establishes the invariant.
LEMMA RestartInRange ==
    ASSUME NEW d \in {1, 1 + Increment}, RestartOrder(d)
    PROVE  /\ upCounter' \in Int /\ downCounter' \in Int
           /\ currentStartSlotOrdinal' \in Int /\ currentEndSlotOrdinal' \in Int
           /\ direction' \in BOOLEAN
           /\ FirstSlot =< upCounter'   /\ upCounter' + d - 1 =< LastSlot
           /\ FirstSlot =< downCounter' /\ downCounter' + d - 1 =< LastSlot
           /\ InRange'
           /\ currentEndSlotOrdinal' = currentStartSlotOrdinal' + d - 1
  BY SlotAssumption DEF RestartOrder, SetSessionForStartSlot, GetInitialUpCounter,
                        GetInitialDownCounter, InRange

\* The initial state satisfies the inductive invariant.
LEMMA InitIInv == Init => IInv
<1> SUFFICES ASSUME Init PROVE IInv
  OBVIOUS
<1>1. direction \in BOOLEAN /\ isMaxFishing \in BOOLEAN
  BY Zenon DEF Init
<1>2. /\ upCounter = FirstSlot /\ downCounter = LastSlot /\ durationInSlots = 1
      /\ currentStartSlotOrdinal = FirstSlot /\ currentEndSlotOrdinal = FirstSlot
      /\ phase = "sync"
  BY DEF Init
<1> QED
  BY <1>1, <1>2, SlotAssumption
  DEF IInv, TypeOK, CountersInRange, InRange, SessionMatchesDuration

\* Each operation preserves the inductive invariant.
LEMMA StepIInv == IInv /\ [Next]_vars => IInv'
<1> SUFFICES ASSUME IInv, [Next]_vars PROVE IInv'
  OBVIOUS
<1> USE SlotAssumption
<1>1. CASE Restart
  <2>1. durationInSlots \in {1, 1 + Increment} /\ RestartOrder(durationInSlots)
    BY <1>1 DEF Restart, IInv, TypeOK
  <2>2. UNCHANGED <<durationInSlots, isMaxFishing, phase>> /\ phase = "sync"
    BY <1>1 DEF Restart
  <2> QED
    BY <2>1, <2>2, RestartInRange
    DEF IInv, TypeOK, CountersInRange, SessionMatchesDuration
<1>2. CASE PreFishing
  <2> DEFINE d == durationInSlots
             up == IncrementCounter(upCounter, d)
             down == DecrementCounter(downCounter, d)
  <2>1. d \in {1, 1 + Increment} /\ upCounter \in Int /\ downCounter \in Int
    BY DEF IInv, TypeOK
  <2>2. up \in Int /\ FirstSlot =< up /\ up + d - 1 =< LastSlot
    BY <2>1, IncrementInRange DEF IInv, CountersInRange
  <2>3. down \in Int /\ FirstSlot =< down /\ down + d - 1 =< LastSlot
    BY <2>1, DecrementInRange DEF IInv, CountersInRange
  <2>4. /\ upCounter'   = IF direction THEN up ELSE upCounter
        /\ downCounter' = IF direction THEN downCounter ELSE down
        /\ currentStartSlotOrdinal' = IF direction THEN up ELSE down
        /\ currentEndSlotOrdinal' = (IF direction THEN up ELSE down) + d - 1
        /\ direction' = ~direction /\ phase' = "fish"
        /\ durationInSlots' = durationInSlots /\ isMaxFishing' = isMaxFishing
    BY <1>2 DEF PreFishing, SetSessionForStartSlot
  <2> HIDE DEF up, down
  <2>5. TypeOK'
    <3>1. /\ direction' \in BOOLEAN /\ isMaxFishing' \in BOOLEAN
          /\ phase' \in {"sync", "fish"} /\ durationInSlots' \in {1, 1 + Increment}
      BY <2>1, <2>4, Zenon DEF IInv, TypeOK
    <3>2. /\ upCounter' \in Int /\ downCounter' \in Int
          /\ currentStartSlotOrdinal' \in Int /\ currentEndSlotOrdinal' \in Int
      BY <2>1, <2>2, <2>3, <2>4
    <3> QED BY <3>1, <3>2 DEF TypeOK
  <2>6. CountersInRange'
    BY <2>1, <2>2, <2>3, <2>4 DEF IInv, CountersInRange
  <2>7. InRange'
    BY <2>1, <2>2, <2>3, <2>4 DEF InRange
  <2>8. SessionMatchesDuration'
    BY <2>1, <2>4 DEF SessionMatchesDuration
  <2> QED BY <2>5, <2>6, <2>7, <2>8 DEF IInv
<1>3. CASE EndPeriod
  BY <1>3 DEF EndPeriod, order, session, IInv, TypeOK, CountersInRange, InRange,
              SessionMatchesDuration
<1>4. CASE ManageHigh
  <2>1. durationInSlots = 1 /\ phase = "sync" /\ phase' = phase /\ isMaxFishing' = TRUE
    BY <1>4 DEF ManageHigh, IInv, CountersInRange
  <2>2. CASE durationInSlots + Increment > MaxDuration
    BY <1>4, <2>1, <2>2
    DEF ManageHigh, IncrementFishSessionDuration, order, session, IInv, TypeOK,
        CountersInRange, InRange, SessionMatchesDuration
  <2>3. CASE ~(durationInSlots + Increment > MaxDuration)
    <3>1. durationInSlots' = 1 + Increment /\ RestartOrder(1 + Increment)
      BY <1>4, <2>1, <2>3 DEF ManageHigh, IncrementFishSessionDuration
    <3> QED
      BY <2>1, <3>1, RestartInRange
      DEF IInv, TypeOK, CountersInRange, SessionMatchesDuration
  <2> QED BY <2>2, <2>3
<1>5. CASE ManageLow
  <2>1. /\ phase = "sync" /\ phase' = phase /\ durationInSlots' = 1
        /\ upCounter' = upCounter /\ downCounter' = downCounter
        /\ currentStartSlotOrdinal' = currentStartSlotOrdinal
        /\ currentEndSlotOrdinal' = currentEndSlotOrdinal
    BY <1>5 DEF ManageLow, SetDurationToMinDuration, order, session
  <2>2. isMaxFishing' \in BOOLEAN /\ direction' \in BOOLEAN
    BY <1>5, Zenon DEF ManageLow, SetDurationToMinDuration, order, IInv, TypeOK
  <2> QED
    BY <2>1, <2>2 DEF IInv, TypeOK, CountersInRange, InRange, SessionMatchesDuration
<1>6. CASE UNCHANGED vars
  BY <1>6 DEF vars, order, session, IInv, TypeOK, CountersInRange, InRange,
              SessionMatchesDuration
<1> QED BY <1>1, <1>2, <1>3, <1>4, <1>5, <1>6 DEF Next

\* isInRange() holds whenever setSessionForStartSlot() asserts it, for every
\* number of slots and every session length that fits.
THEOREM TrollingInRange == Spec => []InRange
<1>1. IInv => InRange
  BY DEF IInv
<1> QED BY InitIInv, StepIInv, <1>1, PTL DEF Spec

\* The session fished has the length that the unit's power gives it.
THEOREM TrollingSessionMatches == Spec => []SessionMatchesDuration
<1>1. IInv => SessionMatchesDuration
  BY DEF IInv
<1> QED BY InitIInv, StepIInv, <1>1, PTL DEF Spec

\* The counters that decide about the next session leave room for it on both sides,
\* whatever the duration was when they were set.
THEOREM TrollingCountersInRange == Spec => []CountersInRange
<1>1. IInv => CountersInRange
  BY DEF IInv
<1> QED BY InitIInv, StepIInv, <1>1, PTL DEF Spec

\* All variables of the trolling policy keep their types.
THEOREM TrollingTypeOK == Spec => []TypeOK
<1>1. IInv => TypeOK
  BY DEF IInv
<1> QED BY InitIInv, StepIInv, <1>1, PTL DEF Spec

=============================================================================
