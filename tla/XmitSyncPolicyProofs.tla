------------------------ MODULE XmitSyncPolicyProofs ------------------------
(***************************************************************************)
(* The bound on the span without sync holds for every cycle, number of     *)
(* repeats and number of displaced syncs.                                  *)
(***************************************************************************)
EXTENDS XmitSyncPolicy, TLAPS

\* The alarm of this cycle is still to come.
Pending(c) == c.isArmed /\ c.tick =< c.alarm

\* How many silent slots a clock may have behind it, a being the allowance: a
\* cycle that still has its alarm may follow one whose sync came at its start.
WithinSpan(c, s, a) ==
    IF Pending(c) THEN s =< CyclePeriods + c.tick + a ELSE s =< c.tick + a

\* The span is bounded because of where in its cycle the clock is; and only in
\* the joined stage does a master's span run.
SpanInv ==
    /\ WithinSpan(clock, silent, allowance)
    /\ ~(selfMaster /\ isAdvancedStage) => silent = 0 /\ allowance = 0

Inv == TypeOK /\ SpanInv

Clocks == [tick : 0 .. CyclePeriods, alarm : 0 .. CyclePeriods - 1, isArmed : BOOLEAN]

-----------------------------------------------------------------------------

\* The repeater keeps its types, whoever starts, stops or counts it.
LEMMA RepeaterTypes ==
    ASSUME RepeaterTypeOK,
           \/ \E cb \in DoneCallbacks : StartRepeating(cb)
           \/ StopRepeating
           \/ CountRepeat
           \/ UNCHANGED repeaterVars
    PROVE  RepeaterTypeOK'
<1> USE RepeaterAssumption DEF RepeaterTypeOK
<1>1. CASE \E cb \in DoneCallbacks : StartRepeating(cb)
  <2>1. PICK cb \in DoneCallbacks : StartRepeating(cb)
    BY <1>1
  <2>2. CASE repeaterIsActive
    BY <2>1, <2>2 DEF StartRepeating, repeaterVars
  <2>3. CASE ~repeaterIsActive
    BY <2>1, <2>3 DEF StartRepeating
  <2> QED BY <2>2, <2>3
<1>2. CASE StopRepeating
  BY <1>2 DEF StopRepeating
<1>3. CASE CountRepeat
  <2>1. repeaterIsActive' \in BOOLEAN /\ onDoneCallback' = onDoneCallback
    BY <1>3, Zenon DEF CountRepeat, IsRepeatingDone
  <2>2. repeaterCounter' \in 0 .. CountRepeatsPerControlSync
    BY <1>3 DEF CountRepeat, IsRepeatingDone
  <2> QED BY <2>1, <2>2
<1>4. CASE UNCHANGED repeaterVars
  BY <1>4 DEF repeaterVars
<1> QED BY <1>1, <1>2, <1>3, <1>4

\* What is told up- or downstream starts the repeater with one of its callbacks.
LEMMA RepeatingStarts ==
    /\ RepeatUpstream => \E cb \in DoneCallbacks : StartRepeating(cb)
    /\ \A p : RepeatDownstream(p) => \E cb \in DoneCallbacks : StartRepeating(cb)
BY DEF RepeatUpstream, RepeatDownstream, DoneCallbacks

\* A clock that begins a cycle is a clock.
LEMMA WrapsAreClocks == Wraps \subseteq Clocks
<1> SUFFICES ASSUME NEW c \in Wraps PROVE c \in Clocks
  OBVIOUS
<1>1. PICK t \in {0}, a \in 0 .. CyclePeriods - 1, b \in {TRUE} :
        c = [tick |-> t, alarm |-> a, isArmed |-> b]
  BY DEF Wraps
<1>2. t \in 0 .. CyclePeriods
  BY PolicyAssumption
<1> QED BY <1>1, <1>2 DEF Clocks

\* A cycle that begins allows for a whole cycle behind it.
LEMMA WrapWithinSpan ==
    ASSUME NEW c \in Wraps, NEW s \in Nat, NEW a \in Nat, s =< CyclePeriods + a
    PROVE  c \in Clocks /\ WithinSpan(c, s, a)
<1>1. c \in Clocks
  BY WrapsAreClocks
<1>2. c.tick = 0 /\ c.alarm \in 0 .. CyclePeriods - 1 /\ c.isArmed
  BY DEF Wraps
<1>3. WithinSpan(c, s, a)
  BY <1>2, PolicyAssumption DEF WithinSpan, Pending
<1> QED BY <1>1, <1>3

\* A clock with no silent slot behind it is within its span.
LEMMA NoSilenceWithinSpan ==
    ASSUME NEW c \in Clocks, NEW a \in Nat
    PROVE  WithinSpan(c, 0, a)
BY PolicyAssumption DEF Clocks, WithinSpan, Pending

\* A tick that counts a silent slot keeps the span, with a cycle more where the
\* slot's sync was due.
LEMMA TickWithinSpan ==
    ASSUME NEW need \in BOOLEAN, clock \in Clocks, silent \in Nat, allowance \in Nat,
           WithinSpan(clock, silent, allowance),
           TickWithAlarm(need)
    PROVE  /\ clock' \in Clocks
           /\ WithinSpan(clock', silent + 1,
                         IF need THEN allowance + CyclePeriods ELSE allowance)
<1> DEFINE a == IF need THEN allowance + CyclePeriods ELSE allowance
<1>1. PICK c \in IF clock.tick = CyclePeriods THEN Wraps ELSE {clock} :
        /\ need = (c.isArmed /\ c.tick = c.alarm)
        /\ \/ clock' = [c EXCEPT !.tick = c.tick + 1]
           \/ c.tick + 1 = CyclePeriods /\ clock' \in Wraps
  BY DEF TickWithAlarm
<1>2. c \in Clocks /\ c.tick # CyclePeriods /\ WithinSpan(c, silent, allowance)
  <2>1. CASE clock.tick = CyclePeriods
    <3>1. silent =< CyclePeriods + allowance
      BY <2>1, PolicyAssumption DEF WithinSpan, Pending, Clocks
    <3>2. c \in Wraps
      BY <1>1, <2>1
    <3> QED BY <3>1, <3>2, WrapWithinSpan, PolicyAssumption DEF Wraps
  <2>2. CASE clock.tick # CyclePeriods
    BY <1>1, <2>2
  <2> QED BY <2>1, <2>2
<1>3. c.tick \in 0 .. CyclePeriods - 1
  BY <1>2, PolicyAssumption DEF Clocks
<1>4. CASE clock' = [c EXCEPT !.tick = c.tick + 1]
  <2>1. /\ clock' \in Clocks
        /\ clock'.tick = c.tick + 1 /\ clock'.alarm = c.alarm
        /\ clock'.isArmed = c.isArmed
    BY <1>2, <1>3, <1>4, PolicyAssumption DEF Clocks
  <2>2. WithinSpan(clock', silent + 1, a)
    BY <1>1, <1>2, <1>3, <2>1, PolicyAssumption DEF WithinSpan, Pending, Clocks
  <2> QED BY <2>1, <2>2
<1>5. CASE c.tick + 1 = CyclePeriods /\ clock' \in Wraps
  <2>1. silent + 1 =< CyclePeriods + a
    BY <1>1, <1>2, <1>3, <1>5, PolicyAssumption DEF WithinSpan, Pending, Clocks
  <2>2. a \in Nat
    BY PolicyAssumption
  <2> QED BY <1>5, <2>1, <2>2, WrapWithinSpan
<1> QED BY <1>1, <1>4, <1>5

\* The master's question whether to transmit keeps the clock's type.
LEMMA ShouldTransmitClock ==
    ASSUME NEW need \in BOOLEAN, Inv, ShouldTransmitSync(need)
    PROVE  clock' \in Clocks
<1>0. clock \in Clocks /\ silent \in Nat /\ allowance \in Nat
  BY PolicyAssumption DEF Inv, TypeOK, Clocks
<1>1. CASE TickWithAlarm(need)
  BY <1>0, <1>1, TickWithinSpan DEF Inv, SpanInv
<1>2. CASE UNCHANGED clock
  BY <1>0, <1>2
<1> QED BY <1>1, <1>2 DEF ShouldTransmitSync

\* A slot without sync keeps the invariant on the history, its types included.
LEMMA SilencePreserves ==
    ASSUME NEW need \in BOOLEAN, Inv, ShouldTransmitSync(need), Silence(need),
           UNCHANGED <<selfMaster, isAdvancedStage>>
    PROVE  /\ clock' \in Clocks /\ silent' \in Nat /\ allowance' \in 0 .. MaxAllowance
           /\ SpanInv'
<1>0. /\ clock \in Clocks /\ silent \in Nat /\ allowance \in 0 .. MaxAllowance
      /\ allowance \in Nat /\ WithinSpan(clock, silent, allowance)
  BY PolicyAssumption DEF Inv, TypeOK, Clocks, SpanInv
<1>1. clock' \in Clocks
  BY ShouldTransmitClock
<1>2. CASE selfMaster /\ isAdvancedStage
  <2>1. TickWithAlarm(need)
    BY <1>2 DEF ShouldTransmitSync
  <2>2. WithinSpan(clock', silent + 1,
                   IF need THEN allowance + CyclePeriods ELSE allowance)
    BY <1>0, <2>1, TickWithinSpan
  <2>3. /\ silent' = silent + 1
        /\ allowance' = IF need THEN allowance + CyclePeriods ELSE allowance
        /\ need => allowance + CyclePeriods =< MaxAllowance
    BY <1>2 DEF Silence
  <2>4. silent' \in Nat /\ allowance' \in 0 .. MaxAllowance
    BY <1>0, <2>3, PolicyAssumption
  <2>5. WithinSpan(clock', silent', allowance')
    BY <2>2, <2>3
  <2> QED BY <1>1, <1>2, <2>4, <2>5 DEF SpanInv
<1>3. CASE ~(selfMaster /\ isAdvancedStage)
  <2>1. silent' = 0 /\ allowance' = 0
    BY <1>3 DEF Silence, Restarted
  <2>2. WithinSpan(clock', silent', allowance')
    BY <1>1, <2>1, NoSilenceWithinSpan
  <2> QED BY <1>1, <2>1, <2>2, PolicyAssumption DEF SpanInv
<1> QED BY <1>2, <1>3

\* Any step that restarts the span keeps the invariant on the history.
LEMMA RestartPreserves ==
    ASSUME Restarted, clock' \in Clocks
    PROVE  silent' \in Nat /\ allowance' \in 0 .. MaxAllowance /\ SpanInv'
<1>1. silent' = 0 /\ allowance' = 0
  BY DEF Restarted
<1>2. WithinSpan(clock', silent', allowance')
  BY <1>1, NoSilenceWithinSpan
<1> QED BY <1>1, <1>2, PolicyAssumption DEF SpanInv

\* Grabbing mastership leaves a master in the isolated stage and a fresh clock.
LEMMA GrabTypes ==
    ASSUME GrabMastership
    PROVE  selfMaster' = TRUE /\ isAdvancedStage' = FALSE /\ clock' \in Clocks
BY WrapsAreClocks DEF GrabMastership, ResetTransmitSyncPolicy

-----------------------------------------------------------------------------

\* The invariant is inductive: each step keeps the types and the span.
LEMMA PolicyStep == Inv /\ [Next]_vars => Inv'
<1> SUFFICES ASSUME Inv, [Next]_vars PROVE Inv'
  OBVIOUS
<1> DEFINE Typed == /\ RepeaterTypeOK'
                    /\ selfMaster' \in BOOLEAN /\ isAdvancedStage' \in BOOLEAN
                    /\ mail' \in BOOLEAN /\ listening' \in BOOLEAN
           Spanned == /\ clock' \in Clocks
                      /\ silent' \in Nat /\ allowance' \in 0 .. MaxAllowance
                      /\ SpanInv'
<1>a. SUFFICES Typed /\ Spanned
  BY DEF Inv, TypeOK, Clocks
<1>b. /\ RepeaterTypeOK /\ clock \in Clocks
      /\ selfMaster \in BOOLEAN /\ isAdvancedStage \in BOOLEAN
      /\ mail \in BOOLEAN /\ listening \in BOOLEAN
      /\ silent \in Nat /\ allowance \in 0 .. MaxAllowance
  BY DEF Inv, TypeOK, Clocks
<1>c. ASSUME UNCHANGED <<policyVars, historyVars>> PROVE Spanned
  BY <1>b, <1>c DEF Inv, SpanInv, policyVars, historyVars
<1>1. CASE SendControlSync
  <2>1. RepeaterTypeOK' /\ mail' = mail /\ listening' = listening
    BY <1>1, <1>b, RepeaterTypes DEF SendControlSync
  <2>2. CASE GrabMastership /\ Restarted
    BY <1>b, <2>1, <2>2, GrabTypes, RestartPreserves
  <2>3. CASE ~(IsRepeatingDone /\ onDoneCallback = "onDoneScatter")
    <3>1. PICK need \in BOOLEAN :
            /\ ShouldTransmitSync(need)
            /\ IF ControlKeepsSync THEN Restarted ELSE Silence(need)
            /\ UNCHANGED <<selfMaster, isAdvancedStage>>
      BY <1>1, <2>3 DEF SendControlSync
    <3>2. clock' \in Clocks
      BY <3>1, ShouldTransmitClock
    <3>3. CASE ControlKeepsSync
      BY <1>b, <2>1, <3>1, <3>2, <3>3, RestartPreserves
    <3>4. CASE ~ControlKeepsSync
      BY <1>b, <2>1, <3>1, <3>4, SilencePreserves
    <3> QED BY <3>3, <3>4
  <2> QED BY <1>1, <2>2, <2>3 DEF SendControlSync
<1>2. CASE SendWorkSync
  <2>1. clock' \in Clocks
    BY <1>2, ShouldTransmitClock DEF SendWorkSync
  <2>2. RepeaterTypeOK'
    BY <1>2, <1>b, RepeaterTypes DEF SendWorkSync
  <2> QED BY <1>2, <1>b, <2>1, <2>2, RestartPreserves DEF SendWorkSync
<1>3. CASE SendMasterSync
  <2>1. clock' \in Clocks
    BY <1>3, ShouldTransmitClock DEF SendMasterSync
  <2>2. RepeaterTypeOK'
    BY <1>3, <1>b, RepeaterTypes DEF SendMasterSync
  <2> QED BY <1>3, <1>b, <2>1, <2>2, RestartPreserves DEF SendMasterSync
<1>4. CASE Listen
  <2>1. RepeaterTypeOK'
    BY <1>4, <1>b, RepeaterTypes DEF Listen
  <2>2. Spanned
    BY <1>4, SilencePreserves DEF Listen
  <2> QED BY <1>4, <1>b, <2>1, <2>2 DEF Listen
<1>5. ASSUME NEW isBetter \in BOOLEAN, HearSync(isBetter) PROVE Typed /\ Spanned
  <2>1. RepeaterTypeOK'
    BY <1>5, <1>b, RepeaterTypes DEF HearSync
  <2>2. clock' \in Clocks
    BY <1>5, <1>b DEF HearSync, HeardSync, DisarmForOneCycle, Clocks
  <2>3. selfMaster' \in BOOLEAN /\ isAdvancedStage' \in BOOLEAN
    BY <1>5 DEF HearSync, HeardSync
  <2> QED BY <1>5, <1>b, <2>1, <2>2, <2>3, RestartPreserves DEF HearSync
<1>6. CASE HearGranularity
  <2>1. RepeaterTypeOK'
    BY <1>6, <1>b, RepeaterTypes, RepeatingStarts DEF HearGranularity
  <2> QED BY <1>6, <1>b, <1>c, <2>1 DEF HearGranularity, policyVars
<1>7. CASE HearScatter
  <2>1. RepeaterTypeOK'
    BY <1>7, <1>b, RepeaterTypes, RepeatingStarts DEF HearScatter
  <2>2. CASE selfMaster
    BY <1>7, <1>b, <1>c, <2>1, <2>2 DEF HearScatter, policyVars
  <2>3. CASE ~selfMaster
    BY <1>7, <1>b, <2>1, <2>3, GrabTypes, RestartPreserves DEF HearScatter
  <2> QED BY <2>2, <2>3
<1>8. CASE EndListen
  <2>1. RepeaterTypeOK' /\ listening' = FALSE /\ mail' = mail
    BY <1>8, <1>b, RepeaterTypes DEF EndListen
  <2>2. CASE UNCHANGED <<policyVars, historyVars>>
    BY <1>b, <1>c, <2>1, <2>2 DEF policyVars
  <2>3. CASE GrabMastership /\ Restarted
    BY <1>b, <2>1, <2>3, GrabTypes, RestartPreserves
  <2>4. CASE /\ ~selfMaster /\ selfMaster' = TRUE
             /\ UNCHANGED <<isAdvancedStage, clock, historyVars>>
    BY <1>b, <2>1, <2>4 DEF historyVars, Inv, SpanInv
  <2> QED BY <1>8, <2>2, <2>3, <2>4 DEF EndListen
<1>9. CASE CatchBetter
  <2>1. RepeaterTypeOK'
    BY <1>9, <1>b, RepeaterTypes DEF CatchBetter
  <2> QED BY <1>9, <1>b, <2>1, RestartPreserves DEF CatchBetter
<1>10. CASE AssumeMastership
  <2>1. RepeaterTypeOK'
    BY <1>10, <1>b, RepeaterTypes DEF AssumeMastership
  <2> QED BY <1>10, <1>b, <2>1 DEF AssumeMastership, historyVars, Inv, SpanInv
<1>11. ASSUME NEW property, Provision(property) PROVE Typed /\ Spanned
  <2>1. RepeaterTypeOK'
    BY <1>11, <1>b, RepeaterTypes, RepeatingStarts DEF Provision
  <2> QED BY <1>11, <1>b, <1>c, <2>1 DEF Provision, policyVars
<1>12. CASE PutMail
  <2>1. RepeaterTypeOK'
    BY <1>12, <1>b, RepeaterTypes DEF PutMail
  <2> QED BY <1>12, <1>b, <1>c, <2>1 DEF PutMail, policyVars
<1>13. CASE UNCHANGED vars
  <2>1. RepeaterTypeOK'
    BY <1>13, <1>b, RepeaterTypes DEF vars
  <2> QED BY <1>13, <1>b, <1>c, <2>1 DEF vars, policyVars, historyVars
<1> QED
  BY <1>1, <1>2, <1>3, <1>4, <1>5, <1>6, <1>7, <1>8, <1>9, <1>10, <1>11, <1>12, <1>13
  DEF Next

\* It holds at start up.
LEMMA PolicyInit == Init => Inv
<1> SUFFICES ASSUME Init PROVE Inv
  OBVIOUS
<1>1. clock \in Clocks /\ WithinSpan(clock, silent, allowance)
  BY WrapWithinSpan, PolicyAssumption DEF Init
<1>2. RepeaterTypeOK
  <2>1. 0 \in 0 .. CountRepeatsPerControlSync
    BY RepeaterAssumption
  <2> QED BY <2>1 DEF Init, RepeaterInit, RepeaterTypeOK
<1>3. 0 \in 0 .. MaxAllowance
  BY PolicyAssumption
<1> QED BY <1>3, <1>1, <1>2, PolicyAssumption DEF Init, Inv, TypeOK, SpanInv, Clocks

\* It implies the bound.
LEMMA SpanFollows == Inv => SyncSpanBounded
BY PolicyAssumption
DEF Inv, TypeOK, SpanInv, WithinSpan, Pending, SyncSpanBounded

\* Types of the policy, its clock and the repeater.
THEOREM PolicyTypeOK == Spec => []TypeOK
<1>1. Inv => TypeOK
  BY DEF Inv
<1> QED BY <1>1, PolicyInit, PolicyStep, PTL DEF Spec

\* A master in the joined stage leaves its clique without sync for less than
\* two cycles and one more for each due sync that a control message displaced.
THEOREM PolicySyncSpanBounded == Spec => []SyncSpanBounded
BY PolicyInit, PolicyStep, SpanFollows, PTL DEF Spec

=============================================================================
