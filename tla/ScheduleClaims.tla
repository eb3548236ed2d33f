--------------------------- MODULE ScheduleClaims ---------------------------
(***************************************************************************)
(* What assertions in the code say about the offset of a sync and about    *)
(* the duration of a period and what the code does not keep.               *)
(***************************************************************************)
EXTENDS Schedule

\* syncOffset.cpp:20 "offset should (0, NormalSyncPeriodDuration)", an assertion
\* in DeltaSync::set().
SentOffsetValid == sentOffset =< Period

\* schedule.cpp:199 "end time never jumps too far forward from remembered start
\* time", asserted in Schedule::adjust(): at most two normal periods from the start.
EndWithinTwoPeriods == endTime =< 2 * Period

=============================================================================
