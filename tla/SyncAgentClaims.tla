--------------------------- MODULE SyncAgentClaims ---------------------------
(***************************************************************************)
(* What a comment of the repository says of one unit and the code does not *)
(* do.  TLC finds it violated.                                             *)
(***************************************************************************)
EXTENDS SyncAgent

\* syncBehaviour.cpp:36 on a merger that hears the sync of another, better
\* clique in its sync slot: "NOW: just abandon merging".
AbandonMergingForBetterClique ==
    [][role = "Merger" /\ masterID' < masterID /\ masterID' # Self => role' = "Fisher"]_vars

=============================================================================
