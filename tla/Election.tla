------------------------------ MODULE Election ------------------------------
(***************************************************************************)
(* What the units of a network promise together about mastership,          *)
(* whatever is lost, collides or fails: each follows itself or a better    *)
(* leader that it learned of from a unit that follows that leader.         *)
(***************************************************************************)
EXTENDS Integers

CONSTANTS
    Units,   \* integers, the least the best
    None     \* no unit

VARIABLE leader   \* of each unit; None while it is off

Followed == {leader[u] : u \in Units} \ {None}

Init == leader = [u \in Units |-> u]

\* A unit keeps its leader, is on its own (again), goes off, or defers to a
\* better leader that somebody follows.
Choices(u) ==
    {leader[u], u, None} \cup
    {m \in Followed : leader[u] # None /\ m < leader[u]}

Next == leader' \in {l \in [Units -> Units \cup {None}] : \A u \in Units : l[u] \in Choices(u)}

Spec == Init /\ [][Next]_leader

\* A leader that nobody follows any more is not followed again unless it is back
\* itself.
NoResurrection ==
    [][\A m \in Units : m \notin Followed /\ m \in Followed' => leader'[m] = m]_leader

=============================================================================
