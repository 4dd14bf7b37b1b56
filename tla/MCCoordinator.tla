--------------------------- MODULE MCCoordinator ---------------------------
(* Small instances of the containment runtime for TLC. *)
EXTENDS CoordinatorProperties

CONSTANTS r1, r2

OneNode == [g \in 1..3 |-> {r1}]
Nodes == [g \in 1..3 |-> {r1, r2}]

Cut(s, m, how) == [sources |-> s, members |-> m, complete |-> TRUE, status |-> how]
\* One source, contained by itself.
CutOne == {Cut({r1}, {r1}, "ProvenOptimal")}
\* ... or no containment exists for it.
CutOrNone == CutOne \cup {Cut({r1}, {}, "ProvenInfeasible")}
\* Two sources: alone, with a bounded search that takes both, and together.
CutTwo == {Cut({r1}, {r1}, "ProvenOptimal"), Cut({r1}, {r1, r2}, "FeasibleNotProvenOptimal"),
           Cut({r2}, {}, "LimitReached"), Cut({r1, r2}, {r1, r2}, "ProvenOptimal")}
=============================================================================
