------------------------------- MODULE Solver -------------------------------
(***************************************************************************)
(* The solvers of MCC-1 (solver_exact.cpp, solver_heuristic.cpp) and the   *)
(* necessity analysis (necessity.cpp), as functions of an instance.        *)
(***************************************************************************)
EXTENDS Cut

CONSTANT BoundIterations     \* kBoundIterations: paths the lower bound may collect

ASSUME BoundAssumption == BoundIterations \in Nat \ {0}

Statuses == {"ProvenOptimal", "FeasibleNotProvenOptimal", "ProvenInfeasible",
             "LimitReachedNoSolution"}

\* members is {} unless the status says there are some; witness is <<>> when there is none.
Answer(status, members, witness) == [status |-> status, members |-> members, witness |-> witness]

Answers(p) ==
  [status : Statuses, members : SUBSET p.graph.node, witness : Seq(p.graph.node)]

HasSolution(a) == a.status \in {"ProvenOptimal", "FeasibleNotProvenOptimal"}

\* The cheapest of some resources, the first of them by id.
Cheapest(p, S) ==
  CHOOSE n \in S : \A m \in S : \/ p.weight[n] < p.weight[m]
                                \/ p.weight[n] = p.weight[m] /\ n <= m

-----------------------------------------------------------------------------
(* solve_exact: branch and bound. *)

\* Mutant: only the cheapest resource of a path is used up, so paths may share the others.
OverlappingPathStep(p, excluded, x) ==
  LET path == ShortestResidualPath(p, x.blocked)
      eligible == (Range(path) \cap p.containable) \ excluded
  IN IF ~x.completable \/ path = <<>> THEN x
     ELSE IF eligible = {} THEN [x EXCEPT !.completable = FALSE]
     ELSE [x EXCEPT !.blocked = @ \cup {Cheapest(p, eligible)},
                    !.weight = @ + p.weight[Cheapest(p, eligible)]]

\* One path more: it costs at least its cheapest eligible resource, and all of its eligible
\* resources are used up.  Nothing can be completed when a path has none.
DisjointPathStep(p, excluded, x) ==
  LET path == ShortestResidualPath(p, x.blocked)
      eligible == (Range(path) \cap p.containable) \ excluded
  IN IF ~x.completable \/ path = <<>> THEN x
     ELSE IF eligible = {} THEN [x EXCEPT !.completable = FALSE]
     ELSE [x EXCEPT !.blocked = @ \cup eligible,
                    !.weight = @ + p.weight[Cheapest(p, eligible)]]

\* A lower bound of the weight that has to be added to included.
DisjointPathBound(p, included, excluded) ==
  LET Bound[k \in Nat] ==
        IF k = 0 THEN [completable |-> TRUE, weight |-> 0, blocked |-> included]
        ELSE DisjointPathStep(p, excluded, Bound[k - 1])
  IN Bound[BoundIterations]

\* The branch cannot be completed, or not better than the best set found so far.
Pruned(p, best, included, excluded) ==
  LET bound == DisjointPathBound(p, included, excluded)
      lower == [protected |-> Cardinality(included \cap p.protected),
                weight |-> Weight(p, included) + bound.weight,
                cardinality |-> Cardinality(included), signature |-> <<>>]
  IN ~bound.completable \/ ObjectiveLess(Objective(p, best), lower, p.minimize)

\* The state of a search: explored counts against the budget, best holds the best set found,
\* if any, witness the first path recorded as a certificate, stack the calls of search() that
\* are at their branches.
NoSearch == [explored |-> 0, aborted |-> FALSE, best |-> {}, witness |-> <<>>, stack |-> <<>>]

\* A call at its branches: included is contained, excluded must not be, path is to be cut.
Call(included, excluded, path) == [included |-> included, excluded |-> excluded, path |-> path]

SearchStates(p) ==
  [explored : Nat, aborted : BOOLEAN, best : SUBSET SUBSET p.graph.node,
   witness : Seq(p.graph.node),
   stack : Seq([included : SUBSET p.graph.node, excluded : SUBSET p.graph.node,
                path : Seq(p.graph.node)])]

WithWitness(s, path) == [s EXCEPT !.witness = IF @ = <<>> THEN path ELSE @]

\* A set that leaves no residual path is the best when it verifies and precedes the one found.
WithCandidate(p, s, members) ==
  IF /\ VerifyCut(p, members)
     /\ \A b \in s.best : ObjectiveLess(Objective(p, members), Objective(p, b), p.minimize)
  THEN [s EXCEPT !.best = {members}] ELSE s

\* search() up to its branches.
Search(p, budget, before, included, excluded) ==
  LET s == [before EXCEPT !.explored = @ + 1]
      path == ShortestResidualPath(p, included)
  IN IF s.explored > budget THEN [s EXCEPT !.aborted = TRUE]
     ELSE IF Cardinality(included) > p.max_members \/ Weight(p, included) > p.max_weight THEN s
     ELSE IF path = <<>> THEN WithCandidate(p, s, included)
     ELSE IF Range(path) \cap p.containable = {} THEN WithWitness(s, path)
     ELSE IF \E b \in s.best : Pruned(p, b, included, excluded) THEN s
     ELSE [s EXCEPT !.stack = Append(@, Call(included, excluded, path))]

\* The last call on the stack goes on: it contains the next resource of its path that may be
\* and searches below; for the branches behind it that resource is excluded, unless it is
\* mandatory, when there are none.  With no resource left the call returns; when every
\* resource of the first path was tried in vain at the root, that path is taken for a
\* certificate.
Branch(p, budget, s) ==
  LET call == Last(s.stack)
      open == {i \in 1..Len(call.path) : call.path[i] \in p.containable \ call.excluded}
      n == call.path[Min(open)]
      returned == [s EXCEPT !.stack = Front(@)]
      behind == [s EXCEPT !.stack =
                   Append(Front(@), Call(call.included, call.excluded \cup {n}, call.path))]
  IN IF open # {}
     THEN Search(p, budget, IF Mandatory(p, n) THEN returned ELSE behind,
                 call.included \cup {n}, call.excluded)
     ELSE IF s.best = {} /\ call.included = {} /\ Range(call.path) \subseteq call.excluded
     THEN WithWitness(returned, call.path)
     ELSE returned

\* A search from the root to its end.  Between two calls of search() at most as many calls
\* return as were made, hence the number of turns.
Searched(p, budget) ==
  LET Turns[x \in Nat \X SearchStates(p)] ==
        LET s == x[2]
        IN IF x[1] = 0 \/ s.aborted \/ s.stack = <<>> THEN s
           ELSE Turns[<<x[1] - 1, Branch(p, budget, s)>>]
  IN Turns[<<2 * budget, Search(p, budget, NoSearch, {n \in p.sources : Mandatory(p, n)}, {})>>]

\* Mutant: a search that ended early and found nothing is taken for a complete one.
SolveExactUnbounded(p, budget) ==
  LET s == Searched(p, budget)
  IN IF s.best # {}
     THEN Answer(IF s.aborted THEN "FeasibleNotProvenOptimal" ELSE "ProvenOptimal",
                 UNION s.best, <<>>)
     ELSE Answer("ProvenInfeasible", {}, s.witness)

SolveExact(p, budget) ==
  LET s == Searched(p, budget)
  IN IF s.best # {}
     THEN Answer(IF s.aborted THEN "FeasibleNotProvenOptimal" ELSE "ProvenOptimal",
                 UNION s.best, <<>>)
     ELSE IF s.aborted THEN Answer("LimitReachedNoSolution", {}, <<>>)
     ELSE Answer("ProvenInfeasible", {}, s.witness)

-----------------------------------------------------------------------------
(* solve_heuristic: greedy growth, then reverse deletion. *)

\* Mutant: a source is never chosen.
GrowBehindSources(p, x) ==
  LET path == ShortestResidualPath(p, x.members)
      eligible == (Range(path) \cap p.containable) \ p.sources
  IN IF path = <<>> THEN Answer("FeasibleNotProvenOptimal", x.members, <<>>)
     ELSE IF eligible = {} THEN Answer("ProvenInfeasible", {}, path)
     ELSE [x EXCEPT !.members = @ \cup {Cheapest(p, eligible)}]

\* Contain the cheapest eligible resource of a residual path, if there is such a path.
Grow(p, x) ==
  LET path == ShortestResidualPath(p, x.members)
      eligible == Range(path) \cap p.containable
  IN IF path = <<>> THEN Answer("FeasibleNotProvenOptimal", x.members, <<>>)
     ELSE IF eligible = {} THEN Answer("ProvenInfeasible", {}, path)
     ELSE [x EXCEPT !.members = @ \cup {Cheapest(p, eligible)}]

\* Growth until nothing is left to cut or the budget is spent.
Grown(p, iterations) ==
  LET Turns[x \in Nat \X Answers(p)] ==
        IF x[1] = 0 \/ x[2].status # "LimitReachedNoSolution" THEN x[2]
        ELSE Turns[<<x[1] - 1, Grow(p, x[2])>>]
  IN Turns[<<iterations,
             Answer("LimitReachedNoSolution", {n \in p.sources : Mandatory(p, n)}, <<>>)>>]

Restored(p, members) == Thinned(p, members, {n \in members : Mandatory(p, n)})

SolveHeuristic(p, iterations) ==
  LET grown == Grown(p, iterations)
      members == Restored(p, grown.members)
  IN IF grown.status = "ProvenInfeasible" THEN grown
     ELSE IF HasSolution(grown) /\ VerifyCut(p, members) THEN Answer(grown.status, members, <<>>)
     ELSE Answer("LimitReachedNoSolution", {}, <<>>)

Solve(p, policy) ==
  IF Cardinality(Candidates(p)) <= policy.exact_limit THEN SolveExact(p, policy.exact_budget)
  ELSE SolveHeuristic(p, policy.heuristic_budget)

-----------------------------------------------------------------------------
(* Necessity. *)

\* Mutant: the instance is solved as it is.
WithoutBarring(t, p, n, policy) == p

\* The instance once more, with one more resource barred.
Without(t, p, n, policy) == Problem(t, p.sources, p.barred \cup {n}, policy)

StatusWithout(t, p, n, policy) == SolveExact(Without(t, p, n, policy), policy.exact_budget).status

\* Required sources are necessary by policy, other members when there is no answer without them.
ProvenNecessary(t, p, members, policy) ==
  {n \in members \cap p.containable :
     (p.require /\ n \in p.sources) \/ StatusWithout(t, p, n, policy) = "ProvenInfeasible"}

IndeterminateNecessity(t, p, members, policy) ==
  {n \in members \cap p.containable :
     ~(p.require /\ n \in p.sources) /\ StatusWithout(t, p, n, policy) = "LimitReachedNoSolution"}

=============================================================================
