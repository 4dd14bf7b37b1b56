-------------------------------- MODULE Cut --------------------------------
(***************************************************************************)
(* The containment problem MCC-1 (topology.cpp, policy.cpp, graph.cpp,     *)
(* cut.cpp): which definitions are accepted, the instance built from them, *)
(* the searches over its graph, and the checks of answers.                 *)
(*                                                                         *)
(* A resource is its index: topologies number their nodes in the order of  *)
(* their ids, so the order of indices is the order of ids.                 *)
(***************************************************************************)
EXTENDS Naturals, FiniteSets, Sequences, Functions, FiniteSetsExt, SequencesExt, Graphs

-----------------------------------------------------------------------------
(* Definitions.  A topology is a record of                                 *)
(*   nodes, evidence    the resources, and what is known of each declared edge *)
(*   weight             of each resource                                   *)
(*   containable, protected, complete   sets of resources                  *)
(* and a policy a record of the flags and limits of ContainmentPolicy.     *)

EdgeEvidence == {"Proven", "Unknown", "Refuted"}

TopologyDeclared(t) ==
  /\ t.nodes \in SUBSET Nat /\ IsFiniteSet(t.nodes) /\ t.weight \in [t.nodes -> Nat]
  /\ {t.containable, t.protected, t.complete} \subseteq SUBSET t.nodes
  /\ \A e \in DOMAIN t.evidence : t.evidence[e] \in EdgeEvidence

PolicyDeclared(p) ==
  /\ {p.require, p.allow, p.minimize} \subseteq BOOLEAN
  /\ {p.max_weight, p.max_members, p.exact_limit, p.exact_budget, p.heuristic_budget} \subseteq Nat

\* Topology::build refuses an empty topology, edges between unknown resources or from one to
\* itself, weightless resources, and obligations marked containable.
TopologyAccepted(t) ==
  /\ t.nodes # {}
  /\ DOMAIN t.evidence \subseteq {e \in t.nodes \X t.nodes : e[1] # e[2]}
  /\ \A n \in t.nodes : t.weight[n] > 0
  /\ t.protected \cap t.containable = {}

\* validate_policy: no limit may be zero.
PolicyAccepted(p) ==
  /\ p.max_members > 0 /\ p.max_weight > 0
  /\ p.exact_budget > 0 /\ p.heuristic_budget > 0 /\ p.exact_limit > 0

\* PropagationGraph::build: an edge is left out only when it is refuted (G+), ...
Conservative(t) ==
  [node |-> t.nodes, edge |-> {e \in DOMAIN t.evidence : t.evidence[e] # "Refuted"}]

\* ... and the edges that are taken to exist without proof are known.
UnknownEdges(t) == {e \in DOMAIN t.evidence : t.evidence[e] = "Unknown"}

-----------------------------------------------------------------------------
(* The instance. *)

\* Obligations are containable exactly when the policy says so, whatever the topology and the
\* barred resources say.
Containable(t, protected, barred, policy) ==
  ((t.containable \ barred) \ protected) \cup (IF policy.allow THEN protected ELSE {})

\* Mutant: what failed may always be contained.
ProblemWithFailedContainable(t, sources, barred, policy) ==
  [graph |-> Conservative(t), weight |-> t.weight, sources |-> sources,
   protected |-> t.protected, barred |-> barred,
   containable |-> sources \cup Containable(t, t.protected, barred, policy),
   require |-> policy.require, allow |-> policy.allow, minimize |-> policy.minimize,
   max_weight |-> policy.max_weight, max_members |-> policy.max_members]

\* ContainmentProblem::build, for sources and obligations that are resources of t and not none.
Problem(t, sources, barred, policy) ==
  [graph |-> Conservative(t), weight |-> t.weight, sources |-> sources,
   protected |-> t.protected, barred |-> barred,
   containable |-> Containable(t, t.protected, barred, policy),
   require |-> policy.require, allow |-> policy.allow, minimize |-> policy.minimize,
   max_weight |-> policy.max_weight, max_members |-> policy.max_members]

UncontainableSources(p) == p.sources \ p.containable

\* What a search along the edges of G+ reaches from seen without entering blocked, layer by
\* layer: nothing is farther away than there are resources.
Forward(p, seen, blocked) ==
  LET Layer[k \in Nat] ==
        IF k = 0 THEN seen
        ELSE LET reached == Layer[k - 1]
             IN reached \cup (AllSuccessors(p.graph, reached) \ blocked)
  IN Layer[Cardinality(p.graph.node)]

\* What leads to seen, the same way.
Backward(p, seen) ==
  LET Layer[k \in Nat] ==
        IF k = 0 THEN seen
        ELSE LET reached == Layer[k - 1] IN reached \cup AllPredecessors(p.graph, reached)
  IN Layer[Cardinality(p.graph.node)]

\* The propagation frontier: everything a failure may reach.
Frontier(p) == Forward(p, p.sources, {})

\* The resources between a source and an obligation, and the sources that must be contained.
Candidates(p) ==
  (Frontier(p) \cap Backward(p, p.protected))
    \cup (IF p.require THEN p.sources \cap p.containable ELSE {})

\* is_mandatory_member
Mandatory(p, n) == p.require /\ n \in p.sources /\ n \in p.containable

-----------------------------------------------------------------------------
(* Searches. *)

SourceReachesProtected(p, excluded) ==
  Forward(p, p.sources \ excluded, excluded) \cap p.protected # {}

\* The resources of S by their ids: the i-th has i - 1 others before it.
Ascending(S) ==
  [i \in 1..Cardinality(S) |-> CHOOSE n \in S : Cardinality({m \in S : m < n}) = i - 1]

\* A breadth-first search under way: the queue, each entry with the path that led to it, the
\* resources seen, and the path to the first obligation met.
Searching(queue, seen, found) == [queue |-> queue, seen |-> seen, found |-> found]

\* Mutant: the entry found last is followed first.
AdvanceNewestFirst(p, blocked, x) ==
  LET path == Head(x.queue)
      fresh == Successors(p.graph, Last(path)) \ (blocked \cup x.seen)
      met == fresh \cap p.protected
      further == Ascending(fresh)
  IN IF x.queue = <<>> \/ x.found # <<>> THEN x
     ELSE IF met # {} THEN Searching(<<>>, x.seen, Append(path, Min(met)))
     ELSE Searching([i \in 1..Len(further) |-> Append(path, further[i])] \o Tail(x.queue),
                    x.seen \cup fresh, <<>>)

\* One turn of the search: successors are taken in ascending order, and the first obligation
\* met ends it.
Advance(p, blocked, x) ==
  LET path == Head(x.queue)
      fresh == Successors(p.graph, Last(path)) \ (blocked \cup x.seen)
      met == fresh \cap p.protected
      further == Ascending(fresh)
  IN IF x.queue = <<>> \/ x.found # <<>> THEN x
     ELSE IF met # {} THEN Searching(<<>>, x.seen, Append(path, Min(met)))
     ELSE Searching(Tail(x.queue) \o [i \in 1..Len(further) |-> Append(path, further[i])],
                    x.seen \cup fresh, <<>>)

\* A path from a source to an obligation that avoids blocked, <<>> when there is none.  An
\* obligation that is itself a source is not met.  No resource is queued twice, so there are
\* not more turns than resources.
ShortestResidualPath(p, blocked) ==
  LET first == Ascending(p.sources \ blocked)
      Turn[k \in Nat] ==
        IF k = 0
        THEN Searching([i \in 1..Len(first) |-> <<first[i]>>], p.sources \ blocked, <<>>)
        ELSE Advance(p, blocked, Turn[k - 1])
  IN Turn[Cardinality(p.graph.node)].found

\* find_witness_path: the same search.
FindWitnessPath(p, excluded) == ShortestResidualPath(p, excluded)

UsesUnknown(t, path) ==
  \E i \in 1..Len(path) - 1 : <<path[i], path[i + 1]>> \in UnknownEdges(t)

-----------------------------------------------------------------------------
(* Objectives and the checks of answers. *)

Weight(p, members) == SumFunctionOnSet(p.weight, members)

\* The order of std::lexicographical_compare.
LexicographicallyLess(s, t) ==
  \E i \in 1..Len(t) : /\ \A j \in 1..i - 1 : j <= Len(s) /\ s[j] = t[j]
                       /\ i <= Len(s) => s[i] < t[i]

Objective(p, members) ==
  [protected |-> Cardinality(members \cap p.protected), weight |-> Weight(p, members),
   cardinality |-> Cardinality(members), signature |-> Ascending(members)]

\* objective_less: protected members first when the policy says so, then weight, then size,
\* then the ids.
ObjectiveLess(a, b, minimize) ==
  IF minimize /\ a.protected # b.protected THEN a.protected < b.protected
  ELSE IF a.weight # b.weight THEN a.weight < b.weight
  ELSE IF a.cardinality # b.cardinality THEN a.cardinality < b.cardinality
  ELSE LexicographicallyLess(a.signature, b.signature)

\* verify_cut accepts.
VerifyCut(p, members) ==
  /\ Cardinality(members) <= p.max_members
  /\ members \subseteq p.containable
  /\ p.allow \/ members \cap p.protected = {}
  /\ Weight(p, members) <= p.max_weight
  /\ p.require => (p.sources \cap p.containable) \subseteq members
  /\ ~SourceReachesProtected(p, members)

\* One after the other in ascending order, the members that need not be kept and without which
\* the set still verifies are dropped.
Thinned(p, members, kept) ==
  LET order == Ascending(members)
      Left[i \in Nat] ==
        IF i = 0 THEN members
        ELSE LET left == Left[i - 1]
             IN IF order[i] \notin kept /\ VerifyCut(p, left \ {order[i]})
                THEN left \ {order[i]} ELSE left
  IN Left[Len(order)]

\* verify_infeasibility_witness: a path of G+ from a source to an obligation on which
\* nothing may be contained.
VerifyInfeasibilityWitness(p, path) ==
  /\ Len(path) >= 2 /\ path[1] \in p.sources /\ Last(path) \in p.protected
  /\ Range(path) \cap p.containable = {}
  /\ \A i \in 1..Len(path) - 1 : path[i + 1] \in Successors(p.graph, path[i])

-----------------------------------------------------------------------------
(* What MCC-1 asks, said without a search. *)

\* There is a set of resources that holds every source left outside, is closed under
\* propagation outside C, and holds no obligation.
Separates(p, C, edges) ==
  \E S \in SUBSET (p.graph.node \ C) :
    /\ (p.sources \ C) \subseteq S /\ S \cap p.protected = {}
    /\ \A e \in edges : e[1] \in S /\ e[2] \notin C => e[2] \in S

\* The hard constraints 1 to 5.
FeasibleSets(p) ==
  {C \in SUBSET p.containable :
    /\ p.require => (p.sources \cap p.containable) \subseteq C
    /\ Cardinality(C) <= p.max_members /\ Weight(p, C) <= p.max_weight
    /\ Separates(p, C, p.graph.edge)}

=============================================================================
