---------------------------- MODULE PlannerProofs ----------------------------
(***************************************************************************)
(* What the plans of Planner say is so, for all topologies, policies and   *)
(* evidence: by what SolverProofs proves of the answers, which planner.cpp *)
(* thins, explains and analyses once more.                                 *)
(***************************************************************************)
EXTENDS Planner, SolverProofs

-----------------------------------------------------------------------------
(* Instances *)

\* Definitions that have their types and were accepted.
Accepted(t, q) ==
  TopologyDeclared(t) /\ TopologyAccepted(t) /\ PolicyDeclared(q) /\ PolicyAccepted(q)

LEMMA ProblemFields ==
  ASSUME NEW t, NEW sources, NEW barred, NEW q
  PROVE  LET p == Problem(t, sources, barred, q) IN
         /\ p.graph = Conservative(t) /\ p.weight = t.weight /\ p.sources = sources
         /\ p.protected = t.protected /\ p.barred = barred
         /\ p.containable = Containable(t, t.protected, barred, q)
         /\ p.require = q.require /\ p.allow = q.allow /\ p.minimize = q.minimize
         /\ p.max_weight = q.max_weight /\ p.max_members = q.max_members
         /\ p.graph.node = t.nodes /\ p.graph.edge \subseteq DOMAIN t.evidence
BY DEF Problem, Conservative

\* What ContainmentProblem::build makes of accepted definitions is an instance.
LEMMA ProblemIsProblem ==
  ASSUME NEW t, NEW q, Accepted(t, q), NEW sources \in SUBSET t.nodes, NEW barred
  PROVE  IsProblem(Problem(t, sources, barred, q))
<1> DEFINE p == Problem(t, sources, barred, q)
<1>1. /\ p.graph.node = t.nodes /\ p.graph.edge \subseteq DOMAIN t.evidence
      /\ p.weight = t.weight /\ p.sources = sources /\ p.protected = t.protected
      /\ p.containable = Containable(t, t.protected, barred, q)
      /\ p.require = q.require /\ p.allow = q.allow /\ p.minimize = q.minimize
      /\ p.max_weight = q.max_weight /\ p.max_members = q.max_members
  BY ProblemFields
<1> HIDE DEF p
<1>2. /\ t.nodes \in SUBSET Nat /\ IsFiniteSet(t.nodes) /\ t.weight \in [t.nodes -> Nat]
      /\ t.containable \in SUBSET t.nodes /\ t.protected \in SUBSET t.nodes
  BY DEF Accepted, TopologyDeclared
<1>3. DOMAIN t.evidence \subseteq t.nodes \X t.nodes /\ \A n \in t.nodes : t.weight[n] > 0
  BY DEF Accepted, TopologyAccepted
<1>4. /\ q.require \in BOOLEAN /\ q.allow \in BOOLEAN /\ q.minimize \in BOOLEAN
      /\ q.max_weight \in Nat /\ q.max_members \in Nat
  BY DEF Accepted, PolicyDeclared
<1>5. p.containable \in SUBSET t.nodes
  BY <1>1, <1>2 DEF Containable
<1>6. p.allow \/ p.containable \cap p.protected = {}
  BY <1>1 DEF Containable
<1>7. p.graph.edge \subseteq p.graph.node \X p.graph.node
  BY <1>1, <1>3
<1>8. IsProblem(p)
  BY <1>1, <1>2, <1>3, <1>4, <1>5, <1>6, <1>7 DEF IsProblem
<1> QED
  BY <1>8 DEF p

LEMMA AcceptedTypes ==
  ASSUME NEW t, NEW q, Accepted(t, q)
  PROVE  /\ q.exact_budget \in Nat /\ q.heuristic_budget \in Nat /\ q.require \in BOOLEAN
         /\ t.containable \in SUBSET t.nodes /\ t.protected \in SUBSET t.nodes
         /\ t.nodes \in SUBSET Nat /\ IsFiniteSet(t.nodes)
BY DEF Accepted, TopologyDeclared, PolicyDeclared

\* The order of sets does not depend on what failed.
LEMMA OrderOfInstances ==
  ASSUME NEW t, NEW q, NEW sources, NEW others, NEW A, NEW B
  PROVE  Precedes(Problem(t, sources, {}, q), A, B) <=> Precedes(Problem(t, others, {}, q), A, B)
<1> DEFINE p == Problem(t, sources, {}, q)
           r == Problem(t, others, {}, q)
<1>1. p.protected = r.protected /\ p.weight = r.weight /\ p.minimize = r.minimize
  BY ProblemFields
<1> HIDE DEF p, r
<1>2. \A C : Objective(p, C) = Objective(r, C)
  BY <1>1 DEF Objective, Weight
<1>3. Precedes(p, A, B) <=> Precedes(r, A, B)
  BY <1>1, <1>2 DEF Precedes
<1> QED
  BY <1>3 DEF p, r

\* The more failures, the fewer sets are feasible.
LEMMA FailuresLeaveFewerSets ==
  ASSUME NEW t, NEW q, NEW sources, NEW more, sources \subseteq more
  PROVE  FeasibleSets(Problem(t, more, {}, q)) \subseteq FeasibleSets(Problem(t, sources, {}, q))
<1> DEFINE p == Problem(t, sources, {}, q)
           r == Problem(t, more, {}, q)
<1>1. /\ p.graph = r.graph /\ p.protected = r.protected /\ p.weight = r.weight
      /\ p.containable = r.containable /\ p.require = r.require
      /\ p.max_weight = r.max_weight /\ p.max_members = r.max_members
      /\ p.sources \subseteq r.sources
  BY ProblemFields
<1> HIDE DEF p, r
<1>2. ASSUME NEW C \in FeasibleSets(r) PROVE C \in FeasibleSets(p)
  <2>1. /\ C \in SUBSET r.containable
        /\ r.require => (r.sources \cap r.containable) \subseteq C
        /\ Cardinality(C) <= r.max_members /\ Weight(r, C) <= r.max_weight
        /\ Separates(r, C, r.graph.edge)
    BY FeasibleDef
  <2>2. Separates(p, C, p.graph.edge)
    BY <1>1, <2>1 DEF Separates
  <2>3. Weight(p, C) = Weight(r, C)
    BY <1>1 DEF Weight
  <2>4. p.require => (p.sources \cap p.containable) \subseteq C
    BY <1>1, <2>1
  <2> QED
    BY <1>1, <2>1, <2>2, <2>3, <2>4, FeasibleDef
<1>3. FeasibleSets(r) \subseteq FeasibleSets(p)
  BY <1>2
<1> QED
  BY <1>3 DEF p, r

\* Barring a resource leaves the sets without it, unless it is protected or must be contained.
LEMMA BarringLeavesTheOthers ==
  ASSUME NEW t, NEW q, NEW sources, NEW n
  PROVE  LET p == Problem(t, sources, {}, q)
             r == Without(t, p, n, q) IN
         /\ r.sources = sources
         /\ \A C \in FeasibleSets(p) : n \notin C \/ n \in t.protected => C \in FeasibleSets(r)
         /\ n \notin t.protected /\ ~(q.require /\ n \in sources) =>
              \A C \in FeasibleSets(r) : n \notin C /\ C \in FeasibleSets(p)
<1> DEFINE p == Problem(t, sources, {}, q)
           r == Without(t, p, n, q)
<1>0. p.sources = sources /\ p.barred = {}
  BY ProblemFields
<1>1. r = Problem(t, sources, {n}, q)
  BY <1>0 DEF Without
<1>2. /\ p.graph = r.graph /\ p.protected = r.protected /\ p.weight = r.weight
      /\ p.require = r.require /\ p.require = q.require
      /\ p.max_weight = r.max_weight /\ p.max_members = r.max_members
      /\ p.sources = r.sources /\ p.sources = sources
      /\ p.containable = Containable(t, t.protected, {}, q)
      /\ r.containable = Containable(t, t.protected, {n}, q)
  <2> HIDE DEF r
  <2> QED
    BY <1>1, ProblemFields
<1> HIDE DEF p, r
<1>3. /\ r.containable \subseteq p.containable /\ p.containable \ {n} \subseteq r.containable
      /\ n \notin t.protected => n \notin r.containable
      /\ n \in t.protected => r.containable = p.containable
  BY <1>2 DEF Containable
<1>4. \A C : Weight(p, C) = Weight(r, C) /\ (Separates(p, C, p.graph.edge) <=> Separates(r, C, r.graph.edge))
  BY <1>2 DEF Weight, Separates
<1>5. ASSUME NEW C \in FeasibleSets(p), n \notin C \/ n \in t.protected PROVE C \in FeasibleSets(r)
  <2>1. /\ C \in SUBSET p.containable
        /\ p.require => (p.sources \cap p.containable) \subseteq C
        /\ Cardinality(C) <= p.max_members /\ Weight(p, C) <= p.max_weight
        /\ Separates(p, C, p.graph.edge)
    BY FeasibleDef
  <2>2. C \in SUBSET r.containable /\ (r.require => (r.sources \cap r.containable) \subseteq C)
    BY <1>2, <1>3, <1>5, <2>1
  <2> QED
    BY <1>2, <1>4, <2>1, <2>2, FeasibleDef
<1>6. ASSUME n \notin t.protected, ~(q.require /\ n \in sources), NEW C \in FeasibleSets(r)
      PROVE  n \notin C /\ C \in FeasibleSets(p)
  <2>1. /\ C \in SUBSET r.containable
        /\ r.require => (r.sources \cap r.containable) \subseteq C
        /\ Cardinality(C) <= r.max_members /\ Weight(r, C) <= r.max_weight
        /\ Separates(r, C, r.graph.edge)
    BY FeasibleDef
  <2>2. n \notin C /\ C \in SUBSET p.containable
    BY <1>3, <1>6, <2>1
  <2>3. p.require => (p.sources \cap p.containable) \subseteq C
    BY <1>2, <1>3, <1>6, <2>1
  <2> QED
    BY <1>2, <1>4, <2>1, <2>2, <2>3, FeasibleDef
<1>7. r.sources = sources
  BY <1>2
<1> QED
  BY <1>5, <1>6, <1>7 DEF p, r

-----------------------------------------------------------------------------
(* Necessity *)

\* What necessity_of says of the members of a feasible set, some of them analysed.
LEMMA NecessityHolds ==
  ASSUME NEW t, NEW q, Accepted(t, q), NEW sources \in SUBSET t.nodes,
         sources \cap t.protected = {}, NEW analysed,
         NEW M \in FeasibleSets(Problem(t, sources, {}, q)), analysed \subseteq M
  PROVE  LET p == Problem(t, sources, {}, q)
             necessary == ProvenNecessary(t, p, analysed, q)
             open == IndeterminateNecessity(t, p, analysed, q) IN
         /\ necessary \subseteq analysed /\ open \subseteq analysed
         /\ necessary \cap t.protected = {}
         /\ \A C \in FeasibleSets(p) : necessary \subseteq C
         /\ \A n \in analysed \ (necessary \cup open \cup t.protected) :
              \E C \in FeasibleSets(p) : n \notin C
<1>1. PICK p : p = Problem(t, sources, {}, q)
  OBVIOUS
<1> DEFINE necessary == ProvenNecessary(t, p, analysed, q)
           open == IndeterminateNecessity(t, p, analysed, q)
<1>2. p.sources = sources /\ p.require = q.require
  BY <1>1, ProblemFields
<1>3. IsProblem(p)
  BY <1>1, ProblemIsProblem
<1>4. /\ necessary = {n \in analysed \cap p.containable :
                        (q.require /\ n \in sources) \/ StatusWithout(t, p, n, q) = "ProvenInfeasible"}
      /\ open = {n \in analysed \cap p.containable :
                   ~(q.require /\ n \in sources) /\ StatusWithout(t, p, n, q) = "LimitReachedNoSolution"}
  BY <1>2 DEF ProvenNecessary, IndeterminateNecessity
<1> HIDE DEF necessary, open
<1>5. M \subseteq p.containable /\ analysed \subseteq p.containable
  BY <1>1, <1>3, FeasibleInGraph
\* The instance without n, and what the exact search says of it.
<1>6. ASSUME NEW n
      PROVE  /\ StatusWithout(t, p, n, q) \in Statuses
             /\ StatusWithout(t, p, n, q) = "ProvenInfeasible" =>
                  \A C \in FeasibleSets(p) : n \in C /\ n \notin t.protected
             /\ /\ StatusWithout(t, p, n, q) \in {"ProvenOptimal", "FeasibleNotProvenOptimal"}
                /\ n \notin t.protected /\ ~(q.require /\ n \in sources)
                => \E C \in FeasibleSets(p) : n \notin C
  <2>1. PICK r : r = Without(t, p, n, q)
    OBVIOUS
  <2>2. PICK a : a = SolveExact(r, q.exact_budget)
    OBVIOUS
  <2>3. StatusWithout(t, p, n, q) = a.status
    BY <2>1, <2>2 DEF StatusWithout
  <2>4. r = Problem(t, sources, p.barred \cup {n}, q)
    BY <1>2, <2>1 DEF Without
  <2>5. IsProblem(r) /\ r.sources = sources /\ r.protected = t.protected
    BY <2>4, ProblemIsProblem, ProblemFields
  <2>6. Unmixed(r)
    BY <2>5 DEF Unmixed
  <2>7. Right(r, a)
    BY <2>2, <2>5, AcceptedTypes, SolveExactIsRight
  <2>8. /\ \A C \in FeasibleSets(p) : n \notin C \/ n \in t.protected => C \in FeasibleSets(r)
        /\ n \notin t.protected /\ ~(q.require /\ n \in sources) =>
             \A C \in FeasibleSets(r) : n \notin C /\ C \in FeasibleSets(p)
    BY <1>1, <2>1, BarringLeavesTheOthers
  <2>9. a.status \in Statuses
    BY <2>7 DEF Right, Answers
  <2>10. a.status = "ProvenInfeasible" => FeasibleSets(r) = {}
    BY <2>6, <2>7 DEF Right
  <2>11. a.status \in {"ProvenOptimal", "FeasibleNotProvenOptimal"} => a.members \in FeasibleSets(r)
    BY <2>7 DEF Right, HasSolution
  <2> QED
    BY <2>3, <2>8, <2>9, <2>10, <2>11
<1>7. necessary \subseteq analysed /\ open \subseteq analysed
  BY <1>4
<1>8. ASSUME NEW n \in necessary PROVE n \notin t.protected /\ \A C \in FeasibleSets(p) : n \in C
  <2>1. CASE q.require /\ n \in sources
    <3>1. \A C \in FeasibleSets(p) : (p.sources \cap p.containable) \subseteq C
      BY <1>2, <2>1, FeasibleDef
    <3> QED
      BY <1>2, <1>4, <2>1, <3>1
  <2>2. CASE StatusWithout(t, p, n, q) = "ProvenInfeasible"
    BY <1>1, <1>6, <2>2
  <2> QED
    BY <1>4, <2>1, <2>2
<1>9. ASSUME NEW n \in analysed \ (necessary \cup open \cup t.protected)
      PROVE  \E C \in FeasibleSets(p) : n \notin C
  <2>1. /\ ~(q.require /\ n \in sources) /\ StatusWithout(t, p, n, q) # "ProvenInfeasible"
        /\ StatusWithout(t, p, n, q) # "LimitReachedNoSolution"
    BY <1>4, <1>5
  <2>2. StatusWithout(t, p, n, q) \in {"ProvenOptimal", "FeasibleNotProvenOptimal"}
    BY <1>6, <2>1 DEF Statuses
  <2> QED
    BY <1>6, <2>1, <2>2
<1> QED
  BY <1>1, <1>7, <1>8, <1>9 DEF necessary, open

-----------------------------------------------------------------------------
(* Boundaries *)

\* The boundary of a plan, thinned from a feasible set: members carry it, and every member has
\* a witness path through it that avoids the others.
LEMMA MembersHaveWitnesses ==
  ASSUME NEW p, IsProblem(p), Unmixed(p), NEW M \in FeasibleSets(p)
  PROVE  LET R == MinimalityRestored(p, M) IN
         /\ R \in FeasibleSets(p)
         /\ \A n \in R : ~(p.require /\ n \in p.sources) =>
              /\ R \ {n} \notin FeasibleSets(p)
              /\ LET path == WitnessPath(p, R, n) IN
                   /\ Range(path) \cap R = {n}
                   /\ path[1] \in p.sources /\ Last(path) \in p.protected
                   /\ \A i \in 1..Len(path) - 1 : <<path[i], path[i + 1]>> \in p.graph.edge
<1>1. PICK R, kept : R = MinimalityRestored(p, M) /\ kept = IF p.require THEN p.sources ELSE {}
  OBVIOUS
<1>2. R = Thinned(p, M, kept)
  BY <1>1 DEF MinimalityRestored
<1>3. M \in SUBSET p.graph.node
  BY FeasibleInGraph
<1>4. R \in FeasibleSets(p) /\ Irreducible(p, R, kept)
  BY <1>2, <1>3, ThinnedIsIrreducible
<1>5. ASSUME NEW n \in R, ~(p.require /\ n \in p.sources)
      PROVE  /\ R \ {n} \notin FeasibleSets(p)
             /\ LET path == WitnessPath(p, R, n) IN
                  /\ Range(path) \cap R = {n}
                  /\ path[1] \in p.sources /\ Last(path) \in p.protected
                  /\ \A i \in 1..Len(path) - 1 : <<path[i], path[i + 1]>> \in p.graph.edge
  <2>1. R \ {n} \notin FeasibleSets(p)
    <3>1. n \in R \ kept
      BY <1>1, <1>5
    <3> QED
      BY <1>4, <3>1 DEF Irreducible
  <2>2. /\ R \in SUBSET p.containable /\ R \in SUBSET p.graph.node
        /\ p.require => (p.sources \cap p.containable) \subseteq R
        /\ Cardinality(R) <= p.max_members /\ Weight(p, R) <= p.max_weight
        /\ Separates(p, R, p.graph.edge)
    BY <1>4, FeasibleDef, FeasibleInGraph
  <2>3. ~Separates(p, R \ {n}, p.graph.edge)
    <3>1. R \ {n} \in SUBSET R
      OBVIOUS
    <3>2. Weight(p, R \ {n}) <= p.max_weight
      <4>1. PICK a \in Nat, b \in Nat : a = Weight(p, R \ {n}) /\ b = Weight(p, R)
        BY <2>2, WeightSums
      <4>2. Weight(p, R \ {n}) <= Weight(p, R)
        BY <2>2, <3>1, WeightGrows
      <4>3. p.max_weight \in Nat
        BY DEF IsProblem
      <4> QED
        BY <2>2, <4>1, <4>2, <4>3
    <3>3. Cardinality(R \ {n}) <= p.max_members
      <4>1. IsFiniteSet(R) /\ p.max_members \in Nat
        BY <2>2, FS_Subset DEF IsProblem
      <4>2. Cardinality(R \ {n}) <= Cardinality(R) /\ Cardinality(R) \in Nat /\ IsFiniteSet(R \ {n})
        BY <3>1, <4>1, FS_Subset, FS_CardinalityType
      <4>3. Cardinality(R \ {n}) \in Nat
        BY <4>2, FS_CardinalityType
      <4> QED
        BY <2>2, <4>1, <4>2, <4>3
    <3>4. p.require => (p.sources \cap p.containable) \subseteq R \ {n}
      BY <1>5, <2>2
    <3> QED
      BY <2>1, <2>2, <3>2, <3>3, <3>4, FeasibleDef
  <2>4. PICK w : w = ShortestResidualPath(p, R \ {n})
    OBVIOUS
  <2>5. w \in Seq(p.graph.node) /\ ResidualPath(p, R \ {n}, w)
    BY <2>3, <2>4, ShortestResidualPathSearches DEF Unmixed
  <2>6. \A m : m \in Range(w) <=> \E i \in 1..Len(w) : w[i] = m
    BY <2>5, PathHolds
  <2>7. \A i \in 1..Len(w) : w[i] \notin R \ {n}
    BY <2>5 DEF ResidualPath, Walk
  <2>8. PICK i \in 1..Len(w) : w[i] \in R
    BY <2>2, <2>5, SeparatingSetsMeetPaths
  <2>9. n \in Range(w) /\ Range(w) \cap R = {n}
    BY <2>6, <2>7, <2>8
  <2>10. WitnessPath(p, R, n) = w
    BY <2>4, <2>9 DEF WitnessPath, FindWitnessPath
  <2>11. /\ w[1] \in p.sources /\ Last(w) \in p.protected
         /\ \A j \in 1..Len(w) - 1 : <<w[j], w[j + 1]>> \in p.graph.edge
    BY <2>5 DEF ResidualPath, Walk, Last
  <2> QED
    BY <2>1, <2>9, <2>10, <2>11
<1> QED
  BY <1>1, <1>4, <1>5

\* Restoring minimality takes nothing from the optimum.
LEMMA OptimumIsMinimal ==
  ASSUME NEW p, IsProblem(p), NEW M \in FeasibleSets(p),
         \A C \in FeasibleSets(p) \ {M} : Precedes(p, M, C)
  PROVE  MinimalityRestored(p, M) = M
<1>1. PICK R : R = MinimalityRestored(p, M)
  OBVIOUS
<1>2. M \in SUBSET p.graph.node
  BY FeasibleInGraph
<1>3. R \in SUBSET M /\ R \in FeasibleSets(p)
  BY <1>1, <1>2, ThinnedIsIrreducible DEF MinimalityRestored
<1>4. SUFFICES ASSUME R # M PROVE FALSE
  BY <1>1
<1>5. Precedes(p, M, R)
  BY <1>3, <1>4
<1>6. Precedes(p, R, M)
  BY <1>2, <1>3, <1>4, PartsPrecede
<1>7. R \in SUBSET p.graph.node
  BY <1>2, <1>3
<1>8. Precedes(p, M, M) /\ ~Precedes(p, M, M)
  <2>1. ~Precedes(p, M, M)
    BY <1>2, PrecedesOrders
  <2>2. Precedes(p, M, R) /\ Precedes(p, R, M) => Precedes(p, M, M)
    BY <1>2, <1>7, PrecedesOrders
  <2> QED
    BY <1>5, <1>6, <2>1, <2>2
<1> QED
  BY <1>8

\* On a frontier whose adjacency is complete, edges that nobody declared change nothing.
LEMMA UndeclaredEdgesAreOutside ==
  ASSUME NEW p, IsProblem(p), NEW C \in SUBSET p.graph.node, Separates(p, C, p.graph.edge),
         NEW complete, Frontier(p) \subseteq complete,
         NEW more \in SUBSET ((p.graph.node \ complete) \X p.graph.node)
  PROVE  Separates(p, C, p.graph.edge \cup more)
<1>1. PICK F : F = Frontier(p)
  OBVIOUS
<1>2. p.sources \in SUBSET p.graph.node /\ IsFiniteSet(p.graph.node)
  BY DEF IsProblem
<1>3. p.sources \subseteq F /\ ClosedUnder(p, F, {}) /\ F \subseteq complete
  BY <1>1, <1>2, ForwardIsLeastClosed DEF Frontier
<1>4. PICK S \in SUBSET (p.graph.node \ C) :
        /\ (p.sources \ C) \subseteq S /\ S \cap p.protected = {}
        /\ \A e \in p.graph.edge : e[1] \in S /\ e[2] \notin C => e[2] \in S
  BY DEF Separates
<1> DEFINE T == S \cap F
<1>5. ASSUME NEW e \in p.graph.edge \cup more, e[1] \in T, e[2] \notin C PROVE e[2] \in T
  <2>1. CASE e \in p.graph.edge
    <3>1. e[2] \in S
      BY <1>4, <1>5, <2>1
    <3>2. e = <<e[1], e[2]>> /\ e[2] \in p.graph.node
      BY <2>1 DEF IsProblem
    <3>3. e[2] \in F
      BY <1>3, <1>5, <2>1, <3>2 DEF ClosedUnder
    <3> QED
      BY <3>1, <3>3
  <2>2. CASE e \in more
    <3>1. e[1] \notin complete
      BY <2>2
    <3> QED
      BY <1>3, <1>5, <3>1
  <2> QED
    BY <2>1, <2>2
<1>6. T \in SUBSET (p.graph.node \ C) /\ (p.sources \ C) \subseteq T /\ T \cap p.protected = {}
  BY <1>3, <1>4
<1> HIDE DEF T
<1> QED
  BY <1>5, <1>6 DEF Separates

-----------------------------------------------------------------------------
(* The parts of a plan *)

LEMMA EmptyPlanFields ==
  ASSUME NEW claim, NEW feasibility, NEW optimality, NEW currency
  PROVE  LET q == EmptyPlan(claim, feasibility, optimality, currency) IN
         /\ q.claim = claim /\ q.feasibility = feasibility /\ q.optimality = optimality
         /\ q.currency = currency /\ q.members = {} /\ q.paths = <<>> /\ q.unknown = {}
         /\ q.uncontainable = {} /\ q.necessary = {} /\ q.indeterminate = {} /\ q.witness = <<>>
BY DEF EmptyPlan

\* The parts a plan with a boundary takes its names from.
Analysed(p, members) == IF Cardinality(Candidates(p)) <= NecessityLimit THEN members ELSE {}

LEMMA SolutionFields ==
  ASSUME NEW p, NEW a
  PROVE  LET q == PlanWithSolution(p, a)
             R == MinimalityRestored(p, a.members) IN
         /\ q.claim = ClaimOf(p, a.status = "ProvenOptimal")
         /\ q.feasibility = "ProvenFeasible"
         /\ q.optimality = IF a.status = "ProvenOptimal" THEN "ProvenOptimal" ELSE "BoundedNotProven"
         /\ q.currency = CurrencyOnFrontier(p)
         /\ q.members = R /\ q.paths = [n \in R |-> WitnessPath(p, R, n)]
         /\ q.uncontainable = UncontainableSources(p)
         /\ q.necessary = ProvenNecessary(topology, p, Analysed(p, R), policy)
         /\ q.indeterminate = IndeterminateNecessity(topology, p, Analysed(p, R), policy)
         /\ q.witness = <<>>
BY DEF PlanWithSolution, EmptyPlan, Analysed

LEMMA ObligationFields ==
  ASSUME NEW p, NEW a
  PROVE  LET q == PlanWithObligations(p, a) IN
         /\ a.status = "ProvenInfeasible" =>
              /\ q.claim = "ProvenInfeasible" /\ q.feasibility = "ProvenInfeasible"
              /\ q.optimality = "NotApplicable" /\ q.currency = CurrencyOnFrontier(p)
              /\ q.members = {} /\ q.paths = <<>> /\ q.uncontainable = UncontainableSources(p)
              /\ q.necessary = {} /\ q.indeterminate = {} /\ q.witness = a.witness
         /\ a.status = "LimitReachedNoSolution" =>
              /\ q.claim = "Indeterminate" /\ q.feasibility = "Unknown"
              /\ q.optimality = "NotAttempted" /\ q.currency = CurrencyOnFrontier(p)
              /\ q.members = {} /\ q.paths = <<>> /\ q.uncontainable = UncontainableSources(p)
              /\ q.necessary = {} /\ q.indeterminate = {} /\ q.witness = <<>>
         /\ HasSolution(a) => q = PlanWithSolution(p, a)
<1>1. CASE a.status = "ProvenInfeasible"
  <2>1. /\ PlanWithObligations(p, a) =
             [EmptyPlan("ProvenInfeasible", "ProvenInfeasible", "NotApplicable", CurrencyOnFrontier(p))
                EXCEPT !.witness = a.witness, !.uncontainable = UncontainableSources(p)]
        /\ ~HasSolution(a) /\ a.status # "LimitReachedNoSolution"
    BY <1>1 DEF PlanWithObligations, HasSolution
  <2> QED
    BY <1>1, <2>1 DEF EmptyPlan
<1>2. CASE a.status = "LimitReachedNoSolution"
  <2>1. /\ PlanWithObligations(p, a) =
             [EmptyPlan("Indeterminate", "Unknown", "NotAttempted", CurrencyOnFrontier(p))
                EXCEPT !.uncontainable = UncontainableSources(p)]
        /\ ~HasSolution(a) /\ a.status # "ProvenInfeasible"
    BY <1>2 DEF PlanWithObligations, HasSolution
  <2> QED
    BY <1>2, <2>1 DEF EmptyPlan
<1>3. CASE a.status \notin {"ProvenInfeasible", "LimitReachedNoSolution"}
  BY <1>3 DEF PlanWithObligations, HasSolution
<1> QED
  BY <1>1, <1>2, <1>3

LEMMA WithoutObligationsFields ==
  LET q == PlanWithoutObligations IN
  /\ q.claim \in {"ProvenContainment", "Indeterminate"}
  /\ q.claim = "ProvenContainment" => EvidenceCurrency = "Current"
  /\ q.feasibility \in {"ProvenFeasible", "Unknown"} /\ q.optimality = "ProvenOptimal"
  /\ q.currency = EvidenceCurrency
  /\ q.members = Sources \cap topology.containable
  /\ q.paths = [n \in Sources \cap topology.containable |-> <<>>]
  /\ q.uncontainable = Sources \ topology.containable
  /\ q.necessary = {} /\ q.indeterminate = {} /\ q.witness = <<>>
<1> DEFINE current == EvidenceCurrency = "Current"
           uncontainable == Sources \ topology.containable
           members == Sources \cap topology.containable
           sources_ok == ~policy.require \/ uncontainable = {}
           claim == IF sources_ok /\ current THEN "ProvenContainment" ELSE "Indeterminate"
           feasibility == IF current THEN "ProvenFeasible" ELSE "Unknown"
<1>1. PlanWithoutObligations =
        [EmptyPlan(claim, feasibility, "ProvenOptimal", EvidenceCurrency)
           EXCEPT !.members = members, !.paths = [n \in members |-> <<>>],
                  !.uncontainable = uncontainable]
  BY DEF PlanWithoutObligations
<1>2. /\ claim \in {"ProvenContainment", "Indeterminate"} /\ (claim = "ProvenContainment" => current)
      /\ feasibility \in {"ProvenFeasible", "Unknown"}
  OBVIOUS
<1> HIDE DEF claim, feasibility, members, uncontainable
<1>3. LET q == PlanWithoutObligations IN
      /\ q.claim = claim /\ q.feasibility = feasibility /\ q.optimality = "ProvenOptimal"
      /\ q.currency = EvidenceCurrency /\ q.members = members
      /\ q.paths = [n \in members |-> <<>>] /\ q.uncontainable = uncontainable
      /\ q.necessary = {} /\ q.indeterminate = {} /\ q.witness = <<>>
  BY <1>1 DEF EmptyPlan
<1> QED
  BY <1>2, <1>3 DEF members, uncontainable

-----------------------------------------------------------------------------
(* What a computed plan is *)

\* The evidence there is, of definitions that were accepted.
Base ==
  Accepted(topology, policy) /\ present \subseteq Resources /\ confirmed \subseteq present

\* A plan of the solvers for a right answer to the instance.
Answered(q, a) ==
  /\ Sources # {} /\ topology.protected # {}
  /\ Right(Instance, a) /\ q = PlanWithObligations(Instance, a)

LEMMA ComputedCases ==
  ASSUME Base
  PROVE  LET q == ComputePlan IN
         \/ /\ present = {}
            /\ q = EmptyPlan("ProvenContainment", "ProvenFeasible", "ProvenOptimal", "Current")
         \/ /\ present # {} /\ Sources = {}
            /\ q = EmptyPlan("Indeterminate", "Unknown", "NotAttempted", "IncompleteFrontier")
         \/ Sources # {} /\ topology.protected = {} /\ q = PlanWithoutObligations
         \/ \E a : Answered(q, a)
<1>1. CASE present = {}
  BY <1>1 DEF ComputePlan
<1>2. CASE present # {} /\ Sources = {}
  BY <1>2 DEF ComputePlan
<1>3. CASE present # {} /\ Sources # {} /\ topology.protected = {}
  BY <1>3 DEF ComputePlan
<1>4. CASE present # {} /\ Sources # {} /\ topology.protected # {}
  <2>1. Sources \in SUBSET topology.nodes
    BY DEF Sources
  <2>2. IsProblem(Instance)
    BY <2>1, ProblemIsProblem DEF Base, Instance
  <2>3. Right(Instance, Solve(Instance, policy))
    BY <2>2, AcceptedTypes, SolversAreRight DEF Base
  <2>4. ComputePlan = PlanWithObligations(Instance, Solve(Instance, policy))
    BY <1>4 DEF ComputePlan
  <2> QED
    BY <1>4, <2>3, <2>4 DEF Answered
<1> QED
  BY <1>1, <1>2, <1>3, <1>4

\* What the instance of the moment is.
LEMMA TheInstance ==
  ASSUME Base
  PROVE  /\ IsProblem(Instance) /\ Instance.sources = Sources /\ Sources \in SUBSET topology.nodes
         /\ Instance.protected = topology.protected /\ Instance.graph.node = topology.nodes
         /\ Instance.graph.edge \subseteq DOMAIN topology.evidence
         /\ Instance.require = policy.require /\ Instance.minimize = policy.minimize
         /\ Instance.max_members = policy.max_members /\ Instance.max_weight = policy.max_weight
         /\ Unmixed(Instance) <=> Sources \cap topology.protected = {}
         /\ topology.protected \in SUBSET topology.nodes
<1>1. Sources \in SUBSET topology.nodes
  BY DEF Sources
<1>2. IsProblem(Instance)
  BY <1>1, ProblemIsProblem DEF Base, Instance
<1>3. /\ Instance.sources = Sources /\ Instance.protected = topology.protected
      /\ Instance.graph.node = topology.nodes
      /\ Instance.graph.edge \subseteq DOMAIN topology.evidence
      /\ Instance.require = policy.require /\ Instance.minimize = policy.minimize
      /\ Instance.max_members = policy.max_members /\ Instance.max_weight = policy.max_weight
  BY ProblemFields DEF Instance
<1>4. topology.protected \in SUBSET topology.nodes
  BY AcceptedTypes DEF Base
<1> QED
  BY <1>1, <1>2, <1>3, <1>4 DEF Unmixed

\* The type of a plan.
PlanTyped(q) ==
  /\ q.claim \in Claims /\ q.feasibility \in Feasibilities
  /\ q.optimality \in Optimalities /\ q.currency \in Currencies
  /\ q.members \subseteq topology.nodes /\ DOMAIN q.paths = q.members
  /\ q.uncontainable \subseteq topology.nodes
  /\ q.necessary \subseteq q.members /\ q.indeterminate \subseteq q.members
  /\ Range(q.witness) \subseteq topology.nodes

LEMMA ComputedIsTyped ==
  ASSUME Base
  PROVE  PlanTyped(ComputePlan)
<1>1. PICK q : q = ComputePlan
  OBVIOUS
<1>2. Range(<<>>) = {} /\ DOMAIN <<>> = {}
  BY DEF Range
<1>3. EvidenceCurrency \in Currencies /\ \A p : CurrencyOnFrontier(p) \in Currencies
  BY DEF EvidenceCurrency, CurrencyOnFrontier, Currencies
<1>4. /\ IsProblem(Instance) /\ Instance.sources = Sources /\ Sources \in SUBSET topology.nodes
      /\ Instance.graph.node = topology.nodes
  BY TheInstance
<1>5. UncontainableSources(Instance) \in SUBSET topology.nodes
  BY <1>4 DEF UncontainableSources
<1>6. ASSUME NEW claim \in Claims, NEW feasibility \in Feasibilities, NEW optimality \in Optimalities,
             NEW currency \in Currencies, q = EmptyPlan(claim, feasibility, optimality, currency)
      PROVE  PlanTyped(q)
  <2>1. /\ q.claim = claim /\ q.feasibility = feasibility /\ q.optimality = optimality
        /\ q.currency = currency /\ q.members = {} /\ q.paths = <<>>
        /\ q.uncontainable = {} /\ q.necessary = {} /\ q.indeterminate = {} /\ q.witness = <<>>
    BY <1>6, EmptyPlanFields
  <2> QED
    BY <1>2, <1>6, <2>1 DEF PlanTyped
<1>7. /\ {"ProvenContainment", "Indeterminate"} \subseteq Claims
      /\ {"ProvenFeasible", "Unknown"} \subseteq Feasibilities
      /\ {"ProvenOptimal", "NotAttempted"} \subseteq Optimalities
      /\ {"Current", "IncompleteFrontier"} \subseteq Currencies
  BY DEF Claims, Feasibilities, Optimalities, Currencies
<1>10. \/ q = EmptyPlan("ProvenContainment", "ProvenFeasible", "ProvenOptimal", "Current")
       \/ q = EmptyPlan("Indeterminate", "Unknown", "NotAttempted", "IncompleteFrontier")
       => PlanTyped(q)
  BY <1>6, <1>7
<1> USE DEF Claims, Feasibilities, Optimalities, PlanTyped
<1>8. CASE q = PlanWithoutObligations
  <2>1. /\ q.claim \in {"ProvenContainment", "Indeterminate"}
        /\ q.feasibility \in {"ProvenFeasible", "Unknown"} /\ q.optimality = "ProvenOptimal"
        /\ q.currency = EvidenceCurrency
        /\ q.members = Sources \cap topology.containable
        /\ q.paths = [n \in Sources \cap topology.containable |-> <<>>]
        /\ q.uncontainable = Sources \ topology.containable
        /\ q.necessary = {} /\ q.indeterminate = {} /\ q.witness = <<>>
    BY <1>8, WithoutObligationsFields
  <2>2. DOMAIN q.paths = q.members
    BY <2>1
  <2> QED
    BY <1>1, <1>2, <1>3, <1>4, <2>1, <2>2
<1>9. ASSUME NEW a, Answered(q, a) PROVE PlanTyped(q)
  <2>1. Right(Instance, a) /\ q = PlanWithObligations(Instance, a)
    BY <1>9 DEF Answered
  <2>2. /\ a.status \in Statuses /\ a.witness \in Seq(topology.nodes)
    BY <1>4, <2>1 DEF Right, Answers
  <2>3. CASE a.status = "ProvenInfeasible"
    <3>1. /\ q.claim = "ProvenInfeasible" /\ q.feasibility = "ProvenInfeasible"
          /\ q.optimality = "NotApplicable" /\ q.currency = CurrencyOnFrontier(Instance)
          /\ q.members = {} /\ q.paths = <<>> /\ q.uncontainable = UncontainableSources(Instance)
          /\ q.necessary = {} /\ q.indeterminate = {} /\ q.witness = a.witness
      BY <2>1, <2>3, ObligationFields
    <3>2. Range(q.witness) \in SUBSET topology.nodes
      BY <2>2, <3>1, PathHolds
    <3> QED
      BY <1>2, <1>3, <1>5, <3>1, <3>2
  <2>4. CASE a.status = "LimitReachedNoSolution"
    <3>1. /\ q.claim = "Indeterminate" /\ q.feasibility = "Unknown"
          /\ q.optimality = "NotAttempted" /\ q.currency = CurrencyOnFrontier(Instance)
          /\ q.members = {} /\ q.paths = <<>> /\ q.uncontainable = UncontainableSources(Instance)
          /\ q.necessary = {} /\ q.indeterminate = {} /\ q.witness = <<>>
      BY <2>1, <2>4, ObligationFields
    <3> QED
      BY <1>2, <1>3, <1>5, <3>1
  <2>5. CASE HasSolution(a)
    <3>1. PICK R : R = MinimalityRestored(Instance, a.members)
      OBVIOUS
    <3>2. /\ q.claim = ClaimOf(Instance, a.status = "ProvenOptimal")
          /\ q.feasibility = "ProvenFeasible"
          /\ q.optimality = IF a.status = "ProvenOptimal" THEN "ProvenOptimal" ELSE "BoundedNotProven"
          /\ q.currency = CurrencyOnFrontier(Instance)
          /\ q.members = R /\ q.paths = [n \in R |-> WitnessPath(Instance, R, n)]
          /\ q.uncontainable = UncontainableSources(Instance)
          /\ q.necessary = ProvenNecessary(topology, Instance, Analysed(Instance, R), policy)
          /\ q.indeterminate = IndeterminateNecessity(topology, Instance, Analysed(Instance, R), policy)
          /\ q.witness = <<>>
      BY <2>1, <2>5, <3>1, ObligationFields, SolutionFields
    <3>3. R \in SUBSET topology.nodes
      <4>1. a.members \in SUBSET Instance.graph.node
        BY <2>1 DEF Right, Answers
      <4> QED
        BY <1>4, <3>1, <4>1, ThinnedIsIrreducible DEF MinimalityRestored
    <3>4. q.necessary \subseteq R /\ q.indeterminate \subseteq R
      <4>1. Analysed(Instance, R) \subseteq R
        BY DEF Analysed
      <4> QED
        BY <3>2, <4>1 DEF ProvenNecessary, IndeterminateNecessity
    <3>5. q.claim \in Claims
      BY <3>2 DEF ClaimOf
    <3>8. q.feasibility \in Feasibilities /\ q.currency \in Currencies
      BY <1>3, <3>2
    <3>9. q.uncontainable \in SUBSET topology.nodes /\ Range(q.witness) = {}
      BY <1>2, <1>5, <3>2
    <3>10. q.members = R
      BY <3>2
    <3>6. DOMAIN q.paths = q.members
      BY <3>2
    <3>7. q.optimality \in Optimalities
      BY <3>2
    <3> QED
      BY <3>3, <3>4, <3>5, <3>6, <3>7, <3>8, <3>9, <3>10
  <2> QED
    BY <2>2, <2>3, <2>4, <2>5 DEF Statuses, HasSolution
<1> QED
  BY <1>1, <1>8, <1>9, <1>10, ComputedCases

\* What a plan of the solvers says of the feasible sets of its instance.
Truthful(q) ==
  LET feasible == FeasibleSets(Instance) IN
  /\ q.optimality = "ProvenOptimal" =>
       q.members \in feasible /\ \A C \in feasible \ {q.members} : Precedes(Instance, q.members, C)
  /\ q.feasibility = "ProvenInfeasible" => feasible = {}
  /\ q.feasibility = "ProvenFeasible" =>
       /\ q.members \in feasible
       /\ \A n \in q.members : ~(policy.require /\ n \in Sources) =>
            /\ q.members \ {n} \notin feasible
            /\ LET path == q.paths[n] IN
                 /\ Range(path) \cap q.members = {n}
                 /\ path[1] \in Sources /\ Last(path) \in topology.protected
                 /\ \A i \in 1..Len(path) - 1 : <<path[i], path[i + 1]>> \in Instance.graph.edge
       /\ Cardinality(Candidates(Instance)) <= NecessityLimit =>
            \A n \in q.members \ (q.necessary \cup q.indeterminate \cup topology.protected) :
              \E C \in feasible : n \notin C
  /\ q.necessary \cap topology.protected = {} /\ \A C \in feasible : q.necessary \subseteq C
  /\ q.witness # <<>> /\ Ample(Instance) => VerifyInfeasibilityWitness(Instance, q.witness)

LEMMA AnsweredIsTruthful ==
  ASSUME Base, Sources \cap topology.protected = {}, NEW q, NEW a, Answered(q, a)
  PROVE  Truthful(q)
<1>1. /\ Right(Instance, a) /\ q = PlanWithObligations(Instance, a)
  BY DEF Answered
<1>2. /\ IsProblem(Instance) /\ Instance.sources = Sources /\ Sources \in SUBSET topology.nodes
      /\ Instance.protected = topology.protected /\ Instance.require = policy.require
      /\ Unmixed(Instance) /\ Instance = Problem(topology, Sources, {}, policy)
  BY TheInstance DEF Instance
<1>3. a.status \in Statuses
  BY <1>1 DEF Right, Answers
<1>4. CASE a.status = "ProvenInfeasible"
  <2>1. /\ q.feasibility = "ProvenInfeasible" /\ q.optimality = "NotApplicable"
        /\ q.necessary = {} /\ q.witness = a.witness
    BY <1>1, <1>4, ObligationFields
  <2>2. FeasibleSets(Instance) = {} /\ (Ample(Instance) => VerifyInfeasibilityWitness(Instance, a.witness))
    BY <1>1, <1>2, <1>4 DEF Right
  <2> QED
    BY <2>1, <2>2 DEF Truthful
<1>5. CASE a.status = "LimitReachedNoSolution"
  <2>1. /\ q.feasibility = "Unknown" /\ q.optimality = "NotAttempted"
        /\ q.necessary = {} /\ q.witness = <<>>
    BY <1>1, <1>5, ObligationFields
  <2> QED
    BY <2>1 DEF Truthful
<1>6. CASE HasSolution(a)
  <2>1. PICK R : R = MinimalityRestored(Instance, a.members)
    OBVIOUS
  <2>2. /\ q.feasibility = "ProvenFeasible"
        /\ q.optimality = IF a.status = "ProvenOptimal" THEN "ProvenOptimal" ELSE "BoundedNotProven"
        /\ q.members = R /\ q.paths = [n \in R |-> WitnessPath(Instance, R, n)]
        /\ q.necessary = ProvenNecessary(topology, Instance, Analysed(Instance, R), policy)
        /\ q.indeterminate = IndeterminateNecessity(topology, Instance, Analysed(Instance, R), policy)
        /\ q.witness = <<>>
    BY <1>1, <1>6, <2>1, ObligationFields, SolutionFields
  <2>3. a.members \in FeasibleSets(Instance)
    BY <1>1, <1>6 DEF Right
  <2>4. /\ R \in FeasibleSets(Instance)
        /\ \A n \in R : ~(policy.require /\ n \in Sources) =>
             /\ R \ {n} \notin FeasibleSets(Instance)
             /\ LET path == WitnessPath(Instance, R, n) IN
                  /\ Range(path) \cap R = {n}
                  /\ path[1] \in Sources /\ Last(path) \in topology.protected
                  /\ \A i \in 1..Len(path) - 1 : <<path[i], path[i + 1]>> \in Instance.graph.edge
    BY <1>2, <2>1, <2>3, MembersHaveWitnesses
  <2>5. \A n \in R : q.paths[n] = WitnessPath(Instance, R, n)
    BY <2>2
  <2>6. \A n \in q.members : ~(policy.require /\ n \in Sources) =>
          /\ q.members \ {n} \notin FeasibleSets(Instance)
          /\ LET path == q.paths[n] IN
               /\ Range(path) \cap q.members = {n}
               /\ path[1] \in Sources /\ Last(path) \in topology.protected
               /\ \A i \in 1..Len(path) - 1 : <<path[i], path[i + 1]>> \in Instance.graph.edge
    BY <2>2, <2>4, <2>5
  <2>7. /\ q.necessary \cap topology.protected = {}
        /\ \A C \in FeasibleSets(Instance) : q.necessary \subseteq C
        /\ \A n \in Analysed(Instance, R) \ (q.necessary \cup q.indeterminate \cup topology.protected) :
             \E C \in FeasibleSets(Instance) : n \notin C
    <3>1. Analysed(Instance, R) \subseteq R /\ Accepted(topology, policy)
      BY DEF Analysed, Base
    <3> QED
      BY <1>2, <2>2, <2>4, <3>1, NecessityHolds
  <2>8. Cardinality(Candidates(Instance)) <= NecessityLimit => Analysed(Instance, R) = q.members
    BY <2>2 DEF Analysed
  <2>9. q.optimality = "ProvenOptimal" =>
          \A C \in FeasibleSets(Instance) \ {q.members} : Precedes(Instance, q.members, C)
    <3> SUFFICES ASSUME q.optimality = "ProvenOptimal"
                 PROVE  \A C \in FeasibleSets(Instance) \ {R} : Precedes(Instance, R, C)
      BY <2>2
    <3>1. a.status = "ProvenOptimal"
      BY <2>2
    <3>2. \A C \in FeasibleSets(Instance) \ {a.members} : Precedes(Instance, a.members, C)
      BY <1>1, <1>2, <3>1 DEF Right
    <3>3. R = a.members
      BY <1>2, <2>1, <2>3, <3>2, OptimumIsMinimal
    <3> QED
      BY <3>2, <3>3
  <2>10. q.members \in FeasibleSets(Instance) /\ q.feasibility # "ProvenInfeasible" /\ q.witness = <<>>
    BY <2>2, <2>4
  <2> QED
    BY <2>6, <2>7, <2>8, <2>9, <2>10 DEF Truthful
<1> QED
  BY <1>3, <1>4, <1>5, <1>6 DEF Statuses, HasSolution

-----------------------------------------------------------------------------
(* The inductive invariant *)

\* What the plan before the last detection said is so still: a failure more leaves fewer sets.
Foretells(q) ==
  Sources \cap topology.protected = {} /\ topology.protected # {} =>
    /\ q.feasibility = "ProvenInfeasible" => FeasibleSets(Instance) = {}
    /\ q.optimality = "ProvenOptimal" =>
         /\ q.members \in SUBSET topology.nodes
         /\ \A C \in FeasibleSets(Instance) : ~Precedes(Instance, C, q.members)
    /\ q.necessary \cap topology.protected = {}
    /\ \A C \in FeasibleSets(Instance) : q.necessary \subseteq C

IndInv ==
  /\ Base
  /\ plan # NoPlan => plan = ComputePlan
  /\ previous # NoPlan => PlanTyped(previous) /\ Foretells(previous)

LEMMA ComputedForetells ==
  ASSUME Base
  PROVE  Foretells(ComputePlan)
<1>1. PICK q : q = ComputePlan
  OBVIOUS
<1>2. SUFFICES ASSUME Sources \cap topology.protected = {}, topology.protected # {}
               PROVE  /\ q.feasibility = "ProvenInfeasible" => FeasibleSets(Instance) = {}
                      /\ q.optimality = "ProvenOptimal" =>
                           /\ q.members \in SUBSET topology.nodes
                           /\ \A C \in FeasibleSets(Instance) : ~Precedes(Instance, C, q.members)
                      /\ q.necessary \cap topology.protected = {}
                      /\ \A C \in FeasibleSets(Instance) : q.necessary \subseteq C
  BY <1>1 DEF Foretells
<1>3. IsProblem(Instance) /\ Instance.graph.node = topology.nodes
  BY TheInstance
<1>4. \A C \in FeasibleSets(Instance) : C \in SUBSET topology.nodes
  BY <1>3, FeasibleInGraph
<1>5. CASE q = EmptyPlan("ProvenContainment", "ProvenFeasible", "ProvenOptimal", "Current")
  <2>1. /\ q.feasibility = "ProvenFeasible" /\ q.optimality = "ProvenOptimal"
        /\ q.members = {} /\ q.necessary = {}
    BY <1>5, EmptyPlanFields
  <2>2. ASSUME NEW C \in FeasibleSets(Instance) PROVE ~Precedes(Instance, C, {})
    <3>1. C \in SUBSET Instance.graph.node /\ {} \in SUBSET C /\ {} \in SUBSET Instance.graph.node
      BY <1>3, <1>4
    <3>2. CASE C = {}
      BY <1>3, <3>1, <3>2, PrecedesOrders
    <3>3. CASE C # {}
      <4>1. Precedes(Instance, {}, C)
        BY <1>3, <3>1, <3>3, PartsPrecede
      <4>2. Precedes(Instance, C, {}) => Precedes(Instance, {}, {})
        BY <1>3, <3>1, <4>1, PrecedesOrders
      <4>3. ~Precedes(Instance, {}, {})
        BY <1>3, <3>1, PrecedesOrders
      <4> QED
        BY <4>2, <4>3
    <3> QED
      BY <3>2, <3>3
  <2> QED
    BY <2>1, <2>2
<1>6. CASE q = EmptyPlan("Indeterminate", "Unknown", "NotAttempted", "IncompleteFrontier")
  <2>1. q.feasibility = "Unknown" /\ q.optimality = "NotAttempted" /\ q.necessary = {}
    BY <1>6, EmptyPlanFields
  <2> QED
    BY <2>1
<1>7. ASSUME NEW a, Answered(q, a)
      PROVE  /\ q.feasibility = "ProvenInfeasible" => FeasibleSets(Instance) = {}
             /\ q.optimality = "ProvenOptimal" =>
                  /\ q.members \in SUBSET topology.nodes
                  /\ \A C \in FeasibleSets(Instance) : ~Precedes(Instance, C, q.members)
             /\ q.necessary \cap topology.protected = {}
             /\ \A C \in FeasibleSets(Instance) : q.necessary \subseteq C
  <2>1. Truthful(q)
    BY <1>2, <1>7, AnsweredIsTruthful
  <2>2. ASSUME q.optimality = "ProvenOptimal", NEW C \in FeasibleSets(Instance)
        PROVE  ~Precedes(Instance, C, q.members)
    <3>1. /\ q.members \in FeasibleSets(Instance)
          /\ C # q.members => Precedes(Instance, q.members, C)
      BY <2>1, <2>2 DEF Truthful
    <3>2. C \in SUBSET Instance.graph.node /\ q.members \in SUBSET Instance.graph.node
      BY <1>3, <1>4, <3>1
    <3>3. /\ ~Precedes(Instance, C, C)
          /\ Precedes(Instance, C, q.members) /\ Precedes(Instance, q.members, C) => Precedes(Instance, C, C)
      BY <1>3, <3>2, PrecedesOrders
    <3> QED
      BY <3>1, <3>3
  <2>3. q.optimality = "ProvenOptimal" => q.members \in SUBSET topology.nodes
    BY <1>4, <2>1 DEF Truthful
  <2>4. /\ q.feasibility = "ProvenInfeasible" => FeasibleSets(Instance) = {}
        /\ q.necessary \cap topology.protected = {}
        /\ \A C \in FeasibleSets(Instance) : q.necessary \subseteq C
    BY <2>1 DEF Truthful
  <2> QED
    BY <2>2, <2>3, <2>4
<1> QED
  BY <1>1, <1>2, <1>5, <1>6, <1>7, ComputedCases

\* A plan depends on nothing but the definitions and the evidence.
LEMMA PlanDependsOnInputs ==
  ASSUME topology' = topology, policy' = policy, present' = present, confirmed' = confirmed
  PROVE  ComputePlan' = ComputePlan /\ Instance' = Instance /\ Sources' = Sources
<1>1. Sources' = Sources /\ MissingSources' = MissingSources
  BY DEF Sources, MissingSources
<1>2. Instance' = Instance
  BY <1>1 DEF Instance
<1>3. EvidenceCurrency' = EvidenceCurrency
  BY <1>1 DEF EvidenceCurrency
<1>4. PlanWithoutObligations' = PlanWithoutObligations
  BY <1>1, <1>3 DEF PlanWithoutObligations
<1>5. ASSUME NEW p, NEW a PROVE PlanWithSolution(p, a)' = PlanWithSolution(p, a)
  <2>1. CurrencyOnFrontier(p)' = CurrencyOnFrontier(p)
    BY <1>3 DEF CurrencyOnFrontier, FrontierIncomplete
  <2>2. \A b \in BOOLEAN : ClaimOf(p, b)' = ClaimOf(p, b)
    BY <2>1 DEF ClaimOf
  <2> QED
    BY <2>1, <2>2 DEF PlanWithSolution
<1>6. ASSUME NEW p, NEW a PROVE PlanWithObligations(p, a)' = PlanWithObligations(p, a)
  <2>1. CurrencyOnFrontier(p)' = CurrencyOnFrontier(p)
    BY <1>3 DEF CurrencyOnFrontier, FrontierIncomplete
  <2> QED
    BY <1>5, <2>1 DEF PlanWithObligations
<1>7. ComputePlan' = ComputePlan
  BY <1>1, <1>2, <1>4, <1>6 DEF ComputePlan
<1> QED
  BY <1>1, <1>2, <1>7

LEMMA InitEstablishes == Init => IndInv
<1> SUFFICES ASSUME Init PROVE IndInv
  OBVIOUS
<1>1. PICK d \in Definitions :
        /\ TopologyAccepted(d.topology) /\ PolicyAccepted(d.policy)
        /\ topology = d.topology /\ policy = d.policy
        /\ present \in {S \in SUBSET Resources : Cardinality(S) < MaxFailures}
  BY DEF Init
<1>2. TopologyDeclared(d.topology) /\ PolicyDeclared(d.policy)
  BY DefinitionsAssumption
<1>3. confirmed \subseteq present /\ plan = NoPlan /\ previous = NoPlan
  BY DEF Init
<1> QED
  BY <1>1, <1>2, <1>3 DEF IndInv, Base, Accepted

LEMMA StepsPreserve == IndInv /\ [Next]_vars => IndInv'
<1> SUFFICES ASSUME IndInv, [Next]_vars PROVE IndInv'
  OBVIOUS
<1>1. Base /\ (plan # NoPlan => plan = ComputePlan)
      /\ (previous # NoPlan => PlanTyped(previous) /\ Foretells(previous))
  BY DEF IndInv
<1>2. CASE Plan
  <2>1. /\ plan' = ComputePlan /\ topology' = topology /\ policy' = policy
        /\ present' = present /\ confirmed' = confirmed /\ previous' = previous
    BY <1>2 DEF Plan
  <2>2. ComputePlan' = ComputePlan /\ Instance' = Instance /\ Sources' = Sources
    BY <2>1, PlanDependsOnInputs
  <2>3. Base'
    BY <1>1, <2>1 DEF Base
  <2>4. (previous # NoPlan => PlanTyped(previous) /\ Foretells(previous))'
    BY <1>1, <2>1, <2>2 DEF PlanTyped, Foretells
  <2> QED
    BY <2>1, <2>2, <2>3, <2>4 DEF IndInv
<1>3. ASSUME NEW r \in Resources, Detect(r) PROVE IndInv'
  <2>1. /\ plan # NoPlan /\ present' = present \cup {r} /\ confirmed' = confirmed \cup {r}
        /\ previous' = plan /\ plan' = NoPlan /\ topology' = topology /\ policy' = policy
    BY <1>3 DEF Detect
  <2>2. Base'
    BY <1>1, <2>1 DEF Base
  <2>3. plan = ComputePlan /\ PlanTyped(plan) /\ Foretells(plan)
    BY <1>1, <2>1, ComputedIsTyped, ComputedForetells
  <2>4. Sources \subseteq Sources' /\ Sources' = present' \cap topology.nodes
    BY <2>1 DEF Sources
  <2>5. Instance = Problem(topology, Sources, {}, policy) /\ Instance' = Problem(topology, Sources', {}, policy)
    BY <2>1 DEF Instance
  <2>6. FeasibleSets(Instance') \subseteq FeasibleSets(Instance)
    BY <2>4, <2>5, FailuresLeaveFewerSets
  <2>7. \A A, B : Precedes(Instance', A, B) <=> Precedes(Instance, A, B)
    BY <2>5, OrderOfInstances
  <2>8. Sources' \cap topology.protected = {} => Sources \cap topology.protected = {}
    BY <2>4
  <2>9. PICK q : q = plan
    OBVIOUS
  <2>10. ASSUME Sources' \cap topology.protected = {}, topology.protected # {}
         PROVE  /\ q.feasibility = "ProvenInfeasible" => FeasibleSets(Instance') = {}
                /\ q.optimality = "ProvenOptimal" =>
                     /\ q.members \in SUBSET topology.nodes
                     /\ \A C \in FeasibleSets(Instance') : ~Precedes(Instance', C, q.members)
                /\ q.necessary \cap topology.protected = {}
                /\ \A C \in FeasibleSets(Instance') : q.necessary \subseteq C
    <3>1. /\ q.feasibility = "ProvenInfeasible" => FeasibleSets(Instance) = {}
          /\ q.optimality = "ProvenOptimal" =>
               /\ q.members \in SUBSET topology.nodes
               /\ \A C \in FeasibleSets(Instance) : ~Precedes(Instance, C, q.members)
          /\ q.necessary \cap topology.protected = {}
          /\ \A C \in FeasibleSets(Instance) : q.necessary \subseteq C
      BY <2>3, <2>8, <2>9, <2>10 DEF Foretells
    <3> QED
      BY <2>6, <2>7, <3>1
  <2>11. Foretells(previous)'
    BY <2>1, <2>9, <2>10 DEF Foretells
  <2>12. PlanTyped(previous)'
    BY <2>1, <2>3 DEF PlanTyped
  <2> QED
    BY <2>1, <2>2, <2>11, <2>12 DEF IndInv
<1>4. CASE UNCHANGED vars
  <2>1. /\ plan' = plan /\ topology' = topology /\ policy' = policy
        /\ present' = present /\ confirmed' = confirmed /\ previous' = previous
    BY <1>4 DEF vars
  <2>2. ComputePlan' = ComputePlan /\ Instance' = Instance /\ Sources' = Sources
    BY <2>1, PlanDependsOnInputs
  <2>3. Base'
    BY <1>1, <2>1 DEF Base
  <2>4. (previous # NoPlan => PlanTyped(previous) /\ Foretells(previous))'
    BY <1>1, <2>1, <2>2 DEF PlanTyped, Foretells
  <2> QED
    BY <1>1, <2>1, <2>2, <2>3, <2>4 DEF IndInv
<1> QED
  BY <1>2, <1>3, <1>4 DEF Next

\* The evidence and the two plans of every behaviour are as the invariant says.
THEOREM Invariant == Spec => []IndInv
<1>1. Init => IndInv
  BY InitEstablishes
<1>2. IndInv /\ [Next]_vars => IndInv'
  BY StepsPreserve
<1> QED
  BY <1>1, <1>2, PTL DEF Spec

-----------------------------------------------------------------------------
(* The theorems *)

\* A plan the solvers computed is truthful.
LEMMA RegularPlans ==
  ASSUME IndInv, Regular
  PROVE  Truthful(plan) /\ Unmixed(Instance)
<1>1. /\ Base /\ plan = ComputePlan /\ Sources # {} /\ topology.protected # {}
      /\ Sources \cap topology.protected = {}
  BY DEF IndInv, Regular
<1>2. present # {}
  BY <1>1 DEF Sources
<1>3. \E a : Answered(plan, a)
  BY <1>1, <1>2, ComputedCases
<1> QED
  BY <1>1, <1>3, AnsweredIsTruthful, TheInstance

LEMMA InvariantImpliesTypes == IndInv => TypeOK
<1> SUFFICES ASSUME IndInv PROVE TypeOK
  OBVIOUS
<1>1. Base /\ \A q \in {plan, previous} \ {NoPlan} : PlanTyped(q)
  BY ComputedIsTyped DEF IndInv
<1> QED
  BY <1>1 DEF TypeOK, PlanTyped, Base, Accepted

\* Type correctness of every plan there is and was.
THEOREM TypeCorrect == Spec => []TypeOK
BY Invariant, InvariantImpliesTypes, PTL

LEMMA InvariantImpliesOptimum == IndInv => OptimalPlanIsTheOptimum
<1> SUFFICES ASSUME IndInv, Regular, plan.optimality = "ProvenOptimal"
             PROVE  LET feasible == FeasibleSets(Instance) IN
                    /\ plan.members \in feasible
                    /\ \A C \in feasible \ {plan.members} :
                         ObjectiveLess(Objective(Instance, plan.members), Objective(Instance, C), policy.minimize)
  BY DEF OptimalPlanIsTheOptimum
<1>1. Truthful(plan) /\ Instance.minimize = policy.minimize
  BY RegularPlans, TheInstance DEF IndInv
<1> QED
  BY <1>1 DEF Truthful, Precedes

\* What a plan calls optimal is the one feasible set that precedes all others, whatever the
\* search pruned, excluded or found first, and after minimality was restored.
THEOREM Optimality == Spec => []OptimalPlanIsTheOptimum
BY Invariant, InvariantImpliesOptimum, PTL

LEMMA InvariantImpliesInfeasibility == IndInv => InfeasibleMeansNoSet
BY RegularPlans DEF InfeasibleMeansNoSet, Truthful

\* No plan says PROVEN_INFEASIBLE when there is a feasible set.
THEOREM Infeasibility == Spec => []InfeasibleMeansNoSet
BY Invariant, InvariantImpliesInfeasibility, PTL

LEMMA InvariantImpliesCarrying == IndInv => MembersCarryTheCut
BY RegularPlans DEF MembersCarryTheCut, Truthful

\* Every boundary is feasible, no member of it but required sources can be left out, and each
\* has a witness path through it that avoids all others.
THEOREM Minimality == Spec => []MembersCarryTheCut
BY Invariant, InvariantImpliesCarrying, PTL

LEMMA InvariantImpliesCertificates == IndInv => CertificatesHold
<1> SUFFICES ASSUME IndInv, Regular, plan.witness # <<>>,
                    policy.max_members >= Cardinality(topology.nodes),
                    policy.max_weight >= Weight(Instance, topology.nodes)
             PROVE  VerifyInfeasibilityWitness(Instance, plan.witness)
  BY DEF CertificatesHold
<1>1. Truthful(plan)
  BY RegularPlans
<1>2. Ample(Instance)
  BY TheInstance DEF Ample, IndInv
<1> QED
  BY <1>1, <1>2 DEF Truthful

\* Certificates verify where limits do not bind, also the one the exact search takes from its
\* root after every branch failed.
THEOREM Certificates == Spec => []CertificatesHold
BY Invariant, InvariantImpliesCertificates, PTL

LEMMA InvariantImpliesNecessity == IndInv => NecessityIsExact
BY RegularPlans DEF NecessityIsExact, Truthful

\* Proven necessary members are in every feasible set, and of an analysed plan only those are
\* that no feasible set does without.
THEOREM Necessity == Spec => []NecessityIsExact
BY Invariant, InvariantImpliesNecessity, PTL

LEMMA InvariantImpliesContainment == IndInv => ContainmentSurvivesUnknowns
<1> SUFFICES ASSUME IndInv, plan # NoPlan, plan.claim = "ProvenContainment"
             PROVE  /\ present \subseteq confirmed \cap topology.nodes
                    /\ \A more \in SUBSET ((topology.nodes \ topology.complete) \X topology.nodes) :
                         Separates(Instance, plan.members, Instance.graph.edge \cup more)
  BY DEF ContainmentSurvivesUnknowns
<1>1. Base /\ plan = ComputePlan /\ confirmed \subseteq present
  BY DEF IndInv, Base
<1>2. /\ IsProblem(Instance) /\ Instance.sources = Sources /\ Instance.protected = topology.protected
      /\ Instance.graph.node = topology.nodes /\ Sources \in SUBSET topology.nodes
      /\ Instance.graph.edge \subseteq Instance.graph.node \X Instance.graph.node
  BY <1>1, TheInstance DEF IsProblem
<1>3. EvidenceCurrency = "Current" => present \subseteq confirmed \cap topology.nodes
  BY DEF EvidenceCurrency, MissingSources
<1>4. CASE present = {} /\ plan = EmptyPlan("ProvenContainment", "ProvenFeasible", "ProvenOptimal", "Current")
  <2>1. plan.members = {} /\ Sources = {}
    BY <1>4, EmptyPlanFields DEF Sources
  <2>2. ASSUME NEW edges PROVE Separates(Instance, {}, edges)
    <3>1. {} \in SUBSET (Instance.graph.node \ {}) /\ Instance.sources \ {} \subseteq {}
      BY <1>2, <2>1
    <3> QED
      BY <3>1 DEF Separates
  <2> QED
    BY <1>4, <2>1, <2>2
<1>5. CASE plan = EmptyPlan("Indeterminate", "Unknown", "NotAttempted", "IncompleteFrontier")
  BY <1>5, EmptyPlanFields
<1>6. CASE Sources # {} /\ topology.protected = {} /\ plan = PlanWithoutObligations
  <2>1. EvidenceCurrency = "Current"
    BY <1>6, WithoutObligationsFields
  <2>2. ASSUME NEW more \in SUBSET ((topology.nodes \ topology.complete) \X topology.nodes)
        PROVE  Separates(Instance, plan.members, Instance.graph.edge \cup more)
    <3>1. PICK C, S : C = plan.members /\ S = Instance.graph.node \ C
      OBVIOUS
    <3>2. S \in SUBSET (Instance.graph.node \ C) /\ Instance.sources \ C \subseteq S
          /\ S \cap Instance.protected = {}
      BY <1>2, <1>6, <3>1
    <3>3. \A e \in Instance.graph.edge \cup more : e[1] \in S /\ e[2] \notin C => e[2] \in S
      BY <1>2, <3>1
    <3>4. Separates(Instance, C, Instance.graph.edge \cup more)
      BY <3>2, <3>3 DEF Separates
    <3> QED
      BY <3>1, <3>4
  <2> QED
    BY <1>3, <2>1, <2>2
<1>7. ASSUME NEW a, Answered(plan, a)
      PROVE  /\ present \subseteq confirmed \cap topology.nodes
             /\ \A more \in SUBSET ((topology.nodes \ topology.complete) \X topology.nodes) :
                  Separates(Instance, plan.members, Instance.graph.edge \cup more)
  <2>1. Right(Instance, a) /\ plan = PlanWithObligations(Instance, a)
    BY <1>7 DEF Answered
  <2>2. HasSolution(a)
    <3>1. a.status \in Statuses
      BY <2>1 DEF Right, Answers
    <3>2. a.status # "ProvenInfeasible" /\ a.status # "LimitReachedNoSolution"
      BY <2>1, ObligationFields
    <3> QED
      BY <3>1, <3>2 DEF Statuses, HasSolution
  <2>3. /\ plan.claim = ClaimOf(Instance, a.status = "ProvenOptimal")
        /\ plan.members = MinimalityRestored(Instance, a.members)
    <3>1. PICK q : q = plan
      OBVIOUS
    <3>2. q = PlanWithSolution(Instance, a)
      BY <2>1, <2>2, <3>1, ObligationFields
    <3>3. /\ q.claim = ClaimOf(Instance, a.status = "ProvenOptimal")
          /\ q.members = MinimalityRestored(Instance, a.members)
      BY <3>2, SolutionFields
    <3> QED
      BY <3>1, <3>3
  <2>4. CurrencyOnFrontier(Instance) = "Current"
    BY <2>3 DEF ClaimOf
  <2>5. EvidenceCurrency = "Current" /\ Frontier(Instance) \subseteq topology.complete
    BY <2>4 DEF CurrencyOnFrontier, FrontierIncomplete
  <2>6. a.members \in FeasibleSets(Instance)
    BY <2>1, <2>2 DEF Right
  <2>7. plan.members \in FeasibleSets(Instance)
    <3>1. a.members \in SUBSET Instance.graph.node
      BY <1>2, <2>6, FeasibleInGraph
    <3> QED
      BY <1>2, <2>3, <2>6, <3>1, ThinnedIsIrreducible DEF MinimalityRestored
  <2>8. Separates(Instance, plan.members, Instance.graph.edge) /\ plan.members \in SUBSET Instance.graph.node
    BY <1>2, <2>7, FeasibleInGraph
  <2>9. ASSUME NEW more \in SUBSET ((topology.nodes \ topology.complete) \X topology.nodes)
        PROVE  Separates(Instance, plan.members, Instance.graph.edge \cup more)
    <3>1. more \in SUBSET ((Instance.graph.node \ topology.complete) \X Instance.graph.node)
      BY <1>2
    <3> QED
      BY <1>2, <2>5, <2>8, <3>1, UndeclaredEdgesAreOutside
  <2> QED
    BY <1>3, <2>5, <2>9
<1> QED
  BY <1>1, <1>4, <1>5, <1>6, <1>7, ComputedCases

\* PROVEN_CONTAINMENT survives every edge nobody declared, whatever failed and is protected.
THEOREM Containment == Spec => []ContainmentSurvivesUnknowns
BY Invariant, InvariantImpliesContainment, PTL

LEMMA InvariantImpliesMonotony == IndInv => MonotonicSafety
<1> SUFFICES ASSUME IndInv, Regular, previous # NoPlan
             PROVE  /\ previous.feasibility = "ProvenInfeasible" => plan.feasibility # "ProvenFeasible"
                    /\ previous.optimality = "ProvenOptimal" /\ plan.optimality = "ProvenOptimal" =>
                         ~ObjectiveLess(Objective(Instance, plan.members),
                                        Objective(Instance, previous.members), policy.minimize)
                    /\ plan.feasibility = "ProvenFeasible" /\ Cardinality(Candidates(Instance)) <= NecessityLimit
                         => previous.necessary \subseteq plan.necessary \cup plan.indeterminate
  BY DEF MonotonicSafety
<1>1. Truthful(plan) /\ Instance.minimize = policy.minimize
  BY RegularPlans, TheInstance DEF IndInv
<1>2. /\ previous.feasibility = "ProvenInfeasible" => FeasibleSets(Instance) = {}
      /\ previous.optimality = "ProvenOptimal" =>
           \A C \in FeasibleSets(Instance) : ~Precedes(Instance, C, previous.members)
      /\ previous.necessary \cap topology.protected = {}
      /\ \A C \in FeasibleSets(Instance) : previous.necessary \subseteq C
  BY DEF IndInv, Foretells, Regular
<1>3. previous.feasibility = "ProvenInfeasible" => plan.feasibility # "ProvenFeasible"
  BY <1>1, <1>2 DEF Truthful
<1>4. previous.optimality = "ProvenOptimal" /\ plan.optimality = "ProvenOptimal" =>
        ~Precedes(Instance, plan.members, previous.members)
  BY <1>1, <1>2 DEF Truthful
<1>5. ASSUME plan.feasibility = "ProvenFeasible", Cardinality(Candidates(Instance)) <= NecessityLimit,
             NEW n \in previous.necessary
      PROVE  n \in plan.necessary \cup plan.indeterminate
  <2>1. /\ plan.members \in FeasibleSets(Instance)
        /\ \A m \in plan.members \ (plan.necessary \cup plan.indeterminate \cup topology.protected) :
             \E C \in FeasibleSets(Instance) : m \notin C
    BY <1>1, <1>5 DEF Truthful
  <2>2. n \in plan.members /\ n \notin topology.protected
    BY <1>2, <2>1
  <2> QED
    BY <1>2, <2>1, <2>2
<1> QED
  BY <1>1, <1>3, <1>4, <1>5 DEF Precedes

\* More evidence of failure never makes things look better.
THEOREM Monotony == Spec => []MonotonicSafety
BY Invariant, InvariantImpliesMonotony, PTL

-----------------------------------------------------------------------------
(* Witness paths *)

\* Walks enumerates walks, by their length.
LEMMA WalksAreWalks ==
  ASSUME NEW p, IsProblem(p), NEW blocked, NEW n \in Nat, NEW w \in Walks(p, blocked, n)
  PROVE  Walk(p, blocked, w) /\ Len(w) = n
<1> DEFINE start == {<<s>> : s \in p.sources \ blocked}
           longer(W) == UNION {{Append(v, m) : m \in Successors(p.graph, Last(v)) \ blocked} : v \in W}
           G(f) == [i \in Nat |-> IF i = 0 THEN {} ELSE IF i = 1 THEN start ELSE longer(f[i - 1])]
           walks == CHOOSE f : f = G(f)
           Good(k) == {v \in Seq(p.graph.node) : Walk(p, blocked, v) /\ Len(v) = k}
<1>1. Walks(p, blocked, n) = walks[n]
  BY DEF Walks
<1>2. start \in SUBSET Good(1)
  <2> SUFFICES ASSUME NEW s \in p.sources \ blocked PROVE <<s>> \in Good(1)
    OBVIOUS
  <2>1. s \in p.graph.node
    BY DEF IsProblem
  <2>2. <<s>> \in Seq(p.graph.node) /\ <<s>> # <<>> /\ Len(<<s>>) = 1 /\ <<s>>[1] = s
    BY <2>1, SingletonSeq
  <2>3. Walk(p, blocked, <<s>>)
    BY <2>2 DEF Walk
  <2> QED
    BY <2>2, <2>3
<1>3. ASSUME NEW k \in Nat, NEW v \in Good(k), NEW m \in Successors(p.graph, Last(v)) \ blocked
      PROVE  Append(v, m) \in Good(k + 1)
  <2>1. Walk(p, blocked, v) /\ v \in Seq(p.graph.node) /\ Len(v) = k
    OBVIOUS
  <2>2. Walk(p, blocked, Append(v, m))
    BY <2>1, WalkGoesOn
  <2>3. m \in p.graph.node
    BY DEF Successors
  <2>4. Append(v, m) \in Seq(p.graph.node) /\ Len(Append(v, m)) = k + 1
    BY <2>1, <2>3, AppendProperties
  <2> QED
    BY <2>2, <2>4
<1>4. PICK Sets : Sets = SUBSET Seq(p.graph.node)
  OBVIOUS
<1>5. \A W \in Sets : longer(W) \in Sets
  <2> SUFFICES ASSUME NEW W \in Sets, NEW v \in W, NEW m \in Successors(p.graph, Last(v)) \ blocked
               PROVE  Append(v, m) \in Seq(p.graph.node)
    BY <1>4
  <2>1. v \in Seq(p.graph.node) /\ m \in p.graph.node
    BY <1>4 DEF Successors
  <2> QED
    BY <2>1, AppendProperties
<1>6. start \in Sets /\ {} \in Sets
  BY <1>2, <1>4
<1> HIDE DEF longer, start
<1>7. \E f : f = G(f)
  <2>1. PICK step \in [Nat -> [Sets -> Sets]] :
          step = [i \in Nat |-> [W \in Sets |-> IF i = 1 THEN start ELSE longer(W)]]
    BY <1>5, <1>6
  <2>2. PICK f : Iterates(f, Sets, {}, step)
    BY <1>6, <2>1, Iteration
  <2>3. \A i \in Nat \ {0} : f[i] = IF i = 1 THEN start ELSE longer(f[i - 1])
    <3> SUFFICES ASSUME NEW i \in Nat \ {0} PROVE f[i] = IF i = 1 THEN start ELSE longer(f[i - 1])
      OBVIOUS
    <3>1. i - 1 \in Nat /\ f[i] = step[i][f[i - 1]] /\ f[i - 1] \in Sets
      BY <2>2 DEF Iterates
    <3> QED
      BY <2>1, <3>1
  <2>4. f \in [Nat -> Sets] /\ f[0] = {}
    BY <2>2 DEF Iterates
  <2>5. f = G(f)
    BY <2>3, <2>4
  <2> QED
    BY <2>5
<1>8. walks = G(walks)
  BY <1>7
<1> HIDE DEF walks
<1>9. /\ walks[0] = {} /\ walks[1] = start
      /\ \A k \in Nat : k # 0 => walks[k + 1] = longer(walks[k])
  <2>1. \A k \in Nat : walks[k] = IF k = 0 THEN {} ELSE IF k = 1 THEN start ELSE longer(walks[k - 1])
    BY <1>8
  <2>2. \A k \in Nat : k # 0 => k + 1 \in Nat /\ k + 1 # 0 /\ k + 1 # 1 /\ (k + 1) - 1 = k
    OBVIOUS
  <2> QED
    BY <2>1, <2>2
<1> HIDE DEF Good
<1> DEFINE T == {k \in Nat : walks[k] \in SUBSET Good(k)}
<1>10. 0 \in T
  BY <1>9
<1>11. ASSUME NEW k \in T PROVE k + 1 \in T
  <2>1. CASE k = 0
    BY <1>2, <1>9, <2>1
  <2>2. CASE k # 0
    <3>1. walks[k + 1] = longer(walks[k]) /\ walks[k] \in SUBSET Good(k) /\ k \in Nat
      BY <1>9, <2>2
    <3>2. ASSUME NEW v \in walks[k], NEW m \in Successors(p.graph, Last(v)) \ blocked
          PROVE  Append(v, m) \in Good(k + 1)
      <4>1. v \in Good(k)
        BY <3>1
      <4> QED
        BY <1>3, <3>1, <4>1
    <3>3. longer(walks[k]) \in SUBSET Good(k + 1)
      <4> SUFFICES ASSUME NEW u \in longer(walks[k]) PROVE u \in Good(k + 1)
        OBVIOUS
      <4>1. \E v \in walks[k] : \E m \in Successors(p.graph, Last(v)) \ blocked : u = Append(v, m)
        BY DEF longer
      <4> QED
        BY <3>2, <4>1
    <3> QED
      BY <3>1, <3>3
  <2> QED
    BY <2>1, <2>2
<1>12. walks[n] \in SUBSET Good(n)
  <2> HIDE DEF T
  <2>1. \A k \in Nat : k \in T
    BY <1>10, <1>11, Induction DEF T
  <2> QED
    BY <2>1 DEF T
<1> QED
  BY <1>1, <1>12 DEF Good

\* A path that comes after no walk is not longer, and not after one of its length by ids.
LEMMA NotAfterAsChecked ==
  ASSUME NEW v \in Seq(Nat), NEW w \in Seq(Nat), NotAfter(v, w, Len(w)), Len(w) <= Len(v)
  PROVE  Len(w) = Len(v) /\ ~LexicographicallyLess(w, v)
<1>1. PICK n \in Nat : n = Len(w)
  OBVIOUS
<1>2. Len(v) = n /\ (v = w \/ FirstLess(n, v, w))
  <2>1. Len(v) \in Nat /\ Len(v) = n
    BY <1>1 DEF NotAfter, Earlier
  <2>2. v = w \/ Before(v, w)
    BY NotAfterIsSameOrBefore
  <2> QED
    BY <1>1, <2>1, <2>2 DEF Before, Earlier
<1>3. v \in [1..n -> Nat] /\ w \in [1..n -> Nat]
  BY <1>1, <1>2
<1>4. ~FirstLess(n, w, v)
  BY <1>2, <1>3, FirstLessOrders
<1> QED
  BY <1>1, <1>2, <1>3, <1>4, LexicographicallyLessIsFirstLess

LEMMA InvariantImpliesCanonical == IndInv => WitnessesAreCanonical
<1> SUFFICES ASSUME IndInv, Regular, NEW n \in plan.members, NEW k \in 2..Len(plan.paths[n]),
                    NEW w \in Walks(Instance, plan.members \ {n}, k), Last(w) \in topology.protected
             PROVE  k = Len(plan.paths[n]) /\ ~LexicographicallyLess(w, plan.paths[n])
  BY DEF WitnessesAreCanonical
<1>1. /\ Base /\ plan = ComputePlan /\ Sources # {} /\ topology.protected # {}
      /\ Sources \cap topology.protected = {} /\ present # {}
  BY DEF IndInv, Regular, Sources
<1>2. PICK a : Answered(plan, a)
  BY <1>1, ComputedCases
<1>3. PICK p : p = Instance
  OBVIOUS
<1>4. IsProblem(p) /\ p.protected = topology.protected /\ p.sources \cap p.protected = {}
  BY <1>1, <1>3, TheInstance
<1>5. HasSolution(a) /\ plan = PlanWithSolution(p, a)
  <2>1. plan = PlanWithObligations(p, a) /\ Right(p, a)
    BY <1>2, <1>3 DEF Answered
  <2>2. a.status \in Statuses
    BY <2>1 DEF Right, Answers
  <2>3. ~(a.status \in {"ProvenInfeasible", "LimitReachedNoSolution"})
    BY <2>1, ObligationFields
  <2>4. HasSolution(a)
    BY <2>2, <2>3 DEF Statuses, HasSolution
  <2> QED
    BY <2>1, <2>4, ObligationFields
<1>6. plan.paths[n] = WitnessPath(p, plan.members, n)
  <2>1. PICK R : R = MinimalityRestored(p, a.members)
    OBVIOUS
  <2>2. plan.members = R /\ plan.paths = [m \in R |-> WitnessPath(p, R, m)]
    BY <1>5, <2>1, SolutionFields
  <2> QED
    BY <2>2
<1>7. PICK blocked, v : blocked = plan.members \ {n} /\ v = ShortestResidualPath(p, blocked)
  OBVIOUS
<1>8. v \in Seq(p.graph.node) /\ p.graph.node \in SUBSET Nat
  BY <1>4, <1>7, ShortestResidualPathSearches DEF IsProblem
<1>9. plan.paths[n] = v /\ v # <<>> /\ k \in Nat /\ k <= Len(v)
  <2>1. plan.paths[n] = v \/ plan.paths[n] = <<>>
    BY <1>6, <1>7 DEF WitnessPath, FindWitnessPath
  <2>2. Len(<<>>) = 0
    OBVIOUS
  <2>3. plan.paths[n] # <<>>
    BY <2>2
  <2> QED
    BY <1>8, <2>1, <2>3
<1>10. Walk(p, blocked, w) /\ Len(w) = k
  BY <1>3, <1>4, <1>7, <1>9, WalksAreWalks
<1>11. NotAfter(v, w, Len(w))
  BY <1>4, <1>7, <1>9, <1>10, ShortestResidualPathIsFirst
<1>12. v \in Seq(Nat) /\ w \in Seq(Nat)
  BY <1>8, <1>10 DEF Walk
<1> QED
  BY <1>9, <1>10, <1>11, <1>12, NotAfterAsChecked

\* A witness path is the first of the shortest paths that avoid the other members, so the plan
\* and its digest depend on the inputs only.
THEOREM Canonicity == Spec => []WitnessesAreCanonical
BY Invariant, InvariantImpliesCanonical, PTL
=============================================================================
