---------------------------- MODULE SolverProofs ----------------------------
(***************************************************************************)
(* What the solvers of MCC-1 answer: the exact search finds the first      *)
(* feasible set in the order of objectives or proves that there is none,   *)
(* whatever it prunes and excludes; the heuristic finds a feasible set; a  *)
(* certificate is a path on which nothing may be contained.                *)
(***************************************************************************)
EXTENDS Solver, CutProofs

-----------------------------------------------------------------------------
(* The lower bound *)

LEMMA CheapestIsElement ==
  ASSUME NEW p, IsProblem(p), NEW S \in SUBSET p.graph.node, S # {}
  PROVE  Cheapest(p, S) \in S /\ \A m \in S : p.weight[Cheapest(p, S)] <= p.weight[m]
<1>1. S \in SUBSET Nat /\ \A n \in S : p.weight[n] \in Nat
  BY DEF IsProblem
<1> DEFINE weights == {p.weight[n] : n \in S}
<1>2. PICK w \in weights : \A v \in weights : w <= v
  <2>1. weights \in SUBSET Nat /\ weights # {}
    BY <1>1
  <2> HIDE DEF weights
  <2> QED
    BY <2>1, LeastNumber
<1> DEFINE light == {n \in S : p.weight[n] = w}
<1>3. PICK n \in light : \A m \in light : n <= m
  <2>1. light \in SUBSET Nat /\ light # {}
    BY <1>1
  <2> HIDE DEF light
  <2> QED
    BY <2>1, LeastNumber
<1>4. \A m \in S : \/ p.weight[n] < p.weight[m]
                   \/ p.weight[n] = p.weight[m] /\ n <= m
  <2> SUFFICES ASSUME NEW m \in S
               PROVE  \/ p.weight[n] < p.weight[m]
                      \/ p.weight[n] = p.weight[m] /\ n <= m
    OBVIOUS
  <2>1. p.weight[n] = w /\ w <= p.weight[m] /\ w \in Nat /\ p.weight[m] \in Nat
    BY <1>1, <1>2
  <2>2. p.weight[m] = w => n <= m
    BY <1>3
  <2> QED
    BY <2>1, <2>2
<1>5. /\ Cheapest(p, S) \in S
      /\ \A m \in S : \/ p.weight[Cheapest(p, S)] < p.weight[m]
                      \/ p.weight[Cheapest(p, S)] = p.weight[m] /\ Cheapest(p, S) <= m
  <2>1. n \in S
    OBVIOUS
  <2> QED
    BY <1>4, <2>1 DEF Cheapest
<1> HIDE DEF weights, light
<1>6. ASSUME NEW m \in S PROVE p.weight[Cheapest(p, S)] <= p.weight[m]
  <2>1. PICK a \in Nat, b \in Nat : a = p.weight[Cheapest(p, S)] /\ b = p.weight[m]
    BY <1>1, <1>5
  <2>2. a < b \/ a = b
    BY <1>5, <2>1
  <2>3. a <= b
    BY <2>2
  <2> QED
    BY <2>1, <2>3
<1> QED
  BY <1>5, <1>6

BoundTypes(p) == [completable : BOOLEAN, weight : Nat, blocked : SUBSET p.graph.node]

LEMMA DisjointPathStepTyped ==
  ASSUME NEW p, IsProblem(p), NEW excluded, NEW x \in BoundTypes(p)
  PROVE  DisjointPathStep(p, excluded, x) \in BoundTypes(p)
<1> DEFINE path == ShortestResidualPath(p, x.blocked)
           eligible == (Range(path) \cap p.containable) \ excluded
<1>1. eligible \in SUBSET p.graph.node
  BY DEF IsProblem
<1>2. eligible # {} => p.weight[Cheapest(p, eligible)] \in Nat
  <2> HIDE DEF eligible
  <2>1. eligible # {} => Cheapest(p, eligible) \in p.graph.node
    BY <1>1, CheapestIsElement
  <2> QED
    BY <2>1 DEF IsProblem
<1>3. DisjointPathStep(p, excluded, x) =
        IF ~x.completable \/ path = <<>> THEN x
        ELSE IF eligible = {} THEN [x EXCEPT !.completable = FALSE]
        ELSE [x EXCEPT !.blocked = @ \cup eligible,
                       !.weight = @ + p.weight[Cheapest(p, eligible)]]
  BY DEF DisjointPathStep
<1> HIDE DEF path, eligible
<1>4. x.weight \in Nat /\ x.blocked \cup eligible \in SUBSET p.graph.node
  BY <1>1 DEF BoundTypes
<1>5. [x EXCEPT !.completable = FALSE] \in BoundTypes(p)
  BY DEF BoundTypes
<1>6. ASSUME eligible # {}
      PROVE  [x EXCEPT !.blocked = @ \cup eligible,
                       !.weight = @ + p.weight[Cheapest(p, eligible)]] \in BoundTypes(p)
  <2>1. PICK w \in Nat : w = p.weight[Cheapest(p, eligible)]
    BY <1>2, <1>6
  <2>2. x.weight + w \in Nat
    BY <1>4
  <2>3. [x EXCEPT !.blocked = @ \cup eligible, !.weight = @ + w] \in BoundTypes(p)
    BY <1>4, <2>2 DEF BoundTypes
  <2> QED
    BY <2>1, <2>3
<1> QED
  BY <1>3, <1>5, <1>6

\* What was collected of a set that contains included and nothing of excluded.
Collected(p, included, C, x) ==
  x.completable /\ Weight(p, included) + x.weight <= Weight(p, C \cap x.blocked)

\* A path more costs the set at least as much as its cheapest eligible resource, since no
\* resource of it was counted before.
LEMMA DisjointPathStepCollects ==
  ASSUME NEW p, IsProblem(p), NEW included \in SUBSET p.graph.node, NEW excluded,
         NEW C \in FeasibleSets(p), C \cap excluded = {},
         NEW x \in BoundTypes(p), Collected(p, included, C, x)
  PROVE  Collected(p, included, C, DisjointPathStep(p, excluded, x))
<1> DEFINE path == ShortestResidualPath(p, x.blocked)
           eligible == (Range(path) \cap p.containable) \ excluded
<1>1. DisjointPathStep(p, excluded, x) =
        IF ~x.completable \/ path = <<>> THEN x
        ELSE IF eligible = {} THEN [x EXCEPT !.completable = FALSE]
        ELSE [x EXCEPT !.blocked = @ \cup eligible,
                       !.weight = @ + p.weight[Cheapest(p, eligible)]]
  BY DEF DisjointPathStep
<1>2. x.completable /\ x.weight \in Nat /\ x.blocked \in SUBSET p.graph.node
  BY DEF Collected, BoundTypes
<1>3. CASE path = <<>>
  BY <1>1, <1>3
<1>4. CASE path # <<>>
  <2>1. path \in Seq(p.graph.node) /\ ResidualPath(p, x.blocked, path)
    BY <1>4, ShortestResidualPathSearches
  <2>2. C \in SUBSET p.containable /\ Separates(p, C, p.graph.edge) /\ p.containable \in SUBSET p.graph.node
    BY FeasibleDef DEF IsProblem
  <2>3. PICK i \in 1..Len(path) : path[i] \in C
    BY <2>1, <2>2, SeparatingSetsMeetPaths
  <2> DEFINE c == path[i]
  <2>4. c \notin x.blocked
    BY <2>1 DEF ResidualPath, Walk
  <2>5. c \in Range(path)
    BY <2>1, PathHolds
  <2>6. c \in eligible /\ c \in p.graph.node
    BY <2>2, <2>3, <2>5
  <2>7. eligible \in SUBSET p.graph.node
    BY DEF IsProblem
  <2> HIDE DEF c, eligible, path
  <2> DEFINE cheapest == Cheapest(p, eligible)
  <2>8. cheapest \in eligible /\ p.weight[cheapest] <= p.weight[c]
    BY <2>6, <2>7, CheapestIsElement
  <2>9. p.weight[cheapest] \in Nat /\ p.weight[c] \in Nat
    BY <2>6, <2>7, <2>8 DEF IsProblem
  <2> HIDE DEF cheapest
  <2> DEFINE y == [x EXCEPT !.blocked = @ \cup eligible, !.weight = @ + p.weight[cheapest]]
  <2>10. DisjointPathStep(p, excluded, x) = y
    BY <1>1, <1>2, <1>4, <2>6 DEF cheapest
  <2>11. y.completable /\ y.blocked = x.blocked \cup eligible /\ y.weight = x.weight + p.weight[cheapest]
    BY <1>2 DEF BoundTypes
  <2> HIDE DEF y
  <2> DEFINE old == C \cap x.blocked
             new == C \cap y.blocked
  <2>12. /\ old \cup {c} \in SUBSET new /\ new \in SUBSET p.graph.node /\ old \in SUBSET p.graph.node
         /\ (old \cup {c}) \ {c} = old /\ old \cup {c} \in SUBSET p.graph.node /\ c \in old \cup {c}
    BY <1>2, <2>2, <2>3, <2>4, <2>6, <2>7, <2>11 DEF c
  <2> HIDE DEF old, new
  <2>13. Weight(p, old \cup {c}) = p.weight[c] + Weight(p, (old \cup {c}) \ {c})
    BY <2>6, <2>12, WeightSums
  <2>14. Weight(p, old \cup {c}) <= Weight(p, new)
    BY <2>12, WeightGrows
  <2>15. Weight(p, old) \in Nat /\ Weight(p, new) \in Nat /\ Weight(p, included) \in Nat
    BY <2>12, WeightSums
  <2>16. Weight(p, included) + x.weight <= Weight(p, old)
    BY DEF Collected, old
  <2>17. Weight(p, old) + p.weight[c] <= Weight(p, new)
    <3>1. Weight(p, old \cup {c}) = p.weight[c] + Weight(p, old)
      BY <2>12, <2>13
    <3> QED
      BY <2>9, <2>14, <2>15, <3>1
  <2>18. Weight(p, included) + (x.weight + p.weight[cheapest]) <= Weight(p, new)
    BY <1>2, <2>8, <2>9, <2>15, <2>16, <2>17
  <2> QED
    BY <2>10, <2>11, <2>18 DEF Collected, new
<1> QED
  BY <1>3, <1>4

\* The bound never exceeds what a completion adds, and a branch with a completion is never
\* taken for one without.
LEMMA DisjointPathBoundHolds ==
  ASSUME NEW p, IsProblem(p), NEW included \in SUBSET p.graph.node, NEW excluded,
         NEW C \in FeasibleSets(p), C \cap excluded = {}, included \subseteq C
  PROVE  LET bound == DisjointPathBound(p, included, excluded) IN
         /\ bound.completable /\ bound.weight \in Nat
         /\ Weight(p, included) + bound.weight <= Weight(p, C)
<1> DEFINE begun == [completable |-> TRUE, weight |-> 0, blocked |-> included]
           G(f) == [k \in Nat |-> IF k = 0 THEN begun ELSE DisjointPathStep(p, excluded, f[k - 1])]
           bounds == CHOOSE f : f = G(f)
<1>1. DisjointPathBound(p, included, excluded) = bounds[BoundIterations]
  BY DEF DisjointPathBound
<1>2. /\ begun \in BoundTypes(p) /\ begun.completable /\ begun.weight = 0
      /\ begun.blocked = included
  BY DEF BoundTypes
<1> HIDE DEF begun
<1>3. \E f : f = G(f)
  <2>1. PICK S : S = BoundTypes(p)
    OBVIOUS
  <2>2. PICK step \in [Nat -> [S -> S]] : step = [k \in Nat |-> [x \in S |-> DisjointPathStep(p, excluded, x)]]
    BY <2>1, DisjointPathStepTyped
  <2>3. PICK f : Iterates(f, S, begun, step)
    BY <1>2, <2>1, Iteration
  <2>4. \A k \in Nat \ {0} : f[k] = DisjointPathStep(p, excluded, f[k - 1])
    BY <2>2, <2>3 DEF Iterates
  <2>5. f = G(f)
    BY <2>3, <2>4 DEF Iterates
  <2> QED
    BY <2>5
<1>4. bounds = G(bounds)
  BY <1>3
<1> HIDE DEF bounds
<1>5. bounds[0] = begun /\ \A k \in Nat : bounds[k + 1] = DisjointPathStep(p, excluded, bounds[k])
  <2>1. \A k \in Nat : bounds[k] = IF k = 0 THEN begun ELSE DisjointPathStep(p, excluded, bounds[k - 1])
    BY <1>4
  <2>2. \A k \in Nat : k + 1 \in Nat /\ k + 1 # 0 /\ (k + 1) - 1 = k
    OBVIOUS
  <2> QED
    BY <2>1, <2>2
<1>6. C \in SUBSET p.graph.node /\ Weight(p, included) \in Nat /\ C \cap included = included
  BY FeasibleDef, WeightSums DEF IsProblem
<1> DEFINE T == {k \in Nat : bounds[k] \in BoundTypes(p) /\ Collected(p, included, C, bounds[k])}
<1>7. 0 \in T
  BY <1>2, <1>5, <1>6 DEF Collected
<1>8. ASSUME NEW k \in T PROVE k + 1 \in T
  BY <1>5, DisjointPathStepTyped, DisjointPathStepCollects
<1> HIDE DEF T
<1>9. \A k \in Nat : k \in T
  BY <1>7, <1>8, Induction DEF T
<1> DEFINE x == bounds[BoundIterations]
<1>10. x \in BoundTypes(p) /\ Collected(p, included, C, x)
  BY <1>9, BoundAssumption DEF T
<1> HIDE DEF x
<1>11. x.weight \in Nat /\ C \cap x.blocked \in SUBSET C /\ C \cap x.blocked \in SUBSET p.graph.node
  BY <1>6, <1>10 DEF BoundTypes
<1>12. Weight(p, C \cap x.blocked) <= Weight(p, C) /\ Weight(p, C \cap x.blocked) \in Nat /\ Weight(p, C) \in Nat
  BY <1>6, <1>11, WeightGrows, WeightSums
<1>13. Weight(p, included) + x.weight <= Weight(p, C)
  BY <1>6, <1>10, <1>11, <1>12 DEF Collected
<1>14. DisjointPathBound(p, included, excluded) = x
  BY <1>1 DEF x
<1> QED
  BY <1>10, <1>11, <1>13, <1>14 DEF Collected

-----------------------------------------------------------------------------
(* One call of search() *)

\* Nothing that failed is protected.
Unmixed(p) == p.sources \cap p.protected = {}

\* No limit can be what makes an instance infeasible.
Ample(p) ==
  p.max_members >= Cardinality(p.graph.node) /\ p.max_weight >= Weight(p, p.graph.node)

MandatoryMembers(p) == {n \in p.sources : Mandatory(p, n)}

Calls(p) == [included : SUBSET p.graph.node, excluded : SUBSET p.graph.node, path : Seq(p.graph.node)]

\* A call that was made: its path is left to be cut, and something of it may be contained.
CallOK(p, c) ==
  /\ c \in Calls(p)
  /\ c.included \subseteq p.containable /\ MandatoryMembers(p) \subseteq c.included
  /\ ResidualPath(p, c.included, c.path)
  /\ \E i \in 1..Len(c.path) : c.path[i] \in p.containable

\* The best set is feasible and there is one.
BestOK(p, best) == best \subseteq FeasibleSets(p) /\ \A b, c \in best : b = c

\* No better than the best set.
Matched(p, best, C) == \E b \in best : b = C \/ Precedes(p, b, C)

\* A set the branches of a call may still find.
Covers(c, C) == c.included \subseteq C /\ C \cap c.excluded = {}

\* What search() does with included and excluded to the state s it finds.
SearchedOn(p, budget, s, t, included, excluded) ==
  /\ t \in SearchStates(p) /\ t.explored = s.explored + 1
  /\ t.aborted \/ t.explored <= budget
  /\ BestOK(p, t.best)
  /\ \A C \in FeasibleSets(p) : Matched(p, s.best, C) => Matched(p, t.best, C)
  /\ s.best # {} => t.best # {}
  /\ s.witness # <<>> => t.witness = s.witness
  /\ t.witness = s.witness \/ VerifyInfeasibilityWitness(p, t.witness)
  /\ \/ \E c \in Calls(p) : /\ t.stack = Append(s.stack, c) /\ CallOK(p, c)
                            /\ c.included = included /\ c.excluded = excluded
     \/ /\ t.stack = s.stack
        /\ Unmixed(p) /\ ~t.aborted =>
             \A C \in FeasibleSets(p) :
               included \subseteq C /\ C \cap excluded = {} => Matched(p, t.best, C)
        /\ Unmixed(p) /\ Ample(p) /\ ~t.aborted => t.best # {} \/ t.witness # <<>>

LEMMA FeasibleInGraph ==
  ASSUME NEW p, IsProblem(p), NEW C \in FeasibleSets(p)
  PROVE  /\ C \in SUBSET p.graph.node /\ C \in SUBSET p.containable /\ IsFiniteSet(C)
         /\ MandatoryMembers(p) \subseteq C /\ Separates(p, C, p.graph.edge)
<1>1. C \in SUBSET p.containable /\ (p.require => (p.sources \cap p.containable) \subseteq C)
      /\ Separates(p, C, p.graph.edge)
  BY FeasibleDef
<1>2. C \in SUBSET p.graph.node /\ IsFiniteSet(p.graph.node)
  BY <1>1 DEF IsProblem
<1>3. IsFiniteSet(C)
  BY <1>2, FS_Subset
<1>4. MandatoryMembers(p) \subseteq C
  BY <1>1 DEF MandatoryMembers, Mandatory
<1> QED
  BY <1>1, <1>2, <1>3, <1>4

LEMMA SetGrows ==
  ASSUME NEW p, IsProblem(p), NEW B \in SUBSET p.graph.node, NEW A \in SUBSET B
  PROVE  /\ Cardinality(A) <= Cardinality(B) /\ Cardinality(A) \in Nat /\ Cardinality(B) \in Nat
         /\ Weight(p, A) <= Weight(p, B) /\ Weight(p, A) \in Nat /\ Weight(p, B) \in Nat
<1>1. IsFiniteSet(B) /\ IsFiniteSet(A) /\ A \in SUBSET p.graph.node
  BY FS_Subset DEF IsProblem
<1>2. Cardinality(A) <= Cardinality(B) /\ Cardinality(A) \in Nat /\ Cardinality(B) \in Nat
  BY <1>1, FS_Subset, FS_CardinalityType
<1>3. Weight(p, A) <= Weight(p, B) /\ Weight(p, A) \in Nat /\ Weight(p, B) \in Nat
  BY <1>1, WeightGrows, WeightSums
<1> QED
  BY <1>2, <1>3

\* A set that is fit and leaves no residual path verifies.
LEMMA SeparatingSetVerifies ==
  ASSUME NEW p, IsProblem(p), NEW C, C \subseteq p.containable, MandatoryMembers(p) \subseteq C,
         Cardinality(C) <= p.max_members, Weight(p, C) <= p.max_weight,
         Separates(p, C, p.graph.edge)
  PROVE  C \in FeasibleSets(p) /\ VerifyCut(p, C)
<1>1. p.require => (p.sources \cap p.containable) \subseteq C
  BY DEF MandatoryMembers, Mandatory
<1>2. C \in FeasibleSets(p)
  BY <1>1, FeasibleDef
<1>3. C \in SUBSET p.graph.node
  BY DEF IsProblem
<1> QED
  BY <1>2, <1>3, VerifyCutDecides

\* A branch is cut off only when no completion of it is better than the best set.
LEMMA PrunedBranches ==
  ASSUME NEW p, IsProblem(p), NEW best \in FeasibleSets(p),
         NEW included \in SUBSET p.graph.node, NEW excluded, Pruned(p, best, included, excluded),
         NEW C \in FeasibleSets(p), included \subseteq C, C \cap excluded = {}
  PROVE  Precedes(p, best, C)
<1> DEFINE bound == DisjointPathBound(p, included, excluded)
           lower == [protected |-> Cardinality(included \cap p.protected),
                     weight |-> Weight(p, included) + bound.weight,
                     cardinality |-> Cardinality(included), signature |-> <<>>]
           a == Objective(p, best)
           c == Objective(p, C)
<1>1. ~bound.completable \/ ObjectiveLess(a, lower, p.minimize)
  BY DEF Pruned
<1>2. bound.completable /\ bound.weight \in Nat /\ Weight(p, included) + bound.weight <= Weight(p, C)
  BY DisjointPathBoundHolds
<1>3. best \in SUBSET p.graph.node /\ C \in SUBSET p.graph.node /\ IsFiniteSet(C) /\ included \in SUBSET C
  BY FeasibleInGraph
<1>4. Measures(p, best, a) /\ Measures(p, C, c)
  BY <1>3, ObjectiveFacts
<1>5. Cardinality(included) <= Cardinality(C) /\ Cardinality(included) \in Nat /\ Weight(p, included) \in Nat
  BY <1>3, SetGrows
<1>6. /\ Cardinality(included \cap p.protected) <= Cardinality(C \cap p.protected)
      /\ Cardinality(included \cap p.protected) \in Nat
  <2>1. included \cap p.protected \in SUBSET (C \cap p.protected) /\ IsFiniteSet(C \cap p.protected)
    BY <1>3, FS_Intersection
  <2>2. IsFiniteSet(included \cap p.protected)
    BY <2>1, FS_Subset
  <2> QED
    BY <2>1, <2>2, FS_Subset, FS_CardinalityType
<1>7. /\ lower.protected = Cardinality(included \cap p.protected)
      /\ lower.weight = Weight(p, included) + bound.weight
      /\ lower.cardinality = Cardinality(included) /\ lower.signature = <<>>
  OBVIOUS
<1> HIDE DEF a, c, lower, bound
<1>8. /\ a.protected \in Nat /\ a.weight \in Nat /\ a.cardinality \in Nat
      /\ c.protected \in Nat /\ c.weight \in Nat /\ c.cardinality \in Nat
      /\ c.protected = Cardinality(C \cap p.protected) /\ c.weight = Weight(p, C)
      /\ c.cardinality = Cardinality(C)
  BY <1>4 DEF Measures
<1>9. /\ lower.protected <= c.protected /\ lower.protected \in Nat
      /\ lower.weight <= c.weight /\ lower.weight \in Nat
      /\ lower.cardinality <= c.cardinality /\ lower.cardinality \in Nat
  BY <1>2, <1>5, <1>6, <1>7, <1>8
<1>10. ~LexicographicallyLess(a.signature, lower.signature)
  <2>1. ~LexicographicallyLess(a.signature, <<>>)
    BY DEF LexicographicallyLess
  <2> QED
    BY <1>7, <2>1
<1>11. ObjectiveLess(a, lower, p.minimize)
  BY <1>1, <1>2
<1>12. ObjectiveLess(a, c, p.minimize)
  BY <1>8, <1>9, <1>10, <1>11 DEF ObjectiveLess
<1> QED
  BY <1>12 DEF Precedes, a, c

LEMMA SearchOutcomes ==
  ASSUME NEW p, IsProblem(p), NEW budget \in Nat, NEW s \in SearchStates(p), ~s.aborted,
         BestOK(p, s.best), NEW included \in SUBSET p.containable,
         MandatoryMembers(p) \subseteq included, NEW excluded \in SUBSET p.graph.node
  PROVE  SearchedOn(p, budget, s, Search(p, budget, s, included, excluded), included, excluded)
<1> DEFINE u == [s EXCEPT !.explored = @ + 1]
           path == ShortestResidualPath(p, included)
           t == Search(p, budget, s, included, excluded)
<1>1. t = IF u.explored > budget THEN [u EXCEPT !.aborted = TRUE]
          ELSE IF Cardinality(included) > p.max_members \/ Weight(p, included) > p.max_weight THEN u
          ELSE IF path = <<>> THEN WithCandidate(p, u, included)
          ELSE IF Range(path) \cap p.containable = {} THEN WithWitness(u, path)
          ELSE IF \E b \in u.best : Pruned(p, b, included, excluded) THEN u
          ELSE [u EXCEPT !.stack = Append(@, Call(included, excluded, path))]
  BY DEF Search
<1>2. included \in SUBSET p.graph.node /\ p.max_members \in Nat /\ p.max_weight \in Nat
  BY DEF IsProblem
<1>3. /\ path \in Seq(p.graph.node) /\ (path # <<>> => ResidualPath(p, included, path))
      /\ path = <<>> /\ Unmixed(p) => Separates(p, included, p.graph.edge)
  BY ShortestResidualPathSearches DEF Unmixed
<1>4. /\ u \in SearchStates(p) /\ u.explored = s.explored + 1 /\ u.aborted = s.aborted
      /\ u.best = s.best /\ u.witness = s.witness /\ u.stack = s.stack
      /\ u.explored \in Nat /\ s.stack \in Seq(Calls(p)) /\ s.best \in SUBSET SUBSET p.graph.node
      /\ s.witness \in Seq(p.graph.node)
  BY DEF SearchStates, Calls
<1>5. Cardinality(included) \in Nat /\ Weight(p, included) \in Nat
  BY <1>2, SetGrows
<1>6. \A n : n \in Range(path) <=> \E i \in 1..Len(path) : path[i] = n
  BY <1>3, PathHolds
<1> HIDE DEF u, path, t
<1>7. CASE u.explored > budget
  <2>1. t = [u EXCEPT !.aborted = TRUE]
    BY <1>1, <1>7
  <2>2. /\ t \in SearchStates(p) /\ t.explored = u.explored /\ t.aborted /\ t.best = u.best
        /\ t.witness = u.witness /\ t.stack = u.stack
    BY <1>4, <2>1 DEF SearchStates
  <2>3. SearchedOn(p, budget, s, t, included, excluded)
    BY <1>4, <2>2 DEF SearchedOn
  <2> QED
    BY <2>3 DEF t
<1>8. CASE ~(u.explored > budget) /\ (Cardinality(included) > p.max_members \/ Weight(p, included) > p.max_weight)
  <2>1. t = u
    BY <1>1, <1>8
  <2>2. u.explored <= budget
    BY <1>4, <1>8
  <2>3. ASSUME NEW C \in FeasibleSets(p), included \subseteq C PROVE FALSE
    <3>1. C \in SUBSET p.graph.node /\ Cardinality(C) <= p.max_members /\ Weight(p, C) <= p.max_weight
      BY FeasibleInGraph, FeasibleDef
    <3>2. /\ Cardinality(included) <= Cardinality(C) /\ Cardinality(C) \in Nat
          /\ Weight(p, included) <= Weight(p, C) /\ Weight(p, C) \in Nat
      BY <2>3, <3>1, SetGrows
    <3> QED
      BY <1>2, <1>5, <1>8, <3>1, <3>2
  <2>4. ~Ample(p)
    <3> SUFFICES ASSUME Ample(p) PROVE FALSE
      OBVIOUS
    <3>1. /\ Cardinality(included) <= Cardinality(p.graph.node) /\ Cardinality(p.graph.node) \in Nat
          /\ Weight(p, included) <= Weight(p, p.graph.node) /\ Weight(p, p.graph.node) \in Nat
      BY <1>2, SetGrows
    <3>2. p.max_members >= Cardinality(p.graph.node) /\ p.max_weight >= Weight(p, p.graph.node)
      BY DEF Ample
    <3> QED
      BY <1>2, <1>5, <1>8, <3>1, <3>2
  <2>5. SearchedOn(p, budget, s, t, included, excluded)
    BY <1>4, <2>1, <2>2, <2>3, <2>4 DEF SearchedOn
  <2> QED
    BY <2>5 DEF t
<1> DEFINE fit == /\ ~(u.explored > budget)
                  /\ ~(Cardinality(included) > p.max_members \/ Weight(p, included) > p.max_weight)
<1>9. fit => u.explored <= budget /\ Cardinality(included) <= p.max_members /\ Weight(p, included) <= p.max_weight
  BY <1>2, <1>4, <1>5
<1>10. CASE fit /\ path = <<>>
  <2>1. t = WithCandidate(p, u, included)
    BY <1>1, <1>10
  <2> DEFINE better == /\ VerifyCut(p, included)
                       /\ \A b \in s.best : Precedes(p, included, b)
  <2>2. t = IF better THEN [u EXCEPT !.best = {included}] ELSE u
    BY <1>4, <2>1 DEF WithCandidate, Precedes
  <2>3. /\ t \in SearchStates(p) /\ t.explored = u.explored /\ t.aborted = u.aborted
        /\ t.witness = u.witness /\ t.stack = u.stack
        /\ t.best = IF better THEN {included} ELSE s.best
    <3>1. [u EXCEPT !.best = {included}] \in SearchStates(p)
      BY <1>2, <1>4 DEF SearchStates
    <3> HIDE DEF better
    <3> QED
      BY <1>4, <2>2, <3>1 DEF SearchStates
  <2>4. VerifyCut(p, included) => included \in FeasibleSets(p)
    BY <1>2, VerifyCutDecides
  <2>5. Unmixed(p) => VerifyCut(p, included)
    BY <1>3, <1>9, <1>10, SeparatingSetVerifies
  <2>6. BestOK(p, t.best)
    BY <2>3, <2>4 DEF BestOK
  <2>7. ASSUME NEW C \in FeasibleSets(p), Matched(p, s.best, C) PROVE Matched(p, t.best, C)
    <3>1. CASE better
      <4>1. PICK b \in s.best : b = C \/ Precedes(p, b, C)
        BY <2>7 DEF Matched
      <4>2. Precedes(p, included, b) /\ b \in SUBSET p.graph.node /\ C \in SUBSET p.graph.node
        BY <1>4, <3>1, FeasibleInGraph
      <4>3. Precedes(p, included, C)
        BY <1>2, <4>1, <4>2, PrecedesOrders
      <4> QED
        BY <2>3, <3>1, <4>3 DEF Matched
    <3>2. CASE ~better
      BY <2>3, <2>7, <3>2
    <3> QED
      BY <3>1, <3>2
  <2>8. s.best # {} => t.best # {}
    BY <2>3
  <2>9. Unmixed(p) => t.best # {}
    BY <2>3, <2>5
  <2>10. ASSUME Unmixed(p), NEW C \in FeasibleSets(p), included \subseteq C PROVE Matched(p, t.best, C)
    <3>1. C \in SUBSET p.graph.node
      BY FeasibleInGraph
    <3>2. included = C \/ Precedes(p, included, C)
      BY <2>10, <3>1, PartsPrecede
    <3>3. CASE better
      BY <2>3, <3>2, <3>3 DEF Matched
    <3>4. CASE ~better
      <4>1. PICK b \in s.best : ~Precedes(p, included, b)
        BY <2>5, <2>10, <3>4
      <4>2. b \in SUBSET p.graph.node
        BY <1>4
      <4>3. b = included \/ Precedes(p, b, included)
        BY <1>2, <4>1, <4>2, PrecedesOrders
      <4>4. b = C \/ Precedes(p, b, C)
        BY <1>2, <3>1, <3>2, <4>2, <4>3, PrecedesOrders
      <4>5. t.best = s.best
        BY <2>3, <3>4
      <4> QED
        BY <4>4, <4>5 DEF Matched
    <3> QED
      BY <3>3, <3>4
  <2> HIDE DEF better, fit
  <2>11. SearchedOn(p, budget, s, t, included, excluded)
    BY <1>4, <1>9, <1>10, <2>3, <2>6, <2>7, <2>8, <2>9, <2>10 DEF SearchedOn
  <2> QED
    BY <2>11 DEF t
<1>11. CASE fit /\ path # <<>> /\ Range(path) \cap p.containable = {}
  <2>1. t = WithWitness(u, path)
    BY <1>1, <1>11
  <2>2. /\ t \in SearchStates(p) /\ t.explored = u.explored /\ t.aborted = u.aborted
        /\ t.best = s.best /\ t.stack = u.stack
        /\ t.witness = IF s.witness = <<>> THEN path ELSE s.witness
    BY <1>3, <1>4, <2>1 DEF WithWitness, SearchStates
  <2>3. ResidualPath(p, included, path)
    BY <1>3, <1>11
  <2>4. VerifyInfeasibilityWitness(p, path)
    <3>1. /\ Len(path) >= 2 /\ path[1] \in p.sources /\ path[Len(path)] \in p.protected
          /\ \A i \in 1..Len(path) - 1 : <<path[i], path[i + 1]>> \in p.graph.edge
      BY <2>3 DEF ResidualPath, Walk
    <3>2. \A i \in 1..Len(path) - 1 : path[i + 1] \in Successors(p.graph, path[i])
      BY <3>1 DEF Successors, IsProblem
    <3> QED
      BY <1>11, <3>1, <3>2 DEF VerifyInfeasibilityWitness, Last
  <2>5. ASSUME NEW C \in FeasibleSets(p) PROVE FALSE
    <3>1. C \in SUBSET p.containable /\ Separates(p, C, p.graph.edge)
      BY FeasibleInGraph
    <3>2. PICK i \in 1..Len(path) : path[i] \in C
      BY <2>3, <3>1, SeparatingSetsMeetPaths
    <3> QED
      BY <1>6, <1>11, <3>1, <3>2
  <2>6. t.witness # <<>> /\ (t.witness = s.witness \/ VerifyInfeasibilityWitness(p, t.witness))
    BY <1>11, <2>2, <2>4
  <2> HIDE DEF fit
  <2>7. SearchedOn(p, budget, s, t, included, excluded)
    BY <1>4, <1>9, <1>11, <2>2, <2>5, <2>6 DEF SearchedOn
  <2> QED
    BY <2>7 DEF t
<1>12. CASE /\ fit /\ path # <<>> /\ Range(path) \cap p.containable # {}
            /\ \E b \in u.best : Pruned(p, b, included, excluded)
  <2>1. t = u
    BY <1>1, <1>12
  <2>2. PICK b \in s.best : Pruned(p, b, included, excluded)
    BY <1>4, <1>12
  <2>3. b \in FeasibleSets(p)
    BY DEF BestOK
  <2>4. \A C \in FeasibleSets(p) : included \subseteq C /\ C \cap excluded = {} => Matched(p, s.best, C)
    BY <1>2, <2>2, <2>3, PrunedBranches DEF Matched
  <2> HIDE DEF fit
  <2>5. SearchedOn(p, budget, s, t, included, excluded)
    BY <1>4, <1>9, <1>12, <2>1, <2>2, <2>4 DEF SearchedOn
  <2> QED
    BY <2>5 DEF t
<1>13. CASE /\ fit /\ path # <<>> /\ Range(path) \cap p.containable # {}
            /\ ~\E b \in u.best : Pruned(p, b, included, excluded)
  <2> DEFINE c == Call(included, excluded, path)
  <2>1. t = [u EXCEPT !.stack = Append(@, c)]
    BY <1>1, <1>13
  <2>2. c \in Calls(p) /\ c.included = included /\ c.excluded = excluded /\ c.path = path
    BY <1>2, <1>3 DEF Call, Calls
  <2> HIDE DEF c
  <2>3. Append(s.stack, c) \in Seq(Calls(p))
    BY <1>4, <2>2, AppendProperties
  <2>4. /\ t \in SearchStates(p) /\ t.explored = u.explored /\ t.aborted = u.aborted
        /\ t.best = s.best /\ t.witness = s.witness /\ t.stack = Append(s.stack, c)
    BY <1>4, <2>1, <2>3 DEF SearchStates, Calls
  <2>5. CallOK(p, c)
    <3>1. ResidualPath(p, c.included, c.path)
      BY <1>3, <1>13, <2>2
    <3>2. \E i \in 1..Len(path) : path[i] \in p.containable
      BY <1>6, <1>13
    <3> QED
      BY <2>2, <3>1, <3>2 DEF CallOK
  <2> HIDE DEF fit
  <2>6. SearchedOn(p, budget, s, t, included, excluded)
    BY <1>4, <1>9, <1>13, <2>2, <2>4, <2>5 DEF SearchedOn
  <2> QED
    BY <2>6 DEF t
<1> QED
  BY <1>7, <1>8, <1>10, <1>11, <1>12, <1>13

-----------------------------------------------------------------------------
(* The whole search *)

\* Of every feasible set the search has found one as good, or a call that is at its branches
\* will find it or one as good.
Coverage(p, s) ==
  Unmixed(p) /\ ~s.aborted =>
    \A C \in FeasibleSets(p) :
      Matched(p, s.best, C) \/ \E i \in 1..Len(s.stack) : Covers(s.stack[i], C)

\* Until the search has found a set or a certificate it goes down its leftmost branches, on
\* which nothing is excluded, where no limit can turn it back.
Descent(p, s) ==
  Unmixed(p) /\ Ample(p) =>
    /\ s.witness # <<>> => VerifyInfeasibilityWitness(p, s.witness)
    /\ s.best = {} /\ s.witness = <<>> /\ ~s.aborted =>
         s.stack # <<>> /\ Last(s.stack).excluded = {}

SearchInv(p, budget, s) ==
  /\ s \in SearchStates(p)
  /\ s.aborted \/ s.explored <= budget
  /\ BestOK(p, s.best)
  /\ \A i \in 1..Len(s.stack) : CallOK(p, s.stack[i])
  /\ Coverage(p, s) /\ Descent(p, s)

\* What has been done: calls of search() count twice, calls that have not returned once less.
Done(s) == 2 * s.explored - Len(s.stack)

LEMMA FrontAndLast ==
  ASSUME NEW S, NEW s \in Seq(S), s # <<>>
  PROVE  /\ Len(s) \in Nat \ {0} /\ Last(s) = s[Len(s)] /\ Last(s) \in S
         /\ Front(s) \in Seq(S) /\ Len(Front(s)) = Len(s) - 1
         /\ \A i \in 1..Len(s) - 1 : Front(s)[i] = s[i]
<1>1. Len(s) \in Nat \ {0}
  BY EmptySeq
<1>2. Last(s) = s[Len(s)] /\ s[Len(s)] \in S
  BY <1>1 DEF Last
<1>3. \A i \in 1..Len(s) - 1 : s[i] \in S
  BY <1>1, ElementOfSeq
<1>4. /\ SubSeq(s, 1, Len(s) - 1) \in Seq(S)
      /\ Len(SubSeq(s, 1, Len(s) - 1)) = IF 1 <= Len(s) - 1 THEN (Len(s) - 1) - 1 + 1 ELSE 0
      /\ \A i \in 1..(Len(s) - 1) - 1 + 1 : SubSeq(s, 1, Len(s) - 1)[i] = s[1 + i - 1]
  BY <1>1, <1>3, SubSeqProperties
<1>5. Front(s) = SubSeq(s, 1, Len(s) - 1)
  BY DEF Front
<1>6. Len(Front(s)) = Len(s) - 1
  <2>1. PICK m, l : m = Len(s) /\ l = Len(Front(s))
    OBVIOUS
  <2>2. m \in Nat \ {0} /\ l = IF 1 <= m - 1 THEN (m - 1) - 1 + 1 ELSE 0
    BY <1>1, <1>4, <1>5, <2>1
  <2>3. l = m - 1
    BY <2>2
  <2> QED
    BY <2>1, <2>3
<1>7. ASSUME NEW i \in 1..Len(s) - 1 PROVE Front(s)[i] = s[i]
  <2>1. i \in 1..(Len(s) - 1) - 1 + 1 /\ 1 + i - 1 = i
    BY <1>1
  <2> QED
    BY <1>4, <1>5, <2>1
<1> QED
  BY <1>1, <1>2, <1>4, <1>5, <1>6, <1>7

\* A turn of the search keeps its invariant and gets something done.
LEMMA BranchSearches ==
  ASSUME NEW p, IsProblem(p), NEW budget \in Nat, NEW s, SearchInv(p, budget, s),
         ~s.aborted, s.stack # <<>>
  PROVE  /\ SearchInv(p, budget, Branch(p, budget, s))
         /\ Done(Branch(p, budget, s)) >= Done(s) + 1
<1> DEFINE call == Last(s.stack)
           open == {i \in 1..Len(call.path) : call.path[i] \in p.containable \ call.excluded}
           n == call.path[Min(open)]
           returned == [s EXCEPT !.stack = Front(@)]
           rest == Call(call.included, call.excluded \cup {n}, call.path)
           behind == [s EXCEPT !.stack = Append(Front(@), rest)]
           t == Branch(p, budget, s)
<1>1. t = IF open # {}
          THEN Search(p, budget, IF Mandatory(p, n) THEN returned ELSE behind,
                      call.included \cup {n}, call.excluded)
          ELSE IF s.best = {} /\ call.included = {} /\ Range(call.path) \subseteq call.excluded
          THEN WithWitness(returned, call.path)
          ELSE returned
  BY DEF Branch
<1>2. /\ s \in SearchStates(p) /\ s.explored \in Nat /\ s.best \in SUBSET SUBSET p.graph.node
      /\ s.witness \in Seq(p.graph.node) /\ s.stack \in Seq(Calls(p))
  BY DEF SearchInv, SearchStates, Calls
<1>3. /\ Len(s.stack) \in Nat \ {0} /\ call = s.stack[Len(s.stack)] /\ call \in Calls(p)
      /\ Front(s.stack) \in Seq(Calls(p)) /\ Len(Front(s.stack)) = Len(s.stack) - 1
      /\ \A i \in 1..Len(s.stack) - 1 : Front(s.stack)[i] = s.stack[i]
  BY <1>2, FrontAndLast
<1>4. CallOK(p, call) /\ Len(s.stack) \in 1..Len(s.stack)
  BY <1>3 DEF SearchInv
<1> HIDE DEF call, t
<1>5. /\ call.included \in SUBSET p.containable /\ MandatoryMembers(p) \subseteq call.included
      /\ call.excluded \in SUBSET p.graph.node /\ call.path \in Seq(p.graph.node)
      /\ ResidualPath(p, call.included, call.path)
      /\ \E i \in 1..Len(call.path) : call.path[i] \in p.containable
  BY <1>4 DEF CallOK, Calls
<1>6. /\ returned \in SearchStates(p) /\ returned.explored = s.explored
      /\ returned.aborted = s.aborted /\ returned.best = s.best /\ returned.witness = s.witness
      /\ returned.stack = Front(s.stack)
  BY <1>2, <1>3 DEF SearchStates, Calls
<1>7. \A i \in 1..Len(s.stack) - 1 : CallOK(p, s.stack[i])
  BY <1>3 DEF SearchInv
<1>8. ASSUME open # {} PROVE SearchInv(p, budget, t) /\ Done(t) >= Done(s) + 1
  <2>1. open \in SUBSET Nat
    <3>1. Len(call.path) \in Nat
      BY <1>5
    <3> QED
      BY <3>1
  <2>2. Min(open) \in open
    BY <1>8, <2>1, MinIsElement
  <2>3. n \in p.containable /\ n \notin call.excluded /\ n \in p.graph.node
    BY <2>2 DEF IsProblem
  <2> HIDE DEF n, open, returned
  <2>4. rest \in Calls(p) /\ rest.included = call.included
        /\ rest.excluded = call.excluded \cup {n} /\ rest.path = call.path
    BY <1>5, <2>3 DEF Call, Calls, IsProblem
  <2>5. CallOK(p, rest)
    BY <1>5, <2>4 DEF CallOK
  <2> HIDE DEF rest
  <2>6. /\ Append(Front(s.stack), rest) \in Seq(Calls(p))
        /\ Len(Append(Front(s.stack), rest)) = Len(s.stack)
        /\ \A i \in 1..Len(s.stack) - 1 : Append(Front(s.stack), rest)[i] = s.stack[i]
        /\ Append(Front(s.stack), rest)[Len(s.stack)] = rest
    <3>1. /\ Append(Front(s.stack), rest) \in Seq(Calls(p))
          /\ Len(Append(Front(s.stack), rest)) = Len(Front(s.stack)) + 1
          /\ \A i \in 1..Len(Front(s.stack)) : Append(Front(s.stack), rest)[i] = Front(s.stack)[i]
          /\ Append(Front(s.stack), rest)[Len(Front(s.stack)) + 1] = rest
      BY <1>3, <2>4, AppendProperties
    <3>2. Len(Front(s.stack)) + 1 = Len(s.stack)
      BY <1>3
    <3> QED
      BY <1>3, <3>1, <3>2
  <2>7. /\ behind \in SearchStates(p) /\ behind.explored = s.explored
        /\ behind.aborted = s.aborted /\ behind.best = s.best /\ behind.witness = s.witness
        /\ behind.stack = Append(Front(s.stack), rest)
    BY <1>2, <2>6 DEF SearchStates, Calls
  <2> HIDE DEF behind
  <2> DEFINE u == IF Mandatory(p, n) THEN returned ELSE behind
             included == call.included \cup {n}
  <2>8. /\ u \in SearchStates(p) /\ u.explored = s.explored /\ ~u.aborted /\ u.best = s.best
        /\ u.witness = s.witness
    BY <1>6, <2>7
  <2>9. /\ u.stack \in Seq(Calls(p)) /\ Len(u.stack) <= Len(s.stack) /\ Len(u.stack) \in Nat
        /\ \A i \in 1..Len(s.stack) - 1 : i \in 1..Len(u.stack) /\ u.stack[i] = s.stack[i]
        /\ \A i \in 1..Len(u.stack) : CallOK(p, u.stack[i])
        /\ Mandatory(p, n) \/ (Len(s.stack) \in 1..Len(u.stack) /\ u.stack[Len(s.stack)] = rest)
    <3>1. CASE Mandatory(p, n)
      <4>1. u.stack = Front(s.stack)
        BY <1>6, <3>1
      <4>2. 1..Len(u.stack) = 1..Len(s.stack) - 1
        BY <1>3, <4>1
      <4>3. \A i \in 1..Len(u.stack) : CallOK(p, u.stack[i])
        BY <1>3, <1>7, <4>1, <4>2
      <4>4. \A i \in 1..Len(s.stack) - 1 : i \in 1..Len(u.stack) /\ u.stack[i] = s.stack[i]
        BY <1>3, <4>1, <4>2
      <4>5. Len(u.stack) <= Len(s.stack) /\ Len(u.stack) \in Nat
        BY <1>3, <4>1
      <4> HIDE DEF u
      <4> QED
        BY <1>3, <3>1, <4>1, <4>3, <4>4, <4>5
    <3>2. CASE ~Mandatory(p, n)
      <4>1. u.stack = Append(Front(s.stack), rest)
        BY <2>7, <3>2
      <4>2. \A i \in 1..Len(s.stack) : i \in 1..Len(s.stack) - 1 \/ i = Len(s.stack)
        BY <1>3
      <4>3. \A i \in 1..Len(u.stack) : CallOK(p, u.stack[i])
        BY <1>7, <2>5, <2>6, <4>1, <4>2
      <4>4. \A i \in 1..Len(s.stack) - 1 : i \in 1..Len(u.stack) /\ u.stack[i] = s.stack[i]
        BY <1>3, <2>6, <4>1
      <4>5. Len(u.stack) = Len(s.stack) /\ Len(s.stack) \in 1..Len(s.stack)
        BY <1>3, <2>6, <4>1
      <4>6. Len(u.stack) <= Len(s.stack) /\ Len(u.stack) \in Nat
        BY <1>3, <4>5
      <4> HIDE DEF u
      <4> QED
        BY <2>6, <4>1, <4>3, <4>4, <4>5, <4>6
    <3> QED
      BY <3>1, <3>2
  <2>10. included \in SUBSET p.containable /\ MandatoryMembers(p) \subseteq included
    BY <1>5, <2>3
  <2>11. t = Search(p, budget, u, included, call.excluded)
    BY <1>1, <1>8
  <2> HIDE DEF u, included
  <2>12. SearchedOn(p, budget, u, t, included, call.excluded)
    <3>1. BestOK(p, u.best)
      BY <2>8 DEF SearchInv
    <3> QED
      BY <1>5, <2>8, <2>10, <2>11, <3>1, SearchOutcomes
  <2>13. \/ \E c \in Calls(p) : /\ t.stack = Append(u.stack, c) /\ CallOK(p, c)
                                /\ c.included = included /\ c.excluded = call.excluded
         \/ t.stack = u.stack
    BY <2>12 DEF SearchedOn
  <2>14. /\ t.stack \in Seq(Calls(p)) /\ Len(t.stack) <= Len(u.stack) + 1 /\ Len(t.stack) \in Nat
         /\ \A i \in 1..Len(u.stack) : i \in 1..Len(t.stack) /\ t.stack[i] = u.stack[i]
         /\ \A i \in 1..Len(t.stack) : CallOK(p, t.stack[i])
         /\ t.stack = u.stack \/
              (/\ t.stack # <<>> /\ Last(t.stack).excluded = call.excluded
               /\ \E i \in 1..Len(t.stack) : /\ t.stack[i].included = included
                                             /\ t.stack[i].excluded = call.excluded)
    <3>1. CASE t.stack = u.stack
      BY <2>9, <3>1
    <3>2. ASSUME NEW c \in Calls(p), t.stack = Append(u.stack, c), CallOK(p, c),
                 c.included = included, c.excluded = call.excluded
          PROVE  <2>14!:
      <4>1. /\ t.stack \in Seq(Calls(p)) /\ t.stack # <<>> /\ Len(t.stack) = Len(u.stack) + 1
            /\ \A i \in 1..Len(u.stack) : t.stack[i] = u.stack[i]
            /\ t.stack[Len(u.stack) + 1] = c
        BY <2>9, <3>2, AppendProperties
      <4>2. Last(t.stack) = c
        BY <4>1 DEF Last
      <4>3. \A i \in 1..Len(t.stack) : i \in 1..Len(u.stack) \/ i = Len(u.stack) + 1
        BY <2>9, <4>1
      <4>4. \A i \in 1..Len(t.stack) : CallOK(p, t.stack[i])
        BY <2>9, <3>2, <4>1, <4>3
      <4>5. Len(u.stack) + 1 \in 1..Len(t.stack) /\ \A i \in 1..Len(u.stack) : i \in 1..Len(t.stack)
        BY <2>9, <4>1
      <4>6. Len(t.stack) <= Len(u.stack) + 1 /\ Len(t.stack) \in Nat
        BY <2>9, <4>1
      <4>7. \E i \in 1..Len(t.stack) : t.stack[i].included = included /\ t.stack[i].excluded = call.excluded
        BY <3>2, <4>1, <4>5
      <4> QED
        BY <3>2, <4>1, <4>2, <4>4, <4>5, <4>6, <4>7
    <3> QED
      BY <2>13, <3>1, <3>2
  <2>15. Coverage(p, t)
    <3> SUFFICES ASSUME Unmixed(p), ~t.aborted, NEW C \in FeasibleSets(p)
                 PROVE  Matched(p, t.best, C) \/ \E i \in 1..Len(t.stack) : Covers(t.stack[i], C)
      BY DEF Coverage
    <3>1. Matched(p, s.best, C) \/ \E i \in 1..Len(s.stack) : Covers(s.stack[i], C)
      BY DEF SearchInv, Coverage
    <3>2. CASE Matched(p, s.best, C)
      BY <2>8, <2>12, <3>2 DEF SearchedOn
    <3>3. ASSUME NEW i \in 1..Len(s.stack) - 1, Covers(s.stack[i], C)
          PROVE  \E j \in 1..Len(t.stack) : Covers(t.stack[j], C)
      BY <2>9, <2>14, <3>3
    <3>4. CASE Covers(call, C) /\ n \in C
      <4>1. included \subseteq C /\ C \cap call.excluded = {}
        BY <3>4 DEF Covers, included
      <4>2. CASE t.stack = u.stack
        <5>1. Matched(p, t.best, C) \/ \E c \in Calls(p) : t.stack = Append(u.stack, c)
          BY <2>12, <4>1 DEF SearchedOn
        <5>2. \A c \in Calls(p) : t.stack # Append(u.stack, c)
          <6>1. \A c \in Calls(p) : Len(Append(u.stack, c)) = Len(u.stack) + 1
            BY <2>9, AppendProperties
          <6> QED
            BY <2>9, <4>2, <6>1
        <5> QED
          BY <5>1, <5>2
      <4>3. CASE t.stack # u.stack
        BY <2>14, <4>1, <4>3 DEF Covers
      <4> QED
        BY <4>2, <4>3
    <3>5. CASE Covers(call, C) /\ n \notin C
      <4>1. ~Mandatory(p, n)
        <5>1. MandatoryMembers(p) \subseteq C
          BY FeasibleInGraph
        <5> QED
          BY <3>5, <5>1 DEF MandatoryMembers, Mandatory
      <4>2. Len(s.stack) \in 1..Len(u.stack) /\ u.stack[Len(s.stack)] = rest
        BY <2>9, <4>1
      <4>3. Covers(rest, C)
        BY <2>4, <3>5 DEF Covers
      <4> QED
        BY <2>14, <4>2, <4>3
    <3>6. \A i \in 1..Len(s.stack) : i \in 1..Len(s.stack) - 1 \/ i = Len(s.stack)
      BY <1>3
    <3> QED
      BY <1>3, <3>1, <3>2, <3>3, <3>4, <3>5, <3>6
  <2>16. Descent(p, t)
    <3> SUFFICES ASSUME Unmixed(p), Ample(p)
                 PROVE  /\ t.witness # <<>> => VerifyInfeasibilityWitness(p, t.witness)
                        /\ t.best = {} /\ t.witness = <<>> /\ ~t.aborted =>
                             t.stack # <<>> /\ Last(t.stack).excluded = {}
      BY DEF Descent
    <3>1. s.witness # <<>> => VerifyInfeasibilityWitness(p, s.witness)
      BY DEF SearchInv, Descent
    <3>2. t.witness # <<>> => VerifyInfeasibilityWitness(p, t.witness)
      BY <2>8, <2>12, <3>1 DEF SearchedOn
    <3>3. ASSUME t.best = {}, t.witness = <<>>, ~t.aborted
          PROVE  t.stack # <<>> /\ Last(t.stack).excluded = {}
      <4>1. s.best = {} /\ s.witness = <<>>
        BY <2>8, <2>12, <3>3 DEF SearchedOn
      <4>2. call.excluded = {}
        BY <4>1 DEF SearchInv, Descent, call
      <4>3. \E c \in Calls(p) : t.stack = Append(u.stack, c)
        BY <2>12, <3>3 DEF SearchedOn
      <4>4. t.stack # u.stack
        <5>1. \A c \in Calls(p) : Len(Append(u.stack, c)) = Len(u.stack) + 1
          BY <2>9, AppendProperties
        <5> QED
          BY <2>9, <4>3, <5>1
      <4> QED
        BY <2>14, <4>2, <4>4
    <3> QED
      BY <3>2, <3>3
  <2>17. SearchInv(p, budget, t)
    BY <2>12, <2>14, <2>15, <2>16 DEF SearchInv, SearchedOn
  <2>18. Done(t) >= Done(s) + 1
    <3>1. t.explored = s.explored + 1
      BY <2>8, <2>12 DEF SearchedOn
    <3>2. PICK a \in Nat, b \in Nat, c \in Nat : a = s.explored /\ b = Len(s.stack) /\ c = Len(t.stack)
      BY <1>2, <1>3, <2>14
    <3>3. c <= b + 1
      BY <2>9, <2>14, <3>2
    <3>4. Done(t) = 2 * (a + 1) - c /\ Done(s) = 2 * a - b
      BY <3>1, <3>2 DEF Done
    <3> QED
      BY <3>3, <3>4
  <2> QED
    BY <2>17, <2>18
<1>9. ASSUME open = {} PROVE SearchInv(p, budget, t) /\ Done(t) >= Done(s) + 1
  <2>1. \A i \in 1..Len(call.path) : call.path[i] \in p.containable => call.path[i] \in call.excluded
    BY <1>9
  <2>2. call.excluded # {}
    BY <1>5, <2>1
  <2> DEFINE found == s.best = {} /\ call.included = {} /\ Range(call.path) \subseteq call.excluded
  <2>3. t = IF found THEN WithWitness(returned, call.path) ELSE returned
    BY <1>1, <1>9
  <2> HIDE DEF returned, open, n
  <2>4. /\ t \in SearchStates(p) /\ t.explored = s.explored /\ t.aborted = s.aborted
        /\ t.best = s.best /\ t.stack = Front(s.stack)
        /\ t.witness = IF found /\ s.witness = <<>> THEN call.path ELSE s.witness
    <3>1. CASE found
      BY <1>5, <1>6, <2>3, <3>1 DEF WithWitness, SearchStates
    <3>2. CASE ~found
      BY <1>6, <2>3, <3>2
    <3> QED
      BY <3>1, <3>2
  <2>5. \A i \in 1..Len(t.stack) : CallOK(p, t.stack[i])
    BY <1>3, <1>7, <2>4
  <2>6. Coverage(p, t)
    <3> SUFFICES ASSUME Unmixed(p), ~t.aborted, NEW C \in FeasibleSets(p)
                 PROVE  Matched(p, t.best, C) \/ \E i \in 1..Len(t.stack) : Covers(t.stack[i], C)
      BY DEF Coverage
    <3>1. Matched(p, s.best, C) \/ \E i \in 1..Len(s.stack) : Covers(s.stack[i], C)
      BY <2>4 DEF SearchInv, Coverage
    <3>2. ~Covers(call, C)
      <4> SUFFICES ASSUME Covers(call, C) PROVE FALSE
        OBVIOUS
      <4>1. C \in SUBSET p.containable /\ Separates(p, C, p.graph.edge)
        BY FeasibleInGraph
      <4>2. PICK i \in 1..Len(call.path) : call.path[i] \in C
        BY <1>5, <4>1, SeparatingSetsMeetPaths
      <4> QED
        BY <2>1, <4>1, <4>2 DEF Covers
    <3>3. \A i \in 1..Len(s.stack) : i \in 1..Len(s.stack) - 1 \/ i = Len(s.stack)
      BY <1>3
    <3> QED
      BY <1>3, <2>4, <3>1, <3>2, <3>3
  <2>7. Descent(p, t)
    <3> SUFFICES ASSUME Unmixed(p), Ample(p)
                 PROVE  /\ t.witness # <<>> => VerifyInfeasibilityWitness(p, t.witness)
                        /\ ~(t.best = {} /\ t.witness = <<>> /\ ~t.aborted)
      BY DEF Descent
    <3>1. s.best # {} \/ s.witness # <<>>
      BY <2>2 DEF SearchInv, Descent, call
    <3>2. s.witness # <<>> => VerifyInfeasibilityWitness(p, s.witness)
      BY DEF SearchInv, Descent
    <3> QED
      BY <2>4, <3>1, <3>2
  <2>8. SearchInv(p, budget, t)
    BY <2>4, <2>5, <2>6, <2>7 DEF SearchInv
  <2>9. Done(t) >= Done(s) + 1
    <3>1. PICK a \in Nat, b \in Nat : a = s.explored /\ b = Len(s.stack)
      BY <1>2, <1>3
    <3>2. Len(t.stack) = b - 1
      BY <1>3, <2>4, <3>1
    <3>3. Done(t) = 2 * a - (b - 1) /\ Done(s) = 2 * a - b
      BY <2>4, <3>1, <3>2 DEF Done
    <3> QED
      BY <3>3
  <2> QED
    BY <2>8, <2>9
<1> QED
  BY <1>8, <1>9 DEF t

-----------------------------------------------------------------------------
(* The search from the root *)

LEMMA SearchTyped ==
  ASSUME NEW p, IsProblem(p), NEW budget \in Nat, NEW s \in SearchStates(p),
         NEW included \in SUBSET p.graph.node, NEW excluded \in SUBSET p.graph.node
  PROVE  Search(p, budget, s, included, excluded) \in SearchStates(p)
<1> DEFINE u == [s EXCEPT !.explored = @ + 1]
           path == ShortestResidualPath(p, included)
           c == Call(included, excluded, path)
<1>1. /\ u \in SearchStates(p) /\ u.best \in SUBSET SUBSET p.graph.node
      /\ u.stack \in Seq(Calls(p))
  BY DEF SearchStates, Calls
<1>2. path \in Seq(p.graph.node)
  BY ShortestResidualPathSearches
<1> HIDE DEF u, path
<1>3. c \in Calls(p)
  BY <1>2 DEF Call, Calls
<1> HIDE DEF c
<1>4. Append(u.stack, c) \in Seq(Calls(p))
  BY <1>1, <1>3, AppendProperties
<1>5. /\ [u EXCEPT !.aborted = TRUE] \in SearchStates(p)
      /\ [u EXCEPT !.stack = Append(@, c)] \in SearchStates(p)
      /\ WithWitness(u, path) \in SearchStates(p)
      /\ WithCandidate(p, u, included) \in SearchStates(p)
  <2>1. [u EXCEPT !.aborted = TRUE] \in SearchStates(p)
    BY <1>1 DEF SearchStates
  <2>2. [u EXCEPT !.stack = Append(@, c)] \in SearchStates(p)
    BY <1>1, <1>4 DEF SearchStates, Calls
  <2>3. WithWitness(u, path) \in SearchStates(p)
    BY <1>1, <1>2 DEF SearchStates, WithWitness
  <2>4. WithCandidate(p, u, included) \in SearchStates(p)
    <3>1. [u EXCEPT !.best = {included}] \in SearchStates(p)
      BY <1>1 DEF SearchStates
    <3> QED
      BY <1>1, <3>1 DEF WithCandidate
  <2> QED
    BY <2>1, <2>2, <2>3, <2>4
<1>6. Search(p, budget, s, included, excluded) \in
        {[u EXCEPT !.aborted = TRUE], u, WithCandidate(p, u, included), WithWitness(u, path),
         [u EXCEPT !.stack = Append(@, c)]}
  BY DEF Search, u, path, c
<1> QED
  BY <1>1, <1>5, <1>6

LEMMA BranchTyped ==
  ASSUME NEW p, IsProblem(p), NEW budget \in Nat, NEW s \in SearchStates(p), s.stack # <<>>
  PROVE  Branch(p, budget, s) \in SearchStates(p)
<1> DEFINE call == Last(s.stack)
           open == {i \in 1..Len(call.path) : call.path[i] \in p.containable \ call.excluded}
           n == call.path[Min(open)]
           returned == [s EXCEPT !.stack = Front(@)]
           rest == Call(call.included, call.excluded \cup {n}, call.path)
           behind == [s EXCEPT !.stack = Append(Front(@), rest)]
<1>1. Branch(p, budget, s) =
        IF open # {}
        THEN Search(p, budget, IF Mandatory(p, n) THEN returned ELSE behind,
                    call.included \cup {n}, call.excluded)
        ELSE IF s.best = {} /\ call.included = {} /\ Range(call.path) \subseteq call.excluded
        THEN WithWitness(returned, call.path)
        ELSE returned
  BY DEF Branch
<1>2. s.stack \in Seq(Calls(p))
  BY DEF SearchStates, Calls
<1>3. call \in Calls(p) /\ Front(s.stack) \in Seq(Calls(p))
  BY <1>2, FrontAndLast
<1> HIDE DEF call
<1>4. /\ call.included \in SUBSET p.graph.node /\ call.excluded \in SUBSET p.graph.node
      /\ call.path \in Seq(p.graph.node)
  BY <1>3 DEF Calls
<1>5. returned \in SearchStates(p) /\ returned.witness = s.witness
  BY <1>3 DEF SearchStates, Calls
<1>6. CASE open # {}
  <2>1. Min(open) \in open
    <3>1. Len(call.path) \in Nat
      BY <1>4
    <3>2. open \in SUBSET Nat
      BY <3>1
    <3> QED
      BY <1>6, <3>2, MinIsElement
  <2>2. n \in p.graph.node
    BY <2>1 DEF IsProblem
  <2> HIDE DEF n, open, returned
  <2>3. rest \in Calls(p)
    BY <1>4, <2>2 DEF Call, Calls
  <2> HIDE DEF rest
  <2>4. Append(Front(s.stack), rest) \in Seq(Calls(p))
    BY <1>3, <2>3, AppendProperties
  <2>5. behind \in SearchStates(p)
    BY <2>4 DEF SearchStates, Calls
  <2> HIDE DEF behind
  <2>6. PICK u \in SearchStates(p) : u = IF Mandatory(p, n) THEN returned ELSE behind
    BY <1>5, <2>5
  <2>7. call.included \cup {n} \in SUBSET p.graph.node
    BY <1>4, <2>2
  <2>8. Search(p, budget, u, call.included \cup {n}, call.excluded) \in SearchStates(p)
    BY <1>4, <2>7, SearchTyped
  <2> QED
    BY <1>1, <1>6, <2>6, <2>8
<1>7. CASE open = {}
  <2> HIDE DEF returned
  <2>1. WithWitness(returned, call.path) \in SearchStates(p)
    BY <1>4, <1>5 DEF SearchStates, WithWitness
  <2> QED
    BY <1>1, <1>5, <1>7, <2>1
<1> QED
  BY <1>6, <1>7

\* The first call of search().
LEMMA SearchBegins ==
  ASSUME NEW p, IsProblem(p), NEW budget \in Nat
  PROVE  LET t == Search(p, budget, NoSearch, MandatoryMembers(p), {}) IN
         SearchInv(p, budget, t) /\ Done(t) >= 1
<1> DEFINE t == Search(p, budget, NoSearch, MandatoryMembers(p), {})
<1>1. /\ NoSearch.explored = 0 /\ NoSearch.aborted = FALSE /\ NoSearch.best = {}
      /\ NoSearch.witness = <<>> /\ NoSearch.stack = <<>>
  BY DEF NoSearch
<1>2. /\ <<>> \in Seq(p.graph.node) /\ <<>> \in Seq(Calls(p)) /\ Len(<<>>) = 0
      /\ \A c \in Calls(p) : /\ Append(<<>>, c) \in Seq(Calls(p)) /\ Append(<<>>, c) # <<>>
                             /\ Len(Append(<<>>, c)) = 1 /\ Append(<<>>, c)[1] = c
  <2>1. /\ <<>> \in Seq(p.graph.node) /\ <<>> \in Seq(Calls(p)) /\ Len(<<>>) = 0
    BY EmptySeq
  <2>2. ASSUME NEW c \in Calls(p)
        PROVE  /\ Append(<<>>, c) \in Seq(Calls(p)) /\ Append(<<>>, c) # <<>>
               /\ Len(Append(<<>>, c)) = 1 /\ Append(<<>>, c)[1] = c
    <3>1. /\ Append(<<>>, c) \in Seq(Calls(p)) /\ Append(<<>>, c) # <<>>
          /\ Len(Append(<<>>, c)) = Len(<<>>) + 1 /\ Append(<<>>, c)[Len(<<>>) + 1] = c
      BY <2>1, AppendProperties
    <3>2. Len(<<>>) + 1 = 1
      BY <2>1
    <3> QED
      BY <3>1, <3>2
  <2> QED
    BY <2>1, <2>2
<1>3. NoSearch \in SearchStates(p)
  BY <1>2 DEF NoSearch, SearchStates, Calls
<1>4. MandatoryMembers(p) \in SUBSET p.containable
  BY DEF MandatoryMembers, Mandatory
<1>5. BestOK(p, NoSearch.best)
  BY <1>1 DEF BestOK
<1>6. SearchedOn(p, budget, NoSearch, t, MandatoryMembers(p), {})
  BY <1>1, <1>3, <1>4, <1>5, SearchOutcomes
<1> HIDE DEF t
<1>7. /\ t.stack \in Seq(Calls(p)) /\ Len(t.stack) \in 0..1
      /\ \A i \in 1..Len(t.stack) : CallOK(p, t.stack[i])
      /\ t.stack = <<>> \/
           /\ t.stack # <<>> /\ 1 \in 1..Len(t.stack) /\ t.stack[1] = Last(t.stack)
           /\ t.stack[1].included = MandatoryMembers(p) /\ t.stack[1].excluded = {}
  <2>1. CASE t.stack = <<>>
    BY <1>2, <2>1
  <2>2. ASSUME NEW c \in Calls(p), t.stack = Append(<<>>, c), CallOK(p, c),
               c.included = MandatoryMembers(p), c.excluded = {}
        PROVE  <1>7!:
    <3>1. /\ t.stack \in Seq(Calls(p)) /\ t.stack # <<>> /\ Len(t.stack) = 1 /\ t.stack[1] = c
      BY <1>2, <2>2
    <3>2. 1..Len(t.stack) = {1} /\ Len(t.stack) \in 0..1 /\ Last(t.stack) = c
      BY <3>1 DEF Last
    <3> QED
      BY <2>2, <3>1, <3>2
  <2>3. \/ \E c \in Calls(p) : /\ t.stack = Append(<<>>, c) /\ CallOK(p, c)
                               /\ c.included = MandatoryMembers(p) /\ c.excluded = {}
        \/ t.stack = <<>>
    BY <1>1, <1>6 DEF SearchedOn
  <2> QED
    BY <2>1, <2>2, <2>3
<1>8. Coverage(p, t)
  <2> SUFFICES ASSUME Unmixed(p), ~t.aborted, NEW C \in FeasibleSets(p)
               PROVE  Matched(p, t.best, C) \/ \E i \in 1..Len(t.stack) : Covers(t.stack[i], C)
    BY DEF Coverage
  <2>1. MandatoryMembers(p) \subseteq C /\ C \cap {} = {}
    BY FeasibleInGraph
  <2>2. CASE t.stack = <<>>
    <3>1. \A c \in Calls(p) : t.stack # Append(NoSearch.stack, c)
      BY <1>1, <1>2, <2>2
    <3> QED
      BY <1>6, <2>1, <3>1 DEF SearchedOn
  <2>3. CASE t.stack # <<>>
    BY <1>7, <2>1, <2>3 DEF Covers
  <2> QED
    BY <2>2, <2>3
<1>9. Descent(p, t)
  <2> SUFFICES ASSUME Unmixed(p), Ample(p)
               PROVE  /\ t.witness # <<>> => VerifyInfeasibilityWitness(p, t.witness)
                      /\ t.best = {} /\ t.witness = <<>> /\ ~t.aborted =>
                           t.stack # <<>> /\ Last(t.stack).excluded = {}
    BY DEF Descent
  <2>1. t.witness # <<>> => VerifyInfeasibilityWitness(p, t.witness)
    BY <1>1, <1>6 DEF SearchedOn
  <2>2. t.stack = <<>> /\ ~t.aborted => t.best # {} \/ t.witness # <<>>
    <3>1. \A c \in Calls(p) : t.stack = <<>> => t.stack # Append(NoSearch.stack, c)
      BY <1>1, <1>2
    <3> QED
      BY <1>6, <3>1 DEF SearchedOn
  <2> QED
    BY <1>7, <2>1, <2>2
<1>10. SearchInv(p, budget, t)
  BY <1>6, <1>7, <1>8, <1>9 DEF SearchInv, SearchedOn
<1>11. Done(t) >= 1
  <2>1. t.explored = 1
    BY <1>1, <1>6 DEF SearchedOn
  <2> QED
    BY <1>7, <2>1 DEF Done
<1> QED
  BY <1>10, <1>11 DEF t

LEMMA Pairs ==
  ASSUME NEW A, NEW B, NEW a \in A, NEW b \in B
  PROVE  <<a, b>> \in A \X B /\ <<a, b>>[1] = a /\ <<a, b>>[2] = b
OBVIOUS

\* The search keeps its invariant and ends: no call is left, or the budget is spent.
LEMMA SearchEnds ==
  ASSUME NEW p, IsProblem(p), NEW budget \in Nat
  PROVE  /\ SearchInv(p, budget, Searched(p, budget))
         /\ Searched(p, budget).aborted \/ Searched(p, budget).stack = <<>>
<1> DEFINE first == Search(p, budget, NoSearch, MandatoryMembers(p), {})
           S == SearchStates(p)
           G(f) == [x \in Nat \X S |-> IF x[1] = 0 \/ x[2].aborted \/ x[2].stack = <<>> THEN x[2]
                                       ELSE f[<<x[1] - 1, Branch(p, budget, x[2])>>]]
           turns == CHOOSE f : f = G(f)
           Ended == {s \in S : s.aborted \/ s.stack = <<>>}
           step == [s \in S |-> IF s \in Ended THEN s ELSE Branch(p, budget, s)]
<1>1. Searched(p, budget) = turns[<<2 * budget, first>>]
  BY DEF Searched, MandatoryMembers
<1>2. SearchInv(p, budget, first) /\ Done(first) >= 1
  BY SearchBegins
<1>3. step \in [S -> S]
  <2> SUFFICES ASSUME NEW s \in S PROVE (IF s \in Ended THEN s ELSE Branch(p, budget, s)) \in S
    OBVIOUS
  <2> HIDE DEF S
  <2> QED
    BY BranchTyped DEF S
<1> HIDE DEF first
<1>4. PICK f : Loops(f, S, Ended, step)
  <2> HIDE DEF S, Ended, step
  <2> QED
    BY <1>3, Loop
<1>5. f = G(f)
  <2>1. f \in [Nat \X S -> S]
    BY <1>4 DEF Loops
  <2>2. ASSUME NEW x \in Nat \X S PROVE f[x] = G(f)[x]
    <3>1. f[x] = IF x[1] = 0 \/ x[2] \in Ended THEN x[2] ELSE f[<<x[1] - 1, step[x[2]]>>]
      BY <1>4 DEF Loops
    <3>2. x[2] \in S
      OBVIOUS
    <3>3. x[2] \in Ended <=> x[2].aborted \/ x[2].stack = <<>>
      BY <3>2
    <3>4. x[2] \notin Ended => step[x[2]] = Branch(p, budget, x[2])
      BY <3>2
    <3> HIDE DEF S, Ended, step
    <3> QED
      BY <3>1, <3>3, <3>4
  <2> HIDE DEF S
  <2> QED
    BY <2>1, <2>2
<1>6. turns = G(turns)
  <2> HIDE DEF G
  <2> QED
    BY <1>5
<1>7. \A k \in Nat, s \in S :
        turns[<<k, s>>] = IF k = 0 \/ s.aborted \/ s.stack = <<>> THEN s
                          ELSE turns[<<k - 1, Branch(p, budget, s)>>]
  <2> SUFFICES ASSUME NEW k \in Nat, NEW s \in S
               PROVE  turns[<<k, s>>] = IF k = 0 \/ s.aborted \/ s.stack = <<>> THEN s
                                        ELSE turns[<<k - 1, Branch(p, budget, s)>>]
    OBVIOUS
  <2> HIDE DEF turns, S
  <2>0. <<k, s>> \in Nat \X S /\ <<k, s>>[1] = k /\ <<k, s>>[2] = s
    BY Pairs
  <2>1. PICK x \in Nat \X S : x = <<k, s>> /\ x[1] = k /\ x[2] = s
    BY <2>0
  <2>2. G(turns)[x] = IF x[1] = 0 \/ x[2].aborted \/ x[2].stack = <<>> THEN x[2]
                      ELSE turns[<<x[1] - 1, Branch(p, budget, x[2])>>]
    OBVIOUS
  <2>3. turns[x] = G(turns)[x]
    BY <1>6
  <2> HIDE DEF G
  <2> QED
    BY <2>1, <2>2, <2>3
<1> HIDE DEF turns, G, step, Ended
<1>8. \A s : SearchInv(p, budget, s) => s \in S /\ s.explored \in Nat /\ Len(s.stack) \in Nat /\ Done(s) \in Int
  <2> SUFFICES ASSUME NEW s, SearchInv(p, budget, s)
               PROVE  s \in S /\ s.explored \in Nat /\ Len(s.stack) \in Nat /\ Done(s) \in Int
    OBVIOUS
  <2>1. s \in S /\ s.explored \in Nat /\ s.stack \in Seq(Calls(p))
    BY DEF SearchInv, SearchStates, Calls
  <2>2. Len(s.stack) \in Nat
    BY <2>1
  <2> QED
    BY <2>1, <2>2 DEF Done
<1> DEFINE Ends(s) == SearchInv(p, budget, s) /\ (s.aborted \/ s.stack = <<>>)
           T == {k \in Nat : \A s \in S : SearchInv(p, budget, s) /\ Done(s) + k >= 2 * budget
                                            => Ends(turns[<<k, s>>])}
<1>9. 0 \in T
  <2> SUFFICES ASSUME NEW s \in S, SearchInv(p, budget, s), Done(s) + 0 >= 2 * budget
               PROVE  Ends(turns[<<0, s>>])
    OBVIOUS
  <2>1. turns[<<0, s>>] = s
    BY <1>7
  <2>2. s.aborted \/ s.stack = <<>>
    <3> SUFFICES ASSUME ~s.aborted, s.stack # <<>> PROVE FALSE
      OBVIOUS
    <3>1. s.explored <= budget /\ s.explored \in Nat /\ s.stack \in Seq(Calls(p))
      BY DEF SearchInv, SearchStates, Calls
    <3>2. Len(s.stack) \in Nat \ {0}
      BY <3>1, FrontAndLast
    <3>3. PICK a \in Nat, b \in Nat \ {0} : a = s.explored /\ b = Len(s.stack)
      BY <3>1, <3>2
    <3>4. Done(s) = 2 * a - b /\ a <= budget
      BY <3>1, <3>3 DEF Done
    <3>5. 2 * a - b + 0 >= 2 * budget
      BY <3>4
    <3> QED
      BY <3>4, <3>5
  <2> QED
    BY <2>1, <2>2
<1>10. ASSUME NEW k \in T PROVE k + 1 \in T
  <2> SUFFICES ASSUME NEW s \in S, SearchInv(p, budget, s), Done(s) + (k + 1) >= 2 * budget
               PROVE  Ends(turns[<<k + 1, s>>])
    OBVIOUS
  <2>1. k \in Nat /\ k + 1 \in Nat /\ k + 1 # 0 /\ (k + 1) - 1 = k
    OBVIOUS
  <2>2. CASE s.aborted \/ s.stack = <<>>
    <3>1. turns[<<k + 1, s>>] = s
      BY <1>7, <2>1, <2>2
    <3> QED
      BY <2>2, <3>1
  <2>3. CASE ~s.aborted /\ s.stack # <<>>
    <3>1. PICK t : t = Branch(p, budget, s)
      OBVIOUS
    <3>2. SearchInv(p, budget, t) /\ Done(t) >= Done(s) + 1
      BY <2>3, <3>1, BranchSearches
    <3>3. t \in S /\ Done(t) \in Int /\ Done(s) \in Int
      BY <1>8, <3>2
    <3>4. turns[<<k + 1, s>>] = turns[<<(k + 1) - 1, t>>]
      BY <1>7, <2>1, <2>3, <3>1
    <3>5. Done(t) + k >= 2 * budget
      BY <2>1, <3>2, <3>3
    <3>6. Ends(turns[<<k, t>>])
      BY <3>2, <3>3, <3>5
    <3> HIDE DEF Ends
    <3> QED
      BY <2>1, <3>4, <3>6
  <2> QED
    BY <2>2, <2>3
<1>11. 2 * budget \in T
  <2> HIDE DEF T
  <2>1. T \in SUBSET Nat
    BY DEF T
  <2>2. \A k \in Nat : k \in T
    BY <1>9, <1>10, <2>1, Induction
  <2> QED
    BY <2>2
<1>12. Done(first) + 2 * budget >= 2 * budget /\ first \in S
  BY <1>2, <1>8
<1> QED
  BY <1>1, <1>2, <1>11, <1>12

-----------------------------------------------------------------------------
(* What the solvers answer *)

\* An answer is right: its set is feasible and the first of all when it is said to be, and
\* there is no feasible set when that is said, with a certificate where no limit binds.
Right(p, a) ==
  /\ a \in Answers(p)
  /\ HasSolution(a) => a.members \in FeasibleSets(p) /\ a.witness = <<>>
  /\ a.status = "LimitReachedNoSolution" => a.witness = <<>>
  /\ Unmixed(p) =>
       /\ a.status = "ProvenOptimal" =>
            \A C \in FeasibleSets(p) \ {a.members} : Precedes(p, a.members, C)
       /\ a.status = "ProvenInfeasible" =>
            /\ FeasibleSets(p) = {}
            /\ Ample(p) => VerifyInfeasibilityWitness(p, a.witness)

LEMMA UnionOfOne ==
  ASSUME NEW S, NEW b \in S, \A c \in S : c = b
  PROVE  UNION S = b
OBVIOUS

\* solve_exact: a complete search finds the first feasible set or proves that there is none; one
\* that ended early claims neither.
LEMMA SolveExactIsRight ==
  ASSUME NEW p, IsProblem(p), NEW budget \in Nat
  PROVE  Right(p, SolveExact(p, budget))
<1>1. PICK s : s = Searched(p, budget)
  OBVIOUS
<1>2. SearchInv(p, budget, s) /\ (s.aborted \/ s.stack = <<>>)
  BY <1>1, SearchEnds
<1>3. /\ s \in SearchStates(p) /\ s.witness \in Seq(p.graph.node) /\ BestOK(p, s.best)
      /\ s.aborted \in BOOLEAN /\ <<>> \in Seq(p.graph.node)
  BY <1>2 DEF SearchInv, SearchStates
<1>4. PICK a : a = SolveExact(p, budget)
  OBVIOUS
<1>5. a = IF s.best # {}
          THEN Answer(IF s.aborted THEN "FeasibleNotProvenOptimal" ELSE "ProvenOptimal", UNION s.best, <<>>)
          ELSE IF s.aborted THEN Answer("LimitReachedNoSolution", {}, <<>>)
          ELSE Answer("ProvenInfeasible", {}, s.witness)
  BY <1>1, <1>4 DEF SolveExact
<1>6. CASE s.best # {}
  <2>1. PICK b \in s.best : b \in FeasibleSets(p) /\ \A c \in s.best : c = b
    BY <1>3, <1>6 DEF BestOK
  <2>2. UNION s.best = b
    BY <2>1, UnionOfOne
  <2>3. b \in SUBSET p.graph.node
    BY <2>1, FeasibleInGraph
  <2>4. /\ a.members = b /\ a.witness = <<>> /\ HasSolution(a) /\ a \in Answers(p)
        /\ a.status = IF s.aborted THEN "FeasibleNotProvenOptimal" ELSE "ProvenOptimal"
    BY <1>3, <1>5, <1>6, <2>2, <2>3 DEF Answer, Answers, Statuses, HasSolution
  <2>5. ASSUME Unmixed(p), ~s.aborted, NEW C \in FeasibleSets(p) \ {b} PROVE Precedes(p, b, C)
    <3>1. s.stack = <<>> /\ Len(<<>>) = 0
      BY <1>2, <2>5
    <3>2. Matched(p, s.best, C)
      BY <1>2, <2>5, <3>1 DEF SearchInv, Coverage
    <3> QED
      BY <2>1, <3>2 DEF Matched
  <2>6. a.status # "ProvenInfeasible" /\ a.status # "LimitReachedNoSolution"
    BY <2>4
  <2>7. a.status = "ProvenOptimal" => ~s.aborted
    BY <2>4
  <2>8. Right(p, a)
    BY <2>1, <2>4, <2>5, <2>6, <2>7 DEF Right
  <2> QED
    BY <1>4, <2>8
<1>7. CASE s.best = {} /\ s.aborted
  <2>1. a = Answer("LimitReachedNoSolution", {}, <<>>)
    BY <1>5, <1>7
  <2>2. a.status = "LimitReachedNoSolution" /\ a.witness = <<>> /\ a \in Answers(p)
    BY <1>3, <2>1 DEF Answer, Answers, Statuses
  <2>3. Right(p, a)
    BY <2>2 DEF Right, HasSolution
  <2> QED
    BY <1>4, <2>3
<1>8. CASE s.best = {} /\ ~s.aborted
  <2>1. a = Answer("ProvenInfeasible", {}, s.witness)
    BY <1>5, <1>8
  <2>2. a.status = "ProvenInfeasible" /\ a.witness = s.witness /\ a \in Answers(p)
    BY <1>3, <2>1 DEF Answer, Answers, Statuses
  <2>3. s.stack = <<>> /\ Len(<<>>) = 0
    BY <1>2, <1>8
  <2>4. ASSUME Unmixed(p) PROVE FeasibleSets(p) = {}
    <3>1. \A C \in FeasibleSets(p) : Matched(p, s.best, C)
      BY <1>2, <1>8, <2>3, <2>4 DEF SearchInv, Coverage
    <3> QED
      BY <1>8, <3>1 DEF Matched
  <2>5. ASSUME Unmixed(p), Ample(p) PROVE VerifyInfeasibilityWitness(p, s.witness)
    BY <1>2, <1>8, <2>3, <2>5 DEF SearchInv, Descent
  <2>6. Right(p, a)
    BY <2>2, <2>4, <2>5 DEF Right, HasSolution
  <2> QED
    BY <1>4, <2>6
<1> QED
  BY <1>6, <1>7, <1>8

\* A path on which nothing may be contained is a certificate that verifies, and there is no
\* feasible set.
LEMMA PathIsCertificate ==
  ASSUME NEW p, IsProblem(p), NEW blocked, NEW w, ResidualPath(p, blocked, w),
         Range(w) \cap p.containable = {}
  PROVE  VerifyInfeasibilityWitness(p, w) /\ FeasibleSets(p) = {}
<1>1. /\ w \in Seq(p.graph.node) /\ Len(w) >= 2 /\ w[1] \in p.sources /\ w[Len(w)] \in p.protected
      /\ \A i \in 1..Len(w) - 1 : <<w[i], w[i + 1]>> \in p.graph.edge
  BY DEF ResidualPath, Walk
<1>2. \A i \in 1..Len(w) - 1 : w[i + 1] \in Successors(p.graph, w[i])
  <2> SUFFICES ASSUME NEW i \in 1..Len(w) - 1 PROVE w[i + 1] \in Successors(p.graph, w[i])
    OBVIOUS
  <2>1. <<w[i], w[i + 1]>> \in p.graph.edge /\ w[i + 1] \in p.graph.node
    BY <1>1 DEF IsProblem
  <2> QED
    BY <2>1 DEF Successors
<1>3. VerifyInfeasibilityWitness(p, w)
  BY <1>1, <1>2 DEF VerifyInfeasibilityWitness, Last
<1>4. ASSUME NEW C \in FeasibleSets(p) PROVE FALSE
  <2>1. C \in SUBSET p.containable /\ Separates(p, C, p.graph.edge)
    BY FeasibleInGraph
  <2>2. PICK i \in 1..Len(w) : w[i] \in C
    BY <2>1, SeparatingSetsMeetPaths
  <2>3. w[i] \in Range(w)
    BY <1>1, PathHolds
  <2> QED
    BY <2>1, <2>2, <2>3
<1> QED
  BY <1>3, <1>4

\* What greedy growth has before it answers, and answers.
Growing(p, x) ==
  /\ x \in Answers(p) /\ x.status # "ProvenOptimal"
  /\ x.status = "ProvenInfeasible" =>
       VerifyInfeasibilityWitness(p, x.witness) /\ FeasibleSets(p) = {}

LEMMA GrowGrows ==
  ASSUME NEW p, IsProblem(p), NEW x \in Answers(p), x.status = "LimitReachedNoSolution"
  PROVE  Growing(p, Grow(p, x))
<1> DEFINE path == ShortestResidualPath(p, x.members)
           eligible == Range(path) \cap p.containable
<1>1. Grow(p, x) =
        IF path = <<>> THEN Answer("FeasibleNotProvenOptimal", x.members, <<>>)
        ELSE IF eligible = {} THEN Answer("ProvenInfeasible", {}, path)
        ELSE [x EXCEPT !.members = @ \cup {Cheapest(p, eligible)}]
  BY DEF Grow
<1>2. /\ path \in Seq(p.graph.node)
      /\ path # <<>> => ResidualPath(p, x.members, path)
  BY ShortestResidualPathSearches
<1>3. eligible \in SUBSET p.graph.node
  BY DEF IsProblem
<1>4. x.members \in SUBSET p.graph.node /\ <<>> \in Seq(p.graph.node)
  BY DEF Answers
<1> HIDE DEF path
<1>5. CASE path = <<>>
  <2>1. Grow(p, x) = Answer("FeasibleNotProvenOptimal", x.members, <<>>)
    BY <1>1, <1>5
  <2> QED
    BY <1>4, <2>1 DEF Growing, Answer, Answers, Statuses
<1>6. CASE path # <<>> /\ eligible = {}
  <2>1. Grow(p, x) = Answer("ProvenInfeasible", {}, path)
    BY <1>1, <1>6
  <2>2. VerifyInfeasibilityWitness(p, path) /\ FeasibleSets(p) = {}
    BY <1>2, <1>6, PathIsCertificate
  <2>3. /\ Answer("ProvenInfeasible", {}, path) \in Answers(p)
        /\ Answer("ProvenInfeasible", {}, path).witness = path
        /\ Answer("ProvenInfeasible", {}, path).status = "ProvenInfeasible"
    BY <1>2 DEF Answer, Answers, Statuses
  <2> QED
    BY <2>1, <2>2, <2>3 DEF Growing
<1>7. CASE path # <<>> /\ eligible # {}
  <2> HIDE DEF eligible
  <2>1. Cheapest(p, eligible) \in p.graph.node
    BY <1>3, <1>7, CheapestIsElement
  <2>2. Grow(p, x) = [x EXCEPT !.members = @ \cup {Cheapest(p, eligible)}]
    BY <1>1, <1>7
  <2>3. Grow(p, x) \in Answers(p) /\ Grow(p, x).status = x.status
    BY <1>4, <2>1, <2>2 DEF Answers
  <2> QED
    BY <2>3 DEF Growing
<1> QED
  BY <1>5, <1>6, <1>7

LEMMA GrowthHolds ==
  ASSUME NEW p, IsProblem(p), NEW iterations \in Nat
  PROVE  Growing(p, Grown(p, iterations))
<1> DEFINE first == Answer("LimitReachedNoSolution", MandatoryMembers(p), <<>>)
           S == Answers(p)
           G(f) == [x \in Nat \X S |-> IF x[1] = 0 \/ x[2].status # "LimitReachedNoSolution" THEN x[2]
                                       ELSE f[<<x[1] - 1, Grow(p, x[2])>>]]
           turns == CHOOSE f : f = G(f)
           Ended == {s \in S : s.status # "LimitReachedNoSolution"}
           step == [s \in S |-> IF s \in Ended THEN s ELSE Grow(p, s)]
<1>1. Grown(p, iterations) = turns[<<iterations, first>>]
  BY DEF Grown, MandatoryMembers
<1>2. first \in S /\ Growing(p, first)
  <2>1. MandatoryMembers(p) \in SUBSET p.graph.node /\ <<>> \in Seq(p.graph.node)
    BY DEF MandatoryMembers, Mandatory, IsProblem
  <2> QED
    BY <2>1 DEF Growing, Answer, Answers, Statuses
<1>3. step \in [S -> S]
  <2> SUFFICES ASSUME NEW s \in S PROVE (IF s \in Ended THEN s ELSE Grow(p, s)) \in S
    OBVIOUS
  <2>1. s \notin Ended => Grow(p, s) \in S
    BY GrowGrows DEF Growing
  <2> QED
    BY <2>1
<1> HIDE DEF first
<1>4. PICK f : Loops(f, S, Ended, step)
  <2> HIDE DEF S, Ended, step
  <2> QED
    BY <1>3, Loop
<1>5. f = G(f)
  <2>1. f \in [Nat \X S -> S]
    BY <1>4 DEF Loops
  <2>2. ASSUME NEW x \in Nat \X S PROVE f[x] = G(f)[x]
    <3>1. f[x] = IF x[1] = 0 \/ x[2] \in Ended THEN x[2] ELSE f[<<x[1] - 1, step[x[2]]>>]
      BY <1>4 DEF Loops
    <3>2. x[2] \in S
      OBVIOUS
    <3>3. x[2] \in Ended <=> x[2].status # "LimitReachedNoSolution"
      BY <3>2
    <3>4. x[2] \notin Ended => step[x[2]] = Grow(p, x[2])
      BY <3>2
    <3> HIDE DEF S, Ended, step
    <3> QED
      BY <3>1, <3>3, <3>4
  <2> HIDE DEF S
  <2> QED
    BY <2>1, <2>2
<1>6. turns = G(turns)
  <2> HIDE DEF G
  <2> QED
    BY <1>5
<1>7. ASSUME NEW k \in Nat, NEW s \in S
      PROVE  turns[<<k, s>>] = IF k = 0 \/ s.status # "LimitReachedNoSolution" THEN s
                               ELSE turns[<<k - 1, Grow(p, s)>>]
  <2> HIDE DEF turns, S
  <2>1. <<k, s>> \in Nat \X S /\ <<k, s>>[1] = k /\ <<k, s>>[2] = s
    BY Pairs
  <2>2. PICK x \in Nat \X S : x = <<k, s>> /\ x[1] = k /\ x[2] = s
    BY <2>1
  <2>3. G(turns)[x] = IF x[1] = 0 \/ x[2].status # "LimitReachedNoSolution" THEN x[2]
                      ELSE turns[<<x[1] - 1, Grow(p, x[2])>>]
    OBVIOUS
  <2>4. turns[x] = G(turns)[x]
    BY <1>6
  <2> HIDE DEF G
  <2> QED
    BY <2>2, <2>3, <2>4
<1> HIDE DEF turns, G, step, Ended
<1> DEFINE T == {k \in Nat : \A s \in S : Growing(p, s) => Growing(p, turns[<<k, s>>])}
<1>8. 0 \in T
  BY <1>7
<1>9. ASSUME NEW k \in T PROVE k + 1 \in T
  <2> SUFFICES ASSUME NEW s \in S, Growing(p, s) PROVE Growing(p, turns[<<k + 1, s>>])
    OBVIOUS
  <2>1. k \in Nat /\ k + 1 \in Nat /\ k + 1 # 0 /\ (k + 1) - 1 = k
    OBVIOUS
  <2>2. CASE s.status # "LimitReachedNoSolution"
    BY <1>7, <2>1, <2>2
  <2>3. CASE s.status = "LimitReachedNoSolution"
    <3>1. PICK t : t = Grow(p, s)
      OBVIOUS
    <3>2. Growing(p, t) /\ t \in S
      BY <2>3, <3>1, GrowGrows DEF Growing
    <3>3. turns[<<k + 1, s>>] = turns[<<k, t>>]
      BY <1>7, <2>1, <2>3, <3>1
    <3> QED
      BY <3>2, <3>3
  <2> QED
    BY <2>2, <2>3
<1>10. iterations \in T
  <2> HIDE DEF T
  <2>1. T \in SUBSET Nat
    BY DEF T
  <2> QED
    BY <1>8, <1>9, <2>1, Induction
<1> QED
  BY <1>1, <1>2, <1>10

\* solve_heuristic: the set it returns is feasible, and it proves nothing but by a path on which
\* nothing may be contained.
LEMMA SolveHeuristicIsRight ==
  ASSUME NEW p, IsProblem(p), NEW iterations \in Nat
  PROVE  Right(p, SolveHeuristic(p, iterations))
<1>1. PICK x, R : x = Grown(p, iterations) /\ R = Restored(p, x.members)
  OBVIOUS
<1>2. Growing(p, x)
  BY <1>1, GrowthHolds
<1>3. x \in Answers(p) /\ x.members \in SUBSET p.graph.node /\ <<>> \in Seq(p.graph.node)
  BY <1>2 DEF Growing, Answers
<1>4. R \in SUBSET p.graph.node
  BY <1>1, <1>3, ThinnedIsIrreducible DEF Restored
<1>5. PICK a : a = SolveHeuristic(p, iterations)
  OBVIOUS
<1>6. a = IF x.status = "ProvenInfeasible" THEN x
          ELSE IF HasSolution(x) /\ VerifyCut(p, R) THEN Answer(x.status, R, <<>>)
          ELSE Answer("LimitReachedNoSolution", {}, <<>>)
  BY <1>1, <1>5 DEF SolveHeuristic
<1>7. CASE x.status = "ProvenInfeasible"
  <2>1. a = x
    BY <1>6, <1>7
  <2>2. Right(p, a)
    BY <1>2, <1>7, <2>1 DEF Right, Growing, HasSolution
  <2> QED
    BY <1>5, <2>2
<1>8. CASE x.status # "ProvenInfeasible" /\ HasSolution(x) /\ VerifyCut(p, R)
  <2>1. a = Answer(x.status, R, <<>>) /\ x.status = "FeasibleNotProvenOptimal"
    BY <1>2, <1>6, <1>8 DEF Growing, HasSolution
  <2>2. R \in FeasibleSets(p)
    BY <1>4, <1>8, VerifyCutDecides
  <2>3. /\ a \in Answers(p) /\ a.members = R /\ a.witness = <<>>
        /\ a.status = "FeasibleNotProvenOptimal"
    BY <1>3, <1>4, <2>1 DEF Answer, Answers, Statuses
  <2>4. Right(p, a)
    BY <2>2, <2>3 DEF Right
  <2> QED
    BY <1>5, <2>4
<1>9. CASE x.status # "ProvenInfeasible" /\ ~(HasSolution(x) /\ VerifyCut(p, R))
  <2>1. a = Answer("LimitReachedNoSolution", {}, <<>>)
    BY <1>6, <1>9
  <2>2. a.status = "LimitReachedNoSolution" /\ a.witness = <<>> /\ a \in Answers(p)
    BY <1>3, <2>1 DEF Answer, Answers, Statuses
  <2>3. Right(p, a)
    BY <2>2 DEF Right, HasSolution
  <2> QED
    BY <1>5, <2>3
<1> QED
  BY <1>7, <1>8, <1>9

\* Whatever solver the size of the instance selects, within whatever budgets, its answer is right.
THEOREM SolversAreRight ==
  ASSUME NEW p, IsProblem(p), NEW policy, policy.exact_budget \in Nat, policy.heuristic_budget \in Nat
  PROVE  Right(p, Solve(p, policy))
BY SolveExactIsRight, SolveHeuristicIsRight DEF Solve
=============================================================================
