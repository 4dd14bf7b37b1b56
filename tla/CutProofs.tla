----------------------------- MODULE CutProofs -----------------------------
(***************************************************************************)
(* What the searches over the propagation graph compute, and the order of  *)
(* boundaries: the lemmas about Cut that the proofs of the solvers and of  *)
(* the planner rest on.                                                    *)
(***************************************************************************)
EXTENDS Cut, Recursion, FunctionTheorems, FiniteSetTheorems, SequenceTheorems, TLAPS

-----------------------------------------------------------------------------
(* Searching along the edges *)

LEMMA SuccessorsInGraph ==
  ASSUME NEW g, NEW S
  PROVE  /\ AllSuccessors(g, S) \subseteq g.node
         /\ \A n \in S, m \in g.node : <<n, m>> \in g.edge => m \in AllSuccessors(g, S)
         /\ \A m \in AllSuccessors(g, S) : \E n \in S : <<n, m>> \in g.edge
<1>1. AllSuccessors(g, S) \subseteq g.node
  BY DEF AllSuccessors, Successors
<1>2. ASSUME NEW n \in S, NEW m \in g.node, <<n, m>> \in g.edge
      PROVE  m \in AllSuccessors(g, S)
  <2>1. m \in Successors(g, n)
    BY <1>2 DEF Successors
  <2> QED
    BY <2>1 DEF AllSuccessors
<1>3. ASSUME NEW m \in AllSuccessors(g, S) PROVE \E n \in S : <<n, m>> \in g.edge
  <2>1. PICK n \in S : m \in Successors(g, n)
    BY <1>3 DEF AllSuccessors
  <2> QED
    BY <2>1 DEF Successors
<1> QED
  BY <1>1, <1>2, <1>3

\* f holds the layers of a search.
Layers(f, p, seen, blocked) ==
  /\ f \in [Nat -> SUBSET p.graph.node] /\ f[0] = seen
  /\ \A k \in Nat : f[k + 1] = f[k] \cup (AllSuccessors(p.graph, f[k]) \ blocked)

\* The equation that defines them has a solution.
LEMMA ForwardLayers ==
  ASSUME NEW p, NEW seen \in SUBSET p.graph.node, NEW blocked
  PROVE  \E f : /\ Layers(f, p, seen, blocked)
               /\ Forward(p, seen, blocked) = f[Cardinality(p.graph.node)]
<1> DEFINE further(S) == S \cup (AllSuccessors(p.graph, S) \ blocked)
           G(f) == [k \in Nat |-> IF k = 0 THEN seen ELSE further(f[k - 1])]
           layers == CHOOSE f : f = G(f)
<1>1. Forward(p, seen, blocked) = layers[Cardinality(p.graph.node)]
  BY DEF Forward
<1>2. \A S \in SUBSET p.graph.node : further(S) \in SUBSET p.graph.node
  BY SuccessorsInGraph
<1> HIDE DEF further
<1>3. \E f : f = G(f)
  <2>1. PICK Sets : Sets = SUBSET p.graph.node
    OBVIOUS
  <2>2. PICK step \in [Nat -> [Sets -> Sets]] : step = [k \in Nat |-> [S \in Sets |-> further(S)]]
    BY <1>2, <2>1
  <2>3. PICK f : Iterates(f, Sets, seen, step)
    BY <2>1, Iteration
  <2>4. \A k \in Nat \ {0} : f[k] = further(f[k - 1])
    BY <2>2, <2>3 DEF Iterates
  <2>5. f = G(f)
    BY <2>3, <2>4 DEF Iterates
  <2> QED
    BY <2>5
<1>4. layers = G(layers)
  BY <1>3
<1> HIDE DEF layers
<1>5. layers[0] = seen /\ \A k \in Nat : layers[k + 1] = further(layers[k])
  <2>1. \A k \in Nat : layers[k] = IF k = 0 THEN seen ELSE further(layers[k - 1])
    BY <1>4
  <2>2. \A k \in Nat : k + 1 \in Nat /\ k + 1 # 0 /\ (k + 1) - 1 = k
    OBVIOUS
  <2> QED
    BY <2>1, <2>2
<1>6. layers \in [Nat -> SUBSET p.graph.node]
  <2> DEFINE T == {k \in Nat : layers[k] \in SUBSET p.graph.node}
  <2>1. 0 \in T /\ \A k \in T : k + 1 \in T
    BY <1>2, <1>5
  <2>2. \A k \in Nat : layers[k] \in SUBSET p.graph.node
    <3> HIDE DEF T
    <3>1. \A k \in Nat : k \in T
      BY <2>1, Induction DEF T
    <3> QED
      BY <3>1 DEF T
  <2> QED
    BY <1>4, <2>2
<1>7. Layers(layers, p, seen, blocked)
  BY <1>5, <1>6 DEF further, Layers
<1> QED
  BY <1>1, <1>7

\* Nothing is followed out of S except into blocked.
ClosedUnder(p, S, blocked) ==
  \A n \in S, m \in p.graph.node \ blocked : <<n, m>> \in p.graph.edge => m \in S

\* The layers stop growing before there are as many as resources: a search finds the least set
\* that holds its start and is closed.
LEMMA ForwardIsLeastClosed ==
  ASSUME NEW p, IsFiniteSet(p.graph.node), NEW seen \in SUBSET p.graph.node, NEW blocked
  PROVE  /\ seen \subseteq Forward(p, seen, blocked)
         /\ Forward(p, seen, blocked) \subseteq p.graph.node
         /\ ClosedUnder(p, Forward(p, seen, blocked), blocked)
         /\ \A S : seen \subseteq S /\ ClosedUnder(p, S, blocked)
              => Forward(p, seen, blocked) \subseteq S
<1>0. PICK f : /\ Layers(f, p, seen, blocked)
               /\ Forward(p, seen, blocked) = f[Cardinality(p.graph.node)]
  BY ForwardLayers
<1>1. /\ f \in [Nat -> SUBSET p.graph.node] /\ f[0] = seen
      /\ \A k \in Nat : f[k + 1] = f[k] \cup (AllSuccessors(p.graph, f[k]) \ blocked)
      /\ Forward(p, seen, blocked) = f[Cardinality(p.graph.node)]
  BY <1>0 DEF Layers
<1> DEFINE N == Cardinality(p.graph.node)
<1>2. N \in Nat
  BY FS_CardinalityType
<1>3. \A k \in Nat : IsFiniteSet(f[k]) /\ Cardinality(f[k]) \in Nat
  BY <1>1, FS_Subset, FS_CardinalityType
<1>4. ASSUME NEW k \in Nat, ClosedUnder(p, f[k], blocked) PROVE f[k + 1] = f[k]
  <2>1. AllSuccessors(p.graph, f[k]) \ blocked \subseteq f[k]
    BY <1>4, SuccessorsInGraph DEF ClosedUnder
  <2> QED
    BY <1>1, <2>1
<1>5. ASSUME NEW k \in Nat, ~ClosedUnder(p, f[k], blocked)
      PROVE  Cardinality(f[k + 1]) >= Cardinality(f[k]) + 1
  <2>1. PICK n \in f[k], m \in p.graph.node \ blocked : <<n, m>> \in p.graph.edge /\ m \notin f[k]
    BY <1>5 DEF ClosedUnder
  <2>2. m \in AllSuccessors(p.graph, f[k]) \ blocked
    BY <2>1, SuccessorsInGraph
  <2>3. f[k] \cup {m} \in SUBSET f[k + 1]
    BY <1>1, <2>2
  <2>4. Cardinality(f[k] \cup {m}) = Cardinality(f[k]) + 1
    BY <1>3, <2>1, FS_AddElement
  <2>5. Cardinality(f[k] \cup {m}) <= Cardinality(f[k + 1])
    <3>1. k + 1 \in Nat
      OBVIOUS
    <3> QED
      BY <1>3, <2>3, <3>1, FS_Subset
  <2>6. k + 1 \in Nat /\ Cardinality(f[k]) \in Nat /\ Cardinality(f[k + 1]) \in Nat
    BY <1>3
  <2> QED
    BY <2>4, <2>5, <2>6
<1>6. \A k \in Nat : ClosedUnder(p, f[k], blocked) \/ Cardinality(f[k]) >= k
  <2> DEFINE T == {k \in Nat : ClosedUnder(p, f[k], blocked) \/ Cardinality(f[k]) >= k}
  <2>1. 0 \in T
    BY <1>3
  <2>2. ASSUME NEW k \in T PROVE k + 1 \in T
    <3>1. CASE ClosedUnder(p, f[k], blocked)
      BY <1>4, <3>1
    <3>2. CASE ~ClosedUnder(p, f[k], blocked)
      <4>1. Cardinality(f[k + 1]) >= Cardinality(f[k]) + 1 /\ Cardinality(f[k]) >= k
        BY <1>5, <3>2
      <4>2. k + 1 \in Nat /\ Cardinality(f[k]) \in Nat /\ Cardinality(f[k + 1]) \in Nat
        BY <1>3
      <4> QED
        BY <4>1, <4>2
    <3> QED
      BY <3>1, <3>2
  <2> HIDE DEF T
  <2>3. \A k \in Nat : k \in T
    BY <2>1, <2>2, Induction DEF T
  <2> QED
    BY <2>3 DEF T
<1>7. ClosedUnder(p, f[N], blocked)
  <2> SUFFICES ASSUME Cardinality(f[N]) >= N PROVE ClosedUnder(p, f[N], blocked)
    BY <1>2, <1>6
  <2>1. f[N] \in SUBSET p.graph.node /\ Cardinality(f[N]) <= N /\ Cardinality(f[N]) \in Nat
    BY <1>1, <1>2, <1>3, FS_Subset
  <2>2. Cardinality(f[N]) = N
    BY <1>2, <2>1
  <2>3. f[N] = p.graph.node
    BY <2>1, <2>2, FS_Subset
  <2> QED
    BY <2>3 DEF ClosedUnder
<1>8. seen \subseteq f[N]
  <2> DEFINE T == {k \in Nat : seen \subseteq f[k]}
  <2>1. 0 \in T /\ \A k \in T : k + 1 \in T
    BY <1>1
  <2> HIDE DEF T
  <2>2. \A k \in Nat : k \in T
    BY <2>1, Induction DEF T
  <2> QED
    BY <1>2, <2>2 DEF T
<1>9. ASSUME NEW S, seen \subseteq S, ClosedUnder(p, S, blocked) PROVE f[N] \subseteq S
  <2> DEFINE T == {k \in Nat : f[k] \subseteq S}
  <2>1. 0 \in T
    BY <1>1, <1>9
  <2>2. ASSUME NEW k \in T PROVE k + 1 \in T
    <3>1. AllSuccessors(p.graph, f[k]) \ blocked \subseteq S
      BY <1>9, SuccessorsInGraph DEF ClosedUnder
    <3> QED
      BY <1>1, <3>1
  <2> HIDE DEF T
  <2>3. \A k \in Nat : k \in T
    BY <2>1, <2>2, Induction DEF T
  <2> QED
    BY <1>2, <2>3 DEF T
<1> QED
  BY <1>1, <1>2, <1>7, <1>8, <1>9

\* The instance compute_plan builds is one of these (PlannerProofs, InstanceIsProblem).
IsProblem(p) ==
  /\ p.graph.node \in SUBSET Nat /\ IsFiniteSet(p.graph.node)
  /\ p.graph.edge \subseteq p.graph.node \X p.graph.node
  /\ p.weight \in [p.graph.node -> Nat] /\ \A n \in p.graph.node : p.weight[n] > 0
  /\ p.sources \in SUBSET p.graph.node /\ p.protected \in SUBSET p.graph.node
  /\ p.containable \in SUBSET p.graph.node
  /\ p.require \in BOOLEAN /\ p.allow \in BOOLEAN /\ p.minimize \in BOOLEAN
  /\ p.max_weight \in Nat /\ p.max_members \in Nat
  /\ p.allow \/ p.containable \cap p.protected = {}

\* The search of verify_cut decides separation.
LEMMA SeparationIsDecided ==
  ASSUME NEW p, IsProblem(p), NEW C \in SUBSET p.graph.node
  PROVE  ~SourceReachesProtected(p, C) <=> Separates(p, C, p.graph.edge)
<1> DEFINE reached == Forward(p, p.sources \ C, C)
<1> USE DEF IsProblem
<1>0. p.sources \ C \in SUBSET p.graph.node /\ IsFiniteSet(p.graph.node)
  OBVIOUS
<1>1. /\ p.sources \ C \subseteq reached /\ reached \subseteq p.graph.node
      /\ ClosedUnder(p, reached, C)
      /\ \A S : p.sources \ C \subseteq S /\ ClosedUnder(p, S, C) => reached \subseteq S
  BY <1>0, ForwardIsLeastClosed
<1>2. SourceReachesProtected(p, C) <=> reached \cap p.protected # {}
  BY DEF SourceReachesProtected
<1> HIDE DEF reached
<1>3. ASSUME reached \cap p.protected = {} PROVE Separates(p, C, p.graph.edge)
  <2>1. reached \subseteq p.graph.node \ C
    <3>1. ClosedUnder(p, p.graph.node \ C, C)
      BY DEF ClosedUnder
    <3> QED
      BY <1>1, <3>1
  <2>2. ASSUME NEW e \in p.graph.edge, e[1] \in reached, e[2] \notin C PROVE e[2] \in reached
    <3>1. e = <<e[1], e[2]>> /\ e[2] \in p.graph.node
      BY <2>2
    <3> QED
      BY <1>1, <2>2, <3>1 DEF ClosedUnder
  <2> QED
    BY <1>1, <1>3, <2>1, <2>2 DEF Separates
<1>4. ASSUME Separates(p, C, p.graph.edge) PROVE reached \cap p.protected = {}
  <2>1. PICK S \in SUBSET (p.graph.node \ C) :
          /\ (p.sources \ C) \subseteq S /\ S \cap p.protected = {}
          /\ \A e \in p.graph.edge : e[1] \in S /\ e[2] \notin C => e[2] \in S
    BY <1>4 DEF Separates
  <2>2. ClosedUnder(p, S, C)
    BY <2>1 DEF ClosedUnder
  <2> QED
    BY <1>1, <2>1, <2>2
<1> QED
  BY <1>2, <1>3, <1>4

\* A walk of G+ from a source that avoids blocked.
Walk(p, blocked, w) ==
  /\ w \in Seq(p.graph.node) /\ w # <<>>
  /\ w[1] \in p.sources /\ \A i \in 1..Len(w) : w[i] \notin blocked
  /\ \A i \in 1..Len(w) - 1 : <<w[i], w[i + 1]>> \in p.graph.edge

\* Such a walk to an obligation.
ResidualPath(p, blocked, w) ==
  Walk(p, blocked, w) /\ Len(w) >= 2 /\ w[Len(w)] \in p.protected

\* A set that separates has a resource on every path to an obligation.
LEMMA SeparatingSetsMeetPaths ==
  ASSUME NEW p, IsProblem(p), NEW C, Separates(p, C, p.graph.edge),
         NEW blocked, NEW w, ResidualPath(p, blocked, w)
  PROVE  \E i \in 1..Len(w) : w[i] \in C
<1> SUFFICES ASSUME \A i \in 1..Len(w) : w[i] \notin C PROVE FALSE
  OBVIOUS
<1> USE DEF IsProblem, ResidualPath, Walk
<1>1. PICK S \in SUBSET (p.graph.node \ C) :
        /\ (p.sources \ C) \subseteq S /\ S \cap p.protected = {}
        /\ \A e \in p.graph.edge : e[1] \in S /\ e[2] \notin C => e[2] \in S
  BY DEF Separates
<1>2. Len(w) \in Nat /\ Len(w) >= 2
  OBVIOUS
<1> DEFINE T == {k \in Nat : k + 1 <= Len(w) => w[k + 1] \in S}
<1>3. 0 \in T
  BY <1>1, <1>2
<1>4. ASSUME NEW k \in T PROVE k + 1 \in T
  <2> SUFFICES ASSUME (k + 1) + 1 <= Len(w) PROVE w[(k + 1) + 1] \in S
    OBVIOUS
  <2>1. k + 1 \in 1..Len(w) - 1 /\ w[k + 1] \in S /\ (k + 1) + 1 \in 1..Len(w)
    BY <1>2
  <2>2. <<w[k + 1], w[(k + 1) + 1]>> \in p.graph.edge /\ w[(k + 1) + 1] \notin C
    BY <2>1
  <2> QED
    BY <1>1, <2>1, <2>2
<1> HIDE DEF T
<1>5. \A k \in Nat : k \in T
  BY <1>3, <1>4, Induction DEF T
<1>6. PICK k \in Nat : k + 1 = Len(w)
  <2>1. Len(w) - 1 \in Nat /\ (Len(w) - 1) + 1 = Len(w)
    BY <1>2
  <2> QED
    BY <2>1
<1>7. w[k + 1] \in S
  <2>1. k + 1 <= Len(w)
    BY <1>2, <1>6
  <2> QED
    BY <1>5, <2>1 DEF T
<1> QED
  BY <1>1, <1>6, <1>7

-----------------------------------------------------------------------------
(* Resources in ascending order *)

\* S in ascending order is a sequence that holds each of its elements once.
LEMMA AscendingOrders ==
  ASSUME NEW S \in SUBSET Nat, IsFiniteSet(S)
  PROVE  /\ Ascending(S) \in Seq(S) /\ Len(Ascending(S)) = Cardinality(S)
         /\ Ascending(S) \in [1..Cardinality(S) -> S]
         /\ \A n \in S : \E i \in 1..Cardinality(S) : Ascending(S)[i] = n
         /\ \A i, j \in 1..Cardinality(S) : i < j => Ascending(S)[i] < Ascending(S)[j]
<1> DEFINE N == Cardinality(S)
           below(n) == {m \in S : m < n}
           rank == [n \in S |-> Cardinality(below(n)) + 1]
<1>1. N \in Nat
  BY FS_CardinalityType
<1>2. \A n \in S : IsFiniteSet(below(n)) /\ Cardinality(below(n)) \in Nat
  <2>1. \A n \in S : below(n) \in SUBSET S
    OBVIOUS
  <2> HIDE DEF below
  <2> QED
    BY <2>1, FS_Subset, FS_CardinalityType
<1>3. ASSUME NEW n \in S, NEW m \in S, n < m PROVE rank[n] < rank[m]
  <2>0. n \in Nat /\ m \in Nat /\ n < m /\ \A k \in S : k \in Nat
    BY <1>3
  <2>1. below(n) \cup {n} \in SUBSET below(m) /\ n \notin below(n)
    <3>1. \A k \in S : k < n => k < m
      BY <2>0
    <3>2. ~(n < n)
      BY <2>0
    <3> QED
      BY <2>0, <3>1, <3>2
  <2>2. rank[n] = Cardinality(below(n)) + 1 /\ rank[m] = Cardinality(below(m)) + 1
    OBVIOUS
  <2> HIDE DEF below, rank
  <2>3. Cardinality(below(n) \cup {n}) = Cardinality(below(n)) + 1
    BY <1>2, <2>1, FS_AddElement
  <2>4. Cardinality(below(n) \cup {n}) <= Cardinality(below(m))
    BY <1>2, <2>1, FS_Subset
  <2> QED
    BY <1>2, <2>2, <2>3, <2>4
<1>4. ASSUME NEW n \in S PROVE rank[n] \in 1..N
  <2>1. below(n) \cup {n} \in SUBSET S /\ n \notin below(n)
    OBVIOUS
  <2>2. rank[n] = Cardinality(below(n)) + 1
    OBVIOUS
  <2> HIDE DEF below, rank
  <2>3. Cardinality(below(n) \cup {n}) = Cardinality(below(n)) + 1
    BY <1>2, <2>1, FS_AddElement
  <2>4. Cardinality(below(n) \cup {n}) <= N
    BY <2>1, FS_Subset
  <2> QED
    BY <1>1, <1>2, <2>2, <2>3, <2>4
<1>5. rank \in Injection(S, 1..N)
  <2>1. rank \in [S -> 1..N]
    BY <1>4
  <2>2. ASSUME NEW n \in S, NEW m \in S, rank[n] = rank[m] PROVE n = m
    <3>1. n \in Nat /\ m \in Nat /\ rank[n] \in Nat /\ rank[m] \in Nat
      BY <1>4
    <3>2. ~(n < m) /\ ~(m < n)
      <4> HIDE DEF rank
      <4> QED
        BY <1>3, <2>2, <3>1
    <3> QED
      BY <3>1, <3>2
  <2> HIDE DEF rank
  <2> QED
    BY <2>1, <2>2, Fun_IsInj
<1>6. \A i \in 1..N : \E n \in S : rank[n] = i
  <2> HIDE DEF rank
  <2>1. IsFiniteSet(1..N) /\ Cardinality(1..N) = N
    BY <1>1, FS_Interval
  <2>2. rank \in Surjection(S, 1..N)
    BY <1>5, <2>1, FS_Injection
  <2> QED
    BY <2>2, Fun_SurjectionProperties
<1>7. ASSUME NEW i \in 1..N PROVE Ascending(S)[i] \in S /\ rank[Ascending(S)[i]] = i
  <2>1. Ascending(S)[i] = CHOOSE n \in S : Cardinality(below(n)) = i - 1
    BY DEF Ascending
  <2>2. PICK n \in S : rank[n] = i
    BY <1>6
  <2>3. Cardinality(below(n)) = i - 1
    <3>1. rank[n] = Cardinality(below(n)) + 1 /\ Cardinality(below(n)) \in Nat
      BY <1>2
    <3> HIDE DEF rank, below
    <3> QED
      BY <2>2, <3>1
  <2>4. /\ Ascending(S)[i] \in S
        /\ Cardinality(below(Ascending(S)[i])) = i - 1
    <3> HIDE DEF below
    <3> QED
      BY <2>1, <2>3
  <2> HIDE DEF below
  <2> QED
    BY <1>2, <2>4
<1>8. ASSUME NEW i \in 1..N, NEW j \in 1..N, i < j PROVE Ascending(S)[i] < Ascending(S)[j]
  <2> DEFINE a == Ascending(S)[i]  b == Ascending(S)[j]
  <2>1. a \in S /\ b \in S /\ rank[a] = i /\ rank[b] = j
    BY <1>7
  <2> HIDE DEF a, b, rank
  <2>2. a # b /\ ~(b < a)
    BY <1>1, <1>3, <1>8, <2>1
  <2>3. a < b
    BY <2>1, <2>2
  <2> QED
    BY <2>3 DEF a, b
<1>9. ASSUME NEW n \in S PROVE \E i \in 1..N : Ascending(S)[i] = n
  <2>1. rank[n] \in 1..N
    BY <1>4
  <2>2. Ascending(S)[rank[n]] \in S /\ rank[Ascending(S)[rank[n]]] = rank[n]
    BY <1>7, <2>1
  <2> HIDE DEF rank
  <2>3. Ascending(S)[rank[n]] = n
    BY <1>5, <2>2, Fun_InjectionProperties
  <2> QED
    BY <2>1, <2>3
<1>10. Ascending(S) \in [1..N -> S]
  BY <1>7 DEF Ascending
<1>11. Ascending(S) \in Seq(S) /\ Len(Ascending(S)) = N
  BY <1>1, <1>10
<1> QED
  BY <1>8, <1>9, <1>10, <1>11

-----------------------------------------------------------------------------
(* The breadth-first search *)

SearchTypes(p) ==
  [queue : Seq(Seq(p.graph.node)), seen : SUBSET p.graph.node, found : Seq(p.graph.node)]

\* What is queued was reached by walks; of what was seen only the ends of queued walks still
\* have successors that were not; no obligation was met.
Explored(p, blocked, x) ==
  /\ p.sources \ blocked \subseteq x.seen /\ x.seen \cap blocked = {}
  /\ x.seen \cap p.protected \subseteq p.sources
  /\ \A i \in 1..Len(x.queue) : Walk(p, blocked, x.queue[i])
  /\ \A n \in x.seen :
       \/ \E i \in 1..Len(x.queue) : Last(x.queue[i]) = n
       \/ Successors(p.graph, n) \ blocked \subseteq x.seen

SearchOK(p, blocked, x) ==
  /\ x \in SearchTypes(p)
  /\ x.found # <<>> => ResidualPath(p, blocked, x.found)
  /\ x.found = <<>> => Explored(p, blocked, x)

\* The search is over, or k entries were taken from the queue.
Taken(x, k) == x.found # <<>> \/ x.queue = <<>> \/ Cardinality(x.seen) - Len(x.queue) >= k

LEMMA MinIsElement ==
  ASSUME NEW S \in SUBSET Nat, S # {}
  PROVE  Min(S) \in S /\ \A n \in S : Min(S) <= n
<1>1. \E m \in S : \A n \in S : m <= n
  BY LeastNumber
<1> QED
  BY <1>1 DEF Min

LEMMA WalkGoesOn ==
  ASSUME NEW p, NEW blocked, NEW w, Walk(p, blocked, w),
         NEW n \in Successors(p.graph, Last(w)) \ blocked
  PROVE  /\ Walk(p, blocked, Append(w, n)) /\ Last(Append(w, n)) = n
         /\ Len(Append(w, n)) >= 2 /\ Append(w, n)[Len(Append(w, n))] = n
<1> DEFINE v == Append(w, n)
<1>1. w \in Seq(p.graph.node) /\ w # <<>> /\ n \in p.graph.node /\ <<w[Len(w)], n>> \in p.graph.edge
  BY DEF Walk, Successors, Last
<1>2. Len(w) \in Nat \ {0}
  BY <1>1, EmptySeq
<1>3. /\ v \in Seq(p.graph.node) /\ v # <<>> /\ Len(v) = Len(w) + 1
      /\ v[Len(w) + 1] = n /\ \A i \in 1..Len(w) : v[i] = w[i]
  BY <1>1, AppendProperties
<1> HIDE DEF v
<1>4. v[1] \in p.sources
  BY <1>2, <1>3 DEF Walk
<1>5. \A i \in 1..Len(v) : v[i] \notin blocked
  BY <1>2, <1>3 DEF Walk
<1>6. ASSUME NEW i \in 1..Len(v) - 1 PROVE <<v[i], v[i + 1]>> \in p.graph.edge
  <2>1. CASE i = Len(w)
    BY <1>1, <1>2, <1>3, <2>1
  <2>2. CASE i # Len(w)
    <3>1. i \in 1..Len(w) - 1 /\ i \in 1..Len(w) /\ i + 1 \in 1..Len(w)
      BY <1>2, <1>3, <2>2
    <3> QED
      BY <1>3, <3>1 DEF Walk
  <2> QED
    BY <2>1, <2>2
<1>7. Walk(p, blocked, v)
  BY <1>3, <1>4, <1>5, <1>6 DEF Walk
<1>8. Last(v) = n /\ Len(v) >= 2 /\ v[Len(v)] = n
  BY <1>2, <1>3 DEF Last
<1> QED
  BY <1>7, <1>8 DEF v

LEMMA SeqOfFunction ==
  ASSUME NEW S, NEW n \in Nat, NEW f \in [1..n -> S]
  PROVE  f \in Seq(S) /\ Len(f) = n
<1>1. f \in Seq(S)
  BY SeqDef
<1>2. DOMAIN f = 1..n /\ DOMAIN f = 1..Len(f) /\ Len(f) \in Nat
  BY <1>1, LenProperties
<1>3. Len(f) = n
  BY <1>2
<1> QED
  BY <1>1, <1>3

LEMMA PositionBehind ==
  ASSUME NEW m \in Nat, NEW n \in Nat, NEW i \in 1..(m + n), i > m
  PROVE  \E j \in 1..n : i = m + j
<1>1. i - m \in 1..n /\ i = m + (i - m)
  OBVIOUS
<1> QED
  BY <1>1

LEMMA SingletonSeq ==
  ASSUME NEW S, NEW n \in S
  PROVE  <<n>> \in Seq(S) /\ <<n>> # <<>> /\ Len(<<n>>) = 1 /\ <<n>>[1] = n
OBVIOUS

LEMMA HeadAndTail ==
  ASSUME NEW S, NEW s \in Seq(S), s # <<>>
  PROVE  /\ Head(s) = s[1] /\ 1 \in 1..Len(s) /\ Len(s) \in Nat \ {0}
         /\ Tail(s) \in Seq(S) /\ Len(Tail(s)) = Len(s) - 1
         /\ \A i \in 1..Len(s) - 1 : Tail(s)[i] = s[i + 1]
<1>1. Len(s) \in Nat \ {0}
  BY EmptySeq
<1>2. Tail(s) \in Seq(S) /\ Len(Tail(s)) = Len(s) - 1
  BY HeadTailProperties
<1>3. Head(s) = s[1]
  OBVIOUS
<1>4. \A i \in 1..Len(s) - 1 : Tail(s)[i] = s[i + 1]
  BY <1>1, <1>2
<1> QED
  BY <1>1, <1>2, <1>3, <1>4

\* A turn takes the first entry and finds an obligation behind it, or queues its successors
\* that were not seen, in their order.
Turned(p, x, y, path, fresh, met, further) ==
  /\ path = x.queue[1] /\ path \in Seq(p.graph.node) /\ Len(x.queue) \in Nat \ {0}
  /\ fresh \in SUBSET p.graph.node /\ IsFiniteSet(fresh) /\ Cardinality(fresh) \in Nat
  /\ met # {} => /\ y = Searching(<<>>, x.seen, Append(path, Min(met)))
                 /\ Min(met) \in met /\ \A n \in met : Min(met) <= n
  /\ met = {} =>
       /\ y.seen = x.seen \cup fresh /\ y.found = <<>> /\ y.queue \in Seq(Seq(p.graph.node))
       /\ Len(y.queue) = Len(x.queue) - 1 + Cardinality(fresh)
       /\ \A i \in 1..Len(x.queue) - 1 : y.queue[i] = x.queue[i + 1]
       /\ \A i \in 1..Cardinality(fresh) :
            y.queue[Len(x.queue) - 1 + i] = Append(path, further[i])

LEMMA OneTurn ==
  ASSUME NEW p, IsProblem(p), NEW blocked, NEW x \in SearchTypes(p),
         x.queue # <<>>, x.found = <<>>, NEW path, path = Head(x.queue),
         NEW fresh, fresh = Successors(p.graph, Last(path)) \ (blocked \cup x.seen),
         NEW y, y = Advance(p, blocked, x), NEW met, met = fresh \cap p.protected,
         NEW further, further = Ascending(fresh)
  PROVE  Turned(p, x, y, path, fresh, met, further)
<1> DEFINE added == [i \in 1..Len(further) |-> Append(path, further[i])]
<1>1. x.queue \in Seq(Seq(p.graph.node)) /\ x.seen \in SUBSET p.graph.node
  BY DEF SearchTypes
<1>2. /\ path = x.queue[1] /\ 1 \in 1..Len(x.queue) /\ Len(x.queue) \in Nat \ {0}
      /\ Tail(x.queue) \in Seq(Seq(p.graph.node)) /\ Len(Tail(x.queue)) = Len(x.queue) - 1
      /\ \A i \in 1..Len(x.queue) - 1 : Tail(x.queue)[i] = x.queue[i + 1]
  BY <1>1, HeadAndTail
<1>3. path \in Seq(p.graph.node)
  BY <1>1, <1>2
<1>4. fresh \in SUBSET p.graph.node /\ p.graph.node \in SUBSET Nat /\ IsFiniteSet(p.graph.node)
  BY DEF Successors, IsProblem
<1>5. /\ IsFiniteSet(fresh) /\ fresh \in SUBSET Nat
      /\ Cardinality(fresh) \in Nat
  BY <1>4, FS_Subset, FS_CardinalityType
<1>6. y = IF met # {} THEN Searching(<<>>, x.seen, Append(path, Min(met)))
          ELSE Searching(Tail(x.queue) \o added, x.seen \cup fresh, <<>>)
  BY DEF Advance
<1>7. ASSUME met # {} PROVE Min(met) \in met /\ \A n \in met : Min(met) <= n
  BY <1>5, <1>7, MinIsElement
<1>8. /\ further \in Seq(fresh) /\ Len(further) = Cardinality(fresh)
      /\ further \in [1..Cardinality(fresh) -> fresh]
  BY <1>5, AscendingOrders
<1>9. /\ added \in Seq(Seq(p.graph.node)) /\ Len(added) = Cardinality(fresh)
      /\ \A i \in 1..Cardinality(fresh) : added[i] = Append(path, further[i])
  <2>1. \A i \in 1..Cardinality(fresh) : Append(path, further[i]) \in Seq(p.graph.node)
    <3>1. \A i \in 1..Cardinality(fresh) : further[i] \in p.graph.node
      BY <1>4, <1>8
    <3> QED
      BY <1>3, <3>1, AppendProperties
  <2>2. PICK W, c : W = Seq(p.graph.node) /\ c = Cardinality(fresh)
    OBVIOUS
  <2>3. /\ c \in Nat /\ added \in [1..c -> W]
        /\ \A i \in 1..c : added[i] = Append(path, further[i])
    BY <1>5, <1>8, <2>1, <2>2
  <2> HIDE DEF added
  <2>4. added \in Seq(W) /\ Len(added) = c
    BY <2>3, SeqOfFunction
  <2> QED
    BY <2>2, <2>3, <2>4
<1> HIDE DEF added
<1> DEFINE q == Tail(x.queue) \o added
<1>10. /\ q \in Seq(Seq(p.graph.node)) /\ Len(q) = Len(Tail(x.queue)) + Len(added)
       /\ \A i \in 1..Len(Tail(x.queue)) + Len(added) :
            q[i] = IF i <= Len(Tail(x.queue)) THEN Tail(x.queue)[i]
                   ELSE added[i - Len(Tail(x.queue))]
  BY <1>2, <1>9, ConcatProperties
<1> HIDE DEF q
<1>11. ASSUME NEW i \in 1..Len(x.queue) - 1 PROVE q[i] = x.queue[i + 1]
  <2>1. i \in 1..Len(Tail(x.queue)) + Len(added) /\ i <= Len(Tail(x.queue))
    BY <1>2, <1>5, <1>9
  <2> QED
    BY <1>2, <1>10, <2>1
<1>12. ASSUME NEW i \in 1..Cardinality(fresh)
       PROVE  q[Len(x.queue) - 1 + i] = Append(path, further[i])
  <2>1. /\ Len(x.queue) - 1 + i \in 1..Len(Tail(x.queue)) + Len(added)
        /\ ~(Len(x.queue) - 1 + i <= Len(Tail(x.queue)))
        /\ (Len(x.queue) - 1 + i) - Len(Tail(x.queue)) = i
    BY <1>2, <1>5, <1>9
  <2> QED
    BY <1>9, <1>10, <2>1
<1>13. ASSUME met = {} PROVE y.queue = q /\ y.seen = x.seen \cup fresh /\ y.found = <<>>
  BY <1>6, <1>13 DEF Searching, q
<1>14. Len(q) = Len(x.queue) - 1 + Cardinality(fresh)
  BY <1>2, <1>9, <1>10
<1>15. ASSUME met = {}
       PROVE  /\ y.seen = x.seen \cup fresh /\ y.found = <<>> /\ y.queue \in Seq(Seq(p.graph.node))
              /\ Len(y.queue) = Len(x.queue) - 1 + Cardinality(fresh)
              /\ \A i \in 1..Len(x.queue) - 1 : y.queue[i] = x.queue[i + 1]
              /\ \A i \in 1..Cardinality(fresh) :
                   y.queue[Len(x.queue) - 1 + i] = Append(path, further[i])
  BY <1>10, <1>11, <1>12, <1>13, <1>14, <1>15
<1>16. met # {} => y = Searching(<<>>, x.seen, Append(path, Min(met)))
  BY <1>6
<1> QED
  BY <1>2, <1>3, <1>4, <1>5, <1>7, <1>15, <1>16 DEF Turned

\* One turn keeps that.
LEMMA AdvanceExplores ==
  ASSUME NEW p, IsProblem(p), NEW blocked, NEW x, SearchOK(p, blocked, x)
  PROVE  /\ SearchOK(p, blocked, Advance(p, blocked, x))
         /\ \A k \in Nat : Taken(x, k) => Taken(Advance(p, blocked, x), k + 1)
<1>0. PICK y : y = Advance(p, blocked, x)
  OBVIOUS
<1>1. CASE x.queue = <<>> \/ x.found # <<>>
  <2>1. y = x
    BY <1>0, <1>1 DEF Advance
  <2> QED
    BY <1>0, <1>1, <2>1 DEF Taken
<1>2. CASE x.queue # <<>> /\ x.found = <<>>
  <2>1. /\ x.queue \in Seq(Seq(p.graph.node)) /\ x.seen \in SUBSET p.graph.node
        /\ Explored(p, blocked, x)
    BY <1>2 DEF SearchOK, SearchTypes
  <2>2. PICK path, fresh, met, further :
          /\ path = Head(x.queue) /\ fresh = Successors(p.graph, Last(path)) \ (blocked \cup x.seen)
          /\ met = fresh \cap p.protected /\ further = Ascending(fresh)
    OBVIOUS
  <2>3. x \in SearchTypes(p) /\ Turned(p, x, y, path, fresh, met, further)
    <3>1. x \in SearchTypes(p)
      BY DEF SearchOK
    <3> QED
      BY <1>0, <1>2, <2>2, <3>1, OneTurn
  <2>4. /\ path = x.queue[1] /\ path \in Seq(p.graph.node) /\ Len(x.queue) \in Nat \ {0}
        /\ fresh \in SUBSET p.graph.node /\ IsFiniteSet(fresh) /\ Cardinality(fresh) \in Nat
    BY <2>3 DEF Turned
  <2>5. Walk(p, blocked, path)
    <3>1. 1 \in 1..Len(x.queue)
      BY <2>4
    <3> QED
      BY <2>1, <2>4, <3>1 DEF Explored
  <2>6. \A n \in fresh : /\ Walk(p, blocked, Append(path, n)) /\ Last(Append(path, n)) = n
                         /\ Len(Append(path, n)) >= 2
                         /\ Append(path, n)[Len(Append(path, n))] = n
    BY <2>2, <2>5, WalkGoesOn
  <2>7. /\ p.graph.node \in SUBSET Nat /\ IsFiniteSet(p.graph.node) /\ fresh \in SUBSET Nat
        /\ IsFiniteSet(x.seen)
    BY <2>1, <2>4, FS_Subset DEF IsProblem
  <2>8. CASE met # {}
    <3>1. Min(met) \in fresh /\ Min(met) \in p.protected
      BY <2>2, <2>3, <2>8 DEF Turned
    <3>2. y = Searching(<<>>, x.seen, Append(path, Min(met)))
      BY <2>3, <2>8 DEF Turned
    <3> DEFINE v == Append(path, Min(met))
    <3>3. ResidualPath(p, blocked, v)
      BY <2>6, <3>1 DEF ResidualPath
    <3>4. v \in Seq(p.graph.node) /\ v # <<>>
      BY <3>3 DEF ResidualPath, Walk
    <3> HIDE DEF v
    <3>5. y.found = v /\ y \in SearchTypes(p)
      BY <2>1, <3>2, <3>4 DEF Searching, SearchTypes, v
    <3> QED
      BY <1>0, <3>3, <3>4, <3>5 DEF SearchOK, Taken
  <2>9. CASE met = {}
    <3>1. PICK q : q = y.queue
      OBVIOUS
    <3>2. /\ Cardinality(fresh) \in Nat /\ \A i \in 1..Cardinality(fresh) : further[i] \in fresh
          /\ \A n \in fresh : \E i \in 1..Cardinality(fresh) : further[i] = n
      <4>1. fresh \in SUBSET Nat /\ IsFiniteSet(fresh) /\ Cardinality(fresh) \in Nat
        BY <2>4, <2>7
      <4>2. /\ Ascending(fresh) \in [1..Cardinality(fresh) -> fresh]
            /\ \A n \in fresh : \E i \in 1..Cardinality(fresh) : Ascending(fresh)[i] = n
        BY ONLY <4>1, AscendingOrders
      <4>3. further = Ascending(fresh)
        BY <2>2
      <4> QED
        BY ONLY <4>1, <4>2, <4>3
    <3>3. y.seen = x.seen \cup fresh /\ y.found = <<>> /\ y = Searching(q, x.seen \cup fresh, <<>>)
      BY <1>0, <1>2, <2>2, <2>3, <2>9, <3>1 DEF Turned, Advance, Searching
    <3>4. /\ q \in Seq(Seq(p.graph.node)) /\ Len(q) = Len(x.queue) - 1 + Cardinality(fresh)
          /\ \A i \in 1..Len(x.queue) - 1 : q[i] = x.queue[i + 1]
          /\ \A i \in 1..Cardinality(fresh) : q[Len(x.queue) - 1 + i] = Append(path, further[i])
      BY <2>3, <2>9, <3>1 DEF Turned
    <3>5. /\ Len(q) = Len(x.queue) - 1 + Cardinality(fresh) /\ Len(q) \in Nat
          /\ Len(x.queue) \in Nat \ {0} /\ Cardinality(fresh) \in Nat
      BY <2>4, <3>4
    <3>6. y.queue = q /\ y.seen = x.seen \cup fresh /\ y.found = <<>> /\ y \in SearchTypes(p)
      BY <2>1, <2>4, <3>3, <3>4 DEF Searching, SearchTypes
    <3>7. fresh \cap x.seen = {} /\ fresh \cap blocked = {} /\ fresh \cap p.protected = {}
      BY <2>2, <2>9
    <3>8. ASSUME NEW i \in 1..Len(q) PROVE Walk(p, blocked, q[i])
      <4>1. CASE i <= Len(x.queue) - 1
        <5>1. i \in 1..Len(x.queue) - 1 /\ i + 1 \in 1..Len(x.queue)
          BY <3>5, <4>1
        <5> QED
          BY <2>1, <3>4, <5>1 DEF Explored
      <4>2. CASE i > Len(x.queue) - 1
        <5>1. PICK j \in 1..Cardinality(fresh) : i = Len(x.queue) - 1 + j
          <6>1. Len(x.queue) - 1 \in Nat /\ i \in 1..(Len(x.queue) - 1 + Cardinality(fresh))
            BY <3>5
          <6> QED
            BY <3>5, <4>2, <6>1, PositionBehind
        <5> QED
          BY <2>6, <3>2, <3>4, <5>1
      <4> QED
        BY <3>5, <4>1, <4>2
    <3>9. ASSUME NEW n \in x.seen \cup fresh
          PROVE  \/ \E i \in 1..Len(q) : Last(q[i]) = n
                 \/ Successors(p.graph, n) \ blocked \subseteq x.seen \cup fresh
      <4>1. CASE n \in fresh
        <5>1. PICK i \in 1..Cardinality(fresh) : further[i] = n
          BY <3>2, <4>1
        <5>2. Len(x.queue) - 1 + i \in 1..Len(q)
          BY <3>5
        <5> QED
          BY <2>6, <3>4, <4>1, <5>1, <5>2
      <4>2. CASE n \in x.seen /\ Last(path) = n
        BY <2>2, <4>2
      <4>3. CASE n \in x.seen /\ Last(path) # n
        <5>1. \/ \E i \in 1..Len(x.queue) : Last(x.queue[i]) = n
              \/ Successors(p.graph, n) \ blocked \subseteq x.seen
          BY <2>1, <4>3 DEF Explored
        <5>2. ASSUME NEW i \in 1..Len(x.queue), Last(x.queue[i]) = n
              PROVE  \E j \in 1..Len(q) : Last(q[j]) = n
          <6>1. i # 1
            BY <2>4, <4>3, <5>2
          <6>2. i - 1 \in 1..Len(x.queue) - 1 /\ i - 1 \in 1..Len(q) /\ (i - 1) + 1 = i
            BY <3>5, <6>1
          <6> QED
            BY <3>4, <5>2, <6>2
        <5> QED
          BY <5>1, <5>2
      <4> QED
        BY <4>1, <4>2, <4>3
    <3>10. Explored(p, blocked, y)
      BY <2>1, <3>6, <3>7, <3>8, <3>9 DEF Explored
    <3>11. Cardinality(y.seen) = Cardinality(x.seen) + Cardinality(fresh)
      <4>1. Cardinality(x.seen \cup fresh) =
              Cardinality(x.seen) + Cardinality(fresh) - Cardinality(x.seen \cap fresh)
        BY <2>4, <2>7, FS_Union
      <4>2. Cardinality(x.seen \cap fresh) = 0
        BY <3>7, FS_EmptySet
      <4>3. Cardinality(x.seen) \in Nat
        BY <2>7, FS_CardinalityType
      <4> QED
        BY <3>2, <3>6, <4>1, <4>2, <4>3
    <3>12. ASSUME NEW k \in Nat, Taken(x, k) PROVE Taken(y, k + 1)
      <4>1. Cardinality(x.seen) \in Nat
        BY <2>7, FS_CardinalityType
      <4>2. Cardinality(x.seen) - Len(x.queue) >= k
        BY <1>2, <3>12 DEF Taken
      <4>3. Cardinality(y.seen) - Len(y.queue) >= k + 1
        BY <3>5, <3>6, <3>11, <4>1, <4>2
      <4> QED
        BY <4>3 DEF Taken
    <3> QED
      BY <1>0, <3>6, <3>10, <3>12 DEF SearchOK
  <2> QED
    BY <1>0, <2>8, <2>9
<1> QED
  BY <1>0, <1>1, <1>2

\* f holds the states of a search, turn by turn.
TurnsOf(f, p, blocked) ==
  /\ LET first == Ascending(p.sources \ blocked)
     IN f[0] = Searching([i \in 1..Len(first) |-> <<first[i]>>], p.sources \ blocked, <<>>)
  /\ \A k \in Nat : /\ f[k + 1] = Advance(p, blocked, f[k])
                    /\ SearchOK(p, blocked, f[k]) /\ Taken(f[k], k)

\* There are such states, and the last one has the answer.
LEMMA SearchTurns ==
  ASSUME NEW p, IsProblem(p), NEW blocked
  PROVE  \E f : /\ TurnsOf(f, p, blocked)
               /\ ShortestResidualPath(p, blocked) = f[Cardinality(p.graph.node)].found
<1> DEFINE N == Cardinality(p.graph.node)
           start == p.sources \ blocked
           first == Ascending(start)
           begun == Searching([i \in 1..Len(first) |-> <<first[i]>>], start, <<>>)
           G(f) == [k \in Nat |-> IF k = 0 THEN begun ELSE Advance(p, blocked, f[k - 1])]
           turns == CHOOSE f : f = G(f)
           OK == {x \in SearchTypes(p) : SearchOK(p, blocked, x)}
<1>1. ShortestResidualPath(p, blocked) = turns[N].found
  BY DEF ShortestResidualPath
<1>2. /\ p.graph.node \in SUBSET Nat /\ IsFiniteSet(p.graph.node) /\ start \in SUBSET p.graph.node
      /\ N \in Nat /\ start \in SUBSET Nat
  BY FS_CardinalityType DEF IsProblem
<1>3. IsFiniteSet(start) /\ Cardinality(start) \in Nat
  BY <1>2, FS_Subset, FS_CardinalityType
<1>4. /\ first \in Seq(start) /\ Len(first) = Cardinality(start)
      /\ first \in [1..Cardinality(start) -> start]
      /\ \A n \in start : \E i \in 1..Cardinality(start) : first[i] = n
  BY <1>2, <1>3, AscendingOrders
<1> DEFINE q == [i \in 1..Len(first) |-> <<first[i]>>]
<1>5. /\ q \in Seq(Seq(p.graph.node)) /\ Len(q) = Cardinality(start)
      /\ \A i \in 1..Cardinality(start) : q[i] = <<first[i]>> /\ first[i] \in start
  <2> HIDE DEF first, start
  <2>1. PICK W, c : W = Seq(p.graph.node) /\ c = Cardinality(start)
    OBVIOUS
  <2>2. ASSUME NEW i \in 1..c PROVE <<first[i]>> \in W /\ first[i] \in start
    <3>1. first[i] \in start
      BY <1>4, <2>1
    <3>2. first[i] \in p.graph.node
      BY <1>2, <3>1
    <3> QED
      BY <2>1, <3>1, <3>2, SingletonSeq
  <2>3. c \in Nat /\ q \in [1..c -> W] /\ \A i \in 1..c : q[i] = <<first[i]>>
    BY <1>3, <1>4, <2>1, <2>2
  <2> HIDE DEF q
  <2>4. q \in Seq(W) /\ Len(q) = c
    BY <2>3, SeqOfFunction
  <2> QED
    BY <2>1, <2>2, <2>3, <2>4
<1>6. begun.queue = q /\ begun.seen = start /\ begun.found = <<>> /\ begun \in SearchTypes(p)
  <2>1. begun = Searching(q, start, <<>>)
    OBVIOUS
  <2> HIDE DEF q, start, begun
  <2> QED
    BY <1>2, <1>5, <2>1 DEF Searching, SearchTypes
<1> HIDE DEF q, first, begun
<1>7. Explored(p, blocked, begun)
  <2>1. ASSUME NEW i \in 1..Len(q) PROVE Walk(p, blocked, q[i])
    <3>1. q[i] = <<first[i]>> /\ first[i] \in start
      BY <1>5
    <3>2. PICK n \in start : q[i] = <<n>>
      BY <3>1
    <3>3. n \in p.graph.node /\ n \in p.sources /\ n \notin blocked
      BY <1>2
    <3> HIDE DEF start
    <3>4. <<n>> \in Seq(p.graph.node) /\ <<n>> # <<>> /\ Len(<<n>>) = 1 /\ <<n>>[1] = n
      BY <3>3, SingletonSeq
    <3>5. Walk(p, blocked, <<n>>)
      BY <3>3, <3>4 DEF Walk
    <3> QED
      BY <3>2, <3>5
  <2>2. ASSUME NEW n \in start PROVE \E i \in 1..Len(q) : Last(q[i]) = n
    <3>1. PICK i \in 1..Cardinality(start) : first[i] = n
      BY <1>4
    <3>2. q[i] = <<n>>
      BY <1>5, <3>1
    <3>3. Last(q[i]) = n
      BY <3>2 DEF Last
    <3> QED
      BY <1>5, <3>3
  <2> QED
    BY <1>6, <2>1, <2>2 DEF Explored
<1>8. begun \in OK /\ Taken(begun, 0)
  <2>1. Cardinality(start) - Cardinality(start) >= 0
    BY <1>3
  <2>2. Taken(begun, 0)
    BY <1>5, <1>6, <2>1 DEF Taken
  <2> QED
    BY <1>6, <1>7, <2>2 DEF SearchOK
<1>9. \A x \in OK : Advance(p, blocked, x) \in OK
  BY AdvanceExplores DEF SearchOK
<1> HIDE DEF OK
<1>10. \E f : f = G(f)
  <2>1. PICK step \in [Nat -> [OK -> OK]] : step = [k \in Nat |-> [x \in OK |-> Advance(p, blocked, x)]]
    BY <1>9
  <2>2. PICK f : Iterates(f, OK, begun, step)
    BY <1>8, Iteration
  <2>3. \A k \in Nat \ {0} : f[k] = Advance(p, blocked, f[k - 1])
    BY <2>1, <2>2 DEF Iterates
  <2>4. f = G(f)
    BY <2>2, <2>3 DEF Iterates
  <2> QED
    BY <2>4
<1>11. turns = G(turns)
  BY <1>10
<1> HIDE DEF turns
<1>12. turns[0] = begun /\ \A k \in Nat : turns[k + 1] = Advance(p, blocked, turns[k])
  <2>1. \A k \in Nat : turns[k] = IF k = 0 THEN begun ELSE Advance(p, blocked, turns[k - 1])
    BY <1>11
  <2>2. \A k \in Nat : k + 1 \in Nat /\ k + 1 # 0 /\ (k + 1) - 1 = k
    OBVIOUS
  <2> QED
    BY <2>1, <2>2
<1>13. \A k \in Nat : turns[k] \in OK /\ Taken(turns[k], k)
  <2> DEFINE T == {k \in Nat : turns[k] \in OK /\ Taken(turns[k], k)}
  <2>1. 0 \in T
    BY <1>8, <1>12
  <2>2. ASSUME NEW k \in T PROVE k + 1 \in T
    <3>1. SearchOK(p, blocked, turns[k]) /\ Taken(turns[k], k)
      BY DEF OK
    <3>2. Taken(Advance(p, blocked, turns[k]), k + 1)
      BY <3>1, AdvanceExplores
    <3> QED
      BY <1>9, <1>12, <3>2
  <2> HIDE DEF T
  <2>3. \A k \in Nat : k \in T
    BY <2>1, <2>2, Induction DEF T
  <2> QED
    BY <2>3 DEF T
<1>14. turns[0] = Searching(q, start, <<>>)
  BY <1>12 DEF begun, q
<1>15. TurnsOf(turns, p, blocked)
  BY <1>12, <1>13, <1>14 DEF TurnsOf, OK, q, first
<1> QED
  BY <1>1, <1>15

\* A breadth-first search returns a residual path; it returns none only when what it searched
\* around separates, an obligation that is itself a source apart.
LEMMA ShortestResidualPathSearches ==
  ASSUME NEW p, IsProblem(p), NEW blocked
  PROVE  LET w == ShortestResidualPath(p, blocked) IN
         /\ w \in Seq(p.graph.node)
         /\ w # <<>> => ResidualPath(p, blocked, w)
         /\ w = <<>> /\ p.sources \cap p.protected = {} => Separates(p, blocked, p.graph.edge)
<1> DEFINE N == Cardinality(p.graph.node)
<1>1. PICK f : TurnsOf(f, p, blocked) /\ ShortestResidualPath(p, blocked) = f[N].found
  BY SearchTurns
<1>2. p.graph.node \in SUBSET Nat /\ IsFiniteSet(p.graph.node) /\ N \in Nat
  BY FS_CardinalityType DEF IsProblem
<1> DEFINE x == f[N]
<1>3. SearchOK(p, blocked, x) /\ x \in SearchTypes(p) /\ Taken(x, N)
  BY <1>1, <1>2 DEF TurnsOf, SearchOK
<1> HIDE DEF x
<1>4. ASSUME x.found = <<>>, p.sources \cap p.protected = {} PROVE Separates(p, blocked, p.graph.edge)
  <2>1. x.queue \in Seq(Seq(p.graph.node)) /\ x.seen \in SUBSET p.graph.node /\ Explored(p, blocked, x)
    BY <1>3, <1>4 DEF SearchOK, SearchTypes
  <2>2. Cardinality(x.seen) <= N /\ Cardinality(x.seen) \in Nat /\ Len(x.queue) \in Nat
    BY <1>2, <2>1, FS_Subset, FS_CardinalityType
  <2>3. Len(x.queue) = 0
    <3>1. x.queue = <<>> \/ Cardinality(x.seen) - Len(x.queue) >= N
      BY <1>3, <1>4 DEF Taken
    <3> QED
      BY <1>2, <2>2, <3>1
  <2>4. \A n \in x.seen : Successors(p.graph, n) \ blocked \subseteq x.seen
    BY <2>1, <2>3 DEF Explored
  <2>5. ASSUME NEW e \in p.graph.edge, e[1] \in x.seen, e[2] \notin blocked PROVE e[2] \in x.seen
    <3>1. e = <<e[1], e[2]>> /\ e[2] \in p.graph.node
      BY DEF IsProblem
    <3>2. e[2] \in Successors(p.graph, e[1])
      BY <3>1 DEF Successors
    <3> QED
      BY <2>4, <2>5, <3>2
  <2>6. x.seen \in SUBSET (p.graph.node \ blocked) /\ x.seen \cap p.protected = {}
    BY <1>4, <2>1 DEF Explored
  <2>7. p.sources \ blocked \subseteq x.seen
    BY <2>1 DEF Explored
  <2> QED
    BY <2>5, <2>6, <2>7 DEF Separates
<1>5. ShortestResidualPath(p, blocked) = x.found
  BY <1>1 DEF x
<1> QED
  BY <1>3, <1>4, <1>5 DEF SearchOK, SearchTypes

-----------------------------------------------------------------------------
(* The weight of a set *)

LEMMA OneLess ==
  ASSUME NEW S, IsFiniteSet(S), NEW n \in S, NEW k \in Nat, Cardinality(S) = k + 1
  PROVE  Cardinality(S \ {n}) = k
<1>1. Cardinality(S \ {n}) = Cardinality(S) - 1
  BY FS_RemoveElement
<1> QED
  BY <1>1

\* The resource a sum takes next from s.
NextTerm(s) == CHOOSE n \in s : TRUE

\* g sums f over the subsets of S.
Sums(g, f, S) ==
  /\ g \in [SUBSET S -> Nat]
  /\ \A s \in SUBSET S : g[s] = IF s = {} THEN 0 ELSE f[NextTerm(s)] + g[s \ {NextTerm(s)}]

LEMMA SumsExist ==
  ASSUME NEW S, IsFiniteSet(S), NEW f, \A n \in S : f[n] \in Nat
  PROVE  \E g : Sums(g, f, S)
<1>1. \A s \in SUBSET S : s # {} => NextTerm(s) \in s
  BY DEF NextTerm
<1>2. PICK F, P : F = [P -> Nat] /\ P = SUBSET S
  OBVIOUS
<1> DEFINE zero == [s \in P |-> 0]
           more(h) == [s \in P |-> IF s = {} THEN 0 ELSE f[NextTerm(s)] + h[s \ {NextTerm(s)}]]
<1>3. zero \in F /\ \A h \in F : more(h) \in F
  <2>1. ASSUME NEW h \in F, NEW s \in P, s # {} PROVE f[NextTerm(s)] + h[s \ {NextTerm(s)}] \in Nat
    <3>1. s \ {NextTerm(s)} \in P /\ NextTerm(s) \in S
      BY <1>1, <1>2, <2>1
    <3>2. h[s \ {NextTerm(s)}] \in Nat /\ f[NextTerm(s)] \in Nat
      BY <1>2, <3>1
    <3> QED
      BY <3>2
  <2> QED
    BY <1>2, <2>1
<1> HIDE DEF more, zero
<1>4. PICK step \in [Nat -> [F -> F]] : step = [k \in Nat |-> [h \in F |-> more(h)]]
  BY <1>3
<1>5. PICK h : Iterates(h, F, zero, step)
  BY <1>3, Iteration
<1>6. \A k \in Nat : h[k] \in F /\ h[k + 1] = more(h[k])
  <2>1. \A k \in Nat : k + 1 \in Nat \ {0} /\ (k + 1) - 1 = k
    OBVIOUS
  <2> QED
    BY <1>4, <1>5, <2>1 DEF Iterates
<1> DEFINE g == [s \in P |-> h[Cardinality(s)][s]]
<1>7. \A s \in P : IsFiniteSet(s) /\ Cardinality(s) \in Nat
  BY <1>2, FS_Subset, FS_CardinalityType
<1>8. \A s \in P : g[s] \in Nat
  BY <1>2, <1>6, <1>7
<1>9. ASSUME NEW s \in P PROVE g[s] = IF s = {} THEN 0 ELSE f[NextTerm(s)] + g[s \ {NextTerm(s)}]
  <2>1. CASE s = {}
    BY <1>5, <2>1, FS_EmptySet DEF Iterates, zero
  <2>2. CASE s # {}
    <3> DEFINE t == s \ {NextTerm(s)}
    <3>1. NextTerm(s) \in s /\ t \in P
      BY <1>1, <1>2, <2>2
    <3>2. Cardinality(t) = Cardinality(s) - 1 /\ Cardinality(t) \in Nat /\ Cardinality(s) \in Nat
      BY <1>7, <3>1, FS_RemoveElement
    <3>3. Cardinality(s) = Cardinality(t) + 1
      BY <3>2
    <3>4. h[Cardinality(s)] = more(h[Cardinality(t)])
      BY <1>6, <3>2, <3>3
    <3>5. more(h[Cardinality(t)])[s] = f[NextTerm(s)] + h[Cardinality(t)][t]
      BY <2>2 DEF more
    <3>6. g[s] = h[Cardinality(s)][s] /\ g[t] = h[Cardinality(t)][t]
      BY <3>1
    <3> HIDE DEF g, t
    <3>7. g[s] = f[NextTerm(s)] + g[t]
      BY <3>4, <3>5, <3>6
    <3> QED
      BY <2>2, <3>7 DEF t
  <2> QED
    BY <2>1, <2>2
<1> HIDE DEF g
<1>10. g \in [P -> Nat]
  BY <1>8 DEF g
<1>11. Sums(g, f, S)
  BY <1>2, <1>9, <1>10 DEF Sums
<1> QED
  BY <1>11

\* The library's sum is one of these.
LEMMA SumOnSet ==
  ASSUME NEW S, IsFiniteSet(S), NEW f, \A n \in S : f[n] \in Nat
  PROVE  \E g : Sums(g, f, S) /\ SumFunctionOnSet(f, S) = g[S]
<1> DEFINE G(g) == [s \in SUBSET S |-> IF s = {} THEN 0 ELSE f[NextTerm(s)] + g[s \ {NextTerm(s)}]]
           sums == CHOOSE g : g = G(g)
<1>1. SumFunctionOnSet(f, S) = sums[S]
  BY DEF SumFunctionOnSet, FoldFunctionOnSet, MapThenFoldSet, NextTerm
<1>2. PICK g : Sums(g, f, S)
  BY SumsExist
<1>3. g = G(g)
  BY <1>2 DEF Sums
<1>4. sums = G(sums)
  BY <1>3
<1> HIDE DEF sums
<1>5. \A s \in SUBSET S : sums[s] = IF s = {} THEN 0 ELSE f[NextTerm(s)] + sums[s \ {NextTerm(s)}]
  BY <1>4
<1>6. \A s \in SUBSET S : s # {} => NextTerm(s) \in s
  BY DEF NextTerm
<1>7. \A s \in SUBSET S : IsFiniteSet(s) /\ Cardinality(s) \in Nat
  BY FS_Subset, FS_CardinalityType
<1> DEFINE T == {k \in Nat : \A s \in SUBSET S : Cardinality(s) = k => sums[s] \in Nat}
<1>8. 0 \in T
  BY <1>5, <1>7, FS_EmptySet
<1>9. ASSUME NEW k \in T PROVE k + 1 \in T
  <2> SUFFICES ASSUME NEW s \in SUBSET S, Cardinality(s) = k + 1 PROVE sums[s] \in Nat
    OBVIOUS
  <2>0. k \in Nat
    OBVIOUS
  <2> HIDE DEF T
  <2>1. k \in Nat /\ s # {}
    BY <2>0, FS_EmptySet
  <2>2. NextTerm(s) \in s /\ s \ {NextTerm(s)} \in SUBSET S
    BY <1>6, <2>1
  <2>3. Cardinality(s \ {NextTerm(s)}) = k
    BY <1>7, <2>1, <2>2, FS_RemoveElement
  <2>4. sums[s \ {NextTerm(s)}] \in Nat /\ f[NextTerm(s)] \in Nat
    BY <2>2, <2>3 DEF T
  <2> QED
    BY <1>5, <2>1, <2>4
<1> HIDE DEF T
<1>10. \A k \in Nat : k \in T
  BY <1>8, <1>9, Induction DEF T
<1>11. \A s \in SUBSET S : sums[s] \in Nat
  BY <1>7, <1>10 DEF T
<1>12. sums \in [SUBSET S -> Nat]
  BY <1>4, <1>11
<1> QED
  BY <1>1, <1>5, <1>12 DEF Sums

\* Two sums of the same function agree.
LEMMA SumsAgree ==
  ASSUME NEW f, NEW R, NEW S, IsFiniteSet(R), NEW g, NEW h, Sums(g, f, R), Sums(h, f, S)
  PROVE  \A s \in SUBSET R : s \in SUBSET S => g[s] = h[s]
<1>1. \A s \in SUBSET R : IsFiniteSet(s) /\ Cardinality(s) \in Nat
  BY FS_Subset, FS_CardinalityType
<1> DEFINE T == {k \in Nat : \A s \in SUBSET R :
                   s \in SUBSET S /\ Cardinality(s) = k => g[s] = h[s]}
<1>2. 0 \in T
  BY <1>1, FS_EmptySet DEF Sums
<1>3. ASSUME NEW k \in T PROVE k + 1 \in T
  <2> SUFFICES ASSUME NEW s \in SUBSET R, s \in SUBSET S, Cardinality(s) = k + 1
               PROVE  g[s] = h[s]
    OBVIOUS
  <2>1. k \in Nat
    OBVIOUS
  <2> HIDE DEF T
  <2>2. s # {}
    BY <2>1, FS_EmptySet
  <2>3. NextTerm(s) \in s /\ s \ {NextTerm(s)} \in SUBSET R /\ s \ {NextTerm(s)} \in SUBSET S
    BY <2>2 DEF NextTerm
  <2>4. Cardinality(s \ {NextTerm(s)}) = k
    BY <1>1, <2>1, <2>3, OneLess
  <2>5. g[s \ {NextTerm(s)}] = h[s \ {NextTerm(s)}]
    BY <2>3, <2>4 DEF T
  <2> QED
    BY <2>2, <2>5 DEF Sums
<1> HIDE DEF T
<1>4. \A k \in Nat : k \in T
  BY <1>2, <1>3, Induction DEF T
<1> QED
  BY <1>1, <1>4 DEF T

\* A sum is the same in whatever order its terms are taken.
LEMMA SumTakesAnyTerm ==
  ASSUME NEW S, IsFiniteSet(S), NEW f, \A n \in S : f[n] \in Nat, NEW g, Sums(g, f, S)
  PROVE  \A s \in SUBSET S, n \in S : n \in s => g[s] = f[n] + g[s \ {n}]
<1>1. \A s \in SUBSET S : IsFiniteSet(s) /\ Cardinality(s) \in Nat
  BY FS_Subset, FS_CardinalityType
<1> DEFINE T == {k \in Nat : \A s \in SUBSET S, n \in S :
                   n \in s /\ Cardinality(s) = k => g[s] = f[n] + g[s \ {n}]}
<1>2. 0 \in T
  BY <1>1, FS_EmptySet
<1>3. ASSUME NEW k \in T PROVE k + 1 \in T
  <2> SUFFICES ASSUME NEW s \in SUBSET S, NEW n \in S, n \in s, Cardinality(s) = k + 1
               PROVE  g[s] = f[n] + g[s \ {n}]
    OBVIOUS
  <2>1. k \in Nat
    OBVIOUS
  <2> HIDE DEF T
  <2> DEFINE x == NextTerm(s)
  <2>2. x \in s /\ s # {}
    BY DEF NextTerm
  <2>3. g[s] = f[x] + g[s \ {x}]
    BY <2>2 DEF Sums
  <2> HIDE DEF x
  <2>4. CASE n = x
    BY <2>3, <2>4
  <2>5. CASE n # x
    <3>1. /\ s \ {x} \in SUBSET S /\ s \ {n} \in SUBSET S /\ n \in s \ {x} /\ x \in s \ {n}
          /\ (s \ {x}) \ {n} = (s \ {n}) \ {x} /\ x \in S
      BY <2>2, <2>5
    <3>2. Cardinality(s \ {x}) = k /\ Cardinality(s \ {n}) = k
      BY <1>1, <2>1, <2>2, OneLess
    <3>3. g[s \ {x}] = f[n] + g[(s \ {x}) \ {n}]
      BY <3>1, <3>2 DEF T
    <3>4. g[s \ {n}] = f[x] + g[(s \ {n}) \ {x}]
      BY <3>1, <3>2 DEF T
    <3>5. f[x] \in Nat /\ f[n] \in Nat /\ g[(s \ {x}) \ {n}] \in Nat
      BY <3>1 DEF Sums
    <3> QED
      BY <2>3, <3>1, <3>3, <3>4, <3>5
  <2> QED
    BY <2>4, <2>5
<1> HIDE DEF T
<1>4. \A k \in Nat : k \in T
  BY <1>2, <1>3, Induction DEF T
<1> QED
  BY <1>1, <1>4 DEF T

\* What a set weighs: nothing when it is empty, and with a resource more as much more.
LEMMA WeightSums ==
  ASSUME NEW p, IsProblem(p)
  PROVE  /\ \A s \in SUBSET p.graph.node : Weight(p, s) \in Nat
         /\ Weight(p, {}) = 0
         /\ \A s \in SUBSET p.graph.node, n \in p.graph.node :
              n \in s => Weight(p, s) = p.weight[n] + Weight(p, s \ {n})
<1>1. IsFiniteSet(p.graph.node) /\ \A n \in p.graph.node : p.weight[n] \in Nat
  BY DEF IsProblem
<1>2. PICK g : Sums(g, p.weight, p.graph.node)
  BY <1>1, SumsExist
<1>3. ASSUME NEW s \in SUBSET p.graph.node PROVE Weight(p, s) = g[s]
  <2>1. IsFiniteSet(s) /\ \A n \in s : p.weight[n] \in Nat
    BY <1>1, FS_Subset
  <2>2. PICK h : Sums(h, p.weight, s) /\ SumFunctionOnSet(p.weight, s) = h[s]
    BY <2>1, SumOnSet
  <2>3. h[s] = g[s]
    BY <1>2, <2>1, <2>2, SumsAgree
  <2> QED
    BY <2>2, <2>3 DEF Weight
<1>4. \A s \in SUBSET p.graph.node : g[s] \in Nat
  BY <1>2 DEF Sums
<1>5. g[{}] = 0
  BY <1>2 DEF Sums
<1>6. \A s \in SUBSET p.graph.node, n \in p.graph.node : n \in s => g[s] = p.weight[n] + g[s \ {n}]
  <2>1. PICK D, f : D = p.graph.node /\ f = p.weight
    OBVIOUS
  <2>2. IsFiniteSet(D) /\ (\A n \in D : f[n] \in Nat) /\ Sums(g, f, D)
    BY <1>1, <1>2, <2>1
  <2>3. \A s \in SUBSET D, n \in D : n \in s => g[s] = f[n] + g[s \ {n}]
    BY <2>2, SumTakesAnyTerm
  <2> QED
    BY <2>1, <2>3
<1>7. \A s \in SUBSET p.graph.node, n \in p.graph.node : s \ {n} \in SUBSET p.graph.node
  OBVIOUS
<1>8. {} \in SUBSET p.graph.node
  OBVIOUS
<1> QED
  BY <1>3, <1>4, <1>5, <1>6, <1>7, <1>8

\* Part of a set weighs no more, and less when it is not all of it.
LEMMA WeightGrows ==
  ASSUME NEW p, IsProblem(p), NEW B \in SUBSET p.graph.node, NEW A \in SUBSET B
  PROVE  Weight(p, A) <= Weight(p, B) /\ (A # B => Weight(p, A) < Weight(p, B))
<1>1. /\ IsFiniteSet(p.graph.node)
      /\ \A n \in p.graph.node : p.weight[n] \in Nat /\ p.weight[n] > 0
  BY DEF IsProblem
<1>2. \A s \in SUBSET p.graph.node : IsFiniteSet(s) /\ Cardinality(s) \in Nat
  BY <1>1, FS_Subset, FS_CardinalityType
<1>3. A \in SUBSET p.graph.node
  OBVIOUS
<1>4. /\ \A s \in SUBSET p.graph.node : Weight(p, s) \in Nat
      /\ \A s \in SUBSET p.graph.node, n \in p.graph.node :
           n \in s => Weight(p, s) = p.weight[n] + Weight(p, s \ {n})
  BY WeightSums
<1> DEFINE T == {k \in Nat : \A S \in SUBSET p.graph.node : A \subseteq S /\ Cardinality(S \ A) = k =>
                   Weight(p, A) <= Weight(p, S) /\ (A # S => Weight(p, A) < Weight(p, S))}
<1>5. 0 \in T
  <2> SUFFICES ASSUME NEW S \in SUBSET p.graph.node, A \subseteq S, Cardinality(S \ A) = 0
               PROVE  A = S /\ Weight(p, A) <= Weight(p, S)
    OBVIOUS
  <2>1. IsFiniteSet(S \ A)
    BY <1>2
  <2>2. S \ A = {}
    BY <2>1, FS_EmptySet
  <2>3. A = S
    BY <2>2
  <2> QED
    BY <1>4, <2>3
<1>6. ASSUME NEW k \in T PROVE k + 1 \in T
  <2> SUFFICES ASSUME NEW S \in SUBSET p.graph.node, A \subseteq S, Cardinality(S \ A) = k + 1
               PROVE  Weight(p, A) < Weight(p, S) /\ Weight(p, A) <= Weight(p, S)
    OBVIOUS
  <2>1. k \in Nat
    OBVIOUS
  <2> HIDE DEF T
  <2>2. IsFiniteSet(S \ A)
    BY <1>2
  <2>3. S \ A # {}
    BY <2>1, FS_EmptySet
  <2>4. PICK n : n \in S \ A
    BY <2>3
  <2>5. /\ S \ {n} \in SUBSET p.graph.node /\ A \subseteq S \ {n} /\ n \in p.graph.node /\ n \in S
        /\ (S \ {n}) \ A = (S \ A) \ {n}
    BY <2>4
  <2>6. Cardinality((S \ {n}) \ A) = k
    BY <2>1, <2>2, <2>4, <2>5, OneLess
  <2>7. Weight(p, A) <= Weight(p, S \ {n})
    BY <2>1, <2>5, <2>6 DEF T
  <2>8. Weight(p, S) = p.weight[n] + Weight(p, S \ {n})
    BY <1>4, <2>5
  <2>9. /\ Weight(p, S) \in Nat /\ Weight(p, A) \in Nat /\ Weight(p, S \ {n}) \in Nat
        /\ p.weight[n] \in Nat /\ p.weight[n] > 0
    BY <1>1, <1>3, <1>4, <2>5
  <2> QED
    BY <2>7, <2>8, <2>9
<1> HIDE DEF T
<1>7. \A k \in Nat : k \in T
  BY <1>5, <1>6, Induction DEF T
<1>8. Cardinality(B \ A) \in Nat
  BY <1>2
<1> QED
  BY <1>7, <1>8 DEF T

-----------------------------------------------------------------------------
(* The order of boundaries *)

\* s and t first differ where s is smaller.
FirstLess(n, s, t) == \E i \in 1..n : s[i] < t[i] /\ \A j \in 1..i - 1 : s[j] = t[j]

LEMMA LexicographicallyLessIsFirstLess ==
  ASSUME NEW n \in Nat, NEW s \in [1..n -> Nat], NEW t \in [1..n -> Nat], Len(s) = n, Len(t) = n
  PROVE  LexicographicallyLess(s, t) <=> FirstLess(n, s, t)
<1>1. \A i \in 1..n : i <= n /\ \A j \in 1..i - 1 : j <= n
  OBVIOUS
<1> QED
  BY <1>1 DEF LexicographicallyLess, FirstLess

\* Sequences of one length are totally ordered.
LEMMA FirstLessOrders ==
  ASSUME NEW n \in Nat, NEW s \in [1..n -> Nat], NEW t \in [1..n -> Nat], NEW u \in [1..n -> Nat]
  PROVE  /\ ~FirstLess(n, s, s)
         /\ s # t => FirstLess(n, s, t) \/ FirstLess(n, t, s)
         /\ FirstLess(n, s, t) /\ FirstLess(n, t, u) => FirstLess(n, s, u)
<1>1. ~FirstLess(n, s, s)
  <2>1. \A i \in 1..n : s[i] \in Nat
    OBVIOUS
  <2> QED
    BY <2>1 DEF FirstLess
<1>2. ASSUME s # t PROVE FirstLess(n, s, t) \/ FirstLess(n, t, s)
  <2> DEFINE D == {i \in 1..n : s[i] # t[i]}
  <2>1. D # {}
    <3> SUFFICES ASSUME \A i \in 1..n : s[i] = t[i] PROVE s = t
      BY <1>2
    <3> QED
      OBVIOUS
  <2>2. D \in SUBSET Nat
    OBVIOUS
  <2>3. PICK m \in D : \A i \in D : m <= i
    BY <2>1, <2>2, LeastNumber
  <2>4. m \in 1..n /\ s[m] # t[m] /\ s[m] \in Nat /\ t[m] \in Nat
    OBVIOUS
  <2>5. \A j \in 1..m - 1 : s[j] = t[j]
    <3>1. \A j \in 1..m - 1 : j \in 1..n /\ ~(m <= j)
      BY <2>4
    <3> QED
      BY <2>3, <3>1
  <2>6. s[m] < t[m] \/ t[m] < s[m]
    BY <2>4
  <2> QED
    BY <2>4, <2>5, <2>6 DEF FirstLess
<1>3. ASSUME FirstLess(n, s, t), FirstLess(n, t, u) PROVE FirstLess(n, s, u)
  <2>1. PICK i \in 1..n : s[i] < t[i] /\ \A j \in 1..i - 1 : s[j] = t[j]
    BY <1>3 DEF FirstLess
  <2>2. PICK k \in 1..n : t[k] < u[k] /\ \A j \in 1..k - 1 : t[j] = u[j]
    BY <1>3 DEF FirstLess
  <2>3. \A j \in 1..n : s[j] \in Nat /\ t[j] \in Nat /\ u[j] \in Nat
    OBVIOUS
  <2>4. CASE i < k
    <3>1. i \in 1..k - 1 /\ \A j \in 1..i - 1 : j \in 1..k - 1
      BY <2>4
    <3>2. s[i] < u[i] /\ \A j \in 1..i - 1 : s[j] = u[j]
      BY <2>1, <2>2, <3>1
    <3> QED
      BY <3>2 DEF FirstLess
  <2>5. CASE i = k
    <3>1. s[i] < u[i] /\ \A j \in 1..i - 1 : s[j] = u[j]
      BY <2>1, <2>2, <2>3, <2>5
    <3> QED
      BY <3>1 DEF FirstLess
  <2>6. CASE i > k
    <3>1. k \in 1..i - 1 /\ \A j \in 1..k - 1 : j \in 1..i - 1
      BY <2>6
    <3>2. s[k] < u[k] /\ \A j \in 1..k - 1 : s[j] = u[j]
      BY <2>1, <2>2, <3>1
    <3> QED
      BY <3>2 DEF FirstLess
  <2> QED
    BY <2>4, <2>5, <2>6
<1> QED
  BY <1>1, <1>2, <1>3

\* The objective of A precedes that of B.
Precedes(p, A, B) == ObjectiveLess(Objective(p, A), Objective(p, B), p.minimize)

\* What the fields of the objective a of A are.
Measures(p, A, a) ==
  /\ a.protected = Cardinality(A \cap p.protected) /\ a.protected \in Nat
  /\ a.weight = Weight(p, A) /\ a.weight \in Nat
  /\ a.cardinality = Cardinality(A) /\ a.cardinality \in Nat
  /\ a.signature \in [1..a.cardinality -> Nat] /\ Len(a.signature) = a.cardinality
  /\ Range(a.signature) = A

LEMMA ObjectiveFacts ==
  ASSUME NEW p, IsProblem(p), NEW A \in SUBSET p.graph.node
  PROVE  Measures(p, A, Objective(p, A))
<1>1. IsFiniteSet(A) /\ A \in SUBSET Nat
  BY FS_Subset DEF IsProblem
<1>2. IsFiniteSet(A \cap p.protected)
  BY <1>1, FS_Intersection
<1>3. Cardinality(A) \in Nat /\ Cardinality(A \cap p.protected) \in Nat
  BY <1>1, <1>2, FS_CardinalityType
<1>4. /\ Ascending(A) \in [1..Cardinality(A) -> A] /\ Len(Ascending(A)) = Cardinality(A)
      /\ \A n \in A : \E i \in 1..Cardinality(A) : Ascending(A)[i] = n
  BY <1>1, AscendingOrders
<1>5. Ascending(A) \in [1..Cardinality(A) -> Nat] /\ Range(Ascending(A)) = A
  BY <1>1, <1>4 DEF Range
<1>6. Weight(p, A) \in Nat
  BY WeightSums
<1> QED
  BY <1>3, <1>4, <1>5, <1>6 DEF Objective, Measures

\* What precedes what is a strict total order of the sets of resources, ...
LEMMA PrecedesOrders ==
  ASSUME NEW p, IsProblem(p), NEW A \in SUBSET p.graph.node, NEW B \in SUBSET p.graph.node,
         NEW C \in SUBSET p.graph.node
  PROVE  /\ ~Precedes(p, A, A)
         /\ A # B => Precedes(p, A, B) \/ Precedes(p, B, A)
         /\ Precedes(p, A, B) /\ Precedes(p, B, C) => Precedes(p, A, C)
<1> DEFINE a == Objective(p, A)  b == Objective(p, B)  c == Objective(p, C)
<1>0. Measures(p, A, a) /\ Measures(p, B, b) /\ Measures(p, C, c)
  BY ObjectiveFacts
<1> HIDE DEF a, b, c
<1>1. /\ a.protected \in Nat /\ a.weight \in Nat /\ a.cardinality \in Nat
      /\ b.protected \in Nat /\ b.weight \in Nat /\ b.cardinality \in Nat
      /\ c.protected \in Nat /\ c.weight \in Nat /\ c.cardinality \in Nat
  BY <1>0 DEF Measures
<1>2. /\ a.signature \in [1..a.cardinality -> Nat] /\ Len(a.signature) = a.cardinality
      /\ b.signature \in [1..b.cardinality -> Nat] /\ Len(b.signature) = b.cardinality
      /\ c.signature \in [1..c.cardinality -> Nat] /\ Len(c.signature) = c.cardinality
  BY <1>0 DEF Measures
<1>3. Range(a.signature) = A /\ Range(b.signature) = B
  BY <1>0 DEF Measures
<1>4. p.minimize \in BOOLEAN
  BY DEF IsProblem
<1>5. ~LexicographicallyLess(a.signature, a.signature)
  BY <1>1, <1>2, FirstLessOrders, LexicographicallyLessIsFirstLess
<1>6. ASSUME a.cardinality = b.cardinality, A # B
      PROVE  LexicographicallyLess(a.signature, b.signature)
               \/ LexicographicallyLess(b.signature, a.signature)
  <2>1. a.signature # b.signature
    BY <1>3, <1>6
  <2> QED
    BY <1>1, <1>2, <1>6, <2>1, FirstLessOrders, LexicographicallyLessIsFirstLess
<1>7. ASSUME a.cardinality = b.cardinality, b.cardinality = c.cardinality,
             LexicographicallyLess(a.signature, b.signature),
             LexicographicallyLess(b.signature, c.signature)
      PROVE  LexicographicallyLess(a.signature, c.signature)
  <2>1. /\ FirstLess(a.cardinality, a.signature, b.signature)
        /\ FirstLess(a.cardinality, b.signature, c.signature)
    BY <1>1, <1>2, <1>7, LexicographicallyLessIsFirstLess
  <2>2. FirstLess(a.cardinality, a.signature, c.signature)
    BY <1>1, <1>2, <1>7, <2>1, FirstLessOrders
  <2> QED
    BY <1>1, <1>2, <1>7, <2>2, LexicographicallyLessIsFirstLess
<1>8. ~Precedes(p, A, A)
  <2>1. ~ObjectiveLess(a, a, p.minimize)
    BY <1>5 DEF ObjectiveLess
  <2> QED
    BY <2>1 DEF Precedes, a
<1>9. ASSUME A # B PROVE Precedes(p, A, B) \/ Precedes(p, B, A)
  <2>1. ObjectiveLess(a, b, p.minimize) \/ ObjectiveLess(b, a, p.minimize)
    BY <1>1, <1>6, <1>9 DEF ObjectiveLess
  <2> QED
    BY <2>1 DEF Precedes, a, b
<1>10. ASSUME Precedes(p, A, B), Precedes(p, B, C) PROVE Precedes(p, A, C)
  <2>1. ObjectiveLess(a, b, p.minimize) /\ ObjectiveLess(b, c, p.minimize)
    BY <1>10 DEF Precedes, a, b, c
  <2>2. ObjectiveLess(a, c, p.minimize)
    BY <1>1, <1>7, <2>1 DEF ObjectiveLess
  <2> QED
    BY <2>2 DEF Precedes, a, c
<1> QED
  BY <1>8, <1>9, <1>10

\* ... in which a part of a set comes first.
LEMMA PartsPrecede ==
  ASSUME NEW p, IsProblem(p), NEW B \in SUBSET p.graph.node, NEW A \in SUBSET B, A # B
  PROVE  Precedes(p, A, B)
<1> DEFINE a == Objective(p, A)  b == Objective(p, B)
<1>1. A \in SUBSET p.graph.node /\ IsFiniteSet(B)
  BY FS_Subset DEF IsProblem
<1>2. /\ a.protected = Cardinality(A \cap p.protected) /\ a.protected \in Nat
      /\ b.protected = Cardinality(B \cap p.protected) /\ b.protected \in Nat
      /\ a.weight = Weight(p, A) /\ b.weight = Weight(p, B) /\ a.weight \in Nat /\ b.weight \in Nat
  <2>1. Measures(p, A, a) /\ Measures(p, B, b)
    BY <1>1, ObjectiveFacts
  <2> HIDE DEF a, b
  <2> QED
    BY <2>1 DEF Measures
<1>3. a.protected <= b.protected
  <2>1. IsFiniteSet(B \cap p.protected) /\ A \cap p.protected \in SUBSET (B \cap p.protected)
    BY <1>1, FS_Intersection
  <2> QED
    BY <1>2, <2>1, FS_Subset
<1>4. a.weight < b.weight
  BY <1>2, WeightGrows
<1> HIDE DEF a, b
<1>5. ObjectiveLess(a, b, p.minimize)
  BY <1>2, <1>3, <1>4 DEF ObjectiveLess
<1> QED
  BY <1>5 DEF Precedes, a, b

-----------------------------------------------------------------------------
(* Feasible sets *)

LEMMA FeasibleDef ==
  ASSUME NEW p, NEW C
  PROVE  C \in FeasibleSets(p) <=>
           /\ C \in SUBSET p.containable
           /\ p.require => (p.sources \cap p.containable) \subseteq C
           /\ Cardinality(C) <= p.max_members /\ Weight(p, C) <= p.max_weight
           /\ Separates(p, C, p.graph.edge)
BY DEF FeasibleSets

\* verify_cut decides the hard constraints.
LEMMA VerifyCutDecides ==
  ASSUME NEW p, IsProblem(p), NEW C \in SUBSET p.graph.node
  PROVE  VerifyCut(p, C) <=> C \in FeasibleSets(p)
<1>1. ~SourceReachesProtected(p, C) <=> Separates(p, C, p.graph.edge)
  BY SeparationIsDecided
<1>2. C \subseteq p.containable => p.allow \/ C \cap p.protected = {}
  BY DEF IsProblem
<1> QED
  BY <1>1, <1>2, FeasibleDef DEF VerifyCut

\* More resources separate as well.
LEMMA SeparationGrows ==
  ASSUME NEW p, IsProblem(p), NEW A, NEW B, A \subseteq B, Separates(p, A, p.graph.edge)
  PROVE  Separates(p, B, p.graph.edge)
<1>1. PICK S \in SUBSET (p.graph.node \ A) :
        /\ (p.sources \ A) \subseteq S /\ S \cap p.protected = {}
        /\ \A e \in p.graph.edge : e[1] \in S /\ e[2] \notin A => e[2] \in S
  BY DEF Separates
<1>2. S \ B \in SUBSET (p.graph.node \ B)
  OBVIOUS
<1>3. (p.sources \ B) \subseteq S \ B /\ (S \ B) \cap p.protected = {}
  BY <1>1
<1>4. \A e \in p.graph.edge : e[1] \in S \ B /\ e[2] \notin B => e[2] \in S \ B
  BY <1>1
<1> QED
  BY <1>2, <1>3, <1>4 DEF Separates

\* What lies between two feasible sets is feasible.
LEMMA FeasibleBetween ==
  ASSUME NEW p, IsProblem(p), NEW A \in FeasibleSets(p), NEW C \in FeasibleSets(p),
         NEW B, A \subseteq B, B \subseteq C
  PROVE  B \in FeasibleSets(p)
<1>1. /\ C \in SUBSET p.containable /\ B \in SUBSET p.containable /\ p.containable \in SUBSET p.graph.node
      /\ p.require => (p.sources \cap p.containable) \subseteq A
      /\ Cardinality(C) <= p.max_members /\ Weight(p, C) <= p.max_weight
      /\ Separates(p, A, p.graph.edge)
  BY FeasibleDef DEF IsProblem
<1>2. Separates(p, B, p.graph.edge)
  BY <1>1, SeparationGrows
<1>3. B \in SUBSET C /\ C \in SUBSET p.graph.node /\ B \in SUBSET p.graph.node /\ IsFiniteSet(p.graph.node)
  BY <1>1 DEF IsProblem
<1>4. IsFiniteSet(C) /\ IsFiniteSet(B)
  BY <1>3, FS_Subset
<1>5. /\ Cardinality(B) <= Cardinality(C) /\ Cardinality(B) \in Nat /\ Cardinality(C) \in Nat
      /\ p.max_members \in Nat /\ p.max_weight \in Nat
  BY <1>3, <1>4, FS_Subset, FS_CardinalityType DEF IsProblem
<1>6. Weight(p, B) <= Weight(p, C) /\ Weight(p, B) \in Nat /\ Weight(p, C) \in Nat
  BY <1>3, WeightGrows, WeightSums
<1>7. Cardinality(B) <= p.max_members
  BY <1>1, <1>5
<1>8. Weight(p, B) <= p.max_weight
  BY <1>1, <1>5, <1>6
<1> QED
  BY <1>1, <1>2, <1>7, <1>8, FeasibleDef

\* No resource of R but those of kept can be left out.
Irreducible(p, R, kept) == \A n \in R \ kept : R \ {n} \notin FeasibleSets(p)

\* Reverse deletion returns part of its set; from a feasible set it returns a feasible one that
\* is irreducible.
LEMMA ThinnedIsIrreducible ==
  ASSUME NEW p, IsProblem(p), NEW members \in SUBSET p.graph.node, NEW kept
  PROVE  LET R == Thinned(p, members, kept) IN
         /\ R \in SUBSET members /\ members \cap kept \subseteq R
         /\ members \in FeasibleSets(p) => R \in FeasibleSets(p) /\ Irreducible(p, R, kept)
<1> DEFINE order == Ascending(members)
           less(i, S) == IF order[i] \notin kept /\ VerifyCut(p, S \ {order[i]})
                         THEN S \ {order[i]} ELSE S
           G(f) == [i \in Nat |-> IF i = 0 THEN members ELSE less(i, f[i - 1])]
           left == CHOOSE f : f = G(f)
<1>1. Thinned(p, members, kept) = left[Len(order)]
  BY DEF Thinned
<1>2. /\ IsFiniteSet(members) /\ members \in SUBSET Nat /\ Cardinality(members) \in Nat
  BY FS_Subset, FS_CardinalityType DEF IsProblem
<1>3. /\ Len(order) = Cardinality(members)
      /\ \A n \in members : \E i \in 1..Cardinality(members) : order[i] = n
  BY <1>2, AscendingOrders
<1>4. \A i \in Nat, S \in SUBSET members : less(i, S) \in SUBSET members
  OBVIOUS
<1>5. \A i \in Nat, S \in SUBSET members :
        \/ less(i, S) = S /\ (order[i] \in kept \/ ~VerifyCut(p, S \ {order[i]}))
        \/ /\ less(i, S) = S \ {order[i]} /\ order[i] \notin kept
           /\ VerifyCut(p, S \ {order[i]})
  OBVIOUS
<1> HIDE DEF less, order
<1>6. \E f : f = G(f)
  <2>1. PICK Sets : Sets = SUBSET members
    OBVIOUS
  <2>2. PICK step \in [Nat -> [Sets -> Sets]] : step = [i \in Nat |-> [S \in Sets |-> less(i, S)]]
    BY <1>4, <2>1
  <2>3. PICK f : Iterates(f, Sets, members, step)
    BY <2>1, Iteration
  <2>4. \A i \in Nat \ {0} : f[i] = less(i, f[i - 1])
    BY <2>2, <2>3 DEF Iterates
  <2>5. f = G(f)
    BY <2>3, <2>4 DEF Iterates
  <2> QED
    BY <2>5
<1>7. left = G(left)
  BY <1>6
<1> HIDE DEF left
<1>8. left[0] = members /\ \A i \in Nat : left[i + 1] = less(i + 1, left[i])
  <2>1. \A i \in Nat : left[i] = IF i = 0 THEN members ELSE less(i, left[i - 1])
    BY <1>7
  <2>2. \A i \in Nat : i + 1 \in Nat /\ i + 1 # 0 /\ (i + 1) - 1 = i
    OBVIOUS
  <2> QED
    BY <2>1, <2>2
<1>9. \A i \in Nat : left[i] \in SUBSET members /\ members \cap kept \subseteq left[i]
  <2> DEFINE T == {i \in Nat : left[i] \in SUBSET members /\ members \cap kept \subseteq left[i]}
  <2>1. 0 \in T
    BY <1>8
  <2>2. ASSUME NEW i \in T PROVE i + 1 \in T
    <3>1. i + 1 \in Nat /\ left[i + 1] = less(i + 1, left[i])
      BY <1>8
    <3>2. \/ left[i + 1] = left[i]
          \/ left[i + 1] = left[i] \ {order[i + 1]} /\ order[i + 1] \notin kept
      BY <1>5, <3>1
    <3> QED
      BY <3>1, <3>2
  <2> HIDE DEF T
  <2>3. \A i \in Nat : i \in T
    BY <2>1, <2>2, Induction DEF T
  <2> QED
    BY <2>3 DEF T
<1>10. ASSUME members \in FeasibleSets(p)
       PROVE  \A i \in Nat :
                /\ left[i] \in FeasibleSets(p)
                /\ \A j \in 1..i : order[j] \in left[i] \ kept => left[i] \ {order[j]} \notin FeasibleSets(p)
  <2> DEFINE T == {i \in Nat :
                /\ left[i] \in FeasibleSets(p)
                /\ \A j \in 1..i : order[j] \in left[i] \ kept => left[i] \ {order[j]} \notin FeasibleSets(p)}
  <2>1. 0 \in T
    BY <1>8, <1>10
  <2>2. ASSUME NEW i \in T PROVE i + 1 \in T
    <3>1. i + 1 \in Nat /\ left[i + 1] = less(i + 1, left[i]) /\ left[i] \in SUBSET members /\ i \in Nat
      BY <1>8, <1>9
    <3>2. /\ left[i] \in FeasibleSets(p)
          /\ \A j \in 1..i : order[j] \in left[i] \ kept => left[i] \ {order[j]} \notin FeasibleSets(p)
      OBVIOUS
    <3> DEFINE n == order[i + 1]
    <3>3. left[i] \ {n} \in SUBSET p.graph.node
      BY <3>1
    <3>4. VerifyCut(p, left[i] \ {n}) <=> left[i] \ {n} \in FeasibleSets(p)
      BY <3>3, VerifyCutDecides
    <3>5. \A j \in 1..i + 1 : j \in 1..i \/ j = i + 1
      BY <3>1
    <3> HIDE DEF T
    <3>6. CASE left[i + 1] = left[i] /\ (n \in kept \/ ~VerifyCut(p, left[i] \ {n}))
      <4>1. \A j \in 1..i + 1 : order[j] \in left[i + 1] \ kept =>
              left[i + 1] \ {order[j]} \notin FeasibleSets(p)
        BY <3>2, <3>4, <3>5, <3>6
      <4> QED
        BY <3>1, <3>2, <3>6, <4>1 DEF T
    <3>7. CASE left[i + 1] = left[i] \ {n} /\ VerifyCut(p, left[i] \ {n})
      <4>1. left[i + 1] \in FeasibleSets(p)
        BY <3>4, <3>7
      <4>2. ASSUME NEW j \in 1..i + 1, order[j] \in left[i + 1] \ kept,
                   left[i + 1] \ {order[j]} \in FeasibleSets(p)
            PROVE  FALSE
        <5>1. j \in 1..i
          BY <3>5, <3>7, <4>2
        <5>2. /\ left[i + 1] \ {order[j]} \subseteq left[i] \ {order[j]}
              /\ left[i] \ {order[j]} \subseteq left[i] /\ order[j] \in left[i] \ kept
          BY <3>7, <4>2
        <5>3. left[i] \ {order[j]} \in FeasibleSets(p)
          BY <3>2, <4>2, <5>2, FeasibleBetween
        <5> QED
          BY <3>2, <5>1, <5>2, <5>3
      <4> QED
        BY <3>1, <4>1, <4>2 DEF T
    <3> QED
      BY <1>5, <3>1, <3>6, <3>7
  <2> HIDE DEF T
  <2>3. \A i \in Nat : i \in T
    BY <2>1, <2>2, Induction DEF T
  <2> QED
    BY <2>3 DEF T
<1> DEFINE R == left[Cardinality(members)]
<1>11. R \in SUBSET members /\ members \cap kept \subseteq R
  BY <1>2, <1>9
<1>12. ASSUME members \in FeasibleSets(p) PROVE R \in FeasibleSets(p) /\ Irreducible(p, R, kept)
  <2>1. /\ R \in FeasibleSets(p)
        /\ \A j \in 1..Cardinality(members) : order[j] \in R \ kept => R \ {order[j]} \notin FeasibleSets(p)
    BY <1>2, <1>10, <1>12
  <2>2. ASSUME NEW n \in R \ kept PROVE R \ {n} \notin FeasibleSets(p)
    <3>1. PICK j \in 1..Cardinality(members) : order[j] = n
      BY <1>3, <1>11
    <3> QED
      BY <2>1, <3>1
  <2> QED
    BY <2>1, <2>2 DEF Irreducible
<1> HIDE DEF R
<1>13. Thinned(p, members, kept) = R
  BY <1>1, <1>3 DEF R
<1> QED
  BY <1>11, <1>12, <1>13

-----------------------------------------------------------------------------
(* The resources of a path *)

LEMMA PathHolds ==
  ASSUME NEW S, NEW w \in Seq(S)
  PROVE  Range(w) \in SUBSET S /\ \A n : n \in Range(w) <=> \E i \in 1..Len(w) : w[i] = n
<1>1. DOMAIN w = 1..Len(w) /\ \A i \in 1..Len(w) : w[i] \in S
  BY LenProperties
<1> QED
  BY <1>1 DEF Range

-----------------------------------------------------------------------------
(* Which path a search returns *)

\* u comes before the first k resources of w: it is shorter, or as long and the first
\* difference is for it.
Earlier(u, w, k) == Len(u) < k \/ (Len(u) = k /\ FirstLess(k, u, w))

NotAfter(u, w, k) == Earlier(u, w, k) \/ (Len(u) = k /\ \A i \in 1..k : u[i] = w[i])

Before(u, v) == Earlier(u, v, Len(v))

LEMMA BeforeOrders ==
  ASSUME NEW u \in Seq(Nat), NEW v \in Seq(Nat), NEW w \in Seq(Nat), NEW k \in Nat, k <= Len(w),
         Before(u, v), NotAfter(v, w, k)
  PROVE  Earlier(u, w, k)
<1>1. Len(u) \in Nat /\ Len(v) \in Nat
  OBVIOUS
<1>2. Len(v) <= k /\ Len(u) <= Len(v)
  BY <1>1 DEF Before, Earlier, NotAfter
<1>3. CASE Len(u) < k
  BY <1>3 DEF Earlier
<1>4. CASE Len(u) = k
  <2>1. Len(v) = k
    BY <1>1, <1>2, <1>4
  <2>2. FirstLess(k, u, v)
    BY <1>1, <1>4, <2>1 DEF Before, Earlier
  <2>3. \A i \in 1..k : u[i] \in Nat /\ v[i] \in Nat /\ w[i] \in Nat
    BY <1>4, <2>1, ElementOfSeq
  <2>4. CASE \A i \in 1..k : v[i] = w[i]
    <3>1. FirstLess(k, u, w)
      BY <2>2, <2>4 DEF FirstLess
    <3> QED
      BY <1>4, <3>1 DEF Earlier
  <2>5. CASE FirstLess(k, v, w)
    <3>1. PICK i \in 1..k : u[i] < v[i] /\ \A j \in 1..i - 1 : u[j] = v[j]
      BY <2>2 DEF FirstLess
    <3>2. PICK j \in 1..k : v[j] < w[j] /\ \A h \in 1..j - 1 : v[h] = w[h]
      BY <2>5 DEF FirstLess
    <3>3. CASE i < j
      <4>1. i \in 1..j - 1 /\ \A h \in 1..i - 1 : h \in 1..j - 1
        BY <3>3
      <4>2. u[i] < w[i] /\ \A h \in 1..i - 1 : u[h] = w[h]
        BY <3>1, <3>2, <4>1
      <4> QED
        BY <1>4, <4>2 DEF FirstLess, Earlier
    <3>4. CASE j < i
      <4>1. j \in 1..i - 1 /\ \A h \in 1..j - 1 : h \in 1..i - 1
        BY <3>4
      <4>2. u[j] < w[j] /\ \A h \in 1..j - 1 : u[h] = w[h]
        BY <3>1, <3>2, <4>1
      <4> QED
        BY <1>4, <4>2 DEF FirstLess, Earlier
    <3>5. CASE i = j
      <4>1. u[i] < w[i] /\ \A h \in 1..i - 1 : u[h] = w[h]
        BY <2>3, <3>1, <3>2, <3>5
      <4> QED
        BY <1>4, <4>1 DEF FirstLess, Earlier
    <3> QED
      BY <3>3, <3>4, <3>5
  <2> QED
    BY <1>1, <2>1, <2>4, <2>5 DEF NotAfter, Earlier
<1> QED
  BY <1>1, <1>2, <1>3, <1>4

\* One resource more keeps the order, whatever it is behind a strict one.
LEMMA OrderGoesOn ==
  ASSUME NEW u \in Seq(Nat), NEW w \in Seq(Nat), NEW k \in Nat, k + 1 <= Len(w)
  PROVE  /\ \A n \in Nat : Earlier(u, w, k) => Earlier(Append(u, n), w, k + 1)
         /\ \A n \in Nat : n <= w[k + 1] /\ NotAfter(u, w, k) => NotAfter(Append(u, n), w, k + 1)
<1>1. \A n \in Nat : /\ Len(Append(u, n)) = Len(u) + 1 /\ Append(u, n)[Len(u) + 1] = n
                     /\ \A i \in 1..Len(u) : Append(u, n)[i] = u[i]
  BY AppendProperties
<1>2. Len(u) \in Nat /\ w[k + 1] \in Nat
  BY ElementOfSeq
<1>3. ASSUME NEW n \in Nat, Earlier(u, w, k) PROVE Earlier(Append(u, n), w, k + 1)
  <2> DEFINE v == Append(u, n)
  <2>1. Len(v) = Len(u) + 1 /\ \A i \in 1..Len(u) : v[i] = u[i]
    BY <1>1
  <2> HIDE DEF v
  <2>2. CASE Len(u) < k
    BY <1>2, <2>1, <2>2 DEF Earlier, v
  <2>3. CASE Len(u) = k /\ FirstLess(k, u, w)
    <3>1. PICK i \in 1..k : u[i] < w[i] /\ \A j \in 1..i - 1 : u[j] = w[j]
      BY <2>3 DEF FirstLess
    <3>2. i \in 1..k + 1 /\ i \in 1..Len(u) /\ \A j \in 1..i - 1 : j \in 1..Len(u)
      BY <2>3
    <3>3. v[i] < w[i] /\ \A j \in 1..i - 1 : v[j] = w[j]
      BY <2>1, <3>1, <3>2
    <3>4. FirstLess(k + 1, v, w)
      BY <3>2, <3>3 DEF FirstLess
    <3> QED
      BY <2>1, <2>3, <3>4 DEF Earlier, v
  <2> QED
    BY <1>3, <2>2, <2>3 DEF Earlier
<1>4. ASSUME NEW n \in Nat, n <= w[k + 1], Len(u) = k, \A i \in 1..k : u[i] = w[i]
      PROVE  NotAfter(Append(u, n), w, k + 1)
  <2> DEFINE v == Append(u, n)
  <2>1. Len(v) = k + 1 /\ v[k + 1] = n /\ \A i \in 1..k : v[i] = w[i]
    BY <1>1, <1>4
  <2> HIDE DEF v
  <2>2. CASE n = w[k + 1]
    <3>1. \A i \in 1..k + 1 : v[i] = w[i]
      BY <2>1, <2>2
    <3> QED
      BY <2>1, <3>1 DEF NotAfter, v
  <2>3. CASE n < w[k + 1]
    <3>1. k + 1 \in 1..k + 1 /\ (k + 1) - 1 = k
      OBVIOUS
    <3>2. FirstLess(k + 1, v, w)
      BY <2>1, <2>3, <3>1 DEF FirstLess
    <3> QED
      BY <2>1, <3>2 DEF NotAfter, Earlier, v
  <2> QED
    BY <1>2, <1>4, <2>2, <2>3
<1> QED
  BY <1>3, <1>4 DEF NotAfter

\* The same between two sequences.
LEMMA LongerAfter ==
  ASSUME NEW u \in Seq(Nat), NEW v \in Seq(Nat), NEW n \in Nat, NEW m \in Nat
  PROVE  /\ Before(u, v) => Before(Append(u, n), Append(v, m))
         /\ n < m => Before(Append(u, n), Append(u, m))
         /\ Len(u) <= Len(v) => Before(u, Append(v, m))
<1> DEFINE w == Append(v, m)
<1>1. /\ w \in Seq(Nat) /\ Len(w) = Len(v) + 1 /\ Len(v) \in Nat /\ Len(u) \in Nat
      /\ \A i \in 1..Len(v) : w[i] = v[i]
  BY AppendProperties
<1>2. Before(u, v) => Earlier(u, w, Len(v))
  <2>1. ASSUME FirstLess(Len(v), u, v) PROVE FirstLess(Len(v), u, w)
    <3>1. PICK i \in 1..Len(v) : u[i] < v[i] /\ \A j \in 1..i - 1 : u[j] = v[j]
      BY <2>1 DEF FirstLess
    <3>2. \A j \in 1..i - 1 : j \in 1..Len(v)
      BY <1>1
    <3> HIDE DEF w
    <3> QED
      BY <1>1, <3>1, <3>2 DEF FirstLess
  <2> HIDE DEF w
  <2> QED
    BY <2>1 DEF Before, Earlier
<1>3. Before(u, v) => Before(Append(u, n), w)
  <2> HIDE DEF w
  <2>1. Earlier(u, w, Len(v)) => Earlier(Append(u, n), w, Len(v) + 1)
    BY <1>1, OrderGoesOn
  <2> QED
    BY <1>1, <1>2, <2>1 DEF Before
<1>4. Len(u) <= Len(v) => Before(u, w)
  <2> HIDE DEF w
  <2> QED
    BY <1>1 DEF Before, Earlier
<1>5. ASSUME n < m PROVE Before(Append(u, n), Append(u, m))
  <2> DEFINE a == Append(u, n)  b == Append(u, m)
  <2>1. /\ Len(a) = Len(u) + 1 /\ Len(b) = Len(u) + 1 /\ a[Len(u) + 1] = n /\ b[Len(u) + 1] = m
        /\ \A i \in 1..Len(u) : a[i] = b[i]
    BY AppendProperties
  <2>2. Len(u) + 1 \in 1..Len(u) + 1 /\ (Len(u) + 1) - 1 = Len(u)
    BY <1>1
  <2> HIDE DEF a, b
  <2>3. FirstLess(Len(u) + 1, a, b)
    BY <1>5, <2>1, <2>2 DEF FirstLess
  <2> QED
    BY <2>1, <2>3 DEF Before, Earlier, a, b
<1> QED
  BY <1>3, <1>4, <1>5

\* best has, for every resource seen, the first of the walks that lead to it: the queue is in
\* their order, nothing that is queued later comes before what was seen, and what has left
\* the queue was followed.
Ranks(p, blocked, x, best) ==
  /\ best \in [x.seen -> Seq(p.graph.node)]
  /\ \A s \in p.sources \ blocked : s \in x.seen /\ best[s] = <<s>>
  /\ \A i \in 1..Len(x.queue) :
       Last(x.queue[i]) \in x.seen /\ x.queue[i] = best[Last(x.queue[i])]
  /\ \A i, j \in 1..Len(x.queue) : i < j => Before(x.queue[i], x.queue[j])
  /\ \A n \in x.seen, i \in 1..Len(x.queue), m \in p.graph.node :
       Before(best[n], Append(x.queue[i], m))
  /\ \A n \in x.seen :
       \/ \E i \in 1..Len(x.queue) : Last(x.queue[i]) = n
       \/ \A m \in Successors(p.graph, n) \ blocked :
            m \in x.seen /\ NotAfter(best[m], Append(best[n], m), Len(Append(best[n], m)))

LEMMA TurnKeepsRanks ==
  ASSUME NEW p, IsProblem(p), NEW blocked, NEW x, SearchOK(p, blocked, x),
         x.queue # <<>>, x.found = <<>>, NEW best, Ranks(p, blocked, x, best),
         Advance(p, blocked, x).found = <<>>
  PROVE  \E b : Ranks(p, blocked, Advance(p, blocked, x), b)
<1>1. PICK path : path = Head(x.queue)
  OBVIOUS
<1>2. PICK fresh : fresh = Successors(p.graph, Last(path)) \ (blocked \cup x.seen)
  OBVIOUS
<1>3. PICK y : y = Advance(p, blocked, x)
  OBVIOUS
<1>4. PICK L, c, further, met : /\ L = Len(x.queue) - 1 /\ c = Cardinality(fresh)
                                /\ further = Ascending(fresh) /\ met = fresh \cap p.protected
  OBVIOUS
<1>5. x \in SearchTypes(p) /\ Explored(p, blocked, x) /\ x.seen \in SUBSET p.graph.node
  BY DEF SearchOK, SearchTypes
<1>6. /\ path = x.queue[1] /\ path \in Seq(p.graph.node) /\ Len(x.queue) \in Nat \ {0}
      /\ fresh \in SUBSET p.graph.node /\ IsFiniteSet(fresh) /\ Cardinality(fresh) \in Nat
      /\ met # {} => /\ y = Searching(<<>>, x.seen, Append(path, Min(met)))
                     /\ Min(met) \in met /\ \A n \in met : Min(met) <= n
      /\ met = {} =>
           /\ y.seen = x.seen \cup fresh /\ y.found = <<>>
           /\ y.queue \in Seq(Seq(p.graph.node))
           /\ Len(y.queue) = Len(x.queue) - 1 + Cardinality(fresh)
           /\ \A i \in 1..Len(x.queue) - 1 : y.queue[i] = x.queue[i + 1]
           /\ \A i \in 1..Cardinality(fresh) :
                y.queue[Len(x.queue) - 1 + i] = Append(path, further[i])
  <2>1. Turned(p, x, y, path, fresh, met, further)
    BY <1>1, <1>2, <1>3, <1>4, <1>5, OneTurn
  <2> QED
    BY <2>1 DEF Turned
<1>7. 1 \in 1..Len(x.queue) /\ L \in Nat /\ Len(x.queue) = L + 1 /\ c \in Nat
  BY <1>4, <1>6
<1>8. Walk(p, blocked, path)
  BY <1>5, <1>6, <1>7 DEF Explored
<1>9. \A n \in Successors(p.graph, Last(path)) \ blocked :
        Append(path, n) \in Seq(p.graph.node) /\ Append(path, n) # <<>> /\ Last(Append(path, n)) = n
  <2> SUFFICES ASSUME NEW n \in Successors(p.graph, Last(path)) \ blocked
               PROVE  /\ Append(path, n) \in Seq(p.graph.node) /\ Append(path, n) # <<>>
                      /\ Last(Append(path, n)) = n
    OBVIOUS
  <2>1. Walk(p, blocked, Append(path, n)) /\ Last(Append(path, n)) = n
    BY <1>8, WalkGoesOn
  <2> QED
    BY <2>1 DEF Walk
<1>10. p.graph.node \in SUBSET Nat /\ \A w \in Seq(p.graph.node) : w \in Seq(Nat)
  BY DEF IsProblem
<1>11. met = {}
  <2> SUFFICES ASSUME met # {} PROVE FALSE
    OBVIOUS
  <2>1. Min(met) \in fresh
    BY <1>4, <1>6
  <2>2. Append(path, Min(met)) # <<>>
    BY <1>2, <1>9, <2>1
  <2>3. y.found = Append(path, Min(met))
    BY <1>6 DEF Searching
  <2> QED
    BY <1>3, <2>2, <2>3
<1>12. /\ y.seen = x.seen \cup fresh /\ y.queue \in Seq(Seq(p.graph.node)) /\ Len(y.queue) = L + c
       /\ \A i \in 1..L : y.queue[i] = x.queue[i + 1] /\ i + 1 \in 1..Len(x.queue)
       /\ \A i \in 1..c : y.queue[L + i] = Append(path, further[i]) /\ L + i \in 1..Len(y.queue)
  BY <1>4, <1>6, <1>7, <1>11
<1>13. /\ \A i \in 1..c : further[i] \in fresh
       /\ \A i, j \in 1..c : i < j => further[i] < further[j]
       /\ \A n \in fresh : \E i \in 1..c : further[i] = n
  <2>1. fresh \in SUBSET Nat
    BY <1>6, <1>10
  <2> QED
    BY <1>4, <1>6, <2>1, AscendingOrders
<1>14. ASSUME NEW i \in 1..Len(y.queue)
       PROVE  i \in 1..L \/ \E j \in 1..c : i = L + j
  <2>1. i \in 1..(L + c)
    BY <1>12
  <2> QED
    BY <1>7, <2>1, PositionBehind
<1>15. \A n \in fresh : /\ n \notin x.seen /\ n \in p.graph.node /\ n \in Nat
                        /\ Append(path, n) \in Seq(p.graph.node) /\ Last(Append(path, n)) = n
  BY <1>2, <1>6, <1>9, <1>10
<1>16. PICK b : b = [n \in x.seen \cup fresh |-> IF n \in x.seen THEN best[n] ELSE Append(path, n)]
  OBVIOUS
<1>17. /\ best \in [x.seen -> Seq(p.graph.node)]
       /\ \A n \in x.seen : b[n] = best[n] /\ best[n] \in Seq(p.graph.node)
       /\ \A n \in fresh : b[n] = Append(path, n)
       /\ b \in [x.seen \cup fresh -> Seq(p.graph.node)]
  <2>1. best \in [x.seen -> Seq(p.graph.node)]
    BY DEF Ranks
  <2>2. \A n \in x.seen : best[n] \in Seq(p.graph.node)
    BY <2>1
  <2> QED
    BY <1>15, <1>16, <2>1, <2>2
<1>18. /\ \A s \in p.sources \ blocked : s \in x.seen /\ best[s] = <<s>>
       /\ \A i \in 1..Len(x.queue) :
            Last(x.queue[i]) \in x.seen /\ x.queue[i] = best[Last(x.queue[i])]
       /\ \A i, j \in 1..Len(x.queue) : i < j => Before(x.queue[i], x.queue[j])
       /\ \A n \in x.seen, i \in 1..Len(x.queue), m \in p.graph.node :
            Before(best[n], Append(x.queue[i], m))
       /\ \A n \in x.seen :
            \/ \E i \in 1..Len(x.queue) : Last(x.queue[i]) = n
            \/ \A m \in Successors(p.graph, n) \ blocked :
                 m \in x.seen /\ NotAfter(best[m], Append(best[n], m), Len(Append(best[n], m)))
  BY DEF Ranks
<1>19. x.queue \in Seq(Seq(p.graph.node)) /\ \A i \in 1..Len(x.queue) : x.queue[i] \in Seq(p.graph.node)
  BY <1>5, ElementOfSeq DEF SearchTypes
<1>20. Last(path) \in x.seen /\ path = best[Last(path)]
  BY <1>6, <1>7, <1>18
<1>21. ASSUME NEW i \in 1..Len(y.queue)
       PROVE  Last(y.queue[i]) \in y.seen /\ y.queue[i] = b[Last(y.queue[i])]
  <2>1. CASE i \in 1..L
    BY <1>12, <1>17, <1>18, <2>1
  <2>2. ASSUME NEW j \in 1..c, i = L + j
        PROVE  Last(y.queue[i]) \in y.seen /\ y.queue[i] = b[Last(y.queue[i])]
    <3>1. y.queue[i] = Append(path, further[j]) /\ further[j] \in fresh
      BY <1>12, <1>13, <2>2
    <3>2. Last(y.queue[i]) = further[j]
      BY <1>15, <3>1
    <3> QED
      BY <1>12, <1>17, <3>1, <3>2
  <2> QED
    BY <1>14, <2>1, <2>2
<1>22. ASSUME NEW i \in 1..Len(y.queue), NEW j \in 1..Len(y.queue), i < j
       PROVE  Before(y.queue[i], y.queue[j])
  <2>1. CASE j \in 1..L
    <3>1. i \in 1..L /\ i + 1 < j + 1
      BY <1>7, <1>22, <2>1
    <3> QED
      BY <1>12, <1>18, <2>1, <3>1
  <2>2. ASSUME NEW h \in 1..c, j = L + h, i \in 1..L
        PROVE  Before(y.queue[i], y.queue[j])
    <3>1. y.queue[i] = best[Last(x.queue[i + 1])] /\ Last(x.queue[i + 1]) \in x.seen
      BY <1>12, <1>18, <2>2
    <3>2. y.queue[j] = Append(x.queue[1], further[h]) /\ further[h] \in p.graph.node
      BY <1>6, <1>12, <1>13, <1>15, <2>2
    <3> QED
      BY <1>7, <1>18, <3>1, <3>2
  <2>3. ASSUME NEW h \in 1..c, j = L + h, NEW g \in 1..c, i = L + g
        PROVE  Before(y.queue[i], y.queue[j])
    <3>1. g < h
      BY <1>7, <1>22, <2>3
    <3>2. further[g] < further[h] /\ further[g] \in Nat /\ further[h] \in Nat
      BY <1>13, <1>15, <3>1
    <3>3. Before(Append(path, further[g]), Append(path, further[h]))
      BY <1>6, <1>10, <3>2, LongerAfter
    <3> QED
      BY <1>12, <2>3, <3>3
  <2> QED
    BY <1>14, <2>1, <2>2, <2>3
<1>23. ASSUME NEW n \in y.seen, NEW i \in 1..Len(y.queue), NEW m \in p.graph.node
       PROVE  Before(b[n], Append(y.queue[i], m))
  <2>1. m \in Nat /\ y.queue[i] \in Seq(Nat)
    BY <1>10, <1>12, ElementOfSeq
  <2>2. CASE n \in x.seen /\ i \in 1..L
    BY <1>12, <1>17, <1>18, <2>2
  <2>3. ASSUME n \in x.seen, NEW j \in 1..c, i = L + j
        PROVE  Before(b[n], Append(y.queue[i], m))
    <3>1. PICK u : u = Append(path, further[j])
      OBVIOUS
    <3>2. y.queue[i] = u /\ further[j] \in p.graph.node /\ u \in Seq(Nat) /\ Len(u) \in Nat
      <4>1. y.queue[i] = u /\ further[j] \in fresh
        BY <1>12, <1>13, <2>3, <3>1
      <4> QED
        BY <1>10, <1>15, <3>1, <4>1
    <3>3. Before(best[n], u)
      BY <1>6, <1>7, <1>18, <2>3, <3>1, <3>2
    <3>4. Before(u, Append(u, m)) /\ Append(u, m) \in Seq(Nat) /\ Len(Append(u, m)) \in Nat
      BY <2>1, <3>2, LongerAfter, AppendProperties
    <3>5. NotAfter(u, Append(u, m), Len(Append(u, m)))
      BY <3>4 DEF Before, NotAfter
    <3>6. best[n] \in Seq(Nat)
      BY <1>10, <1>17, <2>3
    <3>7. Earlier(best[n], Append(u, m), Len(Append(u, m)))
      <4>1. PICK w, k : w = Append(u, m) /\ k = Len(w)
        OBVIOUS
      <4>2. w \in Seq(Nat) /\ k \in Nat /\ k <= Len(w) /\ NotAfter(u, w, k)
        BY <3>4, <3>5, <4>1
      <4>3. Earlier(best[n], w, k)
        BY <3>2, <3>3, <3>6, <4>2, BeforeOrders
      <4> QED
        BY <4>1, <4>3
    <3> QED
      BY <1>17, <2>3, <3>2, <3>7 DEF Before
  <2>4. CASE n \in fresh /\ i \in 1..L
    <3>1. i + 1 \in 1..Len(x.queue) /\ 1 < i + 1
      BY <1>12, <2>4
    <3>2. Before(path, x.queue[i + 1])
      BY <1>6, <1>7, <1>18, <3>1
    <3>3. Before(Append(path, n), Append(x.queue[i + 1], m))
      BY <1>6, <1>10, <1>15, <1>19, <2>1, <2>4, <3>1, <3>2, LongerAfter
    <3> QED
      BY <1>12, <1>17, <2>4, <3>3
  <2>5. ASSUME n \in fresh, NEW j \in 1..c, i = L + j
        PROVE  Before(b[n], Append(y.queue[i], m))
    <3>1. y.queue[i] = Append(path, further[j]) /\ further[j] \in fresh /\ b[n] = Append(path, n)
      BY <1>12, <1>13, <1>17, <2>5
    <3>2. /\ Len(Append(path, n)) = Len(path) + 1 /\ Len(Append(path, further[j])) = Len(path) + 1
          /\ Len(path) \in Nat
      BY <1>6, <1>15, <2>5, <3>1, AppendProperties
    <3>3. Append(path, n) \in Seq(Nat) /\ Append(path, further[j]) \in Seq(Nat)
      BY <1>10, <1>15, <2>5, <3>1
    <3>4. Len(Append(path, n)) <= Len(Append(path, further[j]))
      BY <3>2
    <3>5. n \in Nat
      BY <1>15, <2>5
    <3>6. Before(Append(path, n), Append(Append(path, further[j]), m))
      BY <2>1, <3>3, <3>4, LongerAfter
    <3> QED
      BY <3>1, <3>6
  <2> QED
    BY <1>12, <1>14, <2>2, <2>3, <2>4, <2>5
<1>24. ASSUME NEW n \in y.seen
       PROVE  \/ \E i \in 1..Len(y.queue) : Last(y.queue[i]) = n
              \/ \A m \in Successors(p.graph, n) \ blocked :
                   m \in y.seen /\ NotAfter(b[m], Append(b[n], m), Len(Append(b[n], m)))
  <2>1. CASE n \in fresh
    <3>1. PICK i \in 1..c : further[i] = n
      BY <1>13, <2>1
    <3> QED
      BY <1>12, <1>15, <2>1, <3>1
  <2>2. CASE n \in x.seen /\ n = Last(path)
    <3>1. ASSUME NEW m \in Successors(p.graph, n) \ blocked
          PROVE  m \in y.seen /\ NotAfter(b[m], Append(b[n], m), Len(Append(b[n], m)))
      <4>1. m \in x.seen \/ m \in fresh
        BY <1>2, <2>2, <3>1
      <4>2. b[n] = path
        BY <1>17, <1>20, <2>2
      <4>3. CASE m \in fresh
        <5>1. b[m] = Append(b[n], m)
          BY <1>17, <4>2, <4>3
        <5> QED
          BY <1>12, <4>3, <5>1 DEF NotAfter
      <4>4. CASE m \in x.seen
        <5>1. m \in p.graph.node
          BY <1>5, <4>4
        <5>2. Before(b[m], Append(b[n], m))
          BY <1>6, <1>7, <1>17, <1>18, <4>2, <4>4, <5>1
        <5> QED
          BY <1>12, <4>4, <5>2 DEF Before, NotAfter
      <4> QED
        BY <4>1, <4>3, <4>4
    <3> QED
      BY <3>1
  <2>3. CASE n \in x.seen /\ n # Last(path)
    <3>1. ASSUME NEW i \in 1..Len(x.queue), Last(x.queue[i]) = n
          PROVE  \E j \in 1..Len(y.queue) : Last(y.queue[j]) = n
      <4>1. i # 1
        BY <1>6, <2>3, <3>1
      <4>2. i - 1 \in 1..L /\ i - 1 \in 1..Len(y.queue) /\ (i - 1) + 1 = i
        BY <1>7, <1>12, <4>1
      <4> QED
        BY <1>12, <3>1, <4>2
    <3>2. ASSUME NEW m \in x.seen, NotAfter(best[m], Append(best[n], m), Len(Append(best[n], m)))
          PROVE  m \in y.seen /\ NotAfter(b[m], Append(b[n], m), Len(Append(b[n], m)))
      BY <1>12, <1>17, <2>3, <3>2
    <3> QED
      BY <1>18, <2>3, <3>1, <3>2
  <2> QED
    BY <1>12, <2>1, <2>2, <2>3
<1>25. \A s \in p.sources \ blocked : s \in y.seen /\ b[s] = <<s>>
  BY <1>12, <1>17, <1>18
<1>26. b \in [y.seen -> Seq(p.graph.node)]
  BY <1>12, <1>17
<1>27. Ranks(p, blocked, y, b)
  BY <1>21, <1>22, <1>23, <1>24, <1>25, <1>26 DEF Ranks
<1> QED
  BY <1>3, <1>27

LEMMA NotAfterIsSameOrBefore ==
  ASSUME NEW u \in Seq(Nat), NEW v \in Seq(Nat), NotAfter(u, v, Len(v))
  PROVE  u = v \/ Before(u, v)
<1>1. ASSUME Len(u) = Len(v), \A i \in 1..Len(v) : u[i] = v[i] PROVE u = v
  BY <1>1, SeqEqual
<1> QED
  BY <1>1 DEF NotAfter, Before

\* What ends the search comes after no walk to an obligation.
LEMMA FoundIsFirst ==
  ASSUME NEW p, IsProblem(p), p.sources \cap p.protected = {}, NEW blocked, NEW x,
         SearchOK(p, blocked, x), x.queue # <<>>, x.found = <<>>, NEW best,
         Ranks(p, blocked, x, best), Advance(p, blocked, x).found # <<>>,
         NEW w, Walk(p, blocked, w), Last(w) \in p.protected
  PROVE  NotAfter(Advance(p, blocked, x).found, w, Len(w))
<1>1. PICK path : path = Head(x.queue)
  OBVIOUS
<1>2. PICK fresh : fresh = Successors(p.graph, Last(path)) \ (blocked \cup x.seen)
  OBVIOUS
<1>3. PICK y : y = Advance(p, blocked, x)
  OBVIOUS
<1>4. PICK further, met : further = Ascending(fresh) /\ met = fresh \cap p.protected
  OBVIOUS
<1>5. x \in SearchTypes(p) /\ Explored(p, blocked, x) /\ x.seen \in SUBSET p.graph.node
  BY DEF SearchOK, SearchTypes
<1>6. Turned(p, x, y, path, fresh, met, further)
  BY <1>1, <1>2, <1>3, <1>4, <1>5, OneTurn
<1>7. met # {}
  BY <1>3, <1>6 DEF Turned
<1>8. PICK v, least : v = Append(path, least) /\ least = Min(met)
  OBVIOUS
<1>9. /\ path = x.queue[1] /\ path \in Seq(p.graph.node) /\ Len(x.queue) \in Nat \ {0}
      /\ fresh \in SUBSET p.graph.node /\ y = Searching(<<>>, x.seen, v)
      /\ least \in met /\ \A n \in met : least <= n
  BY <1>6, <1>7, <1>8 DEF Turned
<1>10. y.found = v
  BY <1>9 DEF Searching
<1>11. p.graph.node \in SUBSET Nat /\ \A u \in Seq(p.graph.node) : u \in Seq(Nat)
  BY DEF IsProblem
<1>12. /\ path \in Seq(Nat) /\ least \in Nat /\ Len(path) \in Nat
       /\ v \in Seq(Nat) /\ Len(v) = Len(path) + 1
  <2>1. path \in Seq(Nat) /\ least \in Nat
    BY <1>4, <1>9, <1>11
  <2> QED
    BY <1>8, <2>1, AppendProperties
<1>13. w \in Seq(p.graph.node) /\ w \in Seq(Nat) /\ Len(w) \in Nat \ {0}
  <2>1. w \in Seq(p.graph.node) /\ w # <<>>
    BY DEF Walk
  <2> QED
    BY <1>11, <2>1, EmptySeq
<1>14. /\ w[1] \in p.sources \ blocked
       /\ \A k \in 1..Len(w) - 1 :
            w[k + 1] \in Successors(p.graph, w[k]) \ blocked /\ w[k + 1] \in p.graph.node
  <2>1. \A k \in 1..Len(w) : w[k] \in p.graph.node /\ w[k] \notin blocked
    BY <1>13, ElementOfSeq DEF Walk
  <2>2. w[1] \in p.sources \ blocked
    BY <1>13, <2>1 DEF Walk
  <2>3. ASSUME NEW k \in 1..Len(w) - 1
        PROVE  w[k + 1] \in Successors(p.graph, w[k]) \ blocked /\ w[k + 1] \in p.graph.node
    <3>1. k + 1 \in 1..Len(w) /\ <<w[k], w[k + 1]>> \in p.graph.edge
      BY <1>13 DEF Walk
    <3> QED
      BY <2>1, <3>1 DEF Successors
  <2> QED
    BY <2>2, <2>3
<1>15. /\ best \in [x.seen -> Seq(p.graph.node)]
       /\ \A s \in p.sources \ blocked : s \in x.seen /\ best[s] = <<s>>
       /\ \A i \in 1..Len(x.queue) :
            Last(x.queue[i]) \in x.seen /\ x.queue[i] = best[Last(x.queue[i])]
       /\ \A i, j \in 1..Len(x.queue) : i < j => Before(x.queue[i], x.queue[j])
       /\ \A n \in x.seen, i \in 1..Len(x.queue), m \in p.graph.node :
            Before(best[n], Append(x.queue[i], m))
       /\ \A n \in x.seen :
            \/ \E i \in 1..Len(x.queue) : Last(x.queue[i]) = n
            \/ \A m \in Successors(p.graph, n) \ blocked :
                 m \in x.seen /\ NotAfter(best[m], Append(best[n], m), Len(Append(best[n], m)))
  BY DEF Ranks
<1>16. \A n \in x.seen : best[n] \in Seq(Nat)
  BY <1>11, <1>15
<1> DEFINE Led(k) == w[k] \in x.seen /\ NotAfter(best[w[k]], w, k)
           T == {k \in Nat : k + 1 <= Len(w) => Led(k + 1) \/ NotAfter(v, w, Len(w))}
<1>17. 0 \in T
  <2>1. w[1] \in x.seen /\ best[w[1]] = <<w[1]>>
    BY <1>14, <1>15
  <2>2. Len(<<w[1]>>) = 1 /\ \A i \in 1..1 : <<w[1]>>[i] = w[i]
    OBVIOUS
  <2>3. NotAfter(best[w[1]], w, 1)
    BY <2>1, <2>2 DEF NotAfter
  <2> QED
    BY <2>1, <2>3
<1>18. ASSUME NEW k \in T PROVE k + 1 \in T
  <2>0. k \in Nat /\ (k + 1) + 1 = k + 2
    OBVIOUS
  <2> SUFFICES ASSUME k + 2 <= Len(w), ~NotAfter(v, w, Len(w)) PROVE Led(k + 2)
    BY <2>0
  <2>1. /\ Led(k + 1) /\ k + 1 \in 1..Len(w) - 1 /\ k + 1 \in Nat /\ k + 2 \in Nat
        /\ (k + 1) + 1 = k + 2 /\ k + 1 <= Len(w)
    BY <1>13, <2>0
  <2> HIDE DEF T
  <2>2. PICK n, m, u : n = w[k + 1] /\ m = w[k + 2] /\ u = best[n]
    OBVIOUS
  <2>3. n \in x.seen /\ u \in Seq(Nat) /\ NotAfter(u, w, k + 1)
    BY <1>16, <2>1, <2>2
  <2>4. m \in Successors(p.graph, n) \ blocked /\ m \in p.graph.node /\ m \in Nat
    BY <1>11, <1>14, <2>1, <2>2
  <2>5. /\ Append(u, m) \in Seq(Nat) /\ Len(Append(u, m)) \in Nat
        /\ NotAfter(Append(u, m), w, k + 2)
    <3>1. NotAfter(Append(u, m), w, (k + 1) + 1)
      BY <1>13, <2>1, <2>2, <2>3, <2>4, OrderGoesOn
    <3>2. Append(u, m) \in Seq(Nat) /\ Len(Append(u, m)) \in Nat
      BY <2>3, <2>4, AppendProperties
    <3> QED
      BY <2>1, <3>1, <3>2
  <2>6. ASSUME m \in x.seen, NotAfter(best[m], Append(u, m), Len(Append(u, m)))
        PROVE  Led(k + 2)
    <3>1. best[m] \in Seq(Nat)
      BY <1>16, <2>6
    <3>2. best[m] = Append(u, m) \/ Before(best[m], Append(u, m))
      BY <2>5, <2>6, <3>1, NotAfterIsSameOrBefore
    <3>3. ASSUME Before(best[m], Append(u, m)) PROVE NotAfter(best[m], w, k + 2)
      <4>1. PICK a, b : a = best[m] /\ b = Append(u, m)
        OBVIOUS
      <4>2. Earlier(a, w, k + 2)
        BY <1>13, <2>1, <2>5, <3>1, <3>3, <4>1, BeforeOrders
      <4> QED
        BY <4>1, <4>2 DEF NotAfter
    <3> QED
      BY <2>2, <2>5, <2>6, <3>2, <3>3
  <2>7. ASSUME NEW i \in 1..Len(x.queue), Last(x.queue[i]) = n
        PROVE  Led(k + 2)
    <3>1. x.queue[i] = u
      BY <1>15, <2>2, <2>7
    <3>2. CASE m \in x.seen
      <4>1. Before(best[m], Append(u, m))
        BY <1>15, <2>4, <3>1, <3>2
      <4> QED
        BY <2>6, <3>2, <4>1 DEF Before, NotAfter
    <3>3. CASE m \notin x.seen
      <4>1. path = u \/ Earlier(path, w, k + 1)
        <5>1. CASE i = 1
          BY <1>9, <3>1, <5>1
        <5>2. CASE i # 1
          <6>1. 1 \in 1..Len(x.queue) /\ 1 < i
            BY <1>9, <5>2
          <6>2. Before(path, u)
            BY <1>9, <1>15, <3>1, <6>1
          <6> QED
            BY <1>12, <1>13, <2>1, <2>3, <6>2, BeforeOrders
        <5> QED
          BY <5>1, <5>2
      <4>2. NotAfter(path, w, k + 1)
        BY <2>3, <4>1 DEF NotAfter
      <4>3. NotAfter(v, w, Len(w))
        <5>1. CASE k + 2 < Len(w)
          <6>1. Len(path) <= k + 1
            BY <1>12, <2>1, <4>2 DEF NotAfter, Earlier
          <6>2. Len(v) < Len(w)
            BY <1>12, <1>13, <2>0, <5>1, <6>1
          <6> QED
            BY <6>2 DEF NotAfter, Earlier
        <5>2. CASE k + 2 = Len(w)
          <6>1. m \in p.protected
            BY <2>2, <5>2 DEF Last
          <6>2. CASE path = u
            <7>1. Last(path) = n
              BY <2>7, <3>1, <6>2
            <7>2. m \in met
              BY <1>2, <1>4, <2>4, <3>3, <6>1, <7>1
            <7>3. least <= w[(k + 1) + 1]
              BY <1>9, <2>1, <2>2, <7>2
            <7>4. NotAfter(v, w, (k + 1) + 1)
              BY <1>8, <1>12, <1>13, <2>1, <4>2, <7>3, OrderGoesOn
            <7> QED
              BY <2>1, <5>2, <7>4
          <6>3. CASE Earlier(path, w, k + 1)
            <7>1. Earlier(v, w, (k + 1) + 1)
              BY <1>8, <1>12, <1>13, <2>1, <6>3, OrderGoesOn
            <7> QED
              BY <2>1, <5>2, <7>1 DEF NotAfter
          <6> QED
            BY <4>1, <6>2, <6>3
        <5> QED
          BY <1>13, <2>1, <5>1, <5>2
      <4> QED
        BY <4>3
    <3> QED
      BY <3>2, <3>3
  <2>8. CASE \A l \in Successors(p.graph, n) \ blocked :
               l \in x.seen /\ NotAfter(best[l], Append(best[n], l), Len(Append(best[n], l)))
    BY <2>2, <2>4, <2>6, <2>8
  <2> QED
    BY <1>15, <2>3, <2>7, <2>8
<1>19. ASSUME ~NotAfter(v, w, Len(w)) PROVE FALSE
  <2>1. Len(w) - 1 \in Nat /\ (Len(w) - 1) + 1 = Len(w)
    BY <1>13
  <2>2. Len(w) - 1 \in T
    <3> HIDE DEF T
    <3>1. \A k \in Nat : k \in T
      BY <1>17, <1>18, Induction DEF T
    <3> QED
      BY <2>1, <3>1
  <2>3. w[Len(w)] \in x.seen
    BY <1>19, <2>1, <2>2
  <2>4. w[Len(w)] \in p.protected
    BY DEF Last
  <2> QED
    BY <1>5, <2>3, <2>4 DEF Explored
<1> QED
  BY <1>3, <1>10, <1>19

LEMMA SearchBeginsRanked ==
  ASSUME NEW p, IsProblem(p), NEW blocked, NEW f, TurnsOf(f, p, blocked)
  PROVE  f[0].found = <<>> /\ \E best : Ranks(p, blocked, f[0], best)
<1>1. PICK x, start, first, c : /\ x = f[0] /\ start = p.sources \ blocked
                                /\ first = Ascending(start) /\ c = Cardinality(start)
  OBVIOUS
<1>2. start \in SUBSET p.graph.node /\ start \in SUBSET Nat /\ IsFiniteSet(start)
  <2>1. p.graph.node \in SUBSET Nat /\ IsFiniteSet(p.graph.node) /\ start \in SUBSET p.graph.node
    BY <1>1 DEF IsProblem
  <2> QED
    BY <2>1, FS_Subset
<1>3. /\ Len(first) = c /\ \A i \in 1..c : first[i] \in start
      /\ \A n \in start : \E i \in 1..c : first[i] = n
      /\ \A i, j \in 1..c : i < j => first[i] < first[j]
  <2>1. /\ Len(Ascending(start)) = Cardinality(start)
        /\ Ascending(start) \in [1..Cardinality(start) -> start]
        /\ \A n \in start : \E i \in 1..Cardinality(start) : Ascending(start)[i] = n
        /\ \A i, j \in 1..Cardinality(start) : i < j => Ascending(start)[i] < Ascending(start)[j]
    BY ONLY <1>2, AscendingOrders
  <2>2. \A i \in 1..Cardinality(start) : Ascending(start)[i] \in start
    BY <2>1
  <2> QED
    BY ONLY <1>1, <2>1, <2>2
<1>4. c \in Nat
  BY <1>1, <1>2, FS_CardinalityType
<1>5. PICK q : q = [i \in 1..c |-> <<first[i]>>]
  OBVIOUS
<1>6. x.queue = q /\ x.seen = start /\ x.found = <<>>
  <2>1. x = Searching([i \in 1..Len(first) |-> <<first[i]>>], start, <<>>)
    BY <1>1 DEF TurnsOf
  <2>2. x = Searching(q, start, <<>>)
    BY <1>3, <1>5, <2>1
  <2> QED
    BY <2>2 DEF Searching
<1>7. \A n \in start : /\ <<n>> \in Seq(Nat) /\ <<n>> \in Seq(p.graph.node) /\ Len(<<n>>) = 1
                       /\ <<n>>[1] = n /\ Last(<<n>>) = n
  <2> SUFFICES ASSUME NEW n \in start
               PROVE  /\ <<n>> \in Seq(Nat) /\ <<n>> \in Seq(p.graph.node) /\ Len(<<n>>) = 1
                      /\ <<n>>[1] = n /\ Last(<<n>>) = n
    OBVIOUS
  <2>1. n \in Nat /\ n \in p.graph.node
    BY <1>2
  <2>2. <<n>> \in Seq(Nat) /\ <<n>> \in Seq(p.graph.node) /\ Len(<<n>>) = 1 /\ <<n>>[1] = n
    BY <2>1, SingletonSeq
  <2> QED
    BY <2>2 DEF Last
<1>8. Len(q) = c /\ \A i \in 1..c : q[i] = <<first[i]>>
  <2>1. ASSUME NEW i \in 1..c PROVE <<first[i]>> \in Seq(p.graph.node)
    <3>1. first[i] \in start
      BY <1>3
    <3> QED
      BY <1>7, <3>1
  <2>2. PICK W : W = Seq(p.graph.node)
    OBVIOUS
  <2>3. q \in [1..c -> W] /\ \A i \in 1..c : q[i] = <<first[i]>>
    BY <1>5, <2>1, <2>2
  <2> QED
    BY <1>4, <2>3, SeqOfFunction
<1>9. PICK best : best = [n \in start |-> <<n>>]
  OBVIOUS
<1>10. best \in [start -> Seq(p.graph.node)] /\ \A n \in start : best[n] = <<n>>
  BY <1>7, <1>9
<1>11. \A i \in 1..c : Last(q[i]) \in start /\ q[i] = best[Last(q[i])]
  <2> SUFFICES ASSUME NEW i \in 1..c PROVE Last(q[i]) \in start /\ q[i] = best[Last(q[i])]
    OBVIOUS
  <2>1. PICK n : n = first[i]
    OBVIOUS
  <2>2. n \in start /\ q[i] = <<n>>
    BY <1>3, <1>8, <2>1
  <2>3. Last(<<n>>) = n /\ best[n] = <<n>>
    BY <1>7, <1>10, <2>2
  <2> QED
    BY <2>2, <2>3
<1>12. ASSUME NEW i \in 1..c, NEW j \in 1..c, i < j PROVE Before(q[i], q[j])
  <2>1. PICK m, n : m = first[i] /\ n = first[j]
    OBVIOUS
  <2>2. m \in start /\ n \in start /\ m < n
    BY <1>3, <1>12, <2>1
  <2>3. <<m>>[1] < <<n>>[1] /\ 1 \in 1..1 /\ \A l \in 1..1 - 1 : <<m>>[l] = <<n>>[l]
    BY <2>2
  <2>4. FirstLess(1, <<m>>, <<n>>)
    BY <2>3 DEF FirstLess
  <2>5. Before(<<m>>, <<n>>)
    BY <1>7, <2>2, <2>4 DEF Before, Earlier
  <2> QED
    BY <1>8, <2>1, <2>5
<1>13. ASSUME NEW n \in start, NEW i \in 1..c, NEW m \in p.graph.node
       PROVE  Before(best[n], Append(q[i], m))
  <2>1. PICK l : l = first[i]
    OBVIOUS
  <2>2. q[i] = <<l>> /\ l \in start /\ best[n] = <<n>>
    BY <1>3, <1>8, <1>10, <2>1
  <2>3. m \in Nat
    BY DEF IsProblem
  <2>4. PICK u, v : u = <<n>> /\ v = <<l>>
    OBVIOUS
  <2>5. u \in Seq(Nat) /\ v \in Seq(Nat) /\ Len(u) <= Len(v)
    BY <1>7, <2>2, <2>4
  <2>6. Before(u, Append(v, m))
    BY <2>3, <2>5, LongerAfter
  <2> QED
    BY <2>2, <2>4, <2>6
<1>14. \A n \in start : \E i \in 1..c : Last(q[i]) = n
  <2> SUFFICES ASSUME NEW n \in start PROVE \E i \in 1..c : Last(q[i]) = n
    OBVIOUS
  <2>1. PICK i \in 1..c : first[i] = n
    BY <1>3
  <2>2. q[i] = <<n>>
    BY <1>8, <2>1
  <2> QED
    BY <1>7, <2>2
<1>15. Ranks(p, blocked, x, best)
  BY <1>1, <1>6, <1>8, <1>10, <1>11, <1>12, <1>13, <1>14 DEF Ranks
<1> QED
  BY <1>1, <1>6, <1>15

\* The path a search returns is the first by length and then by ids: no walk from a source to
\* an obligation comes before it.
LEMMA ShortestResidualPathIsFirst ==
  ASSUME NEW p, IsProblem(p), p.sources \cap p.protected = {}, NEW blocked,
         ShortestResidualPath(p, blocked) # <<>>,
         NEW w, Walk(p, blocked, w), Last(w) \in p.protected
  PROVE  NotAfter(ShortestResidualPath(p, blocked), w, Len(w))
<1> DEFINE N == Cardinality(p.graph.node)
<1>1. PICK f : TurnsOf(f, p, blocked) /\ ShortestResidualPath(p, blocked) = f[N].found
  BY SearchTurns
<1>2. N \in Nat
  BY FS_CardinalityType DEF IsProblem
<1> DEFINE FirstSoFar(x) == \/ x.found = <<>> /\ \E best : Ranks(p, blocked, x, best)
                            \/ x.found # <<>> /\ NotAfter(x.found, w, Len(w))
           T == {k \in Nat : FirstSoFar(f[k])}
<1>3. 0 \in T
  BY <1>1, SearchBeginsRanked
<1>4. ASSUME NEW k \in T PROVE k + 1 \in T
  <2>1. PICK x : x = f[k]
    OBVIOUS
  <2>2. k \in Nat /\ k + 1 \in Nat /\ FirstSoFar(x)
    BY <2>1
  <2>3. f[k + 1] = Advance(p, blocked, x) /\ SearchOK(p, blocked, x)
    BY <1>1, <2>1, <2>2 DEF TurnsOf
  <2>4. CASE x.queue = <<>> \/ x.found # <<>>
    <3>1. f[k + 1] = x
      BY <2>3, <2>4 DEF Advance
    <3> QED
      BY <2>2, <3>1
  <2>5. CASE x.queue # <<>> /\ x.found = <<>>
    <3>1. PICK best : Ranks(p, blocked, x, best)
      BY <2>2, <2>5
    <3>2. CASE Advance(p, blocked, x).found = <<>>
      <4>1. \E b : Ranks(p, blocked, Advance(p, blocked, x), b)
        BY <2>3, <2>5, <3>1, <3>2, TurnKeepsRanks
      <4> QED
        BY <2>2, <2>3, <3>2, <4>1
    <3>3. CASE Advance(p, blocked, x).found # <<>>
      <4>1. NotAfter(Advance(p, blocked, x).found, w, Len(w))
        BY <2>3, <2>5, <3>1, <3>3, FoundIsFirst
      <4> QED
        BY <2>2, <2>3, <3>3, <4>1
    <3> QED
      BY <3>2, <3>3
  <2> QED
    BY <2>4, <2>5
<1>5. N \in T
  <2> HIDE DEF T, N
  <2>1. \A k \in Nat : k \in T
    BY <1>3, <1>4, Induction DEF T
  <2> QED
    BY <1>2, <2>1
<1> QED
  BY <1>1, <1>5
=============================================================================
