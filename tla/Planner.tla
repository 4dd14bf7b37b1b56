------------------------------ MODULE Planner ------------------------------
(***************************************************************************)
(* The planner (planner.cpp) over the solvers: the plan computed from a    *)
(* topology, a policy and the failure evidence of the moment, computed     *)
(* again as evidence arrives.  Where Coordinator lets the solver answer    *)
(* anything, here the answer is the one the code computes.                 *)
(***************************************************************************)
EXTENDS Solver

CONSTANTS
  Definitions,      \* records of a topology and a policy: what a behaviour may start with
  Resources,        \* what failures may be reported of: resources of the topologies, or not
  MaxFailures,      \* bound: failures present at one time
  NecessityLimit    \* kNecessityCandidateLimit

ASSUME PlannerAssumption == MaxFailures \in Nat /\ NecessityLimit \in Nat

\* What the types of TopologyDefinition and ContainmentPolicy say, before anything is accepted.
ASSUME DefinitionsAssumption ==
  \A d \in Definitions : TopologyDeclared(d.topology) /\ PolicyDeclared(d.policy)

VARIABLES
  topology, policy,
  present,          \* resources with Present evidence
  confirmed,        \* those of them that were confirmed in the current boot
  plan,             \* the plan computed from these, NoPlan before it is computed
  previous          \* history: the plan computed before the last detection

vars == <<topology, policy, present, confirmed, plan, previous>>

Claims == {"ProvenContainment", "ProvenFeasibleNotMinimal", "Indeterminate", "ProvenInfeasible"}
Feasibilities == {"ProvenFeasible", "ProvenInfeasible", "Unknown"}
Optimalities == {"ProvenOptimal", "BoundedNotProven", "NotAttempted", "NotApplicable"}
Currencies == {"Current", "IncompleteFrontier", "Stale"}

\* A plan with an empty boundary; witness is the infeasibility certificate, paths the witness
\* path of each member, <<>> for a member that has none.
EmptyPlan(claim, feasibility, optimality, currency) ==
  [claim |-> claim, feasibility |-> feasibility, optimality |-> optimality,
   currency |-> currency, members |-> {}, paths |-> <<>>, unknown |-> {},
   uncontainable |-> {}, necessary |-> {}, indeterminate |-> {}, witness |-> <<>>]

NoPlan == <<>>

-----------------------------------------------------------------------------
(* compute_plan *)

Sources == present \cap topology.nodes
MissingSources == present \ topology.nodes

EvidenceCurrency ==
  IF MissingSources # {} THEN "IncompleteFrontier"
  ELSE IF present \subseteq confirmed THEN "Current" ELSE "Stale"

\* Mutant: failures are not looked up in the topology.
PlanOfAllFailures ==
  LET current == EvidenceCurrency = "Current"
      base == EmptyPlan(IF current THEN "ProvenContainment" ELSE "Indeterminate",
                        IF current THEN "ProvenFeasible" ELSE "Unknown",
                        "ProvenOptimal", EvidenceCurrency)
  IN [base EXCEPT !.members = present, !.paths = [n \in present |-> <<>>]]

\* Nothing is protected: every source that may be contained is, and nothing else.
PlanWithoutObligations ==
  LET uncontainable == Sources \ topology.containable
      current == EvidenceCurrency = "Current"
      sources_ok == ~policy.require \/ uncontainable = {}
      base == EmptyPlan(IF sources_ok /\ current THEN "ProvenContainment" ELSE "Indeterminate",
                        IF current THEN "ProvenFeasible" ELSE "Unknown",
                        "ProvenOptimal", EvidenceCurrency)
      members == Sources \cap topology.containable
  IN [base EXCEPT !.members = members, !.paths = [n \in members |-> <<>>],
                  !.uncontainable = uncontainable]

\* The instance compute_plan builds.
Instance == Problem(topology, Sources, {}, policy)

\* Mutant: completeness is asked only where an obligation is known to be reachable.
CandidatesIncomplete(p) == ~(Candidates(p) \subseteq topology.complete)

\* Adjacency that is not complete somewhere on the frontier: paths may be missing.
FrontierIncomplete(p) == ~(Frontier(p) \subseteq topology.complete)

\* The currency once the frontier is known.
CurrencyOnFrontier(p) ==
  IF EvidenceCurrency = "Current" /\ FrontierIncomplete(p) THEN "IncompleteFrontier"
  ELSE EvidenceCurrency

\* Mutant: the solver's set is taken as it is.
AsSolved(p, members) == members

\* Members that carry nothing are dropped, except sources that must be contained.
MinimalityRestored(p, members) == Thinned(p, members, IF p.require THEN p.sources ELSE {})

\* The witness of a member: a shortest path that survives containing all the others, if it
\* passes through the member.
WitnessPath(p, members, n) ==
  LET path == FindWitnessPath(p, members \ {n})
  IN IF n \in Range(path) THEN path ELSE <<>>

\* How much is claimed of a verified boundary.
ClaimOf(p, optimal) ==
  IF CurrencyOnFrontier(p) # "Current" THEN "Indeterminate"
  ELSE IF p.require /\ UncontainableSources(p) # {} THEN "Indeterminate"
  ELSE IF ~optimal THEN "ProvenFeasibleNotMinimal"
  ELSE "ProvenContainment"

\* Boundary, witnesses, claim and necessity for a set the solver found.
PlanWithSolution(p, answer) ==
  LET optimal == answer.status = "ProvenOptimal"
      members == MinimalityRestored(p, answer.members)
      paths == [n \in members |-> WitnessPath(p, members, n)]
      base == EmptyPlan(ClaimOf(p, optimal), "ProvenFeasible",
                        IF optimal THEN "ProvenOptimal" ELSE "BoundedNotProven",
                        CurrencyOnFrontier(p))
      analysed == IF Cardinality(Candidates(p)) <= NecessityLimit THEN members ELSE {}
  IN [base EXCEPT !.members = members, !.paths = paths,
        !.unknown = {n \in members : UsesUnknown(topology, paths[n])},
        !.uncontainable = UncontainableSources(p),
        !.necessary = ProvenNecessary(topology, p, analysed, policy),
        !.indeterminate = IndeterminateNecessity(topology, p, analysed, policy)]

PlanWithObligations(p, answer) ==
  CASE answer.status = "ProvenInfeasible" ->
         [EmptyPlan("ProvenInfeasible", "ProvenInfeasible", "NotApplicable", CurrencyOnFrontier(p))
            EXCEPT !.witness = answer.witness, !.uncontainable = UncontainableSources(p)]
    [] answer.status = "LimitReachedNoSolution" ->
         [EmptyPlan("Indeterminate", "Unknown", "NotAttempted", CurrencyOnFrontier(p))
            EXCEPT !.uncontainable = UncontainableSources(p)]
    [] HasSolution(answer) -> PlanWithSolution(p, answer)

ComputePlan ==
  IF present = {}
    THEN EmptyPlan("ProvenContainment", "ProvenFeasible", "ProvenOptimal", "Current")
  ELSE IF Sources = {}
    THEN EmptyPlan("Indeterminate", "Unknown", "NotAttempted", "IncompleteFrontier")
  ELSE IF topology.protected = {} THEN PlanWithoutObligations
  ELSE PlanWithObligations(Instance, Solve(Instance, policy))

-----------------------------------------------------------------------------
(* The runtime around it: definitions that were accepted, evidence that grows. *)

Init ==
  /\ \E d \in Definitions :
       /\ TopologyAccepted(d.topology) /\ PolicyAccepted(d.policy)
       /\ topology = d.topology /\ policy = d.policy
       /\ present \in {S \in SUBSET Resources : Cardinality(S) < MaxFailures}
  /\ confirmed \in {{}, present}
  /\ plan = NoPlan /\ previous = NoPlan

\* ContainmentRuntime::plan
Plan ==
  /\ plan = NoPlan /\ plan' = ComputePlan
  /\ UNCHANGED <<topology, policy, present, confirmed, previous>>

\* Evidence of a failure, of one that is known and not confirmed since the restart or of a
\* new one.
Detect(r) ==
  /\ plan # NoPlan /\ r \notin confirmed /\ Cardinality(present \cup {r}) <= MaxFailures
  /\ present' = present \cup {r} /\ confirmed' = confirmed \cup {r}
  /\ previous' = plan /\ plan' = NoPlan
  /\ UNCHANGED <<topology, policy>>

Next == Plan \/ \E r \in Resources : Detect(r)

Spec == Init /\ [][Next]_vars

-----------------------------------------------------------------------------
(* When the planner asks the solvers. *)

\* A plan of the solvers, on an instance in which nothing that failed is protected.
Regular ==
  /\ plan # NoPlan /\ Sources # {} /\ topology.protected # {}
  /\ Sources \cap topology.protected = {}

-----------------------------------------------------------------------------
(* Properties. *)

\* Every variable has its type; a plan's parts name resources of its topology.
TypeOK ==
  /\ TopologyAccepted(topology) /\ PolicyAccepted(policy)
  /\ present \subseteq Resources /\ confirmed \subseteq present
  /\ \A q \in {plan, previous} \ {NoPlan} :
       /\ q.claim \in Claims /\ q.feasibility \in Feasibilities
       /\ q.optimality \in Optimalities /\ q.currency \in Currencies
       /\ q.members \subseteq topology.nodes /\ DOMAIN q.paths = q.members
       /\ q.uncontainable \subseteq topology.nodes
       /\ q.necessary \subseteq q.members /\ q.indeterminate \subseteq q.members
       /\ Range(q.witness) \subseteq topology.nodes

\* A plan said to be optimal holds the one feasible set that precedes all others: branch and
\* bound prunes, excludes and breaks ties without losing it (solver_exact.cpp), and restoring
\* minimality afterwards takes nothing from it.
OptimalPlanIsTheOptimum ==
  Regular /\ plan.optimality = "ProvenOptimal" =>
    LET feasible == FeasibleSets(Instance) IN
    /\ plan.members \in feasible
    /\ \A C \in feasible \ {plan.members} :
         ObjectiveLess(Objective(Instance, plan.members), Objective(Instance, C), policy.minimize)

\* PROVEN_INFEASIBLE is said only when there is no feasible set, by the exact search, by a
\* path found in the heuristic, under weight and member limits too (cut.hpp).
InfeasibleMeansNoSet ==
  Regular /\ plan.feasibility = "ProvenInfeasible" => FeasibleSets(Instance) = {}

\* A boundary that is handed out is feasible, no member can be left out of it (required
\* sources apart), and every member shows a path through it that avoids all the others,
\* although a search that ended early and greedy growth both return sets with members that
\* carry nothing (planner.cpp, "every non-source member has a witness path through it").
MembersCarryTheCut ==
  Regular /\ plan.feasibility = "ProvenFeasible" =>
    LET feasible == FeasibleSets(Instance) IN
    /\ plan.members \in feasible
    /\ \A n \in plan.members : ~(policy.require /\ n \in Sources) =>
         /\ plan.members \ {n} \notin feasible
         /\ LET path == plan.paths[n] IN
              /\ Range(path) \cap plan.members = {n}
              /\ path[1] \in Sources /\ Last(path) \in topology.protected
              /\ \A i \in 1..Len(path) - 1 : <<path[i], path[i + 1]>> \in Instance.graph.edge

\* The walks of k resources from a source that avoid blocked.
Walks(p, blocked, k) ==
  LET Walk[i \in Nat] ==
        IF i = 0 THEN {}
        ELSE IF i = 1 THEN {<<s>> : s \in p.sources \ blocked}
        ELSE UNION {{Append(w, n) : n \in Successors(p.graph, Last(w)) \ blocked} : w \in Walk[i - 1]}
  IN Walk[k]

\* A witness path is the smallest of the shortest paths that avoid the other members: the plan
\* and its digest depend on nothing but the inputs (solver_common.hpp, "the lexicographically
\* smallest shortest path").
WitnessesAreCanonical ==
  Regular => \A n \in plan.members : \A k \in 2..Len(plan.paths[n]) :
    \A w \in Walks(Instance, plan.members \ {n}, k) :
      Last(w) \in topology.protected =>
        k = Len(plan.paths[n]) /\ ~LexicographicallyLess(w, plan.paths[n])

\* Where no limit of the policy can be what makes the instance infeasible, a certificate a
\* plan carries is one verify_infeasibility_witness accepts (cut.hpp).
CertificatesHold ==
  /\ Regular /\ plan.witness # <<>>
  /\ policy.max_members >= Cardinality(topology.nodes)
  /\ policy.max_weight >= Weight(Instance, topology.nodes)
  => VerifyInfeasibilityWitness(Instance, plan.witness)

\* A member listed as proven necessary is in every feasible set; one of an analysed plan that
\* is in neither list, obligations apart, can be avoided (necessity.hpp).  A budget that ends
\* early makes a member indeterminate, never necessary.
NecessityIsExact ==
  Regular /\ plan.feasibility = "ProvenFeasible" =>
    LET feasible == FeasibleSets(Instance) IN
    /\ \A C \in feasible : plan.necessary \subseteq C
    /\ Cardinality(Candidates(Instance)) <= NecessityLimit =>
         \A n \in plan.members \ (plan.necessary \cup plan.indeterminate \cup topology.protected) :
           \E C \in feasible : n \notin C

\* PROVEN_CONTAINMENT holds whatever is not known: with any edges there may be out of a
\* resource whose adjacency is not complete, no failure reaches an obligation, and every
\* failure that was reported is one the topology knows and this boot confirmed (planner.cpp).
ContainmentSurvivesUnknowns ==
  plan # NoPlan /\ plan.claim = "ProvenContainment" =>
    /\ present \subseteq confirmed \cap topology.nodes
    /\ \A more \in SUBSET ((topology.nodes \ topology.complete) \X topology.nodes) :
         Separates(Instance, plan.members, Instance.graph.edge \cup more)

\* More evidence of failure never makes things look better: what was infeasible stays so, the
\* optimum does not improve, and what was necessary is necessary still or no longer decided
\* (necessity.hpp, "Monotonic safety").
MonotonicSafety ==
  Regular /\ previous # NoPlan =>
    /\ previous.feasibility = "ProvenInfeasible" => plan.feasibility # "ProvenFeasible"
    /\ previous.optimality = "ProvenOptimal" /\ plan.optimality = "ProvenOptimal" =>
         ~ObjectiveLess(Objective(Instance, plan.members),
                        Objective(Instance, previous.members), policy.minimize)
    /\ plan.feasibility = "ProvenFeasible" /\ Cardinality(Candidates(Instance)) <= NecessityLimit
         => previous.necessary \subseteq plan.necessary \cup plan.indeterminate

=============================================================================
