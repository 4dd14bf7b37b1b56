---------------------------- MODULE Coordinator ----------------------------
(***************************************************************************)
(* The containment runtime (src/runtime/coordinator.cpp, executor.cpp and  *)
(* runtime_state.hpp): one process incarnation at a time that ingests      *)
(* failure evidence, leases authorizations, computes plans, decides        *)
(* transitions of the containment boundary and tracks apply attempts, and  *)
(* that can stop at any moment and be opened again from its durable store. *)
(*                                                                         *)
(* Every public operation holds one mutex from its first to its last line, *)
(* so an operation is one step.  What can interrupt it is a failed commit  *)
(* or a crash: a crash between two records of one operation is a step of   *)
(* its own, one after the last record is the operation followed by Stop.   *)
(*                                                                         *)
(* The variable disk is the runtime state that replaying the store would   *)
(* yield: a commit folds its record into disk, a checkpoint replaces it by *)
(* the snapshot, open() starts from it.  Its field tail is what a failed   *)
(* commit has left at the end of the log, on which the next commits depend.*)
(* Digests are modelled by what they cover: two things have the same       *)
(* digest iff they are equal.                                              *)
(***************************************************************************)
EXTENDS Integers, Sequences, FiniteSets

CONSTANTS
  Resources,            \* resources a detector may report on
  ReportedStates,       \* the evidence states it reports
  TopologyNodes,        \* topology generation -> resources it declares
  Containable,          \* resources eligible for containment
  Solutions,            \* what solve() returns: see SolutionSet
  RequireConfirmation,  \* config.require_evidence_confirmation_in_current_boot
  ConfigPolicy,         \* generation of config.policy, non-zero
  ConfigTopology,       \* generation of config.topology, 0 when it has no nodes
  Lease,                \* config.authorization_lease_millis
  MaxActiveAuthorizations, RetainedPlans, RetainedAttempts, RetainedTransitions

CONSTANTS              \* bounds of an instance; a bound of 0 disables the operation
  MaxBoots, MaxPolicy, MaxTopology, MaxEvidence, MaxAuthorizations, MaxPlans,
  MaxTransitions, MaxAttempts, MaxApplierSequence, MaxTime, MaxFaults, MaxCheckpoints

VARIABLES
  up,                  \* an incarnation is serving
  epoch, boot,         \* its identity; kept after a crash as that of the last one
  policy, topology,    \* generations in force, topology 0 when none is loaded
  evidence, evidence_revision, evidence_confirmation, evidence_conflict,
  plan_counter, transition_counter, attempt_counter, authorization_counter,
  boundary, boundary_plan, effect_state, effect_requires_reverification,
  plans, attempts, transitions, authorizations, fenced_boots,
  now,                 \* the steady clock
  disk,                \* what the durable store would replay to
  boots, faults, checkpoints  \* boot identities drawn, commits failed, snapshots written so far

identity == <<up, epoch, boot>>
definitions == <<policy, topology>>
evidences == <<evidence, evidence_revision, evidence_confirmation, evidence_conflict>>
intent == <<boundary, boundary_plan, effect_state, effect_requires_reverification>>
counters == <<plan_counter, transition_counter, attempt_counter, authorization_counter>>
tables == <<plans, attempts, transitions, authorizations, fenced_boots>>
vars == <<identity, definitions, evidences, intent, counters, tables, now, disk, boots, faults, checkpoints>>

-----------------------------------------------------------------------------
EvidenceStates == {"Present", "Absent", "Unknown"}
EffectStates == {"NotRequested", "Submitted", "Acknowledged", "Ambiguous", "Failed",
                 "Fenced", "Superseded", "VerifiedApplied", "VerifiedReleased"}
Verified == {"VerifiedApplied", "VerifiedReleased"}
Terminal == EffectStates \ {"NotRequested", "Submitted", "Acknowledged"}
Observations == {"Applied", "Released", "PartiallyApplied", "NotApplied", "Unknown"}
Kinds == {"Expand", "Contract", "Release"}
Claims == {"ProvenContainment", "ProvenFeasibleNotMinimal", "Indeterminate", "ProvenInfeasible"}

\* A boundary: the optional of RuntimeState and the one inside a plan.
Boundaries == [present : BOOLEAN, generation : Nat, members : SUBSET Resources]
NoBoundary == [present |-> FALSE, generation |-> 0, members |-> {}]
BoundaryOf(g, m) == [present |-> TRUE, generation |-> g, members |-> m]
\* A default-constructed ContainmentBoundary: generation zero, no members.
DefaultBoundary == BoundaryOf(0, {})

Evidences == [Resources -> [generation : Nat, state : EvidenceStates]]
NoEvidence == [r \in Resources |-> [generation |-> 0, state |-> "Unknown"]]
Observation == [resource : Resources, generation : 1..MaxEvidence, state : ReportedStates]

Authorities == [epoch : Nat, boot : Nat, policy : Nat, topology : Nat,
                evidence_revision : Nat, evidence : Evidences]
Plans == [generation : Nat, boundary : Boundaries, claim : Claims]
Attempts == [plan : Nat, sequence : Nat, boundary : Boundaries, boot : Nat,
             state : EffectStates, applier_sequence : Nat]
Decisions == [generation : Nat, accepted : BOOLEAN, to : Boundaries]
Authorizations == [id : Nat, authority : Authorities, expires : Nat, fenced : BOOLEAN]

\* What the solver answers for a set of sources: a cut it proved optimal, a cut it
\* could not, a proof that none exists or an exhausted budget; complete says whether
\* the adjacency on the propagation frontier is known.
SolutionSet ==
  [sources : SUBSET Resources, members : SUBSET Resources, complete : BOOLEAN,
   status : {"ProvenOptimal", "FeasibleNotProvenOptimal", "ProvenInfeasible", "LimitReached"}]
Feasible(s) == s.status \in {"ProvenOptimal", "FeasibleNotProvenOptimal"}

ASSUME BoundsAssumption ==
  /\ {MaxBoots, MaxPolicy, MaxTopology, MaxEvidence, MaxAuthorizations, MaxPlans, MaxTransitions,
      MaxAttempts, MaxApplierSequence, MaxTime, MaxFaults, MaxCheckpoints} \subseteq Nat
  /\ {MaxActiveAuthorizations, RetainedPlans, RetainedAttempts, RetainedTransitions} \subseteq Nat \ {0}
  /\ Lease \in Nat
ASSUME ConfigAssumption ==
  /\ RequireConfirmation \in BOOLEAN
  /\ ConfigPolicy \in Nat \ {0} /\ ConfigTopology \in Nat
  /\ \A g \in ((1..MaxTopology) \cup {ConfigTopology}) \ {0} :
       TopologyNodes[g] \subseteq Resources
  /\ Containable \subseteq Resources /\ ReportedStates \subseteq EvidenceStates
\* The hard constraints every returned cut is re-verified against (engine/cut.cpp).
ASSUME SolutionsAssumption ==
  /\ Solutions \subseteq SolutionSet
  /\ \A s \in Solutions : IF Feasible(s) THEN /\ s.sources \cap Containable \subseteq s.members
                                              /\ s.members \subseteq Containable
                                         ELSE s.members = {}

-----------------------------------------------------------------------------
(* Helpers of RuntimeState *)

\* evict_bounded_tables: pop_front until the table is within its bound.
Evict(table, bound) ==
  IF Len(table) > bound THEN SubSeq(table, Len(table) - bound + 1, Len(table)) ELSE table

\* Mutant: find_plan searches from the back.
LastPlan(table, i) ==
  \A j \in (i + 1)..Len(table) : table[j].generation # table[i].generation
\* find_plan and find_attempt return the first match of the table.
FirstPlan(table, i) ==
  \A j \in 1..(i - 1) : table[j].generation # table[i].generation
SameId(a, b) == a.plan = b.plan /\ a.sequence = b.sequence
FirstAttempt(table, i) == \A j \in 1..(i - 1) : ~SameId(table[j], table[i])

effect_rank ==
  [s \in EffectStates |->
     CASE s = "NotRequested" -> 0 [] s = "Submitted" -> 1 [] s = "Acknowledged" -> 2
       [] s = "Ambiguous" -> 3 [] s = "Failed" -> 4 [] s = "Fenced" -> 5
       [] s = "Superseded" -> 6 [] s = "VerifiedApplied" -> 7 [] s = "VerifiedReleased" -> 8]

\* The newest attempt of a plan: the first one with the largest sequence.
Newest(table, plan) ==
  {i \in DOMAIN table :
     /\ table[i].plan = plan
     /\ \A j \in DOMAIN table : table[j].plan = plan =>
          \/ table[j].sequence < table[i].sequence
          \/ table[j].sequence = table[i].sequence /\ i <= j}

\* recompute_effect_state
Recompute(reverify, b, plan, table) ==
  IF reverify THEN "Ambiguous"
  ELSE IF (plan = 0 /\ ~b.present) \/ Newest(table, plan) = {} THEN "NotRequested"
  ELSE table[CHOOSE i \in Newest(table, plan) : TRUE].state

current_authority ==
  [epoch |-> epoch, boot |-> boot, policy |-> policy, topology |-> topology,
   evidence_revision |-> evidence_revision, evidence |-> evidence]

\* validate_authority: any differing field makes the vector stale or fenced.
Matches(a) == a.authority = current_authority
\* validate_authorization, its verdict on a retained entry.
Usable(a) == ~a.fenced /\ Matches(a) /\ now < a.expires
\* ... and its side effect: an entry that is refused is fenced for good.
Fencing(k) ==
  [i \in DOMAIN authorizations |->
     [authorizations[i] EXCEPT !.fenced = @ \/ (i = k /\ ~Usable(authorizations[i]))]]

SameMembers(b, c) == b.members = c.members

-----------------------------------------------------------------------------
(* The durable state: apply_replayed_frame folds one record *)

\* What a failed commit has left at the end of the log: nothing, part of the record (a short
\* append), or all of it (a flush that failed after the append).
Tails == {"Clean", "Cut", "Whole"}

Durables ==
  [readable : BOOLEAN, tail : Tails, epoch : Nat, last_known_boot : Nat, policy : Nat, topology : Nat,
   evidence : Evidences, evidence_revision : Nat,
   plan_counter : Nat, transition_counter : Nat, attempt_counter : Nat,
   authorization_counter : Nat, boundary : Boundaries, boundary_plan : Nat,
   plans : Seq(Plans), attempts : Seq(Attempts), transitions : Seq(Decisions),
   fenced_boots : SUBSET Nat]

FreshDisk ==
  [readable |-> TRUE, tail |-> "Clean", epoch |-> 0, last_known_boot |-> 0, policy |-> 0, topology |-> 0,
   evidence |-> NoEvidence, evidence_revision |-> 0,
   plan_counter |-> 0, transition_counter |-> 0, attempt_counter |-> 0,
   authorization_counter |-> 0, boundary |-> NoBoundary, boundary_plan |-> 0,
   plans |-> <<>>, attempts |-> <<>>, transitions |-> <<>>, fenced_boots |-> {}]

Larger(a, b) == IF a < b THEN b ELSE a

\* ContainmentBoundary::decode refuses generation zero, and with it every plan record
\* that carries a default boundary; open() fails on such a record.
Decodable(b) == b.generation # 0

\* EvidenceVector::merged
Accepts(ev, o) == ev[o.resource].generation < o.generation
Contradicts(ev, o) == ev[o.resource].generation = o.generation /\ ev[o.resource].state # o.state
Repeats(ev, o) == ev[o.resource].generation = o.generation /\ ev[o.resource].state = o.state
Merge(ev, o) == [ev EXCEPT ![o.resource] = [generation |-> o.generation, state |-> o.state]]

LogTopology(d, g) == [d EXCEPT !.topology = Larger(@, g)]
LogPolicy(d, g) == [d EXCEPT !.policy = Larger(@, g)]
\* Mutant: the first observation of a resource is kept, as emplace would.
LogDetectionFirst(d, o) ==
  [d EXCEPT !.evidence = IF @[o.resource].generation = 0 THEN Merge(@, o) ELSE @]
LogDetection(d, o) ==
  [d EXCEPT !.evidence = IF Accepts(@, o) THEN Merge(@, o) ELSE @]
\* The plan counter is not derived from the record.
LogPlan(d, p) ==
  [d EXCEPT !.plans = Append(@, p), !.readable = @ /\ Decodable(p.boundary)]
\* Mutant: replay derives the boundary from the accepted decision already.
LogTransitionInForce(d, t) ==
  [d EXCEPT !.transition_counter = Larger(@, t.generation), !.transitions = Append(@, t),
            !.boundary = IF t.accepted THEN t.to ELSE @]
LogTransition(d, t) ==
  [d EXCEPT !.transition_counter = Larger(@, t.generation), !.transitions = Append(@, t)]
\* Mutant: replay forgets the boundary.
LogBoundaryPlan(d, plan, b) == [d EXCEPT !.boundary_plan = plan]
\* A boundary payload that does not decode leaves the previous boundary in place.
LogBoundary(d, plan, b) ==
  [d EXCEPT !.boundary_plan = plan,
            !.boundary = IF b.present /\ ~Decodable(b) THEN @ ELSE b]
\* Mutant: the last record wins, whatever its rank.
OverwriteUnranked(table, a) ==
  IF \E i \in DOMAIN table : SameId(table[i], a)
  THEN [i \in DOMAIN table |->
          IF SameId(table[i], a) /\ FirstAttempt(table, i) THEN a ELSE table[i]]
  ELSE Append(table, a)
\* ApplyAttempt, ApplyAcknowledgement and EffectVerification records all carry the
\* attempt; a record never takes a retained attempt back to a lower rank.
Overwrite(table, a) ==
  IF \E i \in DOMAIN table : SameId(table[i], a)
  THEN [i \in DOMAIN table |->
          IF /\ SameId(table[i], a) /\ FirstAttempt(table, i)
             /\ effect_rank[table[i].state] <= effect_rank[a.state]
          THEN a ELSE table[i]]
  ELSE Append(table, a)
LogAttempt(d, a) == [d EXCEPT !.attempts = Overwrite(@, a)]
\* Mutant: replay ignores the epoch record.
LogEpochIgnored(d, e, b) == d
LogEpoch(d, e, b) ==
  IF d.epoch < e THEN [d EXCEPT !.epoch = e, !.last_known_boot = b] ELSE d
LogFence(d, fences) == [d EXCEPT !.fenced_boots = @ \cup fences]

\* commit(), from the durable state d for a record that makes e of it.
\* Behind a record that was cut off the new one is not found, or fills it up and the log is
\* corrupt; behind one that was appended but not acknowledged its sequence does not advance.
\* A log that does not decode stays so: open() is refused.
Undecodable(d) == [d EXCEPT !.readable = FALSE]
Committed(d, e) ==
  CASE d.tail = "Clean" -> {e}
    [] d.tail = "Cut"   -> {d, Undecodable(d)}
    [] d.tail = "Whole" -> {Undecodable(d)}
\* append_file_durable fails before, in or after the write: the caller is told, the sequence
\* does not advance, and what was appended stays.
NotCommitted(d, e) ==
  {d, [d EXCEPT !.tail = "Cut"]} \cup
  (IF d.tail = "Clean" THEN {[e EXCEPT !.tail = "Whole"]} ELSE {Undecodable(d)})

Commits(e) == disk' \in Committed(disk, e) /\ UNCHANGED faults
CommitFails(e) ==
  faults < MaxFaults /\ faults' = faults + 1 /\ disk' \in NotCommitted(disk, e)

\* checkpoint(): the snapshot of the live state, and a new segment without records.  The boot
\* of the last epoch record, the confirmations, the conflict and the reverification flag are
\* not part of it.
Snapshot ==
  [readable |-> /\ \A i \in DOMAIN plans : Decodable(plans[i].boundary)
                /\ boundary.present => Decodable(boundary),
   tail |-> "Clean",
   epoch |-> epoch, last_known_boot |-> 0, policy |-> policy, topology |-> topology,
   evidence |-> evidence, evidence_revision |-> evidence_revision,
   plan_counter |-> plan_counter, transition_counter |-> transition_counter,
   attempt_counter |-> attempt_counter, authorization_counter |-> authorization_counter,
   boundary |-> boundary, boundary_plan |-> boundary_plan,
   plans |-> plans, attempts |-> attempts, transitions |-> transitions,
   fenced_boots |-> fenced_boots]

-----------------------------------------------------------------------------
(* Stopping and opening *)

Init ==
  /\ up = FALSE /\ epoch = 0 /\ boot = 0
  /\ policy = 0 /\ topology = 0
  /\ evidence = NoEvidence /\ evidence_revision = 0 /\ evidence_conflict = FALSE
  /\ evidence_confirmation = [r \in Resources |-> 0]
  /\ plan_counter = 0 /\ transition_counter = 0 /\ attempt_counter = 0
  /\ authorization_counter = 0
  /\ boundary = NoBoundary /\ boundary_plan = 0
  /\ effect_state = "NotRequested" /\ effect_requires_reverification = FALSE
  /\ plans = <<>> /\ attempts = <<>> /\ transitions = <<>> /\ authorizations = <<>>
  /\ fenced_boots = {}
  /\ now = 0 /\ disk = FreshDisk /\ boots = 0 /\ faults = 0 /\ checkpoints = 0

\* The process ends here, whatever it was doing, and loses its memory; epoch and boot
\* stay on as those of the last incarnation.
Halt ==
  /\ up' = FALSE /\ UNCHANGED <<epoch, boot, now, boots, faults, checkpoints>>
  /\ policy' = 0 /\ topology' = 0
  /\ evidence' = NoEvidence /\ evidence_revision' = 0 /\ evidence_conflict' = FALSE
  /\ evidence_confirmation' = [r \in Resources |-> 0]
  /\ plan_counter' = 0 /\ transition_counter' = 0 /\ attempt_counter' = 0
  /\ authorization_counter' = 0
  /\ boundary' = NoBoundary /\ boundary_plan' = 0
  /\ effect_state' = "NotRequested" /\ effect_requires_reverification' = FALSE
  /\ plans' = <<>> /\ attempts' = <<>> /\ transitions' = <<>> /\ authorizations' = <<>>
  /\ fenced_boots' = {}

\* (MaxBoots bounds the stops too: one that no open follows is outside the instance)
Stop == up /\ boots < MaxBoots /\ Halt /\ UNCHANGED disk

\* open(): recover, advance the epoch, draw a boot identity, fence what was in flight,
\* then log policy, epoch and fences.
\* Mutant: the configured policy overrides the recovered one.
configured_policy == ConfigPolicy
recovered_policy == Larger(ConfigPolicy, disk.policy)
recovered_topology == IF disk.topology = 0 THEN ConfigTopology ELSE disk.topology
recovered_fences == disk.fenced_boots \cup ({disk.last_known_boot} \ {0})
recovered_effect == Recompute(FALSE, disk.boundary, disk.boundary_plan, disk.attempts)
RequiresReverification == recovered_effect \in Verified \cup {"Submitted", "Acknowledged"}
\* Mutant: acknowledged attempts are not fenced.
FencedIfSubmitted(table) ==
  [i \in DOMAIN table |->
     IF table[i].state # "Submitted" THEN table[i] ELSE [table[i] EXCEPT !.state = "Fenced"]]
FencedByRestart(table) ==
  [i \in DOMAIN table |->
     IF table[i].state \in Terminal THEN table[i] ELSE [table[i] EXCEPT !.state = "Fenced"]]

\* The store repairs a torn tail and goes on behind the last record it finds.
Found == [disk EXCEPT !.tail = "Clean"]
AfterTopology == LogTopology(Found, recovered_topology)
AfterPolicy == LogPolicy(AfterTopology, recovered_policy)
AfterEpoch == LogEpoch(AfterPolicy, disk.epoch + 1, boots + 1)
AfterFence == LogFence(AfterEpoch, recovered_fences)

Recovered ==
  /\ up' = TRUE /\ epoch' = disk.epoch + 1 /\ boot' = boots + 1
  /\ policy' = recovered_policy /\ topology' = recovered_topology
  /\ evidence' = disk.evidence /\ evidence_revision' = disk.evidence_revision
  /\ evidence_conflict' = FALSE /\ evidence_confirmation' = [r \in Resources |-> 0]
  /\ plan_counter' = disk.plan_counter /\ transition_counter' = disk.transition_counter
  /\ attempt_counter' = disk.attempt_counter
  /\ authorization_counter' = disk.authorization_counter
  /\ boundary' = disk.boundary /\ boundary_plan' = disk.boundary_plan
  /\ effect_requires_reverification' = RequiresReverification
  /\ effect_state' = IF RequiresReverification THEN "Ambiguous" ELSE recovered_effect
  /\ plans' = Evict(disk.plans, RetainedPlans)
  /\ attempts' = Evict(FencedByRestart(disk.attempts), RetainedAttempts)
  /\ transitions' = Evict(disk.transitions, RetainedTransitions)
  /\ authorizations' = <<>>
  /\ fenced_boots' = recovered_fences

Open ==
  /\ ~up /\ boots < MaxBoots /\ disk.readable
  /\ boots' = boots + 1 /\ disk' = AfterFence
  /\ Recovered
  /\ UNCHANGED <<now, faults, checkpoints>>

\* The process dies between two of the records open() writes.
OpenCrashes ==
  /\ ~up /\ boots < MaxBoots /\ disk.readable
  /\ boots' = boots + 1 /\ disk' \in {AfterTopology, AfterPolicy, AfterEpoch}
  /\ UNCHANGED <<identity, definitions, evidences, intent, counters, tables, now, faults, checkpoints>>

-----------------------------------------------------------------------------
(* Ingestion *)

ApplyTopology ==
  \E g \in 1..MaxTopology :
    /\ up /\ topology < g
    /\ \/ Commits(LogTopology(disk, g)) /\ topology' = g
       \/ CommitFails(LogTopology(disk, g)) /\ UNCHANGED topology
    /\ UNCHANGED <<identity, policy, evidences, intent, counters, tables, now, boots, checkpoints>>

\* Mutant: any other generation is accepted.
ReplacePolicy ==
  \E g \in 1..MaxPolicy :
    /\ up /\ policy # g
    /\ Commits(LogPolicy(disk, g)) /\ policy' = g
    /\ UNCHANGED <<identity, topology, evidences, intent, counters, tables, now, boots, checkpoints>>

ApplyPolicy ==
  \E g \in 1..MaxPolicy :
    /\ up /\ policy < g
    /\ \/ Commits(LogPolicy(disk, g)) /\ policy' = g
       \/ CommitFails(LogPolicy(disk, g)) /\ UNCHANGED policy
    /\ UNCHANGED <<identity, topology, evidences, intent, counters, tables, now, boots, checkpoints>>

\* record_detection: a newer observation is logged, then published.
RecordDetection(o) ==
  /\ up /\ Accepts(evidence, o)
  /\ \/ /\ Commits(LogDetection(disk, o))
        /\ evidence' = Merge(evidence, o)
        /\ evidence_revision' = evidence_revision + 1
        /\ evidence_conflict' = FALSE
        /\ evidence_confirmation' = [evidence_confirmation EXCEPT ![o.resource] = boot]
     \/ CommitFails(LogDetection(disk, o)) /\ UNCHANGED evidences
  /\ UNCHANGED <<identity, definitions, intent, counters, tables, now, boots, checkpoints>>

\* ... an identical one only refreshes the confirmation,
ReconfirmDetection(o) ==
  /\ up /\ Repeats(evidence, o)
  /\ evidence_confirmation' = [evidence_confirmation EXCEPT ![o.resource] = boot]
  /\ UNCHANGED <<identity, definitions, evidence, evidence_revision, evidence_conflict, intent,
                 counters, tables, now, disk, boots, faults, checkpoints>>

\* ... and a contradictory one is rejected but remembered.
ConflictingDetection(o) ==
  /\ up /\ Contradicts(evidence, o)
  /\ evidence_conflict' = TRUE
  /\ UNCHANGED <<identity, definitions, evidence, evidence_revision, evidence_confirmation, intent,
                 counters, tables, now, disk, boots, faults, checkpoints>>

-----------------------------------------------------------------------------
(* Authorization *)

\* authorize() drops expired entries from the front of the table only.
Expired(n) == \A i \in 1..n : authorizations[i].expires <= now
Live(n) == SubSeq(authorizations, n + 1, Len(authorizations))
Leased == [id |-> authorization_counter + 1, authority |-> current_authority,
           expires |-> now + Lease, fenced |-> FALSE]
\* Mutant: push_front.
IssueFirst(n) == <<Leased>> \o Live(n)
Issue(n) == Append(Live(n), Leased)
Authorize ==
  \E n \in 0..Len(authorizations) :
    /\ up /\ authorization_counter < MaxAuthorizations
    /\ Expired(n) /\ (n < Len(authorizations) => authorizations[n + 1].expires > now)
    /\ Len(authorizations) - n < MaxActiveAuthorizations
    /\ authorization_counter' = authorization_counter + 1
    /\ authorizations' = Issue(n)
    /\ UNCHANGED <<identity, definitions, evidences, intent, plan_counter, transition_counter,
                   attempt_counter, plans, attempts, transitions, fenced_boots, now, disk,
                   boots, faults, checkpoints>>

\* plan() or submit_apply() with an authorization that no longer holds.
PresentStaleAuthorization(k) ==
  /\ up /\ ~Usable(authorizations[k])
  /\ authorizations' = Fencing(k)
  /\ UNCHANGED <<identity, definitions, evidences, intent, counters, plans, attempts, transitions,
                 fenced_boots, now, disk, boots, faults, checkpoints>>

Tick ==
  /\ now < MaxTime /\ now' = now + 1
  /\ UNCHANGED <<identity, definitions, evidences, intent, counters, tables, disk, boots, faults, checkpoints>>

-----------------------------------------------------------------------------
(* Planning: compute_plan over the current evidence, topology and policy *)

Failed == {r \in Resources : evidence[r].state = "Present"}
Sources == Failed \cap TopologyNodes[topology]
Missing == Failed \ TopologyNodes[topology]
Confirmed == RequireConfirmation => \A r \in Failed : evidence_confirmation[r] = boot
EvidenceCurrent == Missing = {} /\ Confirmed

SolutionBoundary(s, g) == IF Feasible(s) THEN BoundaryOf(g, s.members) ELSE DefaultBoundary
\* Mutant: the status of the solver is taken for the claim.
SolverClaim(s) == s.status
SolutionClaim(s) ==
  IF s.status = "ProvenInfeasible" THEN "ProvenInfeasible"
  ELSE IF \/ s.status = "LimitReached" \/ ~EvidenceCurrent \/ ~s.complete
          \/ ~(Sources \subseteq Containable)
       THEN "Indeterminate"
  ELSE IF s.status = "ProvenOptimal" THEN "ProvenContainment"
  ELSE "ProvenFeasibleNotMinimal"

\* The boundaries and claims compute_plan may produce for plan generation g.
PlanResults(g) ==
  IF Failed = {} THEN {[boundary |-> BoundaryOf(g, {}), claim |-> "ProvenContainment"]}
  ELSE IF Sources = {} THEN {[boundary |-> BoundaryOf(g, {}), claim |-> "Indeterminate"]}
  ELSE {[boundary |-> SolutionBoundary(s, g), claim |-> SolutionClaim(s)] :
          s \in {t \in Solutions : t.sources = Sources}}

\* plan(): a recorded contradiction degrades whatever the planner claimed.
NewPlan(c) ==
  [generation |-> plan_counter + 1, boundary |-> c.boundary,
   claim |-> IF evidence_conflict THEN "Indeterminate" ELSE c.claim]

\* (MaxPlans bounds the plans on record, those in memory and the generations)
RoomForPlan == \A n \in {Len(disk.plans), Len(plans), plan_counter} : n < MaxPlans
Plan ==
  \E k \in DOMAIN authorizations :
    /\ up /\ RoomForPlan
    /\ Usable(authorizations[k]) /\ topology # 0
    /\ \E c \in PlanResults(plan_counter + 1) :
         \/ /\ Commits(LogPlan(disk, NewPlan(c)))
            /\ plan_counter' = plan_counter + 1
            /\ plans' = Evict(Append(plans, NewPlan(c)), RetainedPlans)
         \/ CommitFails(LogPlan(disk, NewPlan(c))) /\ UNCHANGED <<plan_counter, plans>>
    /\ UNCHANGED <<identity, definitions, evidences, intent, transition_counter, attempt_counter,
                   authorization_counter, attempts, transitions, authorizations, fenced_boots, now,
                   boots, checkpoints>>

-----------------------------------------------------------------------------
(* Transitions *)

\* The checks of transition() on a request of kind k that names the retained plan p, its
\* digest and the boundary in force; plan generations must advance once one is in force.
Releasable(p) == p.claim = "ProvenContainment" /\ p.boundary.members = {}
KindAllows(k, p) ==
  \/ k = "Expand" /\ (boundary.present => boundary.members \subseteq p.boundary.members)
  \/ k = "Contract" /\ boundary.present /\ p.boundary.members \subseteq boundary.members
                    /\ ~SameMembers(p.boundary, boundary)
  \/ k = "Release" /\ Releasable(p)
Supersedes(p) == p.generation > boundary_plan \/ boundary_plan = 0
\* Mutant: the effect of the boundary in force is not asked for.
EffectIgnored == TRUE
EffectSettled == boundary.present => effect_state \in Verified

Decided(k, p) ==
  [generation |-> transition_counter + 1, accepted |-> TRUE,
   to |-> IF k = "Release" THEN NoBoundary ELSE p.boundary]
Refused == [generation |-> transition_counter + 1, accepted |-> FALSE, to |-> NoBoundary]

\* A new decision starts without any effect.
\* Mutant: the verified effect of the previous boundary stays.
KeepEffect == UNCHANGED <<effect_state, effect_requires_reverification>>
ResetEffect == effect_state' = "NotRequested" /\ effect_requires_reverification' = FALSE

OnlyTransitionCounted ==
  /\ transition_counter' = transition_counter + 1
  /\ UNCHANGED <<identity, definitions, evidences, intent, plan_counter, attempt_counter,
                 authorization_counter, tables, now, boots, checkpoints>>

AcceptTransition(a, i, k) ==
  /\ up /\ transition_counter < MaxTransitions
  /\ Usable(authorizations[a]) /\ FirstPlan(plans, i)
  /\ EffectSettled /\ KindAllows(k, plans[i]) /\ Supersedes(plans[i])
  /\ LET t == Decided(k, plans[i])
         InForceOn(d) == LogBoundary(d, plans[i].generation, t.to)
     IN \/ \E decided \in Committed(disk, LogTransition(disk, t)) :
             \/ /\ disk' \in Committed(decided, InForceOn(decided))
                /\ boundary' = t.to /\ boundary_plan' = plans[i].generation
                /\ ResetEffect
                /\ transition_counter' = transition_counter + 1
                /\ transitions' = Evict(Append(transitions, t), RetainedTransitions)
                /\ UNCHANGED <<identity, definitions, evidences, plan_counter, attempt_counter,
                               authorization_counter, plans, attempts, authorizations, fenced_boots,
                               now, boots, faults, checkpoints>>
             \* a crash between the two records
             \/ disk' = decided /\ Halt
             \* the second commit fails: the counter has moved, nothing else in memory has
             \/ /\ faults < MaxFaults /\ faults' = faults + 1
                /\ disk' \in NotCommitted(decided, InForceOn(decided))
                /\ OnlyTransitionCounted
        \* the first commit fails
        \/ CommitFails(LogTransition(disk, t)) /\ OnlyTransitionCounted

\* Any other request is refused, and the refusal is recorded.  The authorization it
\* presents (0: none that is retained) is checked first and fenced if it no longer holds.
RefuseTransition(a) ==
  /\ up /\ transition_counter < MaxTransitions
  /\ Commits(LogTransition(disk, Refused))
  /\ transition_counter' = transition_counter + 1
  /\ authorizations' = Fencing(a)
  /\ transitions' = Evict(Append(transitions, Refused), RetainedTransitions)
  /\ UNCHANGED <<identity, definitions, evidences, intent, plan_counter, attempt_counter,
                 authorization_counter, plans, attempts, fenced_boots, now, boots, checkpoints>>

\* The record of the refusal cannot be committed: only its side effects remain in memory.
RefusalLost(a) ==
  /\ up /\ transition_counter < MaxTransitions
  /\ CommitFails(LogTransition(disk, Refused))
  /\ transition_counter' = transition_counter + 1
  /\ authorizations' = Fencing(a)
  /\ UNCHANGED <<identity, definitions, evidences, intent, plan_counter, attempt_counter,
                 authorization_counter, plans, attempts, transitions, fenced_boots, now, boots, checkpoints>>

-----------------------------------------------------------------------------
(* The apply protocol (executor.cpp) *)

Submittable == {"NotRequested", "Failed", "Ambiguous"}
InForce(p) == boundary_plan = p.generation /\ boundary.generation = p.boundary.generation
Reasserts(p) == SameMembers(p.boundary, boundary)
NewAttempt(p) ==
  [plan |-> p.generation, sequence |-> attempt_counter + 1, boundary |-> p.boundary,
   boot |-> boot, state |-> "Submitted", applier_sequence |-> 0]

SubmitApply(a, i) ==
  /\ up /\ attempt_counter < MaxAttempts
  /\ Usable(authorizations[a]) /\ FirstPlan(plans, i)
  /\ boundary.present /\ (InForce(plans[i]) \/ Reasserts(plans[i]))
  /\ effect_state \in Submittable
  /\ LET t == NewAttempt(plans[i])
     IN \/ /\ Commits(LogAttempt(disk, t))
           /\ attempt_counter' = attempt_counter + 1
           /\ attempts' = Evict(Append(attempts, t), RetainedAttempts)
           /\ effect_state' = "Submitted"
           /\ UNCHANGED <<identity, definitions, evidences, boundary, boundary_plan,
                          effect_requires_reverification, plan_counter, transition_counter,
                          authorization_counter, plans, transitions, authorizations, fenced_boots,
                          now, boots, checkpoints>>
        \* the commit fails: the counter has moved
        \/ /\ CommitFails(LogAttempt(disk, t))
           /\ attempt_counter' = attempt_counter + 1
           /\ UNCHANGED <<identity, definitions, evidences, intent, plan_counter, transition_counter,
                          authorization_counter, tables, now, boots, checkpoints>>

\* An operation of the enforcement plane leaves attempt i as t: the table is updated
\* before the record is committed, the intent after it.
Complete(i, t, Settle) ==
  LET table == [attempts EXCEPT ![i] = t]
  IN \/ /\ Commits(LogAttempt(disk, t))
        /\ attempts' = table /\ Settle
        /\ UNCHANGED <<identity, definitions, evidences, counters, plans, transitions, authorizations,
                       fenced_boots, now, boots, checkpoints>>
     \/ /\ CommitFails(LogAttempt(disk, t))
        /\ attempts' = table
        /\ UNCHANGED <<identity, definitions, evidences, intent, counters, plans, transitions,
                       authorizations, fenced_boots, now, boots, checkpoints>>

\* acknowledge() with a digest other than the intent's: the attempt is ambiguous, the
\* effect state is not recomputed.
AcknowledgeMismatch(i, s) ==
  /\ up /\ FirstAttempt(attempts, i)
  /\ attempts[i].state \notin Terminal /\ s > attempts[i].applier_sequence
  /\ Complete(i, [attempts[i] EXCEPT !.state = "Ambiguous"], UNCHANGED intent)

Acknowledge(i, s, accepted) ==
  /\ up /\ FirstAttempt(attempts, i)
  /\ attempts[i].state \notin Terminal /\ s > attempts[i].applier_sequence
  /\ LET t == [attempts[i] EXCEPT !.state = IF accepted THEN "Acknowledged" ELSE "Failed",
                                  !.applier_sequence = s]
     IN Complete(i, t,
          /\ effect_state' = Recompute(effect_requires_reverification, boundary, boundary_plan,
                                       [attempts EXCEPT ![i] = t])
          /\ UNCHANGED <<boundary, boundary_plan, effect_requires_reverification>>)

\* verify_effect(): what an observation makes of the attempt.
Observed(observation, matches) ==
  CASE observation = "Applied" -> IF matches THEN "VerifiedApplied" ELSE "Ambiguous"
    [] observation = "Released" -> IF matches THEN "VerifiedReleased" ELSE "Ambiguous"
    [] observation = "NotApplied" -> "Failed"
    [] observation \in {"PartiallyApplied", "Unknown"} -> "Ambiguous"

\* A verified attempt whose retained plan has the members in force is adopted.
Adopts(t, j) ==
  /\ t.state \in Verified /\ plans[j].generation = t.plan /\ FirstPlan(plans, j)
  /\ boundary.present /\ SameMembers(plans[j].boundary, boundary)

Adopt(t) ==
  \/ \E j \in DOMAIN plans :
       Adopts(t, j) /\ boundary' = plans[j].boundary /\ boundary_plan' = plans[j].generation
  \/ ~(\E j \in DOMAIN plans : Adopts(t, j)) /\ UNCHANGED <<boundary, boundary_plan>>

VerifyEffect(i, s, observation, matches) ==
  /\ up /\ FirstAttempt(attempts, i)
  /\ attempts[i].state \notin Verified \cup {"Fenced", "Superseded"}
  /\ s > attempts[i].applier_sequence
  /\ LET t == [attempts[i] EXCEPT !.state = Observed(observation, matches), !.applier_sequence = s]
         reverify == effect_requires_reverification /\ t.state \notin Verified
     IN Complete(i, t,
          /\ Adopt(t)
          /\ effect_requires_reverification' = reverify
          /\ effect_state' = Recompute(reverify, boundary', boundary_plan',
                                       [attempts EXCEPT ![i] = t]))

-----------------------------------------------------------------------------
\* checkpoint(): the CURRENT pointer switches to the new snapshot atomically.
Checkpoint ==
  /\ up /\ checkpoints < MaxCheckpoints /\ checkpoints' = checkpoints + 1
  /\ disk' = Snapshot
  /\ UNCHANGED <<identity, definitions, evidences, intent, counters, tables, now, boots, faults>>

Detect == \E o \in Observation :
            RecordDetection(o) \/ ReconfirmDetection(o) \/ ConflictingDetection(o)
PresentStale == \E k \in DOMAIN authorizations : PresentStaleAuthorization(k)
Transition ==
  \/ \E a \in DOMAIN authorizations, i \in DOMAIN plans, k \in Kinds : AcceptTransition(a, i, k)
  \/ \E a \in 0..Len(authorizations) : RefuseTransition(a) \/ RefusalLost(a)
Submit == \E a \in DOMAIN authorizations, i \in DOMAIN plans : SubmitApply(a, i)
Report ==
  \E i \in DOMAIN attempts, s \in 1..MaxApplierSequence :
    \/ AcknowledgeMismatch(i, s)
    \/ \E accepted \in BOOLEAN : Acknowledge(i, s, accepted)
    \/ \E observation \in Observations, matches \in BOOLEAN : VerifyEffect(i, s, observation, matches)

Next ==
  \/ Open \/ OpenCrashes \/ Stop \/ Tick
  \/ ApplyTopology \/ ApplyPolicy \/ Detect
  \/ Authorize \/ PresentStale \/ Plan \/ Transition \/ Submit \/ Report
  \/ Checkpoint

Spec == Init /\ [][Next]_vars

=============================================================================
