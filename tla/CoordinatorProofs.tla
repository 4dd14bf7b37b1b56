------------------------- MODULE CoordinatorProofs -------------------------
(***************************************************************************)
(* Proofs about the containment runtime, for every value of the constants: *)
(* any number of resources, incarnations, plans, attempts and faults.      *)
(*   I    types                                                            *)
(*   II   safety: epochs, attempts in flight, scope and inputs on disk     *)
(*   III  authorization leases                                             *)
(*   IV   who may change the scope, and that a verification is durable     *)
(*   V    that what is verified is the scope in force                      *)
(***************************************************************************)
EXTENDS CoordinatorProperties, Recursion, SequenceTheorems, TLAPS

(***************************************************************************)
(* I.  Types: the operators the model is built from, and every step        *)
(***************************************************************************)

-----------------------------------------------------------------------------
(* The operators the model is built from *)

\* A function on an initial segment is a sequence of that length.
LEMMA SegmentIsSeq ==
  ASSUME NEW S, NEW n \in Nat, NEW f \in [1..n -> S]
  PROVE  f \in Seq(S) /\ Len(f) = n /\ DOMAIN f = 1..n
  BY SeqDef, LenProperties

\* Eviction keeps a suffix of the table, non-empty if the table was, in order.
LEMMA EvictKeepsSuffix ==
  ASSUME NEW S, NEW table \in Seq(S), NEW bound \in Nat
  PROVE  /\ Evict(table, bound) \in Seq(S)
         /\ \A i \in 1..Len(Evict(table, bound)) :
              \E j \in 1..Len(table) : Evict(table, bound)[i] = table[j]
<1>1. CASE Len(table) > bound
  <2> DEFINE m == Len(table) - bound + 1
  <2>1. m \in Int /\ m >= 1 /\ m <= Len(table) + 1 /\ Len(table) \in Nat
    BY <1>1
  <2>2. \A i \in m..Len(table) : table[i] \in S
    BY <2>1, ElementOfSeq
  <2>3. /\ SubSeq(table, m, Len(table)) \in Seq(S)
        /\ Len(SubSeq(table, m, Len(table))) = IF m <= Len(table) THEN Len(table) - m + 1 ELSE 0
        /\ \A i \in 1..(Len(table) - m + 1) : SubSeq(table, m, Len(table))[i] = table[m + i - 1]
    BY <2>1, <2>2, SubSeqProperties
  <2>4. \A i \in 1..Len(SubSeq(table, m, Len(table))) : m + i - 1 \in 1..Len(table)
    BY <2>1, <2>3
  <2>5. \A i \in 1..Len(SubSeq(table, m, Len(table))) :
          SubSeq(table, m, Len(table))[i] = table[m + i - 1]
    BY <2>1, <2>3
  <2> QED
    BY <1>1, <2>3, <2>4, <2>5 DEF Evict
<1>2. CASE ~(Len(table) > bound)
  BY <1>2 DEF Evict
<1> QED
  BY <1>1, <1>2

\* Appending a record of a plan, a decision or an attempt, then evicting.
LEMMA PushType ==
  ASSUME NEW S, NEW table \in Seq(S), NEW e \in S, NEW bound \in Nat
  PROVE  Evict(Append(table, e), bound) \in Seq(S) /\ Append(table, e) \in Seq(S)
<1>1. Append(table, e) \in Seq(S)
  BY AppendProperties
<1> QED
  BY <1>1, EvictKeepsSuffix

\* What holds of every entry of a table holds after a push and an eviction, if it holds of
\* the entry pushed.
LEMMA PushKeeps ==
  ASSUME NEW S, NEW T, NEW table \in Seq(S), NEW e \in T, NEW bound \in Nat,
         \A i \in DOMAIN table : table[i] \in T
  PROVE  /\ \A i \in DOMAIN Append(table, e) : Append(table, e)[i] \in T
         /\ \A i \in DOMAIN Evict(Append(table, e), bound) : Evict(Append(table, e), bound)[i] \in T
<1>1. DOMAIN table = 1..Len(table) /\ Len(table) \in Nat /\ table \in [1..Len(table) -> T]
  OBVIOUS
<1>2. table \in Seq(T)
  BY <1>1, SegmentIsSeq
<1>3. Evict(Append(table, e), bound) \in Seq(T) /\ Append(table, e) \in Seq(T)
  BY <1>2, PushType
<1> QED
  BY <1>3, ElementOfSeq

LEMMA LargerType ==
  ASSUME NEW a \in Nat, NEW b \in Nat
  PROVE  Larger(a, b) \in Nat /\ a <= Larger(a, b) /\ b <= Larger(a, b)
  BY DEF Larger

\* An attempt record updates one entry of the table or appends one.
LEMMA OverwriteType ==
  ASSUME NEW table \in Seq(Attempts), NEW a \in Attempts
  PROVE  Overwrite(table, a) \in Seq(Attempts)
<1>1. CASE \E i \in DOMAIN table : SameId(table[i], a)
  <2> DEFINE f == [i \in DOMAIN table |->
                     IF /\ SameId(table[i], a) /\ FirstAttempt(table, i)
                        /\ effect_rank[table[i].state] <= effect_rank[a.state]
                     THEN a ELSE table[i]]
  <2>1. DOMAIN table = 1..Len(table) /\ Len(table) \in Nat
    OBVIOUS
  <2>2. \A i \in 1..Len(table) : table[i] \in Attempts
    BY ElementOfSeq
  <2>3. f \in [1..Len(table) -> Attempts]
    BY <2>1, <2>2
  <2>4. f \in Seq(Attempts)
    <3> HIDE DEF f
    <3> QED BY <2>1, <2>3, SegmentIsSeq
  <2> QED
    BY <1>1, <2>4 DEF Overwrite
<1>2. CASE ~(\E i \in DOMAIN table : SameId(table[i], a))
  BY <1>2, AppendProperties DEF Overwrite
<1> QED
  BY <1>1, <1>2

\* Fencing at restart keeps the table and changes states only.
LEMMA FencedByRestartType ==
  ASSUME NEW table \in Seq(Attempts)
  PROVE  /\ FencedByRestart(table) \in Seq(Attempts)
         /\ Len(FencedByRestart(table)) = Len(table)
         /\ \A i \in 1..Len(table) : FencedByRestart(table)[i].state \in Terminal
<1>1. DOMAIN table = 1..Len(table) /\ Len(table) \in Nat
  OBVIOUS
<1>2. \A i \in 1..Len(table) : table[i] \in Attempts
  BY ElementOfSeq
<1>3. "Fenced" \in EffectStates /\ "Fenced" \in Terminal
  BY DEF EffectStates, Terminal
<1>4. \A i \in 1..Len(table) : [table[i] EXCEPT !.state = "Fenced"] \in Attempts
  BY <1>2, <1>3 DEF Attempts
<1>5. FencedByRestart(table) \in [1..Len(table) -> Attempts]
  BY <1>1, <1>2, <1>4 DEF FencedByRestart
<1>6. FencedByRestart(table) \in Seq(Attempts) /\ Len(FencedByRestart(table)) = Len(table)
  BY <1>1, <1>5, SegmentIsSeq
<1>7. \A i \in 1..Len(table) : [table[i] EXCEPT !.state = "Fenced"].state = "Fenced"
  BY <1>2 DEF Attempts
<1>8. \A i \in 1..Len(table) : FencedByRestart(table)[i].state \in Terminal
  BY <1>1, <1>3, <1>7 DEF FencedByRestart
<1> QED
  BY <1>6, <1>8

LEMMA RecomputeType ==
  ASSUME NEW reverify \in BOOLEAN, NEW b, NEW plan \in Nat, NEW table \in Seq(Attempts)
  PROVE  Recompute(reverify, b, plan, table) \in EffectStates
<1>1. Newest(table, plan) \subseteq DOMAIN table
  BY DEF Newest
<1>2. Newest(table, plan) # {} => (CHOOSE i \in Newest(table, plan) : TRUE) \in Newest(table, plan)
  OBVIOUS
<1>3. \A i \in DOMAIN table : table[i].state \in EffectStates
  <2>1. \A i \in DOMAIN table : table[i] \in Attempts
    BY ElementOfSeq
  <2> QED BY <2>1 DEF Attempts
<1>4. "Ambiguous" \in EffectStates /\ "NotRequested" \in EffectStates
  BY DEF EffectStates
<1> QED
  BY <1>1, <1>2, <1>3, <1>4 DEF Recompute

\* Replaying a record leaves a well-formed state.
LEMMA LogTypes ==
  ASSUME NEW d \in Durables
  PROVE  /\ \A g \in Nat : LogTopology(d, g) \in Durables /\ LogPolicy(d, g) \in Durables
         /\ \A o \in Observation : LogDetection(d, o) \in Durables
         /\ \A p \in Plans : LogPlan(d, p) \in Durables
         /\ \A t \in Decisions : LogTransition(d, t) \in Durables
         /\ \A g \in Nat, b \in Boundaries : LogBoundary(d, g, b) \in Durables
         /\ \A a \in Attempts : LogAttempt(d, a) \in Durables
         /\ \A e \in Nat, b \in Nat : LogEpoch(d, e, b) \in Durables
         /\ \A f \in SUBSET Nat : LogFence(d, f) \in Durables
<1>1. \A g \in Nat : LogTopology(d, g) \in Durables /\ LogPolicy(d, g) \in Durables
  BY LargerType DEF LogTopology, LogPolicy, Durables
<1>2. ASSUME NEW o \in Observation
      PROVE  LogDetection(d, o) \in Durables
  <2>1. o.resource \in Resources /\ o.generation \in Nat /\ o.state \in EvidenceStates
    BY ConfigAssumption, BoundsAssumption DEF Observation
  <2>2. d.evidence \in Evidences
    BY DEF Durables
  <2>3. Merge(d.evidence, o) \in Evidences
    BY <2>1, <2>2 DEF Merge, Evidences
  <2> QED
    BY <2>2, <2>3 DEF LogDetection, Durables
<1>3. ASSUME NEW p \in Plans
      PROVE  LogPlan(d, p) \in Durables
  <2>1. Append(d.plans, p) \in Seq(Plans)
    BY AppendProperties DEF Durables
  <2>2. (d.readable /\ Decodable(p.boundary)) \in BOOLEAN
    OBVIOUS
  <2> QED
    BY <2>1, <2>2 DEF LogPlan, Durables
<1>4. ASSUME NEW t \in Decisions
      PROVE  LogTransition(d, t) \in Durables
  <2>1. Append(d.transitions, t) \in Seq(Decisions)
    BY AppendProperties DEF Durables
  <2>2. Larger(d.transition_counter, t.generation) \in Nat
    BY LargerType DEF Durables, Decisions
  <2> QED
    BY <2>1, <2>2 DEF LogTransition, Durables
<1>5. \A g \in Nat, b \in Boundaries : LogBoundary(d, g, b) \in Durables
  BY DEF LogBoundary, Durables
<1>6. ASSUME NEW a \in Attempts
      PROVE  LogAttempt(d, a) \in Durables
  <2>1. Overwrite(d.attempts, a) \in Seq(Attempts)
    BY OverwriteType DEF Durables
  <2> QED
    BY <2>1 DEF LogAttempt, Durables
<1>7. \A e \in Nat, b \in Nat : LogEpoch(d, e, b) \in Durables
  BY DEF LogEpoch, Durables
<1>8. \A f \in SUBSET Nat : LogFence(d, f) \in Durables
  BY DEF LogFence, Durables
<1> QED
  BY <1>1, <1>2, <1>3, <1>4, <1>5, <1>6, <1>7, <1>8

\* A commit that succeeds or fails leaves a well-formed state as well.
LEMMA CommitTypes ==
  ASSUME NEW d \in Durables, NEW e \in Durables
  PROVE  Committed(d, e) \subseteq Durables /\ NotCommitted(d, e) \subseteq Durables
<1>1. /\ Undecodable(d) \in Durables
      /\ \A t \in Tails : [d EXCEPT !.tail = t] \in Durables /\ [e EXCEPT !.tail = t] \in Durables
  BY DEF Undecodable, Durables
<1>2. "Cut" \in Tails /\ "Whole" \in Tails /\ d.tail \in Tails
  BY DEF Tails, Durables
<1>3. Committed(d, e) \subseteq Durables
  BY <1>1, <1>2 DEF Committed, Tails
<1>4. NotCommitted(d, e) \subseteq Durables
  BY <1>1, <1>2 DEF NotCommitted
<1> QED
  BY <1>3, <1>4

-----------------------------------------------------------------------------
(* Type correctness *)

LEMMA BoundTypes ==
  /\ MaxPolicy \in Nat /\ MaxTopology \in Nat /\ MaxApplierSequence \in Nat /\ Lease \in Nat
  /\ RetainedPlans \in Nat /\ RetainedAttempts \in Nat /\ RetainedTransitions \in Nat
  /\ ConfigPolicy \in Nat /\ ConfigTopology \in Nat
  BY BoundsAssumption, ConfigAssumption

LEMMA LoggedTypes ==
  ASSUME TypeOK, NEW e \in Durables, Commits(e) \/ CommitFails(e)
  PROVE  disk' \in Durables /\ faults' \in Nat
<1>1. disk \in Durables /\ faults \in Nat
  BY DEF TypeOK
<1> QED
  BY <1>1, CommitTypes DEF Commits, CommitFails

LEMMA InitialTypes ==
  /\ NoEvidence \in Evidences /\ NoBoundary \in Boundaries /\ DefaultBoundary \in Boundaries
  /\ \A g \in Nat, m \in SUBSET Resources : BoundaryOf(g, m) \in Boundaries
  /\ FreshDisk \in Durables
<1>1. NoEvidence \in Evidences
  BY DEF NoEvidence, Evidences, EvidenceStates
<1>2. /\ NoBoundary \in Boundaries /\ DefaultBoundary \in Boundaries
      /\ \A g \in Nat, m \in SUBSET Resources : BoundaryOf(g, m) \in Boundaries
  BY DEF NoBoundary, DefaultBoundary, BoundaryOf, Boundaries
<1>3. <<>> \in Seq(Plans) /\ <<>> \in Seq(Attempts) /\ <<>> \in Seq(Decisions)
  BY EmptySeq
<1>4. FreshDisk \in Durables
  BY <1>1, <1>2, <1>3 DEF FreshDisk, Durables, Tails
<1> QED
  BY <1>1, <1>2, <1>4

LEMMA TypeOKInit == Init => TypeOK
<1> SUFFICES ASSUME Init PROVE TypeOK
  OBVIOUS
<1>1. /\ <<>> \in Seq(Plans) /\ <<>> \in Seq(Attempts) /\ <<>> \in Seq(Decisions)
      /\ <<>> \in Seq(Authorizations)
  BY EmptySeq
<1>2. "NotRequested" \in EffectStates
  BY DEF EffectStates
<1> QED
  BY <1>1, <1>2, InitialTypes DEF Init, TypeOK

LEMMA TypeOKHalt ==
  ASSUME TypeOK, Halt, disk' \in Durables
  PROVE  TypeOK'
<1>1. /\ <<>> \in Seq(Plans) /\ <<>> \in Seq(Attempts) /\ <<>> \in Seq(Decisions)
      /\ <<>> \in Seq(Authorizations)
  BY EmptySeq
<1>2. "NotRequested" \in EffectStates
  BY DEF EffectStates
<1> QED
  BY <1>1, <1>2, InitialTypes DEF Halt, TypeOK

\* The state open() recovers, and the records it writes.
LEMMA RecoveredTypes ==
  ASSUME TypeOK
  PROVE  /\ recovered_policy \in Nat /\ recovered_topology \in Nat
         /\ recovered_fences \in SUBSET Nat /\ recovered_effect \in EffectStates
         /\ Found \in Durables /\ AfterTopology \in Durables /\ AfterPolicy \in Durables
         /\ AfterEpoch \in Durables /\ AfterFence \in Durables
<1>1. disk \in Durables
  BY DEF TypeOK
<1>2. /\ recovered_policy \in Nat /\ recovered_topology \in Nat
      /\ recovered_fences \in SUBSET Nat
  BY <1>1, BoundTypes, LargerType
  DEF recovered_policy, recovered_topology, recovered_fences, Durables
<1>3. recovered_effect \in EffectStates
  BY <1>1, RecomputeType DEF recovered_effect, Durables
<1>4. Found \in Durables
  BY <1>1 DEF Found, Durables, Tails
<1>5. AfterTopology \in Durables
  BY <1>2, <1>4, LogTypes DEF AfterTopology
<1>6. AfterPolicy \in Durables
  BY <1>2, <1>5, LogTypes DEF AfterPolicy
<1>7. disk.epoch + 1 \in Nat /\ boots + 1 \in Nat
  BY <1>1 DEF TypeOK, Durables
<1>8. AfterEpoch \in Durables
  BY <1>6, <1>7, LogTypes DEF AfterEpoch
<1>9. AfterFence \in Durables
  BY <1>2, <1>8, LogTypes DEF AfterFence
<1> QED
  BY <1>2, <1>3, <1>4, <1>5, <1>6, <1>8, <1>9

LEMMA TypeOKOpen ==
  ASSUME TypeOK, Open
  PROVE  TypeOK'
<1>1. disk \in Durables /\ boots \in Nat
  BY DEF TypeOK
<1>2. /\ disk.plans \in Seq(Plans) /\ disk.attempts \in Seq(Attempts)
      /\ disk.transitions \in Seq(Decisions)
  BY <1>1 DEF Durables
<1>3. /\ plans' \in Seq(Plans) /\ attempts' \in Seq(Attempts) /\ transitions' \in Seq(Decisions)
      /\ authorizations' \in Seq(Authorizations)
  BY <1>2, BoundTypes, EvictKeepsSuffix, FencedByRestartType, EmptySeq DEF Open, Recovered
<1>4. effect_state' \in EffectStates /\ effect_requires_reverification' \in BOOLEAN
  <2>1. "Ambiguous" \in EffectStates
    BY DEF EffectStates
  <2>2. RequiresReverification \in BOOLEAN
    BY DEF RequiresReverification
  <2> QED
    BY <2>1, <2>2, RecoveredTypes DEF Open, Recovered
<1>5. /\ epoch' \in Nat /\ boot' \in Nat /\ boots' \in Nat /\ evidence' \in Evidences
      /\ evidence_revision' \in Nat /\ evidence_confirmation' \in [Resources -> Nat]
      /\ plan_counter' \in Nat /\ transition_counter' \in Nat /\ attempt_counter' \in Nat
      /\ authorization_counter' \in Nat /\ boundary' \in Boundaries /\ boundary_plan' \in Nat
  <2>1. /\ disk.epoch \in Nat /\ disk.evidence \in Evidences /\ disk.evidence_revision \in Nat
        /\ disk.plan_counter \in Nat /\ disk.transition_counter \in Nat
        /\ disk.attempt_counter \in Nat /\ disk.authorization_counter \in Nat
        /\ disk.boundary \in Boundaries /\ disk.boundary_plan \in Nat
    BY <1>1 DEF Durables
  <2> QED
    BY <1>1, <2>1 DEF Open, Recovered
<1> QED
  BY <1>3, <1>4, <1>5, RecoveredTypes DEF Open, Recovered, TypeOK

LEMMA AuthorityType ==
  ASSUME TypeOK
  PROVE  current_authority \in Authorities
  BY DEF TypeOK, current_authority, Authorities

\* Fencing keeps the table.
LEMMA FencingType ==
  ASSUME TypeOK, NEW k \in Int
  PROVE  /\ Fencing(k) \in Seq(Authorizations) /\ Len(Fencing(k)) = Len(authorizations)
         /\ DOMAIN Fencing(k) = DOMAIN authorizations
         /\ \A i \in DOMAIN authorizations :
              /\ Fencing(k)[i].id = authorizations[i].id
              /\ Fencing(k)[i].authority = authorizations[i].authority
              /\ Fencing(k)[i].expires = authorizations[i].expires
              /\ authorizations[i].fenced => Fencing(k)[i].fenced
<1>1. authorizations \in Seq(Authorizations)
  BY DEF TypeOK
<1>2. DOMAIN authorizations = 1..Len(authorizations) /\ Len(authorizations) \in Nat
  BY <1>1
<1>3. \A i \in 1..Len(authorizations) : authorizations[i] \in Authorizations
  BY <1>1, ElementOfSeq
<1>4. ASSUME NEW i \in 1..Len(authorizations)
      PROVE  /\ Fencing(k)[i] \in Authorizations
             /\ Fencing(k)[i].id = authorizations[i].id
             /\ Fencing(k)[i].authority = authorizations[i].authority
             /\ Fencing(k)[i].expires = authorizations[i].expires
             /\ authorizations[i].fenced => Fencing(k)[i].fenced
  <2> DEFINE a == authorizations[i]
             v == a.fenced \/ (i = k /\ ~Usable(a))
  <2>1. a \in Authorizations /\ v \in BOOLEAN
    BY <1>3
  <2>2. Fencing(k)[i] = [a EXCEPT !.fenced = v]
    BY <1>2 DEF Fencing
  <2> HIDE DEF a, v
  <2>3. /\ [a EXCEPT !.fenced = v] \in Authorizations
        /\ [a EXCEPT !.fenced = v].id = a.id
        /\ [a EXCEPT !.fenced = v].authority = a.authority
        /\ [a EXCEPT !.fenced = v].expires = a.expires
        /\ [a EXCEPT !.fenced = v].fenced = v
    BY <2>1 DEF Authorizations
  <2> QED
    BY <2>2, <2>3 DEF a, v
<1>5. Fencing(k) \in [1..Len(authorizations) -> Authorizations]
  BY <1>2, <1>4 DEF Fencing
<1> QED
  BY <1>2, <1>4, <1>5, SegmentIsSeq

LEMMA IngestionTypes ==
  ASSUME TypeOK, NEW o \in Observation
  PROVE  /\ o.resource \in Resources /\ o.generation \in Nat /\ o.state \in EvidenceStates
         /\ Merge(evidence, o) \in Evidences
         /\ [evidence_confirmation EXCEPT ![o.resource] = boot] \in [Resources -> Nat]
<1>1. o.resource \in Resources /\ o.generation \in Nat /\ o.state \in EvidenceStates
  BY ConfigAssumption, BoundsAssumption DEF Observation
<1> QED
  BY <1>1 DEF TypeOK, Merge, Evidences

\* The plans plan() can retain.
LEMMA PlanType ==
  ASSUME TypeOK, NEW c \in PlanResults(plan_counter + 1)
  PROVE  NewPlan(c) \in Plans
<1>1. plan_counter + 1 \in Nat /\ {} \in SUBSET Resources
  BY DEF TypeOK
<1>2. \A s \in Solutions : SolutionBoundary(s, plan_counter + 1) \in Boundaries
  <2> SUFFICES ASSUME NEW s \in Solutions
               PROVE  SolutionBoundary(s, plan_counter + 1) \in Boundaries
    OBVIOUS
  <2>1. s.members \in SUBSET Resources
    BY SolutionsAssumption DEF SolutionSet
  <2> QED
    BY <1>1, <2>1, InitialTypes DEF SolutionBoundary
<1>3. \A s \in Solutions : SolutionClaim(s) \in Claims
  BY DEF SolutionClaim, Claims
<1>4. c.boundary \in Boundaries /\ c.claim \in Claims
  <2>1. CASE Failed = {}
    BY <1>1, <2>1, InitialTypes DEF PlanResults, Claims
  <2>2. CASE Failed # {} /\ Sources = {}
    BY <1>1, <2>2, InitialTypes DEF PlanResults, Claims
  <2>3. CASE Failed # {} /\ Sources # {}
    <3>1. PICK s \in Solutions :
            c = [boundary |-> SolutionBoundary(s, plan_counter + 1), claim |-> SolutionClaim(s)]
      BY <2>3 DEF PlanResults
    <3> QED
      BY <1>2, <1>3, <3>1
  <2> QED
    BY <2>1, <2>2, <2>3
<1>5. (IF evidence_conflict THEN "Indeterminate" ELSE c.claim) \in Claims
  BY <1>4 DEF Claims
<1> QED
  BY <1>1, <1>4, <1>5 DEF NewPlan, Plans

LEMMA TypeOKPlan ==
  ASSUME TypeOK, Plan
  PROVE  TypeOK'
<1>1. PICK c \in PlanResults(plan_counter + 1) :
        \/ /\ Commits(LogPlan(disk, NewPlan(c)))
           /\ plan_counter' = plan_counter + 1
           /\ plans' = Evict(Append(plans, NewPlan(c)), RetainedPlans)
        \/ CommitFails(LogPlan(disk, NewPlan(c))) /\ UNCHANGED <<plan_counter, plans>>
  BY DEF Plan
<1>2. NewPlan(c) \in Plans
  BY PlanType
<1>3. disk' \in Durables /\ faults' \in Nat
  <2>1. LogPlan(disk, NewPlan(c)) \in Durables
    BY <1>2, LogTypes DEF TypeOK
  <2> QED
    BY <1>1, <2>1, LoggedTypes
<1>4. plans' \in Seq(Plans)
  BY <1>1, <1>2, PushType, BoundTypes DEF TypeOK
<1>5. plan_counter' \in Nat
  BY <1>1 DEF TypeOK
<1>6. UNCHANGED <<identity, definitions, evidences, intent, transition_counter, attempt_counter,
                   authorization_counter, attempts, transitions, authorizations, fenced_boots, now,
                   boots, checkpoints>>
  BY DEF Plan
<1> QED
  BY <1>3, <1>4, <1>5, <1>6 DEF TypeOK, identity, definitions, evidences, intent

LEMMA LeaseTypes ==
  ASSUME TypeOK, NEW n \in 0..Len(authorizations)
  PROVE  /\ Leased \in Authorizations
         /\ Live(n) \in Seq(Authorizations) /\ Len(Live(n)) = Len(authorizations) - n
         /\ \A i \in 1..(Len(authorizations) - n) : Live(n)[i] = authorizations[n + i]
         /\ Issue(n) \in Seq(Authorizations) /\ Len(Issue(n)) = Len(authorizations) - n + 1
         /\ \A i \in 1..(Len(authorizations) - n) : Issue(n)[i] = authorizations[n + i]
         /\ Issue(n)[Len(authorizations) - n + 1] = Leased
<1>1. authorizations \in Seq(Authorizations) /\ Len(authorizations) \in Nat
  BY DEF TypeOK
<1>2. Leased \in Authorizations
  <2>1. authorization_counter + 1 \in Nat /\ now + Lease \in Nat
    BY BoundTypes DEF TypeOK
  <2> QED
    BY <2>1, AuthorityType DEF Leased, Authorizations
<1>3. \A i \in (n + 1)..Len(authorizations) : authorizations[i] \in Authorizations
  BY <1>1, ElementOfSeq
<1>4. /\ Live(n) \in Seq(Authorizations)
      /\ Len(Live(n)) = IF n + 1 <= Len(authorizations) THEN Len(authorizations) - (n + 1) + 1 ELSE 0
      /\ \A i \in 1..(Len(authorizations) - (n + 1) + 1) : Live(n)[i] = authorizations[(n + 1) + i - 1]
  BY <1>1, <1>3, SubSeqProperties DEF Live
<1>5. /\ Len(Live(n)) = Len(authorizations) - n
      /\ \A i \in 1..(Len(authorizations) - n) : Live(n)[i] = authorizations[n + i]
  <2>1. Len(Live(n)) = Len(authorizations) - n
    BY <1>1, <1>4
  <2>2. ASSUME NEW i \in 1..(Len(authorizations) - n)
        PROVE  Live(n)[i] = authorizations[n + i]
    <3>1. i \in 1..(Len(authorizations) - (n + 1) + 1) /\ (n + 1) + i - 1 = n + i
      BY <1>1
    <3>2. Live(n)[i] = authorizations[(n + 1) + i - 1]
      BY <1>4, <3>1
    <3> QED
      BY <3>1, <3>2
  <2> QED
    BY <2>1, <2>2
<1>6. /\ Issue(n) \in Seq(Authorizations) /\ Len(Issue(n)) = Len(Live(n)) + 1
      /\ \A i \in 1..Len(Live(n)) : Issue(n)[i] = Live(n)[i]
      /\ Issue(n)[Len(Live(n)) + 1] = Leased
  BY <1>2, <1>4, AppendProperties DEF Issue
<1> QED
  BY <1>2, <1>4, <1>5, <1>6

LEMMA EntryTypes ==
  ASSUME TypeOK
  PROVE  /\ \A i \in DOMAIN plans : /\ plans[i] \in Plans /\ plans[i].generation \in Nat
                                    /\ plans[i].boundary \in Boundaries
         /\ \A i \in DOMAIN attempts : attempts[i] \in Attempts
<1>1. plans \in Seq(Plans) /\ attempts \in Seq(Attempts)
  BY DEF TypeOK
<1>2. \A i \in DOMAIN plans : plans[i] \in Plans
  BY <1>1, ElementOfSeq
<1>3. \A i \in DOMAIN attempts : attempts[i] \in Attempts
  BY <1>1, ElementOfSeq
<1> QED
  BY <1>2, <1>3 DEF Plans

LEMMA DecisionTypes ==
  ASSUME TypeOK, NEW i \in DOMAIN plans, NEW k \in Kinds
  PROVE  /\ plans[i] \in Plans /\ plans[i].generation \in Nat /\ plans[i].boundary \in Boundaries
         /\ Decided(k, plans[i]) \in Decisions /\ Decided(k, plans[i]).to \in Boundaries
<1>1. plans[i] \in Plans
  BY ElementOfSeq DEF TypeOK
<1>2. plans[i].generation \in Nat /\ plans[i].boundary \in Boundaries
  BY <1>1 DEF Plans
<1>3. (IF k = "Release" THEN NoBoundary ELSE plans[i].boundary) \in Boundaries
  BY <1>2, InitialTypes
<1>4. transition_counter + 1 \in Nat
  BY DEF TypeOK
<1> QED
  BY <1>1, <1>2, <1>3, <1>4 DEF Decided, Decisions

LEMMA RefusedType ==
  ASSUME TypeOK
  PROVE  Refused \in Decisions
  BY InitialTypes DEF TypeOK, Refused, Decisions

LEMMA TypeOKAcceptTransition ==
  ASSUME TypeOK, NEW a \in DOMAIN authorizations, NEW i \in DOMAIN plans, NEW k \in Kinds,
         AcceptTransition(a, i, k)
  PROVE  TypeOK'
<1> DEFINE t == Decided(k, plans[i])
           InForceOn(d) == LogBoundary(d, plans[i].generation, t.to)
<1>1. t \in Decisions /\ t.to \in Boundaries /\ plans[i].generation \in Nat
  BY DecisionTypes
<1>2. disk \in Durables /\ LogTransition(disk, t) \in Durables
  BY <1>1, LogTypes DEF TypeOK
<1>3. ASSUME NEW d \in Durables
      PROVE  InForceOn(d) \in Durables
  BY <1>1, LogTypes
<1>4. /\ "NotRequested" \in EffectStates /\ transition_counter + 1 \in Nat /\ faults + 1 \in Nat
      /\ Evict(Append(transitions, t), RetainedTransitions) \in Seq(Decisions)
  <2>1. "NotRequested" \in EffectStates
    BY DEF EffectStates
  <2>2. transition_counter + 1 \in Nat /\ transitions \in Seq(Decisions) /\ faults + 1 \in Nat
    BY DEF TypeOK
  <2> HIDE DEF t
  <2> QED
    BY <1>1, <2>1, <2>2, PushType, BoundTypes
<1>5. \/ \E decided \in Committed(disk, LogTransition(disk, t)) :
           \/ /\ disk' \in Committed(decided, InForceOn(decided))
              /\ boundary' = t.to /\ boundary_plan' = plans[i].generation
              /\ ResetEffect
              /\ transition_counter' = transition_counter + 1
              /\ transitions' = Evict(Append(transitions, t), RetainedTransitions)
              /\ UNCHANGED <<identity, definitions, evidences, plan_counter, attempt_counter,
                             authorization_counter, plans, attempts, authorizations, fenced_boots,
                             now, boots, faults, checkpoints>>
           \/ disk' = decided /\ Halt
           \/ /\ faults' = faults + 1 /\ disk' \in NotCommitted(decided, InForceOn(decided))
              /\ OnlyTransitionCounted
      \/ CommitFails(LogTransition(disk, t)) /\ OnlyTransitionCounted
  BY DEF AcceptTransition
<1> HIDE DEF t, InForceOn
<1>6. CASE CommitFails(LogTransition(disk, t)) /\ OnlyTransitionCounted
  <2>1. disk' \in Durables /\ faults' \in Nat
    BY <1>2, <1>6, LoggedTypes
  <2> QED
    BY <1>4, <1>6, <2>1 DEF OnlyTransitionCounted, TypeOK, identity, definitions, evidences, intent, tables
<1>7. ASSUME NEW decided \in Committed(disk, LogTransition(disk, t)), disk' = decided /\ Halt
      PROVE  TypeOK'
  BY <1>2, <1>7, CommitTypes, TypeOKHalt
<1>8. ASSUME NEW decided \in Committed(disk, LogTransition(disk, t)),
             disk' \in Committed(decided, InForceOn(decided)),
             boundary' = t.to, boundary_plan' = plans[i].generation, ResetEffect,
             transition_counter' = transition_counter + 1,
             transitions' = Evict(Append(transitions, t), RetainedTransitions),
             UNCHANGED <<identity, definitions, evidences, plan_counter, attempt_counter,
                         authorization_counter, plans, attempts, authorizations, fenced_boots,
                         now, boots, faults, checkpoints>>
      PROVE  TypeOK'
  <2>1. disk' \in Durables
    <3>1. decided \in Durables
      BY <1>2, CommitTypes
    <3> QED
      BY <1>3, <1>8, <3>1, CommitTypes
  <2>2. boundary' \in Boundaries /\ boundary_plan' \in Nat
    BY <1>1, <1>8
  <2>3. /\ effect_state' \in EffectStates /\ effect_requires_reverification' \in BOOLEAN
        /\ transition_counter' \in Nat /\ transitions' \in Seq(Decisions)
    BY <1>4, <1>8 DEF ResetEffect
  <2> QED
    BY <1>8, <2>1, <2>2, <2>3 DEF TypeOK, identity, definitions, evidences
<1>9. ASSUME NEW decided \in Committed(disk, LogTransition(disk, t)),
             faults' = faults + 1, disk' \in NotCommitted(decided, InForceOn(decided)),
             OnlyTransitionCounted
      PROVE  TypeOK'
  <2>1. disk' \in Durables
    <3>1. decided \in Durables
      BY <1>2, CommitTypes
    <3> QED
      BY <1>3, <1>9, <3>1, CommitTypes
  <2> QED
    BY <1>4, <1>9, <2>1 DEF OnlyTransitionCounted, TypeOK, identity, definitions, evidences, intent, tables
<1> QED
  BY <1>5, <1>6, <1>7, <1>8, <1>9

LEMMA AttemptTypes ==
  ASSUME TypeOK, NEW i \in DOMAIN attempts, NEW st \in EffectStates, NEW s \in Nat
  PROVE  /\ attempts[i] \in Attempts
         /\ [attempts[i] EXCEPT !.state = st] \in Attempts
         /\ [attempts[i] EXCEPT !.state = st].state = st
         /\ [attempts[i] EXCEPT !.state = st, !.applier_sequence = s] \in Attempts
         /\ [attempts[i] EXCEPT !.state = st, !.applier_sequence = s].state = st
<1>1. attempts[i] \in Attempts
  BY ElementOfSeq DEF TypeOK
<1> QED
  BY <1>1 DEF Attempts

\* Replacing an entry of the attempt table by an attempt leaves an attempt table.
LEMMA ReplaceAttempt ==
  ASSUME NEW table \in Seq(Attempts), NEW i \in DOMAIN table, NEW t \in Attempts
  PROVE  [table EXCEPT ![i] = t] \in Seq(Attempts)
  BY ExceptSeq

\* Whatever the enforcement plane reports, the attempt, its record and the recomputed
\* effect state are well formed.
LEMMA TypeOKComplete ==
  ASSUME TypeOK, NEW i \in DOMAIN attempts, NEW t \in Attempts,
         Commits(LogAttempt(disk, t)) \/ CommitFails(LogAttempt(disk, t)),
         attempts' = [attempts EXCEPT ![i] = t],
         boundary' \in Boundaries, boundary_plan' \in Nat,
         effect_state' \in EffectStates, effect_requires_reverification' \in BOOLEAN,
         UNCHANGED <<identity, definitions, evidences, counters, plans, transitions, authorizations,
                     fenced_boots, now, boots, checkpoints>>
  PROVE  TypeOK'
<1>1. disk' \in Durables /\ faults' \in Nat
  <2>1. LogAttempt(disk, t) \in Durables
    BY LogTypes DEF TypeOK
  <2> QED
    BY <2>1, LoggedTypes
<1>2. attempts' \in Seq(Attempts)
  <2>1. attempts \in Seq(Attempts)
    BY DEF TypeOK
  <2> QED
    BY <2>1, ReplaceAttempt
<1> QED
  BY <1>1, <1>2 DEF TypeOK, identity, definitions, evidences, counters

LEMMA ObservedType ==
  ASSUME NEW observation \in Observations, NEW matches \in BOOLEAN
  PROVE  Observed(observation, matches) \in EffectStates
  BY DEF Observed, Observations, EffectStates

LEMMA TypeOKReport ==
  ASSUME TypeOK, Report
  PROVE  TypeOK'
<1>1. PICK i \in DOMAIN attempts, s \in 1..MaxApplierSequence :
        \/ AcknowledgeMismatch(i, s)
        \/ \E accepted \in BOOLEAN : Acknowledge(i, s, accepted)
        \/ \E observation \in Observations, matches \in BOOLEAN :
             VerifyEffect(i, s, observation, matches)
  BY DEF Report
<1>2. s \in Nat
  BY BoundTypes DEF TypeOK
<1>3. \A t \in Attempts : [attempts EXCEPT ![i] = t] \in Seq(Attempts)
  <2>1. attempts \in Seq(Attempts)
    BY DEF TypeOK
  <2> QED
    BY <2>1, ReplaceAttempt
<1>4. /\ boundary \in Boundaries /\ boundary_plan \in Nat /\ effect_state \in EffectStates
      /\ effect_requires_reverification \in BOOLEAN
  BY DEF TypeOK
<1>5. CASE AcknowledgeMismatch(i, s)
  <2> DEFINE t == [attempts[i] EXCEPT !.state = "Ambiguous"]
  <2>1. t \in Attempts
    BY <1>2, AttemptTypes DEF EffectStates
  <2>2. Complete(i, t, UNCHANGED intent)
    BY <1>5 DEF AcknowledgeMismatch
  <2> HIDE DEF t
  <2> QED
    BY <1>2, <1>4, <2>1, <2>2, TypeOKComplete DEF Complete, intent
<1>6. ASSUME NEW accepted \in BOOLEAN, Acknowledge(i, s, accepted)
      PROVE  TypeOK'
  <2> DEFINE t == [attempts[i] EXCEPT !.state = IF accepted THEN "Acknowledged" ELSE "Failed",
                                      !.applier_sequence = s]
             effect == Recompute(effect_requires_reverification, boundary, boundary_plan,
                                 [attempts EXCEPT ![i] = t])
  <2>1. t \in Attempts
    <3>1. (IF accepted THEN "Acknowledged" ELSE "Failed") \in EffectStates
      BY DEF EffectStates
    <3> QED
      BY <1>2, <3>1, AttemptTypes
  <2>2. effect \in EffectStates
    <3> HIDE DEF t
    <3> QED BY <1>3, <1>4, <2>1, RecomputeType
  <2>3. Complete(i, t, /\ effect_state' = effect
                       /\ UNCHANGED <<boundary, boundary_plan, effect_requires_reverification>>)
    BY <1>6 DEF Acknowledge
  <2> HIDE DEF t, effect
  <2> QED
    BY <1>2, <1>4, <2>1, <2>2, <2>3, TypeOKComplete DEF Complete, intent
<1>7. ASSUME NEW observation \in Observations, NEW matches \in BOOLEAN,
             VerifyEffect(i, s, observation, matches)
      PROVE  TypeOK'
  <2> DEFINE t == [attempts[i] EXCEPT !.state = Observed(observation, matches), !.applier_sequence = s]
             reverify == effect_requires_reverification /\ t.state \notin Verified
             effect == Recompute(reverify, boundary', boundary_plan', [attempts EXCEPT ![i] = t])
  <2>1. t \in Attempts
    BY <1>2, ObservedType, AttemptTypes
  <2>2. reverify \in BOOLEAN
    OBVIOUS
  <2>3. Complete(i, t, /\ Adopt(t)
                       /\ effect_requires_reverification' = reverify
                       /\ effect_state' = effect)
    BY <1>7 DEF VerifyEffect
  <2>4. Adopt(t) => boundary' \in Boundaries /\ boundary_plan' \in Nat
    <3> HIDE DEF t
    <3>1. \A j \in DOMAIN plans : plans[j].boundary \in Boundaries /\ plans[j].generation \in Nat
      <4>1. \A j \in DOMAIN plans : plans[j] \in Plans
        BY ElementOfSeq DEF TypeOK
      <4> QED
        BY <4>1 DEF Plans
    <3> QED
      BY <1>4, <3>1 DEF Adopt
  <2>5. boundary_plan' \in Nat => effect \in EffectStates
    <3> HIDE DEF t, reverify
    <3> QED BY <1>3, <2>1, <2>2, RecomputeType
  <2> HIDE DEF t, reverify, effect
  <2> QED
    BY <1>2, <1>4, <2>1, <2>2, <2>3, <2>4, <2>5, TypeOKComplete DEF Complete, intent
<1> QED
  BY <1>1, <1>5, <1>6, <1>7

LEMMA TypeOKSubmit ==
  ASSUME TypeOK, Submit
  PROVE  TypeOK'
<1>1. PICK a \in DOMAIN authorizations, i \in DOMAIN plans : SubmitApply(a, i)
  BY DEF Submit
<1> DEFINE t == NewAttempt(plans[i])
<1>2. t \in Attempts
  <2>1. plans[i] \in Plans
    BY ElementOfSeq DEF TypeOK
  <2>2. plans[i].generation \in Nat /\ plans[i].boundary \in Boundaries
    BY <2>1 DEF Plans
  <2> QED
    BY <2>2 DEF TypeOK, NewAttempt, Attempts, EffectStates
<1>3. /\ attempt_counter + 1 \in Nat /\ "Submitted" \in EffectStates
      /\ attempts \in Seq(Attempts) /\ disk \in Durables
  BY DEF TypeOK, EffectStates
<1>4. \/ /\ Commits(LogAttempt(disk, t))
         /\ attempt_counter' = attempt_counter + 1
         /\ attempts' = Evict(Append(attempts, t), RetainedAttempts)
         /\ effect_state' = "Submitted"
         /\ UNCHANGED <<identity, definitions, evidences, boundary, boundary_plan,
                        effect_requires_reverification, plan_counter, transition_counter,
                        authorization_counter, plans, transitions, authorizations, fenced_boots,
                        now, boots, checkpoints>>
      \/ /\ CommitFails(LogAttempt(disk, t))
         /\ attempt_counter' = attempt_counter + 1
         /\ UNCHANGED <<identity, definitions, evidences, intent, plan_counter, transition_counter,
                        authorization_counter, tables, now, boots, checkpoints>>
  BY <1>1 DEF SubmitApply
<1> HIDE DEF t
<1>5. LogAttempt(disk, t) \in Durables /\ Evict(Append(attempts, t), RetainedAttempts) \in Seq(Attempts)
  BY <1>2, <1>3, LogTypes, PushType, BoundTypes
<1>6. disk' \in Durables /\ faults' \in Nat
  BY <1>4, <1>5, LoggedTypes
<1> QED
  BY <1>3, <1>4, <1>5, <1>6 DEF TypeOK, identity, definitions, evidences, intent, tables

LEMMA TypeOKTransition ==
  ASSUME TypeOK, Transition
  PROVE  TypeOK'
<1>1. ASSUME NEW a \in DOMAIN authorizations, NEW i \in DOMAIN plans, NEW k \in Kinds,
             AcceptTransition(a, i, k)
      PROVE  TypeOK'
  BY <1>1, TypeOKAcceptTransition
<1>2. ASSUME NEW a \in 0..Len(authorizations), RefuseTransition(a) \/ RefusalLost(a)
      PROVE  TypeOK'
  <2>1. Fencing(a) \in Seq(Authorizations)
    BY FencingType
  <2>2. /\ LogTransition(disk, Refused) \in Durables
        /\ Evict(Append(transitions, Refused), RetainedTransitions) \in Seq(Decisions)
        /\ transition_counter + 1 \in Nat
    <3>1. /\ disk \in Durables /\ transitions \in Seq(Decisions)
          /\ transition_counter + 1 \in Nat
      BY DEF TypeOK
    <3> QED
      BY <3>1, RefusedType, LogTypes, PushType, BoundTypes
  <2>3. disk' \in Durables /\ faults' \in Nat
    BY <1>2, <2>2, LoggedTypes DEF RefuseTransition, RefusalLost
  <2> QED
    BY <1>2, <2>1, <2>2, <2>3
    DEF TypeOK, RefuseTransition, RefusalLost, identity, definitions, evidences, intent
<1> QED
  BY <1>1, <1>2 DEF Transition

LEMMA TypeOKNext == TypeOK /\ [Next]_vars => TypeOK'
<1> SUFFICES ASSUME TypeOK, [Next]_vars PROVE TypeOK'
  OBVIOUS
<1>1. CASE Open
  BY <1>1, TypeOKOpen
<1>2. CASE OpenCrashes
  <2>1. disk' \in Durables /\ boots' \in Nat
    BY <1>2, RecoveredTypes DEF OpenCrashes, TypeOK
  <2> QED
    BY <1>2, <2>1 DEF OpenCrashes, TypeOK, identity, definitions, evidences, intent, counters, tables
<1>3. CASE Stop
  BY <1>3, TypeOKHalt DEF Stop, TypeOK
<1>4. CASE Tick
  BY <1>4 DEF Tick, TypeOK, identity, definitions, evidences, intent, counters, tables
<1>5. CASE ApplyTopology \/ ApplyPolicy
  <2>1. disk' \in Durables /\ faults' \in Nat /\ policy' \in Nat /\ topology' \in Nat
    <3>1. /\ disk \in Durables /\ policy \in Nat /\ topology \in Nat
          /\ 1..MaxTopology \subseteq Nat /\ 1..MaxPolicy \subseteq Nat
      BY BoundTypes DEF TypeOK
    <3>2. \A g \in Nat : LogTopology(disk, g) \in Durables /\ LogPolicy(disk, g) \in Durables
      BY <3>1, LogTypes
    <3> QED
      BY <1>5, <3>1, <3>2, LoggedTypes DEF ApplyTopology, ApplyPolicy
  <2> QED
    BY <1>5, <2>1 DEF ApplyTopology, ApplyPolicy, TypeOK, identity, evidences, intent, counters, tables
<1>6. CASE Detect
  <2>1. PICK o \in Observation :
          RecordDetection(o) \/ ReconfirmDetection(o) \/ ConflictingDetection(o)
    BY <1>6 DEF Detect
  <2>2. /\ disk' \in Durables /\ faults' \in Nat
        /\ evidence' \in Evidences /\ evidence_revision' \in Nat
        /\ evidence_conflict' \in BOOLEAN /\ evidence_confirmation' \in [Resources -> Nat]
    <3>1. /\ disk \in Durables /\ evidence \in Evidences /\ evidence_revision \in Nat
          /\ evidence_conflict \in BOOLEAN /\ evidence_confirmation \in [Resources -> Nat]
          /\ faults \in Nat
      BY DEF TypeOK
    <3>2. /\ LogDetection(disk, o) \in Durables /\ Merge(evidence, o) \in Evidences
          /\ [evidence_confirmation EXCEPT ![o.resource] = boot] \in [Resources -> Nat]
      BY <3>1, IngestionTypes, LogTypes
    <3>3. CASE RecordDetection(o)
      <4>1. \/ /\ Commits(LogDetection(disk, o)) /\ evidence' = Merge(evidence, o)
               /\ evidence_revision' = evidence_revision + 1 /\ evidence_conflict' = FALSE
               /\ evidence_confirmation' = [evidence_confirmation EXCEPT ![o.resource] = boot]
            \/ CommitFails(LogDetection(disk, o)) /\ UNCHANGED evidences
        BY <3>3 DEF RecordDetection
      <4>2. disk' \in Durables /\ faults' \in Nat
        BY <3>2, <4>1, LoggedTypes
      <4>3. evidence' \in Evidences /\ evidence_revision' \in Nat
        BY <3>1, <3>2, <4>1 DEF evidences
      <4>4. evidence_conflict' \in BOOLEAN
        BY <3>1, <4>1 DEF evidences
      <4>5. evidence_confirmation' \in [Resources -> Nat]
        BY <3>1, <3>2, <4>1 DEF evidences
      <4> QED
        BY <4>2, <4>3, <4>4, <4>5
    <3>4. CASE ReconfirmDetection(o)
      BY <3>1, <3>2, <3>4 DEF ReconfirmDetection
    <3>5. CASE ConflictingDetection(o)
      BY <3>1, <3>5 DEF ConflictingDetection
    <3> QED
      BY <2>1, <3>3, <3>4, <3>5
  <2> QED
    BY <2>1, <2>2 DEF TypeOK, RecordDetection, ReconfirmDetection, ConflictingDetection,
       identity, definitions, intent, counters, tables
<1>7. CASE Authorize
  <2>1. authorizations' \in Seq(Authorizations) /\ authorization_counter' \in Nat
    <3>1. authorization_counter + 1 \in Nat
      BY DEF TypeOK
    <3> QED
      BY <1>7, <3>1, LeaseTypes DEF Authorize
  <2> QED
    BY <1>7, <2>1 DEF Authorize, TypeOK, identity, definitions, evidences, intent
<1>8. CASE PresentStale
  <2>1. authorizations' \in Seq(Authorizations)
    <3>1. PICK k \in DOMAIN authorizations : PresentStaleAuthorization(k)
      BY <1>8 DEF PresentStale
    <3>2. k \in Int
      BY DEF TypeOK
    <3> QED
      BY <3>1, <3>2, FencingType DEF PresentStaleAuthorization
  <2> QED
    BY <1>8, <2>1 DEF PresentStale, PresentStaleAuthorization, TypeOK,
       identity, definitions, evidences, intent, counters
<1>9. CASE Plan
  BY <1>9, TypeOKPlan
<1>10. CASE Transition
  BY <1>10, TypeOKTransition
<1>11. CASE Submit
  BY <1>11, TypeOKSubmit
<1>12. CASE Report
  BY <1>12, TypeOKReport
<1>13. CASE Checkpoint
  <2>1. disk' \in Durables /\ checkpoints' \in Nat
    <3>1. Snapshot.readable \in BOOLEAN
      BY DEF Snapshot
    <3>2. Snapshot \in Durables
      BY <3>1 DEF TypeOK, Snapshot, Durables, Tails
    <3> QED
      BY <1>13, <3>2 DEF Checkpoint, TypeOK
  <2> QED
    BY <1>13, <2>1 DEF Checkpoint, TypeOK, identity, definitions, evidences, intent, counters, tables
<1>14. CASE UNCHANGED vars
  BY <1>14 DEF vars, TypeOK, identity, definitions, evidences, intent, counters, tables
<1> QED
  BY <1>1, <1>2, <1>3, <1>4, <1>5, <1>6, <1>7, <1>8, <1>9, <1>10, <1>11, <1>12, <1>13, <1>14
  DEF Next

\* The runtime and what its store replays to are well formed at all times: every operation,
\* failed commit, crash and recovery preserves the types.
THEOREM TypeCorrect == Spec => []TypeOK
<1> QED
  BY TypeOKInit, TypeOKNext, PTL DEF Spec

(***************************************************************************)
(* II.  Safety: the inductive invariant that carries the safety properties, *)
(* and the theorems it yields                                              *)
(***************************************************************************)

-----------------------------------------------------------------------------
(* The inductive invariant *)

\* Every plan a table holds carries a boundary, and in a readable store each of them decodes.
CarryBoundaries(table) == \A i \in DOMAIN table : table[i].boundary.present
AllDecodable(table) == \A i \in DOMAIN table : Decodable(table[i].boundary)

\* No incarnation is ahead of the epoch on disk.
EpochOnDisk == epoch <= disk.epoch
PlansCarryBoundaries == CarryBoundaries(plans) /\ CarryBoundaries(disk.plans)
\* A boundary that cannot be read back is in memory only once the store is lost anyway, or
\* once a failed commit keeps the store from following the memory.
DecodableOnDisk ==
  disk.readable => AllDecodable(disk.plans) /\ (disk.boundary.present => Decodable(disk.boundary))
DecodableInMemory ==
  up /\ disk.readable /\ disk.tail = "Clean" =>
    AllDecodable(plans) /\ (boundary.present => Decodable(boundary))

SafetyInvariant ==
  /\ TypeOK
  /\ EpochOnDisk /\ InFlightIsOurs
  /\ PlansCarryBoundaries /\ DecodableOnDisk /\ DecodableInMemory /\ ScopeIsDurable
  /\ InputsAreDurable

-----------------------------------------------------------------------------
(* What each record leaves alone *)

\* The fields the invariant reads; a record changes few of them.
Scope(d) == <<d.readable, d.tail, d.boundary, d.plans>>
Inputs(d) == <<d.policy, d.topology, d.evidence>>

LEMMA LogTopologyFields ==
  ASSUME NEW d \in Durables, NEW g \in Nat
  PROVE  /\ LogTopology(d, g).topology = Larger(d.topology, g)
         /\ LogTopology(d, g).policy = d.policy /\ LogTopology(d, g).evidence = d.evidence
         /\ LogTopology(d, g).epoch = d.epoch /\ Scope(LogTopology(d, g)) = Scope(d)
  BY DEF LogTopology, Scope, Durables

LEMMA LogPolicyFields ==
  ASSUME NEW d \in Durables, NEW g \in Nat
  PROVE  /\ LogPolicy(d, g).policy = Larger(d.policy, g)
         /\ LogPolicy(d, g).topology = d.topology /\ LogPolicy(d, g).evidence = d.evidence
         /\ LogPolicy(d, g).epoch = d.epoch /\ Scope(LogPolicy(d, g)) = Scope(d)
  BY DEF LogPolicy, Scope, Durables

LEMMA LogDetectionFields ==
  ASSUME NEW d \in Durables, NEW o \in Observation
  PROVE  /\ LogDetection(d, o).evidence =
              IF Accepts(d.evidence, o) THEN Merge(d.evidence, o) ELSE d.evidence
         /\ LogDetection(d, o).policy = d.policy /\ LogDetection(d, o).topology = d.topology
         /\ LogDetection(d, o).epoch = d.epoch /\ Scope(LogDetection(d, o)) = Scope(d)
  BY DEF LogDetection, Scope, Durables

LEMMA LogPlanFields ==
  ASSUME NEW d \in Durables, NEW p \in Plans
  PROVE  /\ LogPlan(d, p).plans = Append(d.plans, p)
         /\ LogPlan(d, p).readable = (d.readable /\ Decodable(p.boundary))
         /\ LogPlan(d, p).boundary = d.boundary /\ LogPlan(d, p).tail = d.tail
         /\ LogPlan(d, p).epoch = d.epoch /\ Inputs(LogPlan(d, p)) = Inputs(d)
  BY DEF LogPlan, Inputs, Durables

LEMMA LogTransitionFields ==
  ASSUME NEW d \in Durables, NEW t \in Decisions
  PROVE  /\ LogTransition(d, t).epoch = d.epoch /\ Inputs(LogTransition(d, t)) = Inputs(d)
         /\ Scope(LogTransition(d, t)) = Scope(d)
         /\ LogTransition(d, t).transitions = Append(d.transitions, t)
  BY DEF LogTransition, Scope, Inputs, Durables

LEMMA LogBoundaryFields ==
  ASSUME NEW d \in Durables, NEW g \in Nat, NEW b \in Boundaries
  PROVE  /\ LogBoundary(d, g, b).boundary = IF b.present /\ ~Decodable(b) THEN d.boundary ELSE b
         /\ LogBoundary(d, g, b).plans = d.plans /\ LogBoundary(d, g, b).readable = d.readable
         /\ LogBoundary(d, g, b).tail = d.tail
         /\ LogBoundary(d, g, b).transitions = d.transitions
         /\ LogBoundary(d, g, b).epoch = d.epoch /\ Inputs(LogBoundary(d, g, b)) = Inputs(d)
  BY DEF LogBoundary, Inputs, Durables

LEMMA LogAttemptFields ==
  ASSUME NEW d \in Durables, NEW a \in Attempts
  PROVE  /\ LogAttempt(d, a).epoch = d.epoch /\ Inputs(LogAttempt(d, a)) = Inputs(d)
         /\ Scope(LogAttempt(d, a)) = Scope(d)
  BY DEF LogAttempt, Scope, Inputs, Durables

LEMMA LogEpochFields ==
  ASSUME NEW d \in Durables, NEW e \in Nat, NEW b \in Nat
  PROVE  /\ LogEpoch(d, e, b).epoch = Larger(d.epoch, e)
         /\ Inputs(LogEpoch(d, e, b)) = Inputs(d) /\ Scope(LogEpoch(d, e, b)) = Scope(d)
  BY DEF LogEpoch, Larger, Scope, Inputs, Durables

LEMMA LogFenceFields ==
  ASSUME NEW d \in Durables, NEW f \in SUBSET Nat
  PROVE  /\ LogFence(d, f).epoch = d.epoch /\ Inputs(LogFence(d, f)) = Inputs(d)
         /\ Scope(LogFence(d, f)) = Scope(d)
  BY DEF LogFence, Scope, Inputs, Durables

\* The records of open(), as far as they got: the scope stays, the inputs grow to the
\* recovered ones, the epoch advances once its record is written.  Nothing is left of a
\* failed commit but what it put on record.
LEMMA OpenRecords ==
  ASSUME TypeOK
  PROVE  /\ \A d \in {AfterTopology, AfterPolicy, AfterEpoch, AfterFence} :
              /\ d \in Durables /\ Scope(d) = <<disk.readable, "Clean", disk.boundary, disk.plans>>
              /\ d.evidence = disk.evidence
              /\ disk.epoch <= d.epoch /\ disk.policy <= d.policy /\ disk.topology <= d.topology
         /\ AfterFence.epoch = disk.epoch + 1
         /\ AfterFence.policy = recovered_policy /\ AfterFence.topology = recovered_topology
<1> DEFINE found == <<disk.readable, "Clean", disk.boundary, disk.plans>>
<1>1. /\ disk \in Durables /\ disk.epoch \in Nat /\ disk.policy \in Nat /\ disk.topology \in Nat
      /\ boots \in Nat
  BY DEF TypeOK, Durables
<1>2. /\ recovered_policy \in Nat /\ disk.policy <= recovered_policy
      /\ recovered_topology \in Nat /\ disk.topology <= recovered_topology
  <2>1. recovered_policy \in Nat /\ recovered_topology \in Nat
    BY RecoveredTypes
  <2>2. disk.policy <= recovered_policy
    BY <1>1, BoundTypes, LargerType DEF recovered_policy
  <2>3. disk.topology <= recovered_topology
    BY <1>1, BoundTypes DEF recovered_topology
  <2> QED
    BY <2>1, <2>2, <2>3
<1>0. /\ Found \in Durables /\ Scope(Found) = found
      /\ Found.epoch = disk.epoch /\ Inputs(Found) = Inputs(disk)
  BY <1>1 DEF Found, Scope, Inputs, Durables, Tails
<1> HIDE DEF found
<1>3. /\ Scope(AfterTopology) = found /\ AfterTopology.epoch = disk.epoch
      /\ AfterTopology.evidence = disk.evidence /\ AfterTopology.policy = disk.policy
      /\ AfterTopology.topology = recovered_topology
  BY <1>0, <1>1, <1>2, LogTopologyFields DEF AfterTopology, Larger, Inputs
<1>4. /\ Scope(AfterPolicy) = found /\ AfterPolicy.epoch = disk.epoch
      /\ AfterPolicy.evidence = disk.evidence /\ AfterPolicy.policy = recovered_policy
      /\ AfterPolicy.topology = recovered_topology
  BY <1>1, <1>2, <1>3, LogPolicyFields, RecoveredTypes DEF AfterPolicy, Larger
<1>5. /\ Scope(AfterEpoch) = found /\ AfterEpoch.epoch = disk.epoch + 1
      /\ Inputs(AfterEpoch) = Inputs(AfterPolicy)
  <2>1. disk.epoch + 1 \in Nat /\ boots + 1 \in Nat /\ AfterPolicy \in Durables
    BY <1>1, RecoveredTypes
  <2>2. Larger(disk.epoch, disk.epoch + 1) = disk.epoch + 1
    BY <1>1 DEF Larger
  <2> QED
    BY <1>4, <2>1, <2>2, LogEpochFields DEF AfterEpoch
<1>6. /\ Scope(AfterFence) = found /\ AfterFence.epoch = disk.epoch + 1
      /\ Inputs(AfterFence) = Inputs(AfterPolicy)
  BY <1>5, RecoveredTypes, LogFenceFields DEF AfterFence
<1>7. /\ AfterEpoch.evidence = disk.evidence /\ AfterEpoch.policy = recovered_policy
      /\ AfterEpoch.topology = recovered_topology
      /\ AfterFence.evidence = disk.evidence /\ AfterFence.policy = recovered_policy
      /\ AfterFence.topology = recovered_topology
  BY <1>4, <1>5, <1>6 DEF Inputs
<1>8. disk.epoch <= disk.epoch + 1 /\ disk.epoch <= disk.epoch /\ disk.policy <= disk.policy
  BY <1>1
<1> QED
  BY <1>2, <1>3, <1>4, <1>5, <1>6, <1>7, <1>8, RecoveredTypes DEF found

-----------------------------------------------------------------------------
(* What a commit may leave *)

\* Everything a record could change, as it was; the log may have been spoilt.
Body(d) ==
  <<d.epoch, d.policy, d.topology, d.evidence, d.boundary, d.boundary_plan, d.plans, d.attempts,
    d.transitions>>
Frozen(x, d) ==
  /\ Body(x) = Body(d)
  /\ x.readable => d.readable
  /\ x.tail = "Clean" => d.tail = "Clean"
  /\ x.tail = "Whole" => d.tail = "Whole"

LEMMA FrozenTrans ==
  ASSUME NEW d, NEW x, NEW y, Frozen(x, d), Frozen(y, x)
  PROVE  Frozen(y, d)
  BY DEF Frozen

\* An acknowledged commit is on record, unless an earlier one has failed: then nothing of it
\* is, and the log does not decode if the earlier one was written to the end.
LEMMA CommittedOutcome ==
  ASSUME NEW d \in Durables, NEW e \in Durables, NEW x \in Committed(d, e)
  PROVE  \/ d.tail = "Clean" /\ x = e
         \/ /\ d.tail # "Clean" /\ x.tail # "Clean" /\ Frozen(x, d)
            /\ x.tail = "Whole" => ~x.readable
<1>1. /\ Undecodable(d).tail = d.tail /\ ~Undecodable(d).readable
      /\ Body(Undecodable(d)) = Body(d)
  BY DEF Undecodable, Body, Durables
<1>2. d.tail \in Tails
  BY DEF Durables
<1> QED
  BY <1>1, <1>2 DEF Committed, Frozen, Tails

\* A failed commit leaves the whole record or nothing that can be read back.
LEMMA FailedOutcome ==
  ASSUME NEW d \in Durables, NEW e \in Durables, NEW x \in NotCommitted(d, e)
  PROVE  \/ Frozen(x, d) /\ (x.tail = "Clean" => x = d)
         \/ d.tail = "Clean" /\ x.tail = "Whole" /\ x.readable = e.readable /\ Body(x) = Body(e)
<1> DEFINE cut == [d EXCEPT !.tail = "Cut"]
           whole == [e EXCEPT !.tail = "Whole"]
<1>1. cut.tail = "Cut" /\ cut.readable = d.readable /\ Body(cut) = Body(d)
  BY DEF Body, Durables
<1>2. whole.tail = "Whole" /\ whole.readable = e.readable /\ Body(whole) = Body(e)
  BY DEF Body, Durables
<1>3. /\ Undecodable(d).tail = d.tail /\ ~Undecodable(d).readable
      /\ Body(Undecodable(d)) = Body(d)
  BY DEF Undecodable, Body, Durables
<1>4. x = d \/ x = cut \/ (d.tail = "Clean" /\ x = whole) \/ (d.tail # "Clean" /\ x = Undecodable(d))
  BY DEF NotCommitted
<1> HIDE DEF cut, whole
<1> QED
  BY <1>1, <1>2, <1>3, <1>4 DEF Frozen

-----------------------------------------------------------------------------
(* The steps *)

\* What is left of the durable state that the invariant is about, by a step that puts no
\* definition, no evidence, no plan and no boundary on record.
Preserves(x, d) ==
  /\ x.epoch = d.epoch /\ x.boundary = d.boundary /\ x.plans = d.plans /\ Inputs(x) = Inputs(d)
  /\ x.readable => d.readable
  /\ x.tail = "Clean" => d.tail = "Clean"
  /\ x.tail = "Whole" => d.tail = "Whole" /\ x.transitions = d.transitions

LEMMA FrozenPreserves ==
  ASSUME NEW d, NEW x, Frozen(x, d)
  PROVE  Preserves(x, d)
  BY DEF Frozen, Body, Preserves, Inputs

\* The boundary in memory stays, or is replaced by that of a retained plan with the same
\* members: the adoption that no record carries.
BoundaryKept ==
  \/ boundary' = boundary
  \/ \E j \in DOMAIN plans : /\ boundary.present /\ SameMembers(plans[j].boundary, boundary)
                             /\ boundary' = plans[j].boundary

\* A step that leaves scope, plans and inputs alone on disk; memory may move on only where
\* the store no longer follows it.
LEMMA PreserveStep ==
  ASSUME SafetyInvariant, TypeOK', InFlightIsOurs', UNCHANGED <<up, epoch>>,
         Preserves(disk', disk), CarryBoundaries(plans'),
         disk'.tail = "Clean" => /\ UNCHANGED <<policy, topology, evidence, plans>>
                                 /\ BoundaryKept,
         disk'.tail = "Whole" /\ disk'.readable => boundary' = boundary
  PROVE  SafetyInvariant'
<1>1. /\ disk'.boundary = disk.boundary /\ disk'.plans = disk.plans /\ disk'.epoch = disk.epoch
      /\ disk'.policy = disk.policy /\ disk'.topology = disk.topology
      /\ disk'.evidence = disk.evidence
      /\ disk'.readable => disk.readable
      /\ disk'.tail = "Clean" => disk.tail = "Clean"
      /\ disk'.tail = "Whole" => disk.tail = "Whole" /\ disk'.transitions = disk.transitions
  BY DEF Preserves, Inputs
<1>2. EpochOnDisk' /\ InputsAreDurable'
  BY <1>1 DEF SafetyInvariant, EpochOnDisk, InputsAreDurable
<1>3. PlansCarryBoundaries' /\ DecodableOnDisk'
  BY <1>1 DEF SafetyInvariant, PlansCarryBoundaries, DecodableOnDisk,
     CarryBoundaries, AllDecodable, Decodable
<1>4. ASSUME up', disk'.readable, disk'.tail = "Clean"
      PROVE  /\ SameScope(boundary', boundary)
             /\ AllDecodable(plans') /\ (boundary'.present => Decodable(boundary'))
  <2>1. AllDecodable(plans) /\ (boundary.present => Decodable(boundary)) /\ CarryBoundaries(plans)
    BY <1>1, <1>4 DEF SafetyInvariant, DecodableInMemory, PlansCarryBoundaries
  <2>2. CASE boundary' = boundary
    BY <1>4, <2>1, <2>2 DEF SameScope, SameMembers, AllDecodable, Decodable
  <2>3. ASSUME NEW j \in DOMAIN plans, boundary.present,
               SameMembers(plans[j].boundary, boundary), boundary' = plans[j].boundary
        PROVE  /\ SameScope(boundary', boundary)
               /\ AllDecodable(plans') /\ (boundary'.present => Decodable(boundary'))
    <3>1. plans[j].boundary.present /\ Decodable(plans[j].boundary)
      BY <2>1 DEF CarryBoundaries, AllDecodable
    <3>2. boundary.present = TRUE /\ plans[j].boundary.present = TRUE
      <4>1. boundary \in Boundaries
        BY DEF SafetyInvariant, TypeOK
      <4>2. plans[j].boundary \in Boundaries
        BY EntryTypes DEF SafetyInvariant
      <4> QED
        BY <2>3, <3>1, <4>1, <4>2 DEF Boundaries
    <3> QED
      BY <1>4, <2>1, <2>3, <3>1, <3>2 DEF SameScope, SameMembers, AllDecodable, Decodable
  <2> QED
    BY <1>4, <2>2, <2>3 DEF BoundaryKept
<1>5. DecodableInMemory'
  BY <1>4 DEF DecodableInMemory, AllDecodable, Decodable
<1>6. ScopeIsDurable'
  <2> SUFFICES ASSUME up', disk'.readable
               PROVE  /\ disk'.tail = "Clean" => SameScope(boundary', disk'.boundary)
                      /\ disk'.tail = "Whole" =>
                           SameScope(boundary', disk'.boundary) \/ LastDecided(disk.boundary)'
    BY DEF ScopeIsDurable, SameScope, SameMembers
  <2>1. /\ disk.tail = "Clean" => SameScope(boundary, disk.boundary)
        /\ disk.tail = "Whole" => SameScope(boundary, disk.boundary) \/ LastDecided(disk.boundary)
    BY <1>1 DEF SafetyInvariant, ScopeIsDurable
  <2>2. CASE disk'.tail = "Clean"
    BY <1>1, <1>4, <2>1, <2>2 DEF SameScope, SameMembers
  <2>3. CASE disk'.tail = "Whole"
    BY <1>1, <2>1, <2>3 DEF SameScope, SameMembers, LastDecided
  <2> QED
    BY <2>2, <2>3
<1> QED
  BY <1>2, <1>3, <1>5, <1>6 DEF SafetyInvariant

\* A commit that fails after its append: memory stays, the record is on disk, and the scope
\* on disk is what it was or that of the decision the record is about.
LEMMA WholeStep ==
  ASSUME SafetyInvariant, TypeOK', InFlightIsOurs', UNCHANGED <<up, epoch, plans, boundary>>,
         disk.tail = "Clean", disk'.tail = "Whole", disk'.epoch = disk.epoch,
         CarryBoundaries(disk'.plans), DecodableOnDisk', disk'.readable => disk.readable,
         disk'.readable => disk'.boundary = disk.boundary \/ LastDecided(disk.boundary)'
  PROVE  SafetyInvariant'
<1>1. EpochOnDisk' /\ InputsAreDurable' /\ DecodableInMemory'
  BY DEF SafetyInvariant, EpochOnDisk, InputsAreDurable, DecodableInMemory
<1>2. PlansCarryBoundaries'
  BY DEF SafetyInvariant, PlansCarryBoundaries, CarryBoundaries
<1>3. ScopeIsDurable'
  <2> SUFFICES ASSUME up', disk'.readable
               PROVE  SameScope(boundary', disk'.boundary) \/ LastDecided(disk.boundary)'
    BY DEF ScopeIsDurable, SameScope, SameMembers
  <2>1. SameScope(boundary, disk.boundary)
    BY DEF SafetyInvariant, ScopeIsDurable
  <2> QED
    BY <2>1 DEF SameScope, SameMembers
<1> QED
  BY <1>1, <1>2, <1>3 DEF SafetyInvariant

\* A commit of a record that is about none of this.
LEMMA CommitPreserves ==
  ASSUME disk \in Durables, NEW e \in Durables, Commits(e),
         e.epoch = disk.epoch, Scope(e) = Scope(disk), Inputs(e) = Inputs(disk)
  PROVE  Preserves(disk', disk) /\ (disk'.tail = "Whole" => ~disk'.readable)
<1>1. PICK x \in Committed(disk, e) : x = disk'
  BY DEF Commits
<1>2. CASE disk.tail = "Clean" /\ x = e
  BY <1>1, <1>2 DEF Preserves, Scope
<1>3. CASE /\ disk.tail # "Clean" /\ x.tail # "Clean" /\ Frozen(x, disk)
           /\ x.tail = "Whole" => ~x.readable
  BY <1>1, <1>3, FrozenPreserves
<1> QED
  BY <1>2, <1>3, CommittedOutcome

LEMMA RecordStep ==
  ASSUME SafetyInvariant, TypeOK', InFlightIsOurs', NEW e \in Durables,
         e.epoch = disk.epoch, Scope(e) = Scope(disk), Inputs(e) = Inputs(disk),
         UNCHANGED <<up, epoch, policy, topology, evidence, plans>>,
         (Commits(e) /\ BoundaryKept) \/ (CommitFails(e) /\ boundary' = boundary)
  PROVE  SafetyInvariant'
<1>1. disk \in Durables /\ CarryBoundaries(plans')
  BY DEF SafetyInvariant, TypeOK, PlansCarryBoundaries, CarryBoundaries
<1>2. CASE Commits(e) /\ BoundaryKept
  <2>1. Preserves(disk', disk) /\ (disk'.tail = "Whole" => ~disk'.readable)
    BY <1>1, <1>2, CommitPreserves
  <2> QED
    BY <1>1, <1>2, <2>1, PreserveStep
<1>3. CASE CommitFails(e) /\ boundary' = boundary
  <2>1. PICK x \in NotCommitted(disk, e) : x = disk'
    BY <1>3 DEF CommitFails
  <2>2. CASE Frozen(x, disk)
    <3>1. Preserves(disk', disk) /\ BoundaryKept
      BY <1>3, <2>1, <2>2, FrozenPreserves DEF BoundaryKept
    <3> QED
      BY <1>1, <1>3, <3>1, PreserveStep
  <2>3. CASE disk.tail = "Clean" /\ x.tail = "Whole" /\ x.readable = e.readable /\ Body(x) = Body(e)
    <3>1. /\ disk'.tail = "Whole" /\ disk'.readable = disk.readable /\ disk'.epoch = disk.epoch
          /\ disk'.plans = disk.plans /\ disk'.boundary = disk.boundary
      BY <2>1, <2>3 DEF Body, Scope
    <3>2. CarryBoundaries(disk'.plans) /\ DecodableOnDisk'
      BY <3>1 DEF SafetyInvariant, PlansCarryBoundaries, CarryBoundaries, DecodableOnDisk,
         AllDecodable, Decodable
    <3> QED
      BY <1>3, <2>3, <3>1, <3>2, WholeStep
  <2> QED
    BY <1>1, <2>1, <2>2, <2>3, FailedOutcome
<1> QED
  BY <1>2, <1>3

\* A step that touches no disk.
LEMMA MemoryStep ==
  ASSUME SafetyInvariant, TypeOK', InFlightIsOurs',
         UNCHANGED <<up, epoch, policy, topology, evidence, plans, boundary, disk>>
  PROVE  SafetyInvariant'
<1>1. Preserves(disk', disk) /\ BoundaryKept
  BY DEF Preserves, BoundaryKept
<1>2. CarryBoundaries(plans')
  BY DEF SafetyInvariant, PlansCarryBoundaries, CarryBoundaries
<1> QED
  BY <1>1, <1>2, PreserveStep

\* The process is gone: what is left to show is about the disk.
LEMMA HaltStep ==
  ASSUME SafetyInvariant, TypeOK', Halt, disk'.epoch = disk.epoch, disk'.boundary = disk.boundary,
         disk'.plans = disk.plans, disk'.readable => disk.readable
  PROVE  SafetyInvariant'
<1>2. ~up' /\ epoch' = epoch /\ plans' = <<>>
  BY DEF Halt
<1>3. EpochOnDisk' /\ InputsAreDurable' /\ InFlightIsOurs' /\ ScopeIsDurable' /\ DecodableInMemory'
  BY <1>2 DEF SafetyInvariant, EpochOnDisk, InputsAreDurable, InFlightIsOurs, ScopeIsDurable,
     DecodableInMemory
<1>4. PlansCarryBoundaries' /\ DecodableOnDisk'
  BY <1>2 DEF SafetyInvariant, PlansCarryBoundaries, DecodableOnDisk, CarryBoundaries,
     AllDecodable, Decodable
<1> QED
  BY <1>3, <1>4 DEF SafetyInvariant

LEMMA SafetyInit == Init => SafetyInvariant
<1> SUFFICES ASSUME Init PROVE SafetyInvariant
  OBVIOUS
<1>1. TypeOK
  BY TypeOKInit
<1>2. EpochOnDisk /\ InputsAreDurable /\ InFlightIsOurs /\ ScopeIsDurable /\ DecodableInMemory
  BY DEF Init, FreshDisk, EpochOnDisk, InputsAreDurable, InFlightIsOurs, ScopeIsDurable,
     DecodableInMemory
<1>3. PlansCarryBoundaries /\ DecodableOnDisk
  BY DEF Init, FreshDisk, NoBoundary, PlansCarryBoundaries, DecodableOnDisk, CarryBoundaries,
     AllDecodable
<1> QED
  BY <1>1, <1>2, <1>3 DEF SafetyInvariant

LEMMA SafetyOpen ==
  ASSUME SafetyInvariant, TypeOK', Open
  PROVE  SafetyInvariant'
<1>1. TypeOK /\ disk \in Durables /\ disk' = AfterFence /\ disk.readable
  BY DEF SafetyInvariant, TypeOK, Open
<1>2. /\ disk'.readable = disk.readable /\ disk'.boundary = disk.boundary
      /\ disk'.tail = "Clean" /\ disk'.plans = disk.plans /\ disk'.epoch = disk.epoch + 1
      /\ disk'.policy = recovered_policy /\ disk'.topology = recovered_topology
      /\ disk'.evidence = disk.evidence
  BY <1>1, OpenRecords DEF Scope
<1>3. /\ epoch' = disk.epoch + 1 /\ policy' = recovered_policy /\ topology' = recovered_topology
      /\ evidence' = disk.evidence /\ boundary' = disk.boundary
      /\ plans' = Evict(disk.plans, RetainedPlans)
      /\ attempts' = Evict(FencedByRestart(disk.attempts), RetainedAttempts)
  BY DEF Open, Recovered
<1>4. EpochOnDisk' /\ InputsAreDurable' /\ ScopeIsDurable'
  <2>1. disk.epoch \in Nat
    BY <1>1 DEF Durables
  <2> QED
    BY <1>2, <1>3, <2>1 DEF EpochOnDisk, InputsAreDurable, ScopeIsDurable, SameScope, SameMembers
<1>5. plans' \in Seq(Plans) /\ \A i \in 1..Len(plans') : \E j \in 1..Len(disk.plans) : plans'[i] = disk.plans[j]
  <2> DEFINE old == disk.plans
  <2>1. old \in Seq(Plans)
    BY <1>1 DEF Durables
  <2>2. plans' = Evict(old, RetainedPlans)
    BY <1>3
  <2> HIDE DEF old
  <2>3. /\ Evict(old, RetainedPlans) \in Seq(Plans)
        /\ \A i \in 1..Len(Evict(old, RetainedPlans)) :
             \E j \in 1..Len(old) : Evict(old, RetainedPlans)[i] = old[j]
    BY <2>1, EvictKeepsSuffix, BoundTypes
  <2> QED
    BY <2>2, <2>3 DEF old
<1>6. DOMAIN plans' = 1..Len(plans') /\ DOMAIN disk.plans = 1..Len(disk.plans)
  BY <1>1, <1>5 DEF Durables
<1>7. PlansCarryBoundaries' /\ DecodableOnDisk' /\ DecodableInMemory'
  <2>1. CarryBoundaries(disk.plans) /\ AllDecodable(disk.plans)
    BY <1>1 DEF SafetyInvariant, PlansCarryBoundaries, DecodableOnDisk
  <2>2. disk.boundary.present => Decodable(disk.boundary)
    BY <1>1 DEF SafetyInvariant, DecodableOnDisk
  <2>3. CarryBoundaries(plans') /\ AllDecodable(plans')
    BY <1>5, <1>6, <2>1 DEF CarryBoundaries, AllDecodable
  <2> QED
    BY <1>2, <1>3, <2>1, <2>2, <2>3 DEF PlansCarryBoundaries, DecodableOnDisk, DecodableInMemory,
       CarryBoundaries, AllDecodable, Decodable
<1>8. InFlightIsOurs'
  <2> DEFINE table == FencedByRestart(disk.attempts)
  <2>1. /\ table \in Seq(Attempts) /\ \A i \in 1..Len(table) : table[i].state \in Terminal
    BY <1>1, FencedByRestartType DEF Durables
  <2> HIDE DEF table
  <2>2. /\ Evict(table, RetainedAttempts) \in Seq(Attempts)
        /\ \A i \in 1..Len(Evict(table, RetainedAttempts)) :
             Evict(table, RetainedAttempts)[i].state \in Terminal
    BY <2>1, EvictKeepsSuffix, BoundTypes
  <2>3. \A i \in DOMAIN attempts' : attempts'[i].state \in Terminal
    BY <1>3, <2>2 DEF table
  <2> QED
    BY <2>3 DEF InFlightIsOurs
<1> QED
  BY <1>4, <1>7, <1>8 DEF SafetyInvariant

LEMMA SafetyPlan ==
  ASSUME SafetyInvariant, TypeOK', Plan
  PROVE  SafetyInvariant'
<1>1. PICK c \in PlanResults(plan_counter + 1) :
        \/ /\ Commits(LogPlan(disk, NewPlan(c)))
           /\ plans' = Evict(Append(plans, NewPlan(c)), RetainedPlans)
        \/ CommitFails(LogPlan(disk, NewPlan(c))) /\ plans' = plans
  BY DEF Plan
<1> DEFINE p == NewPlan(c)
<1>2. TypeOK /\ p \in Plans
  BY PlanType DEF SafetyInvariant
<1>3. disk \in Durables /\ plans \in Seq(Plans) /\ disk.plans \in Seq(Plans)
  BY <1>2 DEF TypeOK, Durables
<1>4. p.boundary.present
  <2>1. c.boundary.present
    BY DEF PlanResults, SolutionBoundary, DefaultBoundary, BoundaryOf
  <2> QED
    BY <2>1 DEF NewPlan
<1>5. UNCHANGED <<up, epoch, boot, policy, topology, evidence, boundary, attempts>>
  BY DEF Plan, identity, definitions, evidences, intent
<1> HIDE DEF p
<1> DEFINE e == LogPlan(disk, p)
<1>6. /\ e \in Durables /\ e.plans = Append(disk.plans, p)
      /\ e.readable = (disk.readable /\ Decodable(p.boundary))
      /\ e.boundary = disk.boundary /\ e.epoch = disk.epoch /\ e.tail = disk.tail
      /\ e.policy = disk.policy /\ e.topology = disk.topology
      /\ e.evidence = disk.evidence
  BY <1>2, <1>3, LogPlanFields, LogTypes DEF Inputs
<1>7. \/ Commits(e) /\ plans' = Evict(Append(plans, p), RetainedPlans)
      \/ CommitFails(e) /\ plans' = plans
  BY <1>1 DEF p
<1> HIDE DEF e
<1>8. InFlightIsOurs'
  BY <1>5 DEF SafetyInvariant, InFlightIsOurs
<1>9. CarryBoundaries(Append(disk.plans, p)) /\ CarryBoundaries(plans')
  <2> DEFINE T == {x \in Plans : x.boundary.present}
  <2>1. /\ \A i \in DOMAIN plans : plans[i] \in T
        /\ \A i \in DOMAIN disk.plans : disk.plans[i] \in T
    BY <1>3, ElementOfSeq DEF SafetyInvariant, PlansCarryBoundaries, CarryBoundaries
  <2>2. p \in T
    BY <1>2, <1>4
  <2> HIDE DEF T
  <2>3. /\ \A i \in DOMAIN plans' : plans'[i] \in T
        /\ \A i \in DOMAIN Append(disk.plans, p) : Append(disk.plans, p)[i] \in T
    BY <1>3, <1>7, <2>1, <2>2, PushKeeps, BoundTypes
  <2> QED
    BY <2>3 DEF T, CarryBoundaries
<1>10. ASSUME disk.readable, Decodable(p.boundary)
       PROVE  AllDecodable(Append(disk.plans, p))
  <2> DEFINE T == {x \in Plans : Decodable(x.boundary)}
  <2>1. \A i \in DOMAIN disk.plans : disk.plans[i] \in T
    BY <1>3, <1>10, ElementOfSeq DEF SafetyInvariant, DecodableOnDisk, AllDecodable
  <2>2. p \in T
    BY <1>2, <1>10
  <2> HIDE DEF T
  <2>3. \A i \in DOMAIN Append(disk.plans, p) : Append(disk.plans, p)[i] \in T
    BY <1>3, <2>1, <2>2, PushKeeps, BoundTypes
  <2> QED
    BY <2>3 DEF T, AllDecodable
<1>11. ASSUME disk'.plans = Append(disk.plans, p),
              disk'.readable = (disk.readable /\ Decodable(p.boundary)),
              disk'.boundary = disk.boundary
       PROVE  DecodableOnDisk' /\ CarryBoundaries(disk'.plans)
  BY <1>9, <1>10, <1>11 DEF SafetyInvariant, DecodableOnDisk, AllDecodable, Decodable, CarryBoundaries
<1>12. CASE disk.tail = "Clean" /\ disk' = e /\ plans' = Evict(Append(plans, p), RetainedPlans)
  <2>1. EpochOnDisk' /\ InputsAreDurable'
    BY <1>5, <1>6, <1>12 DEF SafetyInvariant, EpochOnDisk, InputsAreDurable
  <2>2. ScopeIsDurable'
    BY <1>5, <1>6, <1>12 DEF SafetyInvariant, ScopeIsDurable, SameScope, SameMembers
  <2>3. PlansCarryBoundaries' /\ DecodableOnDisk'
    BY <1>6, <1>9, <1>11, <1>12 DEF PlansCarryBoundaries, CarryBoundaries
  <2>4. DecodableInMemory'
    <3> SUFFICES ASSUME up, disk.readable, Decodable(p.boundary)
                 PROVE  DecodableInMemory'
      BY <1>5, <1>6, <1>12 DEF DecodableInMemory
    <3> DEFINE T == {x \in Plans : Decodable(x.boundary)}
    <3>1. p \in T /\ \A i \in DOMAIN plans : plans[i] \in T
      BY <1>2, <1>3, <1>12, ElementOfSeq DEF SafetyInvariant, DecodableInMemory, AllDecodable
    <3> HIDE DEF T
    <3>2. \A i \in DOMAIN plans' : plans'[i] \in T
      BY <1>3, <1>12, <3>1, PushKeeps, BoundTypes
    <3> QED
      BY <1>5, <1>12, <3>2 DEF T, SafetyInvariant, DecodableInMemory, AllDecodable, Decodable
  <2> QED
    BY <1>8, <2>1, <2>2, <2>3, <2>4 DEF SafetyInvariant
<1>13. ASSUME Frozen(disk', disk), disk'.tail = "Clean" => plans' = plans
       PROVE  SafetyInvariant'
  BY <1>5, <1>8, <1>9, <1>13, FrozenPreserves, PreserveStep DEF BoundaryKept
<1>14. CASE Commits(e) /\ plans' = Evict(Append(plans, p), RetainedPlans)
  <2>1. PICK x \in Committed(disk, e) : x = disk'
    BY <1>14 DEF Commits
  <2> QED
    BY <1>3, <1>6, <1>12, <1>13, <1>14, <2>1, CommittedOutcome
<1>15. CASE CommitFails(e) /\ plans' = plans
  <2>1. PICK x \in NotCommitted(disk, e) : x = disk'
    BY <1>15 DEF CommitFails
  <2>2. CASE disk.tail = "Clean" /\ x.tail = "Whole" /\ x.readable = e.readable /\ Body(x) = Body(e)
    <3>1. /\ disk'.plans = Append(disk.plans, p) /\ disk'.boundary = disk.boundary
          /\ disk'.readable = (disk.readable /\ Decodable(p.boundary))
          /\ disk'.epoch = disk.epoch
      BY <1>6, <2>1, <2>2 DEF Body
    <3>2. DecodableOnDisk' /\ CarryBoundaries(disk'.plans)
      BY <1>11, <3>1
    <3> QED
      BY <1>5, <1>8, <1>15, <2>1, <2>2, <3>1, <3>2, WholeStep
  <2> QED
    BY <1>3, <1>6, <1>13, <1>15, <2>1, <2>2, FailedOutcome
<1> QED
  BY <1>7, <1>14, <1>15

\* What the two commits of an accepted transition make of the boundary: it is decoded as it
\* was decided, unless the store is unreadable already.
LEMMA TransitionRecords ==
  ASSUME SafetyInvariant, up, disk.tail = "Clean", NEW i \in DOMAIN plans, NEW k \in Kinds
  PROVE  LET t == Decided(k, plans[i])
             decided == LogTransition(disk, t)
             in_force == LogBoundary(decided, plans[i].generation, t.to)
         IN /\ decided \in Durables /\ in_force \in Durables /\ t.accepted /\ t.to \in Boundaries
            /\ decided.epoch = disk.epoch /\ Scope(decided) = Scope(disk)
            /\ Inputs(decided) = Inputs(disk)
            /\ in_force.epoch = disk.epoch /\ Inputs(in_force) = Inputs(disk)
            /\ in_force.plans = disk.plans /\ in_force.readable = disk.readable
            /\ in_force.tail = "Clean"
            /\ disk.readable => in_force.boundary = t.to /\ (t.to.present => Decodable(t.to))
            /\ in_force.transitions = Append(disk.transitions, t)
<1> DEFINE t == Decided(k, plans[i])
           decided == LogTransition(disk, t)
           in_force == LogBoundary(decided, plans[i].generation, t.to)
<1>1. TypeOK /\ disk \in Durables
  BY DEF SafetyInvariant, TypeOK
<1>2. t \in Decisions /\ t.to \in Boundaries /\ plans[i].generation \in Nat /\ t.accepted
  BY <1>1, DecisionTypes DEF Decided
<1>3. t.to.present => t.to = plans[i].boundary
  BY DEF Decided, NoBoundary
<1>4. disk.readable /\ t.to.present => Decodable(t.to)
  BY <1>3 DEF SafetyInvariant, DecodableInMemory, AllDecodable
<1> HIDE DEF t
<1>5. /\ decided \in Durables
      /\ decided.epoch = disk.epoch /\ Inputs(decided) = Inputs(disk) /\ Scope(decided) = Scope(disk)
      /\ decided.transitions = Append(disk.transitions, t)
  BY <1>1, <1>2, LogTypes, LogTransitionFields
<1> HIDE DEF decided
<1>6. /\ in_force \in Durables
      /\ in_force.boundary = IF t.to.present /\ ~Decodable(t.to) THEN decided.boundary ELSE t.to
      /\ in_force.plans = decided.plans /\ in_force.readable = decided.readable
      /\ in_force.tail = decided.tail /\ in_force.transitions = decided.transitions
      /\ in_force.epoch = decided.epoch /\ Inputs(in_force) = Inputs(decided)
  BY <1>2, <1>5, LogTypes, LogBoundaryFields
<1>7. /\ in_force.plans = disk.plans /\ in_force.readable = disk.readable
      /\ in_force.tail = "Clean"
  BY <1>5, <1>6 DEF Scope
<1> QED
  BY <1>2, <1>4, <1>5, <1>6, <1>7 DEF t, decided

\* An accepted transition whose first record follows a clean log.
LEMMA TransitionClean ==
  ASSUME SafetyInvariant, TypeOK', NEW a \in DOMAIN authorizations, NEW i \in DOMAIN plans,
         NEW k \in Kinds, AcceptTransition(a, i, k), disk.tail = "Clean",
         ~CommitFails(LogTransition(disk, Decided(k, plans[i])))
  PROVE  SafetyInvariant'
<1> DEFINE t == Decided(k, plans[i])
           decided == LogTransition(disk, t)
           in_force == LogBoundary(decided, plans[i].generation, t.to)
<1>1. /\ decided \in Durables /\ in_force \in Durables /\ t.accepted /\ t.to \in Boundaries
      /\ decided.epoch = disk.epoch /\ Scope(decided) = Scope(disk) /\ Inputs(decided) = Inputs(disk)
      /\ in_force.epoch = disk.epoch /\ Inputs(in_force) = Inputs(disk)
      /\ in_force.plans = disk.plans /\ in_force.readable = disk.readable
      /\ in_force.tail = "Clean"
      /\ disk.readable => in_force.boundary = t.to /\ (t.to.present => Decodable(t.to))
      /\ in_force.transitions = Append(disk.transitions, t)
  BY TransitionRecords DEF AcceptTransition
<1>2. /\ disk \in Durables /\ disk.transitions \in Seq(Decisions) /\ t \in Decisions
  BY DecisionTypes DEF SafetyInvariant, TypeOK, Durables
<1>3. /\ decided.readable = disk.readable /\ decided.boundary = disk.boundary
      /\ decided.plans = disk.plans /\ decided.tail = "Clean"
      /\ in_force.policy = disk.policy /\ in_force.topology = disk.topology
      /\ in_force.evidence = disk.evidence
  BY <1>1 DEF Scope, Inputs
<1>4. Committed(disk, decided) = {decided} /\ Committed(decided, in_force) = {in_force}
  BY <1>3 DEF Committed
<1>5. up
  BY DEF AcceptTransition
<1>6. \/ /\ disk' \in Committed(decided, in_force) /\ boundary' = t.to
         /\ UNCHANGED <<up, epoch, boot, policy, topology, evidence, plans, attempts>>
      \/ disk' = decided /\ Halt
      \/ /\ disk' \in NotCommitted(decided, in_force)
         /\ UNCHANGED <<up, epoch, boot, policy, topology, evidence, plans, attempts, boundary>>
  BY <1>4 DEF AcceptTransition, OnlyTransitionCounted, identity, definitions, evidences, intent,
     tables
<1> HIDE DEF t, decided, in_force
<1>7. CASE disk' = decided /\ Halt
  BY <1>1, <1>3, <1>7, HaltStep
<1>8. CASE /\ disk' \in Committed(decided, in_force) /\ boundary' = t.to
           /\ UNCHANGED <<up, epoch, boot, policy, topology, evidence, plans, attempts>>
  <2>1. disk' = in_force
    BY <1>4, <1>8
  <2>2. EpochOnDisk' /\ InputsAreDurable' /\ InFlightIsOurs' /\ PlansCarryBoundaries'
    BY <1>1, <1>3, <1>8, <2>1 DEF SafetyInvariant, EpochOnDisk, InputsAreDurable, InFlightIsOurs,
       PlansCarryBoundaries, CarryBoundaries
  <2>3. ScopeIsDurable'
    BY <1>1, <1>8, <2>1 DEF ScopeIsDurable, SameScope, SameMembers
  <2>4. DecodableOnDisk' /\ DecodableInMemory'
    BY <1>1, <1>5, <1>8, <2>1 DEF SafetyInvariant, DecodableOnDisk, DecodableInMemory,
       AllDecodable, Decodable
  <2> QED
    BY <2>2, <2>3, <2>4 DEF SafetyInvariant
<1>9. CASE /\ disk' \in NotCommitted(decided, in_force)
           /\ UNCHANGED <<up, epoch, boot, policy, topology, evidence, plans, attempts, boundary>>
  <2>1. PICK x \in NotCommitted(decided, in_force) : x = disk'
    BY <1>9
  <2>2. InFlightIsOurs'
    BY <1>9 DEF SafetyInvariant, InFlightIsOurs
  <2>3. CASE Frozen(x, decided)
    <3>1. Preserves(x, decided) /\ x.tail # "Whole"
      BY <1>3, <2>3, FrozenPreserves DEF Frozen
    <3>2. Preserves(disk', disk) /\ BoundaryKept
      BY <1>1, <1>3, <1>9, <2>1, <3>1 DEF Preserves, BoundaryKept
    <3>3. CarryBoundaries(plans')
      BY <1>9 DEF SafetyInvariant, PlansCarryBoundaries, CarryBoundaries
    <3> QED
      BY <1>9, <2>2, <3>2, <3>3, PreserveStep
  <2>4. CASE x.tail = "Whole" /\ x.readable = in_force.readable /\ Body(x) = Body(in_force)
    <3>1. /\ disk'.tail = "Whole" /\ disk'.readable = disk.readable /\ disk'.epoch = disk.epoch
          /\ disk'.plans = disk.plans /\ disk'.boundary = in_force.boundary
          /\ disk'.transitions = Append(disk.transitions, t)
      BY <1>1, <2>1, <2>4 DEF Body
    <3>2. CarryBoundaries(disk'.plans) /\ DecodableOnDisk'
      BY <1>1, <3>1 DEF SafetyInvariant, PlansCarryBoundaries, CarryBoundaries, DecodableOnDisk,
         AllDecodable, Decodable
    <3>3. /\ disk'.transitions # <<>> /\ disk'.transitions[Len(disk'.transitions)] = t
      BY <1>2, <3>1, AppendProperties
    <3>4. disk'.readable => LastDecided(disk.boundary)'
      BY <1>1, <3>1, <3>3 DEF LastDecided, SameScope, SameMembers
    <3> QED
      BY <1>9, <2>2, <3>1, <3>2, <3>4, WholeStep
  <2> QED
    BY <1>1, <2>1, <2>3, <2>4, FailedOutcome
<1> QED
  BY <1>6, <1>7, <1>8, <1>9

\* An accepted transition behind what a failed commit has left: nothing of it is on record.
LEMMA TransitionUnclean ==
  ASSUME SafetyInvariant, TypeOK', NEW a \in DOMAIN authorizations, NEW i \in DOMAIN plans,
         NEW k \in Kinds, AcceptTransition(a, i, k), disk.tail # "Clean",
         ~CommitFails(LogTransition(disk, Decided(k, plans[i])))
  PROVE  SafetyInvariant'
<1> DEFINE t == Decided(k, plans[i])
           InForceOn(d) == LogBoundary(d, plans[i].generation, t.to)
<1>1. /\ disk \in Durables /\ LogTransition(disk, t) \in Durables
      /\ \A d \in Durables : InForceOn(d) \in Durables
  <2>1. TypeOK /\ disk \in Durables
    BY DEF SafetyInvariant, TypeOK
  <2>2. t \in Decisions /\ t.to \in Boundaries /\ plans[i].generation \in Nat
    BY <2>1, DecisionTypes
  <2> HIDE DEF t
  <2> QED
    BY <2>1, <2>2, LogTypes
<1>2. PICK decided \in Committed(disk, LogTransition(disk, t)) :
        \/ /\ disk' \in Committed(decided, InForceOn(decided))
           /\ UNCHANGED <<up, epoch, boot, policy, topology, evidence, plans, attempts>>
        \/ disk' = decided /\ Halt
        \/ /\ disk' \in NotCommitted(decided, InForceOn(decided))
           /\ UNCHANGED <<up, epoch, boot, policy, topology, evidence, plans, attempts, boundary>>
  BY DEF AcceptTransition, OnlyTransitionCounted, identity, definitions, evidences, intent, tables
<1> HIDE DEF t, InForceOn
<1>3. /\ decided.tail # "Clean" /\ Frozen(decided, disk) /\ decided \in Durables
      /\ InForceOn(decided) \in Durables
  <2>1. decided.tail # "Clean" /\ Frozen(decided, disk)
    BY <1>1, CommittedOutcome
  <2>2. decided \in Durables
    BY <1>1, CommitTypes
  <2> QED
    BY <1>1, <2>1, <2>2
<1>4. CarryBoundaries(plans)
  BY DEF SafetyInvariant, PlansCarryBoundaries
<1>5. CASE disk' = decided /\ Halt
  <2>1. /\ disk'.epoch = disk.epoch /\ disk'.boundary = disk.boundary
        /\ disk'.plans = disk.plans /\ (disk'.readable => disk.readable)
    BY <1>3, <1>5 DEF Frozen, Body
  <2> QED
    BY <1>5, <2>1, HaltStep
<1>6. CASE /\ disk' \in Committed(decided, InForceOn(decided))
           /\ UNCHANGED <<up, epoch, boot, policy, topology, evidence, plans, attempts>>
  <2>1. PICK x \in Committed(decided, InForceOn(decided)) : x = disk'
    BY <1>6
  <2>2. x.tail # "Clean" /\ Frozen(x, decided) /\ (x.tail = "Whole" => ~x.readable)
    BY <1>3, CommittedOutcome
  <2>3. Preserves(disk', disk)
    BY <1>3, <2>1, <2>2, FrozenTrans, FrozenPreserves
  <2>4. InFlightIsOurs' /\ CarryBoundaries(plans')
    BY <1>4, <1>6 DEF SafetyInvariant, InFlightIsOurs, CarryBoundaries
  <2> QED
    BY <1>6, <2>1, <2>2, <2>3, <2>4, PreserveStep
<1>7. CASE /\ disk' \in NotCommitted(decided, InForceOn(decided))
           /\ UNCHANGED <<up, epoch, boot, policy, topology, evidence, plans, attempts, boundary>>
  <2>1. PICK x \in NotCommitted(decided, InForceOn(decided)) : x = disk'
    BY <1>7
  <2>2. Frozen(x, decided)
    BY <1>3, FailedOutcome
  <2>3. Preserves(disk', disk)
    BY <1>3, <2>1, <2>2, FrozenTrans, FrozenPreserves
  <2>4. InFlightIsOurs' /\ CarryBoundaries(plans') /\ BoundaryKept
    BY <1>4, <1>7 DEF SafetyInvariant, InFlightIsOurs, CarryBoundaries, BoundaryKept
  <2> QED
    BY <1>7, <2>3, <2>4, PreserveStep
<1> QED
  BY <1>2, <1>5, <1>6, <1>7

LEMMA SafetyTransition ==
  ASSUME SafetyInvariant, TypeOK', Transition
  PROVE  SafetyInvariant'
<1>0. TypeOK /\ disk \in Durables
  BY DEF SafetyInvariant, TypeOK
<1>1. ASSUME NEW a \in DOMAIN authorizations, NEW i \in DOMAIN plans, NEW k \in Kinds,
             AcceptTransition(a, i, k)
      PROVE  SafetyInvariant'
  <2> DEFINE t == Decided(k, plans[i])
             e == LogTransition(disk, t)
  <2>1. CASE ~CommitFails(e)
    BY <1>1, <2>1, TransitionClean, TransitionUnclean
  <2>2. CASE CommitFails(e)
    <3>1. t \in Decisions
      BY <1>0, DecisionTypes
    <3>2. UNCHANGED <<policy, topology, evidence, plans, boundary, attempts, up, epoch, boot>>
      <4>1. faults' # faults
        BY <1>0, <2>2 DEF CommitFails, TypeOK
      <4> QED
        BY <1>1, <4>1 DEF AcceptTransition, OnlyTransitionCounted, Halt, identity, definitions,
           evidences, intent, tables
    <3>3. InFlightIsOurs'
      BY <2>2, <3>2 DEF SafetyInvariant, InFlightIsOurs
    <3> HIDE DEF t
    <3>4. /\ e \in Durables /\ e.epoch = disk.epoch /\ Inputs(e) = Inputs(disk)
          /\ Scope(e) = Scope(disk)
      BY <1>0, <3>1, LogTypes, LogTransitionFields
    <3> QED
      BY <2>2, <3>2, <3>3, <3>4, RecordStep
  <2> QED
    BY <2>1, <2>2
<1>2. ASSUME NEW a \in 0..Len(authorizations), RefuseTransition(a) \/ RefusalLost(a)
      PROVE  SafetyInvariant'
  <2> DEFINE e == LogTransition(disk, Refused)
  <2>1. UNCHANGED <<up, epoch, boot, policy, topology, evidence, plans, attempts, boundary>>
    BY <1>2 DEF RefuseTransition, RefusalLost, identity, definitions, evidences, intent
  <2>2. Commits(e) \/ CommitFails(e)
    BY <1>2 DEF RefuseTransition, RefusalLost
  <2>3. /\ e \in Durables /\ e.epoch = disk.epoch /\ Inputs(e) = Inputs(disk)
        /\ Scope(e) = Scope(disk)
    BY <1>0, RefusedType, LogTypes, LogTransitionFields
  <2>4. InFlightIsOurs' /\ BoundaryKept
    BY <2>1 DEF SafetyInvariant, InFlightIsOurs, BoundaryKept
  <2> HIDE DEF e
  <2> QED
    BY <2>1, <2>2, <2>3, <2>4, RecordStep
<1> QED
  BY <1>1, <1>2 DEF Transition

LEMMA SafetySubmit ==
  ASSUME SafetyInvariant, TypeOK', Submit
  PROVE  SafetyInvariant'
<1>1. PICK a \in DOMAIN authorizations, i \in DOMAIN plans : SubmitApply(a, i)
  BY DEF Submit
<1> DEFINE t == NewAttempt(plans[i])
           e == LogAttempt(disk, t)
<1>2. TypeOK /\ disk \in Durables /\ attempts \in Seq(Attempts)
  BY DEF SafetyInvariant, TypeOK
<1>3. t \in Attempts /\ t.boot = boot
  <2>1. plans[i].generation \in Nat /\ plans[i].boundary \in Boundaries
    BY <1>2, EntryTypes
  <2> QED
    BY <1>2, <2>1 DEF TypeOK, NewAttempt, Attempts, EffectStates
<1>4. /\ UNCHANGED <<up, epoch, boot, policy, topology, evidence, plans, boundary>>
      /\ \/ Commits(e) /\ attempts' = Evict(Append(attempts, t), RetainedAttempts)
         \/ CommitFails(e) /\ UNCHANGED attempts
  BY <1>1 DEF SubmitApply, identity, definitions, evidences, intent, tables
<1> HIDE DEF t
<1>5. e \in Durables /\ e.epoch = disk.epoch /\ Scope(e) = Scope(disk) /\ Inputs(e) = Inputs(disk)
  BY <1>2, <1>3, LogTypes, LogAttemptFields
<1>6. InFlightIsOurs'
  <2> SUFFICES ASSUME up
               PROVE  \A j \in DOMAIN attempts' : attempts'[j].state \notin Terminal => attempts'[j].boot = boot
    BY <1>4 DEF InFlightIsOurs
  <2> DEFINE T == {x \in Attempts : x.state \notin Terminal => x.boot = boot}
  <2>1. t \in T /\ \A j \in DOMAIN attempts : attempts[j] \in T
    BY <1>2, <1>3, ElementOfSeq DEF SafetyInvariant, InFlightIsOurs
  <2> HIDE DEF T
  <2>2. \A j \in DOMAIN attempts' : attempts'[j] \in T
    BY <1>2, <1>4, <2>1, PushKeeps, BoundTypes
  <2> QED
    BY <2>2 DEF T
<1> HIDE DEF e
<1> QED
  BY <1>4, <1>5, <1>6, RecordStep DEF BoundaryKept

\* Attempt i becomes t.
LEMMA CompleteStep ==
  ASSUME SafetyInvariant, TypeOK', NEW i \in DOMAIN attempts, NEW t \in Attempts,
         t.boot = attempts[i].boot, t.state \in Terminal \/ attempts[i].state \notin Terminal,
         \/ Commits(LogAttempt(disk, t)) /\ BoundaryKept
         \/ CommitFails(LogAttempt(disk, t)) /\ boundary' = boundary,
         attempts' = [attempts EXCEPT ![i] = t],
         UNCHANGED <<up, epoch, boot, policy, topology, evidence, plans>>
  PROVE  SafetyInvariant'
<1> DEFINE e == LogAttempt(disk, t)
<1>1. TypeOK /\ disk \in Durables /\ attempts \in Seq(Attempts)
  BY DEF SafetyInvariant, TypeOK
<1>2. e \in Durables /\ e.epoch = disk.epoch /\ Scope(e) = Scope(disk) /\ Inputs(e) = Inputs(disk)
  BY <1>1, LogTypes, LogAttemptFields
<1>3. InFlightIsOurs'
  BY <1>1 DEF SafetyInvariant, InFlightIsOurs
<1> HIDE DEF e
<1>4. (Commits(e) /\ BoundaryKept) \/ (CommitFails(e) /\ boundary' = boundary)
  BY DEF e
<1> QED
  BY <1>2, <1>3, <1>4, RecordStep

LEMMA SafetyReport ==
  ASSUME SafetyInvariant, TypeOK', Report
  PROVE  SafetyInvariant'
<1>1. PICK i \in DOMAIN attempts, s \in 1..MaxApplierSequence :
        \/ AcknowledgeMismatch(i, s)
        \/ \E accepted \in BOOLEAN : Acknowledge(i, s, accepted)
        \/ \E observation \in Observations, matches \in BOOLEAN :
             VerifyEffect(i, s, observation, matches)
  BY DEF Report
<1>2. TypeOK /\ s \in Nat /\ attempts[i] \in Attempts
  BY BoundTypes, EntryTypes DEF SafetyInvariant
<1>3. \A st \in EffectStates :
        /\ [attempts[i] EXCEPT !.state = st].boot = attempts[i].boot
        /\ [attempts[i] EXCEPT !.state = st, !.applier_sequence = s].boot = attempts[i].boot
  BY <1>2 DEF Attempts
<1>4. CASE AcknowledgeMismatch(i, s)
  <2> DEFINE t == [attempts[i] EXCEPT !.state = "Ambiguous"]
  <2>1. t \in Attempts /\ t.boot = attempts[i].boot
    BY <1>2, <1>3, AttemptTypes DEF EffectStates
  <2>2. Complete(i, t, UNCHANGED intent) /\ attempts[i].state \notin Terminal
    BY <1>4 DEF AcknowledgeMismatch
  <2> HIDE DEF t
  <2> QED
    BY <2>1, <2>2, CompleteStep DEF Complete, BoundaryKept, intent, identity, definitions, evidences
<1>5. ASSUME NEW accepted \in BOOLEAN, Acknowledge(i, s, accepted)
      PROVE  SafetyInvariant'
  <2> DEFINE t == [attempts[i] EXCEPT !.state = IF accepted THEN "Acknowledged" ELSE "Failed",
                                      !.applier_sequence = s]
  <2>1. t \in Attempts /\ t.boot = attempts[i].boot
    <3>1. (IF accepted THEN "Acknowledged" ELSE "Failed") \in EffectStates
      BY DEF EffectStates
    <3> QED
      BY <1>2, <1>3, <3>1, AttemptTypes
  <2>2. /\ attempts[i].state \notin Terminal
        /\ Complete(i, t,
             /\ effect_state' = Recompute(effect_requires_reverification, boundary, boundary_plan,
                                          [attempts EXCEPT ![i] = t])
             /\ UNCHANGED <<boundary, boundary_plan, effect_requires_reverification>>)
    BY <1>5 DEF Acknowledge
  <2> HIDE DEF t
  <2> QED
    BY <2>1, <2>2, CompleteStep DEF Complete, BoundaryKept, intent, identity, definitions, evidences
<1>6. ASSUME NEW observation \in Observations, NEW matches \in BOOLEAN,
             VerifyEffect(i, s, observation, matches)
      PROVE  SafetyInvariant'
  <2> DEFINE t == [attempts[i] EXCEPT !.state = Observed(observation, matches), !.applier_sequence = s]
             reverify == effect_requires_reverification /\ t.state \notin Verified
  <2>1. t \in Attempts /\ t.boot = attempts[i].boot /\ t.state = Observed(observation, matches)
    BY <1>2, <1>3, ObservedType, AttemptTypes
  <2>2. Observed(observation, matches) \in Terminal
    BY DEF Observed, Observations, Terminal, EffectStates
  <2>3. Complete(i, t,
          /\ Adopt(t)
          /\ effect_requires_reverification' = reverify
          /\ effect_state' = Recompute(reverify, boundary', boundary_plan', [attempts EXCEPT ![i] = t]))
    BY <1>6 DEF VerifyEffect
  <2> HIDE DEF t, reverify
  <2>4. Adopt(t) => BoundaryKept
    BY DEF Adopt, Adopts, BoundaryKept
  <2> QED
    BY <2>1, <2>2, <2>3, <2>4, CompleteStep DEF Complete, intent, identity, definitions, evidences
<1> QED
  BY <1>1, <1>4, <1>5, <1>6

\* A definition or an observation is logged as e, then published.
LEMMA IngestionStep ==
  ASSUME SafetyInvariant, TypeOK', NEW e \in Durables, e.epoch = disk.epoch, Scope(e) = Scope(disk),
         UNCHANGED <<up, epoch, boot, plans, boundary, attempts>>,
         \/ /\ Commits(e)
            /\ disk.tail = "Clean" =>
                 policy' = e.policy /\ topology' = e.topology /\ evidence' = e.evidence
         \/ CommitFails(e) /\ UNCHANGED <<policy, topology, evidence>>
  PROVE  SafetyInvariant'
<1>1. disk \in Durables /\ InFlightIsOurs' /\ BoundaryKept /\ CarryBoundaries(plans')
  BY DEF SafetyInvariant, TypeOK, InFlightIsOurs, PlansCarryBoundaries, CarryBoundaries, BoundaryKept
<1>2. /\ e.readable = disk.readable /\ e.boundary = disk.boundary /\ e.plans = disk.plans
      /\ e.tail = disk.tail
  BY DEF Scope
<1>3. ASSUME Frozen(disk', disk), disk'.tail = "Clean" => UNCHANGED <<policy, topology, evidence>>
      PROVE  SafetyInvariant'
  BY <1>1, <1>3, FrozenPreserves, PreserveStep
<1>4. CASE /\ Commits(e)
           /\ disk.tail = "Clean" =>
                policy' = e.policy /\ topology' = e.topology /\ evidence' = e.evidence
  <2>1. PICK x \in Committed(disk, e) : x = disk'
    BY <1>4 DEF Commits
  <2>2. CASE disk.tail = "Clean" /\ x = e
    <3>1. EpochOnDisk' /\ PlansCarryBoundaries' /\ InputsAreDurable'
      BY <1>2, <1>4, <2>1, <2>2 DEF SafetyInvariant, EpochOnDisk, PlansCarryBoundaries,
         CarryBoundaries, InputsAreDurable
    <3>2. DecodableOnDisk' /\ DecodableInMemory' /\ ScopeIsDurable'
      BY <1>2, <2>1, <2>2 DEF SafetyInvariant, DecodableOnDisk, DecodableInMemory, ScopeIsDurable,
         SameScope, SameMembers, AllDecodable, Decodable
    <3> QED
      BY <1>1, <3>1, <3>2 DEF SafetyInvariant
  <2> QED
    BY <1>1, <1>3, <2>1, <2>2, CommittedOutcome
<1>5. CASE CommitFails(e) /\ UNCHANGED <<policy, topology, evidence>>
  <2>1. PICK x \in NotCommitted(disk, e) : x = disk'
    BY <1>5 DEF CommitFails
  <2>2. CASE disk.tail = "Clean" /\ x.tail = "Whole" /\ x.readable = e.readable /\ Body(x) = Body(e)
    <3>1. /\ disk'.tail = "Whole" /\ disk'.readable = disk.readable /\ disk'.epoch = disk.epoch
          /\ disk'.plans = disk.plans /\ disk'.boundary = disk.boundary
      BY <1>2, <2>1, <2>2 DEF Body
    <3>2. CarryBoundaries(disk'.plans) /\ DecodableOnDisk'
      BY <3>1 DEF SafetyInvariant, PlansCarryBoundaries, CarryBoundaries, DecodableOnDisk,
         AllDecodable, Decodable
    <3> QED
      BY <1>1, <2>2, <3>1, <3>2, WholeStep
  <2> QED
    BY <1>1, <1>3, <1>5, <2>1, <2>2, FailedOutcome
<1> QED
  BY <1>4, <1>5

LEMMA SafetyIngestion ==
  ASSUME SafetyInvariant, TypeOK', ApplyTopology \/ ApplyPolicy \/ Detect
  PROVE  SafetyInvariant'
<1>1. /\ TypeOK /\ disk \in Durables /\ disk.policy \in Nat /\ disk.topology \in Nat
      /\ up /\ disk.tail = "Clean" =>
           policy = disk.policy /\ topology = disk.topology /\ evidence = disk.evidence
  BY DEF SafetyInvariant, TypeOK, Durables, InputsAreDurable
<1>2. UNCHANGED <<up, epoch, boot, plans, boundary, attempts>>
  BY DEF ApplyTopology, ApplyPolicy, Detect, RecordDetection, ReconfirmDetection,
     ConflictingDetection, identity, intent, tables
<1>3. CASE ApplyTopology
  <2>1. PICK g \in 1..MaxTopology :
          /\ up /\ topology < g /\ UNCHANGED <<policy, evidence>>
          /\ \/ Commits(LogTopology(disk, g)) /\ topology' = g
             \/ CommitFails(LogTopology(disk, g)) /\ UNCHANGED topology
    BY <1>3 DEF ApplyTopology, evidences
  <2>2. g \in Nat
    BY BoundTypes
  <2> DEFINE e == LogTopology(disk, g)
  <2>3. /\ e \in Durables /\ e.epoch = disk.epoch /\ Scope(e) = Scope(disk)
        /\ e.topology = Larger(disk.topology, g) /\ e.policy = disk.policy
        /\ e.evidence = disk.evidence
    BY <1>1, <2>2, LogTypes, LogTopologyFields
  <2>4. disk.tail = "Clean" => e.topology = g /\ e.policy = policy /\ e.evidence = evidence
    BY <1>1, <2>1, <2>2, <2>3 DEF Larger
  <2>5. \/ Commits(e) /\ topology' = g
        \/ CommitFails(e) /\ UNCHANGED topology
    BY <2>1
  <2> HIDE DEF e
  <2> QED
    BY <1>2, <2>1, <2>3, <2>4, <2>5, IngestionStep
<1>4. CASE ApplyPolicy
  <2>1. PICK g \in 1..MaxPolicy :
          /\ up /\ policy < g /\ UNCHANGED <<topology, evidence>>
          /\ \/ Commits(LogPolicy(disk, g)) /\ policy' = g
             \/ CommitFails(LogPolicy(disk, g)) /\ UNCHANGED policy
    BY <1>4 DEF ApplyPolicy, evidences
  <2>2. g \in Nat
    BY BoundTypes
  <2> DEFINE e == LogPolicy(disk, g)
  <2>3. /\ e \in Durables /\ e.epoch = disk.epoch /\ Scope(e) = Scope(disk)
        /\ e.policy = Larger(disk.policy, g) /\ e.topology = disk.topology
        /\ e.evidence = disk.evidence
    BY <1>1, <2>2, LogTypes, LogPolicyFields
  <2>4. disk.tail = "Clean" => e.policy = g /\ e.topology = topology /\ e.evidence = evidence
    BY <1>1, <2>1, <2>2, <2>3 DEF Larger
  <2>5. \/ Commits(e) /\ policy' = g
        \/ CommitFails(e) /\ UNCHANGED policy
    BY <2>1
  <2> HIDE DEF e
  <2> QED
    BY <1>2, <2>1, <2>3, <2>4, <2>5, IngestionStep
<1>5. CASE Detect
  <2>1. PICK o \in Observation :
          RecordDetection(o) \/ ReconfirmDetection(o) \/ ConflictingDetection(o)
    BY <1>5 DEF Detect
  <2>2. up /\ UNCHANGED <<policy, topology>>
    BY <2>1 DEF RecordDetection, ReconfirmDetection, ConflictingDetection, definitions
  <2>3. CASE ReconfirmDetection(o) \/ ConflictingDetection(o)
    <3>1. UNCHANGED <<evidence, disk>>
      BY <2>3 DEF ReconfirmDetection, ConflictingDetection
    <3>2. InFlightIsOurs'
      BY <1>2 DEF SafetyInvariant, InFlightIsOurs
    <3> QED
      BY <1>2, <2>2, <3>1, <3>2, MemoryStep
  <2>4. CASE RecordDetection(o)
    <3> DEFINE e == LogDetection(disk, o)
    <3>1. /\ Accepts(evidence, o)
          /\ \/ Commits(e) /\ evidence' = Merge(evidence, o)
             \/ CommitFails(e) /\ UNCHANGED evidence
      BY <2>4 DEF RecordDetection, evidences
    <3>2. /\ e \in Durables /\ e.epoch = disk.epoch /\ Scope(e) = Scope(disk)
          /\ e.policy = disk.policy /\ e.topology = disk.topology
          /\ e.evidence = IF Accepts(disk.evidence, o) THEN Merge(disk.evidence, o) ELSE disk.evidence
      BY <1>1, LogTypes, LogDetectionFields
    <3>3. disk.tail = "Clean" =>
            e.policy = policy /\ e.topology = topology /\ e.evidence = Merge(evidence, o)
      BY <1>1, <2>2, <3>1, <3>2
    <3> HIDE DEF e
    <3> QED
      BY <1>2, <2>2, <3>1, <3>2, <3>3, IngestionStep
  <2> QED
    BY <2>1, <2>3, <2>4
<1> QED
  BY <1>3, <1>4, <1>5

LEMMA SafetyCheckpoint ==
  ASSUME SafetyInvariant, TypeOK', Checkpoint
  PROVE  SafetyInvariant'
<1>1. disk' = Snapshot /\ UNCHANGED <<up, epoch, boot, policy, topology, evidence, plans, boundary, attempts>>
  BY DEF Checkpoint, identity, definitions, evidences, intent, tables
<1>2. /\ disk'.epoch = epoch /\ disk'.policy = policy /\ disk'.topology = topology
      /\ disk'.evidence = evidence /\ disk'.plans = plans /\ disk'.boundary = boundary
      /\ disk'.tail = "Clean"
      /\ disk'.readable = (AllDecodable(plans) /\ (boundary.present => Decodable(boundary)))
  BY <1>1 DEF Snapshot, AllDecodable
<1>3. epoch \in Nat
  BY DEF SafetyInvariant, TypeOK
<1>4. EpochOnDisk' /\ InFlightIsOurs' /\ PlansCarryBoundaries' /\ InputsAreDurable' /\ ScopeIsDurable'
  BY <1>1, <1>2, <1>3 DEF SafetyInvariant, EpochOnDisk, InFlightIsOurs, PlansCarryBoundaries,
     CarryBoundaries, InputsAreDurable, ScopeIsDurable, SameScope, SameMembers
<1>5. DecodableOnDisk' /\ DecodableInMemory'
  BY <1>1, <1>2 DEF DecodableOnDisk, DecodableInMemory, AllDecodable, Decodable
<1> QED
  BY <1>4, <1>5 DEF SafetyInvariant

LEMMA SafetyNext == SafetyInvariant /\ [Next]_vars => SafetyInvariant'
<1> SUFFICES ASSUME SafetyInvariant, [Next]_vars PROVE SafetyInvariant'
  OBVIOUS
<1>1. TypeOK /\ TypeOK'
  BY TypeOKNext DEF SafetyInvariant
<1>2. CASE Open
  BY <1>1, <1>2, SafetyOpen
<1>3. CASE OpenCrashes
  <2>1. UNCHANGED <<up, epoch, boot, policy, topology, evidence, plans, boundary, attempts>> /\ ~up
    BY <1>3 DEF OpenCrashes, identity, definitions, evidences, intent, tables
  <2>2. disk' \in {AfterTopology, AfterPolicy, AfterEpoch}
    BY <1>3 DEF OpenCrashes
  <2>3. /\ Scope(disk') = <<disk.readable, "Clean", disk.boundary, disk.plans>>
        /\ disk.epoch <= disk'.epoch
    BY <1>1, <2>2, OpenRecords
  <2>4. disk'.readable = disk.readable /\ disk'.boundary = disk.boundary /\ disk'.plans = disk.plans
    BY <2>3 DEF Scope
  <2>5. EpochOnDisk'
    <3>1. epoch \in Nat /\ disk.epoch \in Nat /\ disk'.epoch \in Nat /\ epoch <= disk.epoch
      BY <1>1 DEF SafetyInvariant, TypeOK, Durables, EpochOnDisk
    <3> QED
      BY <2>1, <2>3, <3>1 DEF EpochOnDisk
  <2>6. InFlightIsOurs' /\ InputsAreDurable' /\ DecodableInMemory' /\ ScopeIsDurable'
    BY <2>1 DEF InFlightIsOurs, InputsAreDurable, DecodableInMemory, ScopeIsDurable
  <2>7. PlansCarryBoundaries' /\ DecodableOnDisk'
    BY <2>1, <2>4 DEF SafetyInvariant, PlansCarryBoundaries, CarryBoundaries, DecodableOnDisk,
       AllDecodable, Decodable
  <2> QED
    BY <1>1, <2>5, <2>6, <2>7 DEF SafetyInvariant
<1>4. CASE Stop
  BY <1>1, <1>4, HaltStep DEF Stop
<1>5. CASE Tick \/ Authorize \/ PresentStale \/ UNCHANGED vars
  <2>1. UNCHANGED <<up, epoch, boot, policy, topology, evidence, plans, boundary, attempts, disk>>
    BY <1>5 DEF Tick, Authorize, PresentStale, PresentStaleAuthorization, vars, identity,
       definitions, evidences, intent, tables
  <2>2. InFlightIsOurs'
    BY <2>1 DEF SafetyInvariant, InFlightIsOurs
  <2> QED
    BY <1>1, <2>1, <2>2, MemoryStep
<1>6. CASE ApplyTopology \/ ApplyPolicy \/ Detect
  BY <1>1, <1>6, SafetyIngestion
<1>7. CASE Plan
  BY <1>1, <1>7, SafetyPlan
<1>8. CASE Transition
  BY <1>1, <1>8, SafetyTransition
<1>9. CASE Submit
  BY <1>1, <1>9, SafetySubmit
<1>10. CASE Report
  BY <1>1, <1>10, SafetyReport
<1>11. CASE Checkpoint
  BY <1>1, <1>11, SafetyCheckpoint
<1> QED
  BY <1>2, <1>3, <1>4, <1>5, <1>6, <1>7, <1>8, <1>9, <1>10, <1>11 DEF Next

\* The inductive invariant holds in every reachable state of the runtime and its store.
THEOREM SafetyHolds == Spec => []SafetyInvariant
<1> QED
  BY SafetyInit, SafetyNext, PTL DEF Spec

-----------------------------------------------------------------------------
(* The properties *)

\* open() fences everything older: an attempt in flight belongs to the serving incarnation.
THEOREM InFlightTheorem == Spec => []InFlightIsOurs
<1>1. SafetyInvariant => InFlightIsOurs
  BY DEF SafetyInvariant
<1> QED
  BY <1>1, SafetyHolds, PTL

\* As long as the store can be read back, a recovery restores the governed scope, whatever
\* crashes, adoptions, checkpoints and commits that left nothing behind came before; once a
\* failed commit has left its whole record, it restores that scope or the one last decided.
THEOREM ScopeTheorem == Spec => []ScopeIsDurable
<1>1. SafetyInvariant => ScopeIsDurable
  BY DEF SafetyInvariant
<1> QED
  BY <1>1, SafetyHolds, PTL

\* A recovery restores the definitions and the evidence that authority vectors are bound to,
\* until a failed commit leaves something in the log.
THEOREM InputsTheorem == Spec => []InputsAreDurable
<1>1. SafetyInvariant => InputsAreDurable
  BY DEF SafetyInvariant
<1> QED
  BY <1>1, SafetyHolds, PTL

\* Only open() changes the identity of the incarnation.
LEMMA BootChangesInOpen ==
  ASSUME Next, boot' # boot
  PROVE  Open
<1> SUFFICES ASSUME ~Open PROVE boot' = boot
  OBVIOUS
<1>1. CASE OpenCrashes \/ Stop \/ Tick
  BY <1>1 DEF OpenCrashes, Stop, Halt, Tick, identity
<1>2. CASE ApplyTopology \/ ApplyPolicy \/ Detect
  BY <1>2 DEF ApplyTopology, ApplyPolicy, Detect, RecordDetection, ReconfirmDetection,
     ConflictingDetection, identity
<1>3. CASE Authorize \/ PresentStale \/ Plan \/ Checkpoint
  BY <1>3 DEF Authorize, PresentStale, PresentStaleAuthorization, Plan, Checkpoint, identity
<1>4. CASE Transition
  BY <1>4 DEF Transition, AcceptTransition, OnlyTransitionCounted, RefuseTransition, RefusalLost,
     Halt, identity
<1>5. CASE Submit
  BY <1>5 DEF Submit, SubmitApply, identity
<1>6. CASE Report
  <2>1. PICK i \in DOMAIN attempts, s \in 1..MaxApplierSequence :
          \/ AcknowledgeMismatch(i, s)
          \/ \E accepted \in BOOLEAN : Acknowledge(i, s, accepted)
          \/ \E observation \in Observations, matches \in BOOLEAN :
               VerifyEffect(i, s, observation, matches)
    BY <1>6 DEF Report
  <2>2. UNCHANGED identity
    <3>1. CASE AcknowledgeMismatch(i, s)
      BY <3>1 DEF AcknowledgeMismatch, Complete
    <3>2. ASSUME NEW accepted \in BOOLEAN, Acknowledge(i, s, accepted)
          PROVE  UNCHANGED identity
      BY <3>2 DEF Acknowledge, Complete
    <3>3. ASSUME NEW observation \in Observations, NEW matches \in BOOLEAN,
                 VerifyEffect(i, s, observation, matches)
          PROVE  UNCHANGED identity
      BY <3>3 DEF VerifyEffect, Complete
    <3> QED
      BY <2>1, <3>1, <3>2, <3>3
  <2> QED
    BY <2>2 DEF identity
<1> QED
  BY <1>1, <1>2, <1>3, <1>4, <1>5, <1>6 DEF Next

\* A new boot identity always comes with a larger epoch, although open() may have died
\* between any two of its records any number of times.
THEOREM EpochTheorem == Spec => EpochNeverReused
<1>1. SafetyInvariant /\ [Next]_vars => [boot' # boot => epoch' > epoch]_vars
  <2> SUFFICES ASSUME SafetyInvariant, Next, boot' # boot
               PROVE  epoch' > epoch
    OBVIOUS
  <2>1. epoch \in Nat /\ disk.epoch \in Nat /\ epoch <= disk.epoch
    BY DEF SafetyInvariant, TypeOK, Durables, EpochOnDisk
  <2>2. Open
    BY BootChangesInOpen
  <2>3. epoch' = disk.epoch + 1
    BY <2>2 DEF Open, Recovered
  <2> QED
    BY <2>1, <2>3
<1> QED
  BY <1>1, SafetyHolds, PTL DEF Spec, EpochNeverReused

\* A submission or a report commits, or fails to commit, a well-formed attempt.
LEMMA RecordedAttempt ==
  ASSUME TypeOK, Submit \/ Report
  PROVE  \E t \in Attempts : Commits(LogAttempt(disk, t)) \/ CommitFails(LogAttempt(disk, t))
<1> DEFINE Records(t) == Commits(LogAttempt(disk, t)) \/ CommitFails(LogAttempt(disk, t))
<1>1. CASE Submit
  <2>1. PICK a \in DOMAIN authorizations, i \in DOMAIN plans : SubmitApply(a, i)
    BY <1>1 DEF Submit
  <2>2. plans[i].generation \in Nat /\ plans[i].boundary \in Boundaries
    BY EntryTypes
  <2>3. NewAttempt(plans[i]) \in Attempts
    BY <2>2 DEF TypeOK, NewAttempt, Attempts, EffectStates
  <2>4. Records(NewAttempt(plans[i]))
    BY <2>1 DEF SubmitApply
  <2> QED
    BY <2>3, <2>4
<1>2. CASE Report
  <2>1. PICK i \in DOMAIN attempts, s \in 1..MaxApplierSequence :
          \/ AcknowledgeMismatch(i, s)
          \/ \E accepted \in BOOLEAN : Acknowledge(i, s, accepted)
          \/ \E observation \in Observations, matches \in BOOLEAN :
               VerifyEffect(i, s, observation, matches)
    BY <1>2 DEF Report
  <2>2. \A st \in EffectStates :
          /\ [attempts[i] EXCEPT !.state = st] \in Attempts
          /\ [attempts[i] EXCEPT !.state = st, !.applier_sequence = s] \in Attempts
    <3>1. s \in Nat
      BY BoundTypes
    <3> QED
      BY <3>1, AttemptTypes
  <2>3. {"Ambiguous", "Acknowledged", "Failed"} \subseteq EffectStates
    BY DEF EffectStates
  <2>4. CASE AcknowledgeMismatch(i, s)
    <3>1. Records([attempts[i] EXCEPT !.state = "Ambiguous"])
      BY <2>4 DEF AcknowledgeMismatch, Complete
    <3> QED
      BY <2>2, <2>3, <3>1
  <2>5. ASSUME NEW accepted \in BOOLEAN, Acknowledge(i, s, accepted)
        PROVE  \E t \in Attempts : Records(t)
    <3>1. Records([attempts[i] EXCEPT !.state = IF accepted THEN "Acknowledged" ELSE "Failed",
                                      !.applier_sequence = s])
      BY <2>5 DEF Acknowledge, Complete
    <3> QED
      BY <2>2, <2>3, <3>1
  <2>6. ASSUME NEW observation \in Observations, NEW matches \in BOOLEAN,
               VerifyEffect(i, s, observation, matches)
        PROVE  \E t \in Attempts : Records(t)
    <3>1. Records([attempts[i] EXCEPT !.state = Observed(observation, matches),
                                      !.applier_sequence = s])
      BY <2>6 DEF VerifyEffect, Complete
    <3> QED
      BY <2>2, <3>1, ObservedType
  <2> QED
    BY <2>1, <2>4, <2>5, <2>6
<1> QED
  BY <1>1, <1>2

\* Definitions and evidence of a durable state that are no older than those of another, and
\* what a commit of such a state leaves.
NoOlder(x, d) ==
  /\ d.policy <= x.policy /\ d.topology <= x.topology
  /\ \A r \in Resources : d.evidence[r].generation <= x.evidence[r].generation

LEMMA SameInputs ==
  ASSUME NEW d \in Durables, NEW x, Inputs(x) = Inputs(d)
  PROVE  NoOlder(x, d)
<1>1. d.policy \in Nat /\ d.topology \in Nat /\ \A r \in Resources : d.evidence[r].generation \in Nat
  BY DEF Durables, Evidences
<1> QED
  BY <1>1 DEF NoOlder, Inputs

LEMMA LoggedNoOlder ==
  ASSUME NEW d \in Durables, NEW e \in Durables, NoOlder(e, d),
         NEW x \in Committed(d, e) \cup NotCommitted(d, e)
  PROVE  NoOlder(x, d)
<1>1. ASSUME Frozen(x, d) PROVE NoOlder(x, d)
  BY <1>1, SameInputs DEF Frozen, Body, Inputs
<1>2. ASSUME Body(x) = Body(e) PROVE NoOlder(x, d)
  BY <1>2 DEF Body, NoOlder
<1>3. Frozen(x, d) \/ x = e \/ Body(x) = Body(e)
  BY CommittedOutcome, FailedOutcome
<1> QED
  BY <1>1, <1>2, <1>3

LEMMA CommitNoOlder ==
  ASSUME TypeOK, NEW e \in Durables, NoOlder(e, disk), Commits(e) \/ CommitFails(e)
  PROVE  NoOlder(disk', disk)
<1>1. PICK x \in Committed(disk, e) \cup NotCommitted(disk, e) : x = disk'
  BY DEF Commits, CommitFails
<1>2. disk \in Durables
  BY DEF TypeOK
<1> QED
  BY <1>1, <1>2, LoggedNoOlder

\* The durable generations of policy, topology and evidence never go back: not by a record
\* replayed late, not by a configured policy older than the stored one, not by what a failed
\* commit leaves in the log, and by a snapshot only when it drops what such a commit left.
THEOREM DurableInputsTheorem == Spec => DurableInputsNeverRegress
<1> DEFINE Advance == NoOlder(disk', disk)
<1>1. SafetyInvariant /\ [Next]_vars =>
        [disk.tail = "Clean" \/ UNCHANGED checkpoints => NoOlder(disk', disk)]_vars
  <2> SUFFICES ASSUME SafetyInvariant, Next, disk.tail = "Clean" \/ UNCHANGED checkpoints
               PROVE  Advance
    OBVIOUS
  <2>1. TypeOK /\ disk \in Durables
    BY DEF SafetyInvariant, TypeOK
  <2>2. /\ disk.policy \in Nat /\ disk.topology \in Nat
        /\ \A r \in Resources : disk.evidence[r].generation \in Nat
    BY <2>1 DEF Durables, Evidences
  <2>4. CASE Open \/ OpenCrashes
    <3>1. disk' \in {AfterTopology, AfterPolicy, AfterEpoch, AfterFence}
      BY <2>4 DEF Open, OpenCrashes
    <3> QED
      BY <2>1, <2>2, <3>1, OpenRecords DEF NoOlder
  <2>5. CASE Stop \/ Tick \/ Authorize \/ PresentStale
    <3>1. disk' = disk
      BY <2>5 DEF Stop, Tick, Authorize, PresentStale, PresentStaleAuthorization
    <3> QED
      BY <2>1, <3>1, SameInputs
  <2>6. CASE ApplyTopology \/ ApplyPolicy
    <3>1. PICK g \in Nat : \/ Commits(LogTopology(disk, g)) \/ CommitFails(LogTopology(disk, g))
                           \/ Commits(LogPolicy(disk, g)) \/ CommitFails(LogPolicy(disk, g))
      BY <2>6, BoundTypes DEF ApplyTopology, ApplyPolicy
    <3>2. disk.topology <= Larger(disk.topology, g) /\ disk.policy <= Larger(disk.policy, g)
      BY <2>2, LargerType
    <3>3. LogTopology(disk, g) \in Durables /\ NoOlder(LogTopology(disk, g), disk)
      <4> DEFINE e == LogTopology(disk, g)
      <4>1. /\ e \in Durables /\ e.topology = Larger(disk.topology, g)
            /\ e.policy = disk.policy /\ e.evidence = disk.evidence
        BY <2>1, LogTypes, LogTopologyFields
      <4> HIDE DEF e
      <4>2. NoOlder(e, disk)
        BY <2>2, <3>2, <4>1 DEF NoOlder
      <4> QED
        BY <4>1, <4>2 DEF e
    <3>4. LogPolicy(disk, g) \in Durables /\ NoOlder(LogPolicy(disk, g), disk)
      <4> DEFINE e == LogPolicy(disk, g)
      <4>1. /\ e \in Durables /\ e.policy = Larger(disk.policy, g)
            /\ e.topology = disk.topology /\ e.evidence = disk.evidence
        BY <2>1, LogTypes, LogPolicyFields
      <4> HIDE DEF e
      <4>2. NoOlder(e, disk)
        BY <2>2, <3>2, <4>1 DEF NoOlder
      <4> QED
        BY <4>1, <4>2 DEF e
    <3> QED
      BY <2>1, <3>1, <3>3, <3>4, CommitNoOlder
  <2>7. CASE Detect
    <3>1. PICK o \in Observation :
            disk' = disk \/ Commits(LogDetection(disk, o)) \/ CommitFails(LogDetection(disk, o))
      BY <2>7 DEF Detect, RecordDetection, ReconfirmDetection, ConflictingDetection
    <3>2. o.resource \in Resources /\ o.generation \in Nat
      BY <2>1, IngestionTypes
    <3>3. ASSUME Accepts(disk.evidence, o), NEW r \in Resources
          PROVE  disk.evidence[r].generation <= Merge(disk.evidence, o)[r].generation
      BY <2>1, <2>2, <3>2, <3>3 DEF Accepts, Merge, Durables, Evidences
    <3>4. LogDetection(disk, o) \in Durables /\ NoOlder(LogDetection(disk, o), disk)
      <4> DEFINE e == LogDetection(disk, o)
      <4>1. /\ e \in Durables /\ e.policy = disk.policy /\ e.topology = disk.topology
            /\ e.evidence = IF Accepts(disk.evidence, o) THEN Merge(disk.evidence, o) ELSE disk.evidence
        BY <2>1, LogTypes, LogDetectionFields
      <4> HIDE DEF e
      <4>2. \A r \in Resources : disk.evidence[r].generation <= e.evidence[r].generation
        BY <2>2, <3>3, <4>1
      <4>3. NoOlder(e, disk)
        BY <2>2, <4>1, <4>2 DEF NoOlder
      <4> QED
        BY <4>1, <4>3 DEF e
    <3> QED
      BY <2>1, <3>1, <3>4, CommitNoOlder, SameInputs
  <2>8. CASE Plan
    <3>1. PICK c \in PlanResults(plan_counter + 1) :
            Commits(LogPlan(disk, NewPlan(c))) \/ CommitFails(LogPlan(disk, NewPlan(c)))
      BY <2>8 DEF Plan
    <3>2. LogPlan(disk, NewPlan(c)) \in Durables /\ NoOlder(LogPlan(disk, NewPlan(c)), disk)
      BY <2>1, PlanType, LogTypes, LogPlanFields, SameInputs
    <3> QED
      BY <2>1, <3>1, <3>2, CommitNoOlder
  <2>9. CASE Transition
    <3>1. ASSUME NEW a \in DOMAIN authorizations, NEW i \in DOMAIN plans, NEW k \in Kinds,
                 AcceptTransition(a, i, k)
          PROVE  Advance
      <4> DEFINE t == Decided(k, plans[i])
                 InForceOn(d) == LogBoundary(d, plans[i].generation, t.to)
      <4>1. t \in Decisions /\ t.to \in Boundaries /\ plans[i].generation \in Nat
        BY <2>1, DecisionTypes
      <4>2. \/ \E d \in Committed(disk, LogTransition(disk, t)) :
                 disk' = d \/ disk' \in Committed(d, InForceOn(d)) \cup NotCommitted(d, InForceOn(d))
            \/ CommitFails(LogTransition(disk, t))
        BY <3>1 DEF AcceptTransition
      <4> HIDE DEF t
      <4>3. LogTransition(disk, t) \in Durables /\ NoOlder(LogTransition(disk, t), disk)
        BY <2>1, <4>1, LogTypes, LogTransitionFields, SameInputs
      <4>4. CASE CommitFails(LogTransition(disk, t))
        BY <2>1, <4>3, <4>4, CommitNoOlder
      <4>5. ASSUME NEW d \in Committed(disk, LogTransition(disk, t)),
                   disk' = d \/ disk' \in Committed(d, InForceOn(d)) \cup NotCommitted(d, InForceOn(d))
            PROVE  Advance
        <5>0. d \in Durables
          BY <2>1, <4>3, CommitTypes
        <5>1. InForceOn(d) \in Durables /\ NoOlder(InForceOn(d), d)
          <6>1. InForceOn(d) \in Durables
            BY <4>1, <5>0, LogTypes
          <6>2. Inputs(InForceOn(d)) = Inputs(d)
            BY <4>1, <5>0, LogBoundaryFields
          <6> HIDE DEF InForceOn
          <6> QED
            BY <5>0, <6>1, <6>2, SameInputs
        <5> HIDE DEF InForceOn
        <5>2. NoOlder(d, disk)
          BY <2>1, <4>3, LoggedNoOlder
        <5>3. PICK x \in Durables : x = disk' /\ NoOlder(x, d)
          BY <4>5, <5>0, <5>1, LoggedNoOlder, CommitTypes, SameInputs
        <5>4. ASSUME NEW y \in Durables
              PROVE  y.policy \in Nat /\ y.topology \in Nat /\ \A r \in Resources : y.evidence[r].generation \in Nat
          BY DEF Durables, Evidences
        <5>5. NoOlder(x, disk)
          BY <2>1, <5>0, <5>2, <5>3, <5>4 DEF NoOlder
        <5> QED
          BY <5>3, <5>5
      <4> QED
        BY <4>2, <4>4, <4>5
    <3>2. ASSUME NEW a \in 0..Len(authorizations), RefuseTransition(a) \/ RefusalLost(a)
          PROVE  Advance
      <4>1. LogTransition(disk, Refused) \in Durables /\ NoOlder(LogTransition(disk, Refused), disk)
        BY <2>1, RefusedType, LogTypes, LogTransitionFields, SameInputs
      <4> QED
        BY <2>1, <3>2, <4>1, CommitNoOlder DEF RefuseTransition, RefusalLost
    <3> QED
      BY <2>9, <3>1, <3>2 DEF Transition
  <2>10. CASE Submit \/ Report
    <3>1. PICK t \in Attempts : Commits(LogAttempt(disk, t)) \/ CommitFails(LogAttempt(disk, t))
      BY <2>1, <2>10, RecordedAttempt
    <3>2. LogAttempt(disk, t) \in Durables /\ NoOlder(LogAttempt(disk, t), disk)
      BY <2>1, LogTypes, LogAttemptFields, SameInputs
    <3> QED
      BY <2>1, <3>1, <3>2, CommitNoOlder
  <2>11. CASE Checkpoint
    <3>1. up /\ disk' = Snapshot /\ checkpoints' # checkpoints
      BY <2>1, <2>11 DEF Checkpoint, TypeOK
    <3>2. disk'.policy = policy /\ disk'.topology = topology /\ disk'.evidence = evidence
      BY <3>1 DEF Snapshot
    <3> QED
      BY <2>2, <3>1, <3>2 DEF SafetyInvariant, InputsAreDurable, NoOlder
  <2> QED
    BY <2>4, <2>5, <2>6, <2>7, <2>8, <2>9, <2>10, <2>11 DEF Next
<1> QED
  BY <1>1, SafetyHolds, PTL DEF Spec, DurableInputsNeverRegress, NoOlder

(***************************************************************************)
(* III.  Leases: the order of the table, and leases that stay refused      *)
(***************************************************************************)

-----------------------------------------------------------------------------
(* The inductive invariant *)

\* A lease was issued before now, under generations that have only grown since.
IssuedEarlier(a) ==
  /\ a.id <= authorization_counter /\ a.expires <= now + Lease
  /\ a.authority.policy <= policy /\ a.authority.topology <= topology
  /\ a.authority.evidence_revision <= evidence_revision

LeasesBounded == \A i \in DOMAIN authorizations : IssuedEarlier(authorizations[i])

\* Leases are in the order of their ids, and none expires before an earlier one.
LeasesInOrder ==
  \A i, j \in DOMAIN authorizations : i < j =>
    /\ authorizations[i].id < authorizations[j].id
    /\ authorizations[i].expires <= authorizations[j].expires

LeaseInvariant == TypeOK /\ LeasesBounded /\ LeasesInOrder

-----------------------------------------------------------------------------
(* The steps *)

\* What an operation of a serving incarnation does to the inputs of validate_authorization.
Advances ==
  /\ UNCHANGED <<epoch, boot>> /\ now <= now' /\ policy <= policy' /\ topology <= topology'
  /\ evidence_revision <= evidence_revision'
  /\ evidence_revision' = evidence_revision => evidence' = evidence

\* The table keeps its leases; some may have been fenced.
SameLeases ==
  /\ authorization_counter' = authorization_counter
  /\ Len(authorizations') = Len(authorizations)
  /\ \A i \in 1..Len(authorizations) :
       /\ authorizations'[i].id = authorizations[i].id
       /\ authorizations'[i].authority = authorizations[i].authority
       /\ authorizations'[i].expires = authorizations[i].expires
       /\ authorizations[i].fenced => authorizations'[i].fenced

LEMMA NowGrows ==
  ASSUME TypeOK
  PROVE  UNCHANGED <<identity, definitions, evidences, now>> => Advances
<1>1. /\ now \in Nat /\ policy \in Nat /\ topology \in Nat /\ evidence_revision \in Nat
  BY DEF TypeOK
<1> QED
  BY <1>1 DEF Advances, identity, definitions, evidences

\* Every step ends the incarnation, opens one with an empty table, keeps the leases or adds one.
LEMMA LeaseSteps ==
  ASSUME TypeOK, [Next]_vars
  PROVE  \/ authorizations' = <<>> /\ (~up \/ ~up')
         \/ Advances /\ (SameLeases \/ Authorize)
<1>1. /\ now \in Nat /\ policy \in Nat /\ topology \in Nat /\ evidence_revision \in Nat
      /\ authorizations \in Seq(Authorizations)
  BY DEF TypeOK
<1>2. UNCHANGED <<authorizations, authorization_counter>> => SameLeases
  BY <1>1 DEF SameLeases
<1>3. ASSUME NEW k \in Int, authorizations' = Fencing(k),
             authorization_counter' = authorization_counter
      PROVE  SameLeases
  <2>1. DOMAIN authorizations = 1..Len(authorizations)
    BY <1>1
  <2> QED
    BY <1>3, <2>1, FencingType DEF SameLeases
<1>4. CASE Open \/ Stop
  BY <1>4 DEF Open, Recovered, Stop, Halt
<1>5. CASE OpenCrashes \/ Tick \/ Checkpoint \/ UNCHANGED vars
  <2>1. UNCHANGED <<identity, definitions, evidences, counters, tables>> /\ (now' = now \/ now' = now + 1)
    BY <1>5 DEF OpenCrashes, Tick, Checkpoint, vars
  <2>2. Advances
    BY <1>1, <2>1 DEF Advances, identity, definitions, evidences
  <2> QED
    BY <1>2, <2>1, <2>2 DEF counters, tables
<1>6. CASE ApplyTopology \/ ApplyPolicy
  <2>1. /\ UNCHANGED <<identity, evidences, counters, tables, now>>
        /\ policy <= policy' /\ topology <= topology'
    BY <1>1, <1>6, BoundTypes DEF ApplyTopology, ApplyPolicy
  <2> QED
    BY <1>1, <1>2, <2>1 DEF Advances, identity, evidences, counters, tables
<1>7. CASE Detect
  <2>1. /\ UNCHANGED <<identity, definitions, counters, tables, now>>
        /\ \/ evidence_revision' = evidence_revision + 1
           \/ evidence_revision' = evidence_revision /\ evidence' = evidence
    BY <1>7 DEF Detect, RecordDetection, ReconfirmDetection, ConflictingDetection, evidences
  <2> QED
    BY <1>1, <1>2, <2>1 DEF Advances, identity, definitions, counters, tables
<1>8. CASE Authorize
  <2>1. UNCHANGED <<identity, definitions, evidences, now>>
    BY <1>8 DEF Authorize
  <2> QED
    BY <1>8, <2>1, NowGrows
<1>9. CASE PresentStale
  <2>1. PICK k \in DOMAIN authorizations : PresentStaleAuthorization(k)
    BY <1>9 DEF PresentStale
  <2>2. k \in Int /\ authorizations' = Fencing(k)
        /\ UNCHANGED <<identity, definitions, evidences, counters, now>>
    BY <1>1, <2>1 DEF PresentStaleAuthorization
  <2> QED
    BY <1>3, <2>2, NowGrows DEF counters
<1>10. CASE Plan
  <2>1. UNCHANGED <<identity, definitions, evidences, authorizations, authorization_counter, now>>
    BY <1>10 DEF Plan
  <2> QED
    BY <1>2, <2>1, NowGrows
<1>11. ASSUME NEW a \in DOMAIN authorizations, NEW i \in DOMAIN plans, NEW k \in Kinds,
              AcceptTransition(a, i, k)
       PROVE  \/ authorizations' = <<>> /\ ~up'
              \/ Advances /\ SameLeases
  <2>1. \/ Halt
        \/ UNCHANGED <<identity, definitions, evidences, authorizations, authorization_counter, now>>
    BY <1>11 DEF AcceptTransition, OnlyTransitionCounted, tables
  <2> QED
    BY <1>2, <2>1, NowGrows DEF Halt
<1>12. ASSUME NEW a \in 0..Len(authorizations), RefuseTransition(a) \/ RefusalLost(a)
       PROVE  Advances /\ SameLeases
  <2>1. /\ a \in Int /\ authorizations' = Fencing(a)
        /\ UNCHANGED <<identity, definitions, evidences, authorization_counter, now>>
    BY <1>1, <1>12 DEF RefuseTransition, RefusalLost
  <2> QED
    BY <1>3, <2>1, NowGrows
<1>13. CASE Submit
  <2>1. UNCHANGED <<identity, definitions, evidences, authorizations, authorization_counter, now>>
    BY <1>13 DEF Submit, SubmitApply, tables
  <2> QED
    BY <1>2, <2>1, NowGrows
<1>14. CASE Report
  <2>1. PICK i \in DOMAIN attempts, s \in 1..MaxApplierSequence :
          \/ AcknowledgeMismatch(i, s)
          \/ \E accepted \in BOOLEAN : Acknowledge(i, s, accepted)
          \/ \E observation \in Observations, matches \in BOOLEAN :
               VerifyEffect(i, s, observation, matches)
    BY <1>14 DEF Report
  <2>2. UNCHANGED <<identity, definitions, evidences, counters, authorizations, now>>
    <3>1. CASE AcknowledgeMismatch(i, s)
      BY <3>1 DEF AcknowledgeMismatch, Complete
    <3>2. ASSUME NEW accepted \in BOOLEAN, Acknowledge(i, s, accepted)
          PROVE  UNCHANGED <<identity, definitions, evidences, counters, authorizations, now>>
      BY <3>2 DEF Acknowledge, Complete
    <3>3. ASSUME NEW observation \in Observations, NEW matches \in BOOLEAN,
                 VerifyEffect(i, s, observation, matches)
          PROVE  UNCHANGED <<identity, definitions, evidences, counters, authorizations, now>>
      BY <3>3 DEF VerifyEffect, Complete
    <3> QED
      BY <2>1, <3>1, <3>2, <3>3
  <2> QED
    BY <1>2, <2>2, NowGrows DEF counters
<1> QED
  BY <1>4, <1>5, <1>6, <1>7, <1>8, <1>9, <1>10, <1>11, <1>12, <1>13, <1>14 DEF Next, Transition

LEMMA LeaseInit == Init => LeaseInvariant
  BY TypeOKInit DEF Init, LeaseInvariant, LeasesBounded, LeasesInOrder

\* The parts of a lease that are compared are numbers.
LEMMA LeaseParts ==
  ASSUME TypeOK, NEW i \in DOMAIN authorizations
  PROVE  /\ authorizations[i].id \in Nat /\ authorizations[i].expires \in Nat
         /\ authorizations[i].authority \in Authorities
         /\ authorizations[i].authority.policy \in Nat
         /\ authorizations[i].authority.topology \in Nat
         /\ authorizations[i].authority.evidence_revision \in Nat
<1>1. authorizations[i] \in Authorizations
  BY ElementOfSeq DEF TypeOK
<1> QED
  BY <1>1 DEF Authorizations, Authorities

LEMMA LeaseKept ==
  ASSUME LeaseInvariant, TypeOK', Advances, SameLeases
  PROVE  LeaseInvariant'
<1>1. /\ TypeOK /\ authorizations \in Seq(Authorizations) /\ authorizations' \in Seq(Authorizations)
      /\ now \in Nat /\ now' \in Nat /\ policy \in Nat /\ policy' \in Nat
      /\ topology \in Nat /\ topology' \in Nat /\ Lease \in Nat
      /\ evidence_revision \in Nat /\ evidence_revision' \in Nat
  BY BoundTypes DEF LeaseInvariant, TypeOK
<1>2. /\ DOMAIN authorizations = 1..Len(authorizations)
      /\ DOMAIN authorizations' = 1..Len(authorizations)
  BY <1>1 DEF SameLeases
<1>3. ASSUME NEW i \in DOMAIN authorizations'
      PROVE  IssuedEarlier(authorizations[i])'
  <2>1. /\ authorizations'[i].id = authorizations[i].id
        /\ authorizations'[i].authority = authorizations[i].authority
        /\ authorizations'[i].expires = authorizations[i].expires
        /\ authorization_counter' = authorization_counter
    BY <1>2 DEF SameLeases
  <2>2. IssuedEarlier(authorizations[i]) /\ i \in DOMAIN authorizations
    BY <1>2 DEF LeaseInvariant, LeasesBounded
  <2>3. /\ authorizations[i].expires \in Nat /\ authorizations[i].authority.policy \in Nat
        /\ authorizations[i].authority.topology \in Nat
        /\ authorizations[i].authority.evidence_revision \in Nat
    BY <1>1, <2>2, LeaseParts
  <2>4. authorizations[i].expires <= now' + Lease
    BY <1>1, <2>2, <2>3 DEF IssuedEarlier, Advances
  <2>5. /\ authorizations[i].authority.policy <= policy'
        /\ authorizations[i].authority.topology <= topology'
        /\ authorizations[i].authority.evidence_revision <= evidence_revision'
    <3>1. \A x, y, z \in Nat : x <= y /\ y <= z => x <= z
      OBVIOUS
    <3> QED
      BY <1>1, <2>2, <2>3, <3>1 DEF IssuedEarlier, Advances
  <2> QED
    BY <2>1, <2>2, <2>4, <2>5 DEF IssuedEarlier
<1>4. LeasesBounded'
  BY <1>3 DEF LeasesBounded
<1>5. LeasesInOrder'
  BY <1>2 DEF LeaseInvariant, LeasesInOrder, SameLeases
<1> QED
  BY <1>4, <1>5 DEF LeaseInvariant

LEMMA LeaseIssued ==
  ASSUME LeaseInvariant, TypeOK', Advances, Authorize
  PROVE  LeaseInvariant'
<1>1. /\ TypeOK /\ authorizations \in Seq(Authorizations) /\ now \in Nat /\ Lease \in Nat
      /\ policy \in Nat /\ topology \in Nat /\ evidence_revision \in Nat
      /\ authorization_counter \in Nat
  BY BoundTypes DEF LeaseInvariant, TypeOK
<1>2. PICK n \in 0..Len(authorizations) :
        authorizations' = Issue(n) /\ authorization_counter' = authorization_counter + 1
  BY DEF Authorize
<1>3. UNCHANGED <<policy, topology, evidence_revision, now>>
  BY DEF Authorize, definitions, evidences
<1>4. PICK m \in Nat : m = Len(authorizations) - n
  BY <1>1
<1>5. /\ Len(authorizations') = m + 1
      /\ \A i \in 1..m : authorizations'[i] = authorizations[n + i]
      /\ authorizations'[m + 1] = Leased
      /\ authorizations' \in Seq(Authorizations)
  BY <1>1, <1>2, <1>4, LeaseTypes
<1>6. DOMAIN authorizations' = 1..(m + 1)
  BY <1>5
<1>7. \A i \in 1..m : n + i \in DOMAIN authorizations
  <2>1. DOMAIN authorizations = 1..Len(authorizations) /\ Len(authorizations) \in Nat
    BY <1>1
  <2> QED
    BY <1>4, <2>1
<1>8. \A i \in 1..(m + 1) : i \in 1..m \/ i = m + 1
  OBVIOUS
<1>9. /\ Leased.id = authorization_counter + 1 /\ Leased.expires = now + Lease
      /\ Leased.authority.policy = policy /\ Leased.authority.topology = topology
      /\ Leased.authority.evidence_revision = evidence_revision
  BY DEF Leased, current_authority
<1>10. ASSUME NEW i \in 1..m
       PROVE  /\ IssuedEarlier(authorizations[n + i])
              /\ authorizations[n + i].id \in Nat /\ authorizations[n + i].expires \in Nat
  BY <1>1, <1>7, LeaseParts DEF LeaseInvariant, LeasesBounded
<1>11. LeasesBounded'
  <2>1. ASSUME NEW i \in 1..m
        PROVE  IssuedEarlier(authorizations[i])'
    <3>1. authorizations[n + i].id <= authorization_counter + 1
      BY <1>1, <1>10 DEF IssuedEarlier
    <3> QED
      BY <1>2, <1>3, <1>5, <1>10, <3>1 DEF IssuedEarlier
  <2>2. ASSUME NEW i, i = m + 1
        PROVE  IssuedEarlier(authorizations[i])'
    <3>1. /\ authorizations'[i].id = authorization_counter' /\ authorizations'[i].expires = now' + Lease
          /\ authorizations'[i].authority.policy = policy'
          /\ authorizations'[i].authority.topology = topology'
          /\ authorizations'[i].authority.evidence_revision = evidence_revision'
      BY <1>2, <1>3, <1>5, <1>9, <2>2
    <3>2. /\ authorization_counter' \in Nat /\ now' + Lease \in Nat /\ policy' \in Nat
          /\ topology' \in Nat /\ evidence_revision' \in Nat
      BY <1>1, <1>2, <1>3
    <3>3. \A x \in Nat : x <= x
      OBVIOUS
    <3> QED
      BY <3>1, <3>2, <3>3 DEF IssuedEarlier
  <2> QED
    BY <1>6, <1>8, <2>1, <2>2 DEF LeasesBounded
<1>12. LeasesInOrder'
  <2> SUFFICES ASSUME NEW i \in 1..(m + 1), NEW j \in 1..(m + 1), i < j
               PROVE  /\ authorizations'[i].id < authorizations'[j].id
                      /\ authorizations'[i].expires <= authorizations'[j].expires
    BY <1>6 DEF LeasesInOrder
  <2>1. i \in 1..m
    OBVIOUS
  <2>2. CASE j \in 1..m
    <3>1. n + i < n + j /\ n + i \in DOMAIN authorizations /\ n + j \in DOMAIN authorizations
      BY <1>7, <2>1, <2>2
    <3> QED
      BY <1>5, <2>1, <2>2, <3>1 DEF LeaseInvariant, LeasesInOrder
  <2>3. CASE j = m + 1
    <3>1. authorizations[n + i].id < authorization_counter + 1
      <4>1. \A x, y \in Nat : x <= y => x < y + 1
        OBVIOUS
      <4> QED
        BY <1>1, <1>10, <2>1, <4>1 DEF IssuedEarlier
    <3> QED
      BY <1>5, <1>9, <1>10, <2>1, <2>3, <3>1 DEF IssuedEarlier
  <2> QED
    BY <1>8, <2>2, <2>3
<1> QED
  BY <1>11, <1>12 DEF LeaseInvariant

LEMMA LeaseNext == LeaseInvariant /\ [Next]_vars => LeaseInvariant'
<1> SUFFICES ASSUME LeaseInvariant, [Next]_vars PROVE LeaseInvariant'
  OBVIOUS
<1>1. TypeOK /\ TypeOK'
  BY TypeOKNext DEF LeaseInvariant
<1>2. CASE authorizations' = <<>>
  BY <1>1, <1>2 DEF LeaseInvariant, LeasesBounded, LeasesInOrder
<1>3. CASE Advances /\ SameLeases
  BY <1>1, <1>3, LeaseKept
<1>4. CASE Advances /\ Authorize
  BY <1>1, <1>4, LeaseIssued
<1> QED
  BY <1>1, <1>2, <1>3, <1>4, LeaseSteps

\* Every lease was issued under generations that are not ahead of the current ones, and the
\* table has them in the order of their ids and of their ends.
THEOREM LeasesHold == Spec => []LeaseInvariant
<1> QED
  BY LeaseInit, LeaseNext, PTL DEF Spec

-----------------------------------------------------------------------------
(* The properties *)

\* Popping expired leases from the front of the table gets all of them: behind a lease that is
\* still good there is none that is not.
THEOREM ExpiredLeaseTheorem == Spec => []ExpiredLeaseIsNeverHidden
<1>1. LeaseInvariant => ExpiredLeaseIsNeverHidden
  <2> SUFFICES ASSUME LeaseInvariant, authorizations[1].expires > now,
                      NEW i \in DOMAIN authorizations
               PROVE  authorizations[i].expires > now
    BY DEF ExpiredLeaseIsNeverHidden
  <2>1. TypeOK /\ authorizations \in Seq(Authorizations) /\ now \in Nat
    BY DEF LeaseInvariant, TypeOK
  <2>2. i \in Nat /\ i >= 1 /\ 1 \in DOMAIN authorizations
    BY <2>1
  <2>3. authorizations[i].expires \in Nat /\ authorizations[1].expires \in Nat
    BY <2>1, <2>2, LeaseParts
  <2>4. CASE i = 1
    BY <2>4
  <2>5. CASE i # 1
    <3>1. authorizations[1].expires <= authorizations[i].expires
      BY <2>2, <2>5 DEF LeaseInvariant, LeasesInOrder
    <3> QED
      BY <2>1, <2>3, <3>1
  <2> QED
    BY <2>4, <2>5
<1> QED
  BY <1>1, LeasesHold, PTL

\* A lease that does not hold now does not hold after the next operation of the incarnation
\* either: time, policy, topology and evidence revision only grow past what it names.
LEMMA RefusedStaysRefused ==
  ASSUME TypeOK, TypeOK', Advances, NEW i \in DOMAIN authorizations, NEW j \in DOMAIN authorizations',
         IssuedEarlier(authorizations[i]), ~Usable(authorizations[i]),
         authorizations'[j].authority = authorizations[i].authority,
         authorizations'[j].expires = authorizations[i].expires,
         authorizations[i].fenced => authorizations'[j].fenced
  PROVE  ~Usable(authorizations[j])'
<1> DEFINE a == authorizations[i]
<1> SUFFICES ASSUME ~a.fenced, a.authority = current_authority', now' < a.expires
             PROVE  FALSE
  BY DEF Usable, Matches
<1>1. /\ a.expires \in Nat /\ a.authority.policy \in Nat /\ a.authority.topology \in Nat
      /\ a.authority.evidence_revision \in Nat
  BY LeaseParts
<1>2. /\ now \in Nat /\ now' \in Nat /\ policy \in Nat /\ policy' \in Nat
      /\ topology \in Nat /\ topology' \in Nat
      /\ evidence_revision \in Nat /\ evidence_revision' \in Nat
  BY DEF TypeOK
<1>3. now < a.expires
  BY <1>1, <1>2 DEF Advances
<1>4. /\ a.authority.policy = policy' /\ a.authority.topology = topology'
      /\ a.authority.evidence_revision = evidence_revision'
  BY DEF current_authority
<1>5. policy = policy' /\ topology = topology' /\ evidence_revision = evidence_revision'
  BY <1>1, <1>2, <1>4 DEF Advances, IssuedEarlier
<1>6. current_authority' = current_authority
  BY <1>5 DEF Advances, current_authority
<1> QED
  BY <1>3, <1>6 DEF Usable, Matches

\* Whatever made an authorization stop matching, no later operation of the incarnation makes it
\* match again.
THEOREM StaleAuthorizationTheorem == Spec => StaleAuthorizationNeverRevives
<1> DEFINE Stays ==
      up /\ up' =>
        \A i \in DOMAIN authorizations, j \in DOMAIN authorizations' :
          /\ authorizations[i].id = authorizations'[j].id
          /\ ~Usable(authorizations[i])
          => ~Usable(authorizations[j])'
<1>1. LeaseInvariant /\ LeaseInvariant' /\ [Next]_vars => [Stays]_vars
  <2> SUFFICES ASSUME LeaseInvariant, LeaseInvariant', [Next]_vars, up, up',
                      NEW i \in DOMAIN authorizations, NEW j \in DOMAIN authorizations',
                      authorizations[i].id = authorizations'[j].id, ~Usable(authorizations[i])
               PROVE  ~Usable(authorizations[j])'
    OBVIOUS
  <2>1. TypeOK /\ TypeOK' /\ authorizations \in Seq(Authorizations)
        /\ authorizations' \in Seq(Authorizations) /\ authorization_counter \in Nat
    BY DEF LeaseInvariant, TypeOK
  <2>2. /\ IssuedEarlier(authorizations[i]) /\ i \in 1..Len(authorizations)
        /\ DOMAIN authorizations = 1..Len(authorizations) /\ Len(authorizations) \in Nat
    BY <2>1 DEF LeaseInvariant, LeasesBounded
  <2>3. \A h \in DOMAIN authorizations : authorizations[h].id = authorizations[i].id => h = i
    <3> SUFFICES ASSUME NEW h \in DOMAIN authorizations, authorizations[h].id = authorizations[i].id
                 PROVE  h = i
      OBVIOUS
    <3>1. h \in Nat /\ i \in Nat /\ authorizations[i].id \in Nat
      BY <2>1, <2>2, LeaseParts
    <3>2. ~(authorizations[i].id < authorizations[i].id)
      BY <3>1
    <3>3. ~(h < i) /\ ~(i < h)
      BY <3>2 DEF LeaseInvariant, LeasesInOrder
    <3> QED
      BY <3>1, <3>3
  <2>4. Advances /\ (SameLeases \/ Authorize)
    <3>1. authorizations' # <<>>
      BY <2>1
    <3> QED
      BY <2>1, <3>1, LeaseSteps
  <2>5. CASE SameLeases
    <3>1. j \in 1..Len(authorizations)
      BY <2>1, <2>5 DEF SameLeases
    <3>2. j = i
      BY <2>2, <2>3, <2>5, <3>1 DEF SameLeases
    <3> QED
      BY <2>1, <2>2, <2>4, <2>5, <3>1, <3>2, RefusedStaysRefused DEF SameLeases
  <2>6. CASE Authorize
    <3>1. PICK n \in 0..Len(authorizations) : authorizations' = Issue(n)
      BY <2>6 DEF Authorize
    <3>2. PICK m \in Nat : m = Len(authorizations) - n
      BY <2>2
    <3>3. /\ Len(authorizations') = m + 1
          /\ \A h \in 1..m : authorizations'[h] = authorizations[n + h]
          /\ authorizations'[m + 1] = Leased
      BY <2>1, <3>1, <3>2, LeaseTypes
    <3>4. j \in 1..m \/ j = m + 1
      BY <2>1, <3>3
    <3>5. j # m + 1
      <4>1. Leased.id = authorization_counter + 1
        BY DEF Leased
      <4>2. authorizations[i].id \in Nat /\ authorizations[i].id <= authorization_counter
        BY <2>1, <2>2, LeaseParts DEF IssuedEarlier
      <4>3. authorizations[i].id # authorization_counter + 1
        BY <2>1, <4>2
      <4> QED
        BY <3>3, <4>1, <4>3
    <3>6. authorizations'[j] = authorizations[n + j] /\ n + j \in DOMAIN authorizations
      BY <2>2, <3>2, <3>3, <3>4, <3>5
    <3>7. authorizations'[j] = authorizations[i]
      BY <2>3, <3>6
    <3> QED
      BY <2>1, <2>2, <2>4, <3>7, RefusedStaysRefused
  <2> QED
    BY <2>4, <2>5, <2>6
<1> QED
  BY <1>1, LeasesHold, PTL DEF Spec, StaleAuthorizationNeverRevives

(***************************************************************************)
(* IV.  Scope and effect: who may change the boundary, and that a          *)
(* verification survives every crash                                       *)
(***************************************************************************)

-----------------------------------------------------------------------------
(* Only decisions change the scope *)

ScopeKept == boundary'.present = boundary.present /\ SameMembers(boundary, boundary')

LEMMA UnchangedScope == UNCHANGED boundary => ScopeKept
  BY DEF ScopeKept, SameMembers

\* A report leaves the boundary alone or adopts that of a retained plan with its members.
LEMMA ReportKeepsScope ==
  ASSUME SafetyInvariant, TypeOK', Report
  PROVE  ScopeKept
<1>1. PICK i \in DOMAIN attempts, s \in 1..MaxApplierSequence :
        \/ AcknowledgeMismatch(i, s)
        \/ \E accepted \in BOOLEAN : Acknowledge(i, s, accepted)
        \/ \E observation \in Observations, matches \in BOOLEAN :
             VerifyEffect(i, s, observation, matches)
  BY DEF Report
<1>2. CASE AcknowledgeMismatch(i, s)
  BY <1>2, UnchangedScope DEF AcknowledgeMismatch, Complete, intent
<1>3. ASSUME NEW accepted \in BOOLEAN, Acknowledge(i, s, accepted)
      PROVE  ScopeKept
  BY <1>3, UnchangedScope DEF Acknowledge, Complete, intent
<1>4. ASSUME NEW observation \in Observations, NEW matches \in BOOLEAN,
             VerifyEffect(i, s, observation, matches)
      PROVE  ScopeKept
  <2> DEFINE t == [attempts[i] EXCEPT !.state = Observed(observation, matches), !.applier_sequence = s]
  <2>1. Adopt(t) \/ UNCHANGED boundary
    BY <1>4 DEF VerifyEffect, Complete, intent
  <2> HIDE DEF t
  <2>2. ASSUME NEW j \in DOMAIN plans, Adopts(t, j), boundary' = plans[j].boundary
        PROVE  ScopeKept
    <3>1. /\ boundary.present /\ plans[j].boundary.present
          /\ SameMembers(plans[j].boundary, boundary)
      BY <2>2 DEF Adopts, SafetyInvariant, PlansCarryBoundaries, CarryBoundaries
    <3>2. boundary.present \in BOOLEAN /\ boundary'.present \in BOOLEAN
      BY DEF SafetyInvariant, TypeOK, Boundaries
    <3> QED
      BY <2>2, <3>1, <3>2 DEF ScopeKept, SameMembers
  <2> QED
    BY <2>1, <2>2, UnchangedScope DEF Adopt
<1> QED
  BY <1>1, <1>2, <1>3, <1>4

\* What a change of scope tells about the step: an accepted transition.
Decides ==
  /\ transition_counter' = transition_counter + 1
  /\ effect_state' = "NotRequested"
  /\ \E k \in DOMAIN authorizations : Usable(authorizations[k])
  /\ boundary.present => effect_state \in Verified

LEMMA ScopeSteps ==
  ASSUME SafetyInvariant, TypeOK', [Next]_vars, up, up'
  PROVE  ScopeKept \/ Decides
<1>1. CASE Open \/ OpenCrashes \/ Stop
  BY <1>1 DEF Open, OpenCrashes, Stop, Halt
<1>2. CASE Tick \/ ApplyTopology \/ ApplyPolicy \/ Authorize \/ Plan \/ Checkpoint \/ UNCHANGED vars
  <2>1. UNCHANGED boundary
    BY <1>2 DEF Tick, ApplyTopology, ApplyPolicy, Authorize, Plan, Checkpoint, vars, intent
  <2> QED
    BY <2>1, UnchangedScope
<1>3. CASE Detect \/ PresentStale \/ Submit
  <2>1. UNCHANGED boundary
    BY <1>3 DEF Detect, RecordDetection, ReconfirmDetection, ConflictingDetection, PresentStale,
       PresentStaleAuthorization, Submit, SubmitApply, intent
  <2> QED
    BY <2>1, UnchangedScope
<1>4. ASSUME NEW a \in DOMAIN authorizations, NEW i \in DOMAIN plans, NEW k \in Kinds,
             AcceptTransition(a, i, k)
      PROVE  ScopeKept \/ Decides
  <2>1. /\ Usable(authorizations[a]) /\ EffectSettled
        /\ \/ transition_counter' = transition_counter + 1 /\ ResetEffect
           \/ Halt
           \/ UNCHANGED boundary
    BY <1>4 DEF AcceptTransition, OnlyTransitionCounted, intent
  <2> QED
    BY <2>1, UnchangedScope DEF Decides, ResetEffect, EffectSettled, Halt
<1>5. ASSUME NEW a \in 0..Len(authorizations), RefuseTransition(a) \/ RefusalLost(a)
      PROVE  ScopeKept
  BY <1>5, UnchangedScope DEF RefuseTransition, RefusalLost, intent
<1>6. CASE Report
  BY <1>6, ReportKeepsScope
<1> QED
  BY <1>1, <1>2, <1>3, <1>4, <1>5, <1>6 DEF Next, Transition

\* The members in force change through an accepted transition only, which needs a lease that
\* holds and, over a boundary in force, its verified effect; it starts without any effect.
THEOREM ScopeChangeTheorem == Spec => ScopeChangesByDecision
<1> DEFINE A == up /\ up' /\ (boundary'.present # boundary.present \/ ~SameMembers(boundary, boundary'))
                  => Decides
<1>1. SafetyInvariant /\ SafetyInvariant' /\ [Next]_vars => [A]_vars
  BY ScopeSteps DEF SafetyInvariant, ScopeKept
<1> QED
  BY <1>1, SafetyHolds, PTL DEF Spec, ScopeChangesByDecision, Decides

-----------------------------------------------------------------------------
(* Verifications are durable *)

\* The table holds a verified attempt with the id of a.
HasVerified(table, a) ==
  \E j \in DOMAIN table : SameId(table[j], a) /\ table[j].state \in Verified
VerifiedOnDisk ==
  \A i \in DOMAIN attempts :
    attempts[i].state \in Verified => HasVerified(disk.attempts, attempts[i])

\* A verification ranks above everything else.
LEMMA VerifiedRank ==
  /\ \A s \in EffectStates : effect_rank[s] \in Nat
  /\ \A s \in EffectStates, v \in Verified :
       effect_rank[v] <= effect_rank[s] => s \in Verified
  /\ \A s \in EffectStates, v \in Verified :
       ~(effect_rank[s] <= effect_rank[v]) => s \in Verified
  /\ Verified \subseteq EffectStates
  BY DEF effect_rank, EffectStates, Verified

\* A record of any attempt leaves the verified attempts of the table verified, and a record
\* of a verified attempt leaves that attempt verified.
LEMMA OverwriteVerified ==
  ASSUME NEW table \in Seq(Attempts), NEW a \in Attempts, NEW b \in Attempts,
         HasVerified(table, b) \/ (SameId(a, b) /\ a.state \in Verified)
  PROVE  HasVerified(Overwrite(table, a), b)
<1>1. /\ DOMAIN table = 1..Len(table) /\ Len(table) \in Nat
      /\ \A i \in DOMAIN table : table[i] \in Attempts
  BY ElementOfSeq
<1>2. /\ a.state \in EffectStates /\ \A i \in DOMAIN table : table[i].state \in EffectStates
  BY <1>1 DEF Attempts
<1>3. CASE ~(\E i \in DOMAIN table : SameId(table[i], a))
  <2> DEFINE new == Append(table, a)
  <2>1. /\ Overwrite(table, a) = new /\ DOMAIN new = 1..(Len(table) + 1)
        /\ \A i \in 1..Len(table) : new[i] = table[i]
        /\ new[Len(table) + 1] = a
    BY <1>3, AppendProperties DEF Overwrite
  <2>2. Len(table) + 1 \in DOMAIN new /\ \A i \in DOMAIN table : i \in DOMAIN new
    BY <1>1, <2>1
  <2> HIDE DEF new
  <2> QED
    BY <1>1, <2>1, <2>2 DEF HasVerified
<1>4. CASE \E i \in DOMAIN table : SameId(table[i], a)
  <2> DEFINE Replaced(i) == /\ SameId(table[i], a) /\ FirstAttempt(table, i)
                            /\ effect_rank[table[i].state] <= effect_rank[a.state]
             new == [i \in DOMAIN table |-> IF Replaced(i) THEN a ELSE table[i]]
  <2>1. Overwrite(table, a) = new
    BY <1>4 DEF Overwrite
  <2>2. DOMAIN new = DOMAIN table
        /\ \A i \in DOMAIN table : new[i] = IF Replaced(i) THEN a ELSE table[i]
    OBVIOUS
  <2> HIDE DEF new
  <2>3. ASSUME NEW j \in DOMAIN table, SameId(table[j], b), table[j].state \in Verified
        PROVE  HasVerified(new, b)
    <3>1. CASE Replaced(j)
      <4>1. new[j] = a /\ SameId(a, b) /\ a.state \in Verified
        BY <1>2, <2>2, <2>3, <3>1, VerifiedRank DEF SameId
      <4> QED
        BY <2>2, <4>1 DEF HasVerified
    <3>2. CASE ~Replaced(j)
      BY <2>2, <2>3, <3>2 DEF HasVerified
    <3> QED
      BY <3>1, <3>2
  <2>4. ASSUME SameId(a, b), a.state \in Verified
        PROVE  HasVerified(new, b)
    <3> DEFINE T == {i \in 1..Len(table) : SameId(table[i], a)}
    <3>1. T \in SUBSET Nat /\ T # {}
      BY <1>1, <1>4
    <3>2. PICK f \in T : \A i \in T : f <= i
      BY <3>1, LeastNumber
    <3>3. f \in DOMAIN table /\ SameId(table[f], a) /\ f \in Nat
      BY <1>1, <3>2
    <3>4. FirstAttempt(table, f)
      <4> SUFFICES ASSUME NEW j \in 1..(f - 1), SameId(table[j], table[f])
                   PROVE  FALSE
        BY DEF FirstAttempt
      <4>1. j \in 1..Len(table) /\ ~(f <= j)
        BY <1>1, <3>3
      <4>2. SameId(table[j], a)
        BY <3>3 DEF SameId
      <4> QED
        BY <3>2, <4>1, <4>2
    <3>5. CASE effect_rank[table[f].state] <= effect_rank[a.state]
      <4>1. new[f] = a
        BY <2>2, <3>3, <3>4, <3>5
      <4> QED
        BY <2>2, <2>4, <3>3, <4>1 DEF HasVerified
    <3>6. CASE ~(effect_rank[table[f].state] <= effect_rank[a.state])
      <4>1. new[f] = table[f]
        BY <2>2, <3>3, <3>6
      <4>2. table[f].state \in Verified /\ SameId(table[f], b)
        BY <1>2, <2>4, <3>3, <3>6, VerifiedRank DEF SameId
      <4> QED
        BY <2>2, <3>3, <4>1, <4>2 DEF HasVerified
    <3> QED
      BY <3>5, <3>6
  <2> QED
    BY <2>1, <2>3, <2>4 DEF HasVerified
<1> QED
  BY <1>3, <1>4

\* The other records leave the attempts alone, and no record the tail of the log.
LEMMA AttemptsUntouched ==
  ASSUME NEW d \in Durables
  PROVE  /\ \A g \in Nat : /\ LogTopology(d, g).attempts = d.attempts
                           /\ LogPolicy(d, g).attempts = d.attempts
         /\ \A o \in Observation : LogDetection(d, o).attempts = d.attempts
         /\ \A p \in Plans : LogPlan(d, p).attempts = d.attempts
         /\ \A t \in Decisions : LogTransition(d, t).attempts = d.attempts
         /\ \A g \in Nat, b \in Boundaries : LogBoundary(d, g, b).attempts = d.attempts
         /\ \A e, b \in Nat : LogEpoch(d, e, b).attempts = d.attempts
         /\ \A f \in SUBSET Nat : LogFence(d, f).attempts = d.attempts
         /\ \A a \in Attempts : LogAttempt(d, a).attempts = Overwrite(d.attempts, a)
  BY DEF LogTopology, LogPolicy, LogDetection, LogPlan, LogTransition, LogBoundary, LogEpoch,
     LogFence, LogAttempt, Durables

LEMMA TailUntouched ==
  ASSUME NEW d \in Durables
  PROVE  /\ \A g \in Nat : LogTopology(d, g).tail = d.tail /\ LogPolicy(d, g).tail = d.tail
         /\ \A o \in Observation : LogDetection(d, o).tail = d.tail
         /\ \A p \in Plans : LogPlan(d, p).tail = d.tail
         /\ \A t \in Decisions : LogTransition(d, t).tail = d.tail
         /\ \A g \in Nat, b \in Boundaries : LogBoundary(d, g, b).tail = d.tail
         /\ \A a \in Attempts : LogAttempt(d, a).tail = d.tail
  BY DEF LogTopology, LogPolicy, LogDetection, LogPlan, LogTransition, LogBoundary, LogAttempt,
     Durables

\* Until a commit fails, every record is on disk.
LEMMA CleanCommit ==
  ASSUME TypeOK, faults' = 0, disk.tail = "Clean", NEW e, Commits(e) \/ CommitFails(e)
  PROVE  disk' = e
<1>1. faults \in Nat /\ faults + 1 # 0
  BY DEF TypeOK
<1> QED
  BY <1>1 DEF Commits, CommitFails, Committed

LEMMA OpenKeepsAttempts ==
  ASSUME TypeOK
  PROVE  \A d \in {AfterTopology, AfterPolicy, AfterEpoch, AfterFence} :
           d.attempts = disk.attempts
<1>1. disk \in Durables /\ disk.epoch + 1 \in Nat /\ boots + 1 \in Nat
  BY DEF TypeOK, Durables
<1>0. Found \in Durables /\ Found.attempts = disk.attempts
  BY <1>1 DEF Found, Durables, Tails
<1>2. AfterTopology.attempts = disk.attempts
  BY <1>0, RecoveredTypes, AttemptsUntouched DEF AfterTopology
<1>3. AfterPolicy.attempts = disk.attempts
  BY <1>2, RecoveredTypes, AttemptsUntouched DEF AfterPolicy
<1>4. AfterEpoch.attempts = disk.attempts
  BY <1>1, <1>3, RecoveredTypes, AttemptsUntouched DEF AfterEpoch
<1>5. AfterFence.attempts = disk.attempts
  BY <1>4, RecoveredTypes, AttemptsUntouched DEF AfterFence
<1> QED
  BY <1>2, <1>3, <1>4, <1>5

\* Attempt i becomes t and its record is written.
LEMMA CompleteVerified ==
  ASSUME TypeOK, TypeOK', VerifiedOnDisk, NEW i \in DOMAIN attempts, NEW t \in Attempts,
         disk' = LogAttempt(disk, t), attempts' = [attempts EXCEPT ![i] = t]
  PROVE  VerifiedOnDisk'
<1>1. disk \in Durables /\ disk.attempts \in Seq(Attempts) /\ attempts \in Seq(Attempts)
  BY DEF TypeOK, Durables
<1>2. disk'.attempts = Overwrite(disk.attempts, t)
  BY <1>1, AttemptsUntouched
<1>3. ASSUME NEW h \in DOMAIN attempts', attempts'[h].state \in Verified
      PROVE  HasVerified(disk'.attempts, attempts'[h])
  <2>1. h \in DOMAIN attempts /\ attempts[h] \in Attempts
    BY <1>1, EntryTypes
  <2>2. CASE h = i
    <3>1. attempts'[h] = t /\ SameId(t, t)
      BY <2>1, <2>2 DEF SameId
    <3> QED
      BY <1>1, <1>2, <1>3, <3>1, OverwriteVerified
  <2>3. CASE h # i
    <3>1. attempts'[h] = attempts[h]
      BY <2>1, <2>3
    <3>2. HasVerified(disk.attempts, attempts[h])
      BY <1>3, <2>1, <3>1 DEF VerifiedOnDisk, HasVerified
    <3> QED
      BY <1>1, <1>2, <2>1, <3>1, <3>2, OverwriteVerified
  <2> QED
    BY <2>2, <2>3
<1> QED
  BY <1>3 DEF VerifiedOnDisk, HasVerified

LEMMA SubmitVerified ==
  ASSUME TypeOK, TypeOK', VerifiedOnDisk, Submit, faults' = 0, disk.tail = "Clean"
  PROVE  VerifiedOnDisk' /\ disk'.tail = "Clean"
<1>1. PICK a \in DOMAIN authorizations, i \in DOMAIN plans : SubmitApply(a, i)
  BY DEF Submit
<1> DEFINE t == NewAttempt(plans[i])
<1>2. /\ disk' = LogAttempt(disk, t) /\ attempts' = Evict(Append(attempts, t), RetainedAttempts)
  <2>1. faults \in Nat /\ faults + 1 # 0
    BY DEF TypeOK
  <2>2. /\ Commits(LogAttempt(disk, t))
        /\ attempts' = Evict(Append(attempts, t), RetainedAttempts)
    BY <1>1, <2>1 DEF SubmitApply, CommitFails
  <2> QED
    BY <2>2, CleanCommit
<1>3. t \in Attempts /\ t.state \notin Verified
  <2>1. plans[i].generation \in Nat /\ plans[i].boundary \in Boundaries
    BY EntryTypes
  <2> QED
    BY <2>1 DEF TypeOK, NewAttempt, Attempts, EffectStates, Verified
<1> HIDE DEF t
<1>4. disk \in Durables /\ disk.attempts \in Seq(Attempts) /\ attempts \in Seq(Attempts)
  BY DEF TypeOK, Durables
<1>5. disk'.attempts = Overwrite(disk.attempts, t) /\ disk'.tail = "Clean"
  BY <1>2, <1>3, <1>4, AttemptsUntouched, TailUntouched
<1>6. ASSUME NEW h \in DOMAIN attempts', attempts'[h].state \in Verified
      PROVE  HasVerified(disk'.attempts, attempts'[h])
  <2>1. attempts' \in Seq(Attempts) /\ h \in 1..Len(attempts')
    <3>1. attempts' \in Seq(Attempts)
      BY DEF TypeOK
    <3> QED
      BY <3>1
  <2>2. Append(attempts, t) \in Seq(Attempts) /\ RetainedAttempts \in Nat
    BY <1>3, <1>4, PushType, BoundTypes
  <2>3. PICK j \in 1..Len(Append(attempts, t)) : attempts'[h] = Append(attempts, t)[j]
    <3>1. PICK table \in Seq(Attempts) : table = Append(attempts, t)
      BY <2>2
    <3>2. \A k \in 1..Len(Evict(table, RetainedAttempts)) :
            \E j \in 1..Len(table) : Evict(table, RetainedAttempts)[k] = table[j]
      <4>1. RetainedAttempts \in Nat
        BY <2>2
      <4> QED
        BY <4>1, EvictKeepsSuffix
    <3> QED
      BY <1>2, <2>1, <3>1, <3>2
  <2>4. \/ Append(attempts, t)[j] = t
        \/ j \in DOMAIN attempts /\ Append(attempts, t)[j] = attempts[j]
    <3>1. /\ Len(Append(attempts, t)) = Len(attempts) + 1 /\ Len(attempts) \in Nat
          /\ DOMAIN attempts = 1..Len(attempts)
          /\ Append(attempts, t)[Len(attempts) + 1] = t
          /\ \A k \in 1..Len(attempts) : Append(attempts, t)[k] = attempts[k]
      BY <1>3, <1>4, AppendProperties
    <3>2. j \in 1..Len(attempts) \/ j = Len(attempts) + 1
      BY <3>1
    <3> QED
      BY <3>1, <3>2
  <2>5. j \in DOMAIN attempts /\ attempts'[h] = attempts[j]
    BY <1>3, <1>6, <2>3, <2>4
  <2>6. HasVerified(disk.attempts, attempts[j]) /\ attempts[j] \in Attempts
    BY <1>6, <2>5, EntryTypes DEF VerifiedOnDisk, HasVerified
  <2> QED
    BY <1>3, <1>4, <1>5, <2>5, <2>6, OverwriteVerified
<1> QED
  BY <1>5, <1>6 DEF VerifiedOnDisk, HasVerified

\* A recovery takes its verified attempts from the disk.
LEMMA OpenVerified ==
  ASSUME TypeOK, TypeOK', Open
  PROVE  VerifiedOnDisk'
<1>1. disk \in Durables /\ disk.attempts \in Seq(Attempts) /\ RetainedAttempts \in Nat
  BY BoundTypes DEF TypeOK, Durables
<1>2. /\ attempts' = Evict(FencedByRestart(disk.attempts), RetainedAttempts)
      /\ disk'.attempts = disk.attempts
  BY OpenKeepsAttempts DEF Open, Recovered
<1>3. /\ FencedByRestart(disk.attempts) \in Seq(Attempts)
      /\ Len(FencedByRestart(disk.attempts)) = Len(disk.attempts)
      /\ DOMAIN disk.attempts = 1..Len(disk.attempts)
  BY <1>1, FencedByRestartType
<1>4. ASSUME NEW h \in DOMAIN attempts', attempts'[h].state \in Verified
      PROVE  HasVerified(disk'.attempts, attempts'[h])
  <2>1. attempts' \in Seq(Attempts) /\ h \in 1..Len(attempts')
    <3>1. attempts' \in Seq(Attempts)
      BY DEF TypeOK
    <3> QED
      BY <3>1
  <2>2. PICK j \in 1..Len(disk.attempts) : attempts'[h] = FencedByRestart(disk.attempts)[j]
    BY <1>1, <1>2, <1>3, <2>1, EvictKeepsSuffix
  <2>3. disk.attempts[j] \in Attempts
    BY <1>1, ElementOfSeq
  <2>4. [disk.attempts[j] EXCEPT !.state = "Fenced"].state = "Fenced" /\ "Fenced" \notin Verified
    BY <2>3 DEF Attempts, Verified
  <2>5. attempts'[h] = disk.attempts[j]
    BY <1>3, <1>4, <2>2, <2>4 DEF FencedByRestart
  <2> QED
    BY <1>2, <1>3, <1>4, <2>5 DEF HasVerified, SameId
<1> QED
  BY <1>4 DEF VerifiedOnDisk, HasVerified

LEMMA ReportVerified ==
  ASSUME TypeOK, TypeOK', VerifiedOnDisk, Report, faults' = 0, disk.tail = "Clean"
  PROVE  VerifiedOnDisk' /\ disk'.tail = "Clean"
<1>1. PICK i \in DOMAIN attempts, s \in 1..MaxApplierSequence :
        \/ AcknowledgeMismatch(i, s)
        \/ \E accepted \in BOOLEAN : Acknowledge(i, s, accepted)
        \/ \E observation \in Observations, matches \in BOOLEAN :
             VerifyEffect(i, s, observation, matches)
  BY DEF Report
<1>2. faults \in Nat /\ faults + 1 # 0 /\ s \in Nat
  BY BoundTypes DEF TypeOK
<1>3. {"Ambiguous", "Acknowledged", "Failed"} \subseteq EffectStates
  BY DEF EffectStates
<1> DEFINE Becomes(t) == /\ Commits(LogAttempt(disk, t)) \/ CommitFails(LogAttempt(disk, t))
                         /\ attempts' = [attempts EXCEPT ![i] = t]
<1>4. \E t \in Attempts : Becomes(t)
  <2>1. CASE AcknowledgeMismatch(i, s)
    <3>1. Becomes([attempts[i] EXCEPT !.state = "Ambiguous"])
      BY <2>1 DEF AcknowledgeMismatch, Complete
    <3> QED
      BY <1>2, <1>3, <3>1, AttemptTypes
  <2>2. ASSUME NEW accepted \in BOOLEAN, Acknowledge(i, s, accepted)
        PROVE  \E t \in Attempts : Becomes(t)
    <3>1. Becomes([attempts[i] EXCEPT !.state = IF accepted THEN "Acknowledged" ELSE "Failed",
                                      !.applier_sequence = s])
      BY <2>2 DEF Acknowledge, Complete
    <3> QED
      BY <1>2, <1>3, <3>1, AttemptTypes
  <2>3. ASSUME NEW observation \in Observations, NEW matches \in BOOLEAN,
               VerifyEffect(i, s, observation, matches)
        PROVE  \E t \in Attempts : Becomes(t)
    <3>1. Becomes([attempts[i] EXCEPT !.state = Observed(observation, matches),
                                      !.applier_sequence = s])
      BY <2>3 DEF VerifyEffect, Complete
    <3> QED
      BY <1>2, <3>1, ObservedType, AttemptTypes
  <2> QED
    BY <1>1, <2>1, <2>2, <2>3
<1>5. PICK t \in Attempts : Becomes(t)
  BY <1>4
<1>6. disk' = LogAttempt(disk, t) /\ disk \in Durables
  BY <1>5, CleanCommit DEF TypeOK
<1>7. disk'.tail = "Clean"
  BY <1>6, TailUntouched
<1> QED
  BY <1>5, <1>6, <1>7, CompleteVerified

\* Every other step leaves the table and its records alone, or ends the process.
LEMMA OtherStepsKeepAttempts ==
  ASSUME TypeOK, [Next]_vars, ~Open, ~Submit, ~Report, ~Checkpoint, faults' = 0,
         disk.tail = "Clean"
  PROVE  /\ disk'.attempts = disk.attempts /\ disk'.tail = "Clean"
         /\ up' => UNCHANGED <<up, attempts>>
<1> DEFINE Kept(d) == d.attempts = disk.attempts /\ d.tail = "Clean"
<1>1. disk \in Durables
  BY DEF TypeOK
<1>2. CASE Stop \/ Tick \/ Authorize \/ PresentStale \/ UNCHANGED vars
  BY <1>2 DEF Stop, Halt, Tick, Authorize, PresentStale, PresentStaleAuthorization, vars,
     identity, tables
<1>3. CASE OpenCrashes
  <2>1. UNCHANGED <<up, attempts>> /\ disk' \in {AfterTopology, AfterPolicy, AfterEpoch}
    BY <1>3 DEF OpenCrashes, identity, tables
  <2>2. disk'.tail = "Clean"
    BY <2>1, OpenRecords DEF Scope
  <2> QED
    BY <2>1, <2>2, OpenKeepsAttempts
<1>4. CASE ApplyTopology \/ ApplyPolicy
  <2>1. UNCHANGED <<up, attempts>>
    BY <1>4 DEF ApplyTopology, ApplyPolicy, identity, tables
  <2>2. PICK g \in Nat : \/ Commits(LogTopology(disk, g)) \/ CommitFails(LogTopology(disk, g))
                         \/ Commits(LogPolicy(disk, g)) \/ CommitFails(LogPolicy(disk, g))
    BY <1>4, BoundTypes DEF ApplyTopology, ApplyPolicy
  <2>3. disk' = LogTopology(disk, g) \/ disk' = LogPolicy(disk, g)
    BY <2>2, CleanCommit
  <2> QED
    BY <1>1, <2>1, <2>3, AttemptsUntouched, TailUntouched
<1>5. CASE Detect
  <2>1. /\ UNCHANGED <<up, attempts>>
        /\ \E o \in Observation :
             disk' = disk \/ Commits(LogDetection(disk, o)) \/ CommitFails(LogDetection(disk, o))
    BY <1>5 DEF Detect, RecordDetection, ReconfirmDetection, ConflictingDetection, identity, tables
  <2>2. \E o \in Observation : disk' = disk \/ disk' = LogDetection(disk, o)
    BY <2>1, CleanCommit
  <2> QED
    BY <1>1, <2>1, <2>2, AttemptsUntouched, TailUntouched
<1>6. CASE Plan
  <2>1. /\ UNCHANGED <<up, attempts>>
        /\ \E c \in PlanResults(plan_counter + 1) :
             Commits(LogPlan(disk, NewPlan(c))) \/ CommitFails(LogPlan(disk, NewPlan(c)))
    BY <1>6 DEF Plan, identity
  <2>2. \E c \in PlanResults(plan_counter + 1) : disk' = LogPlan(disk, NewPlan(c))
    BY <2>1, CleanCommit
  <2> QED
    BY <1>1, <2>1, <2>2, PlanType, AttemptsUntouched, TailUntouched
<1>7. ASSUME NEW a \in DOMAIN authorizations, NEW i \in DOMAIN plans, NEW k \in Kinds,
             AcceptTransition(a, i, k)
      PROVE  Kept(disk') /\ (up' => UNCHANGED <<up, attempts>>)
  <2> DEFINE t == Decided(k, plans[i])
             decided == LogTransition(disk, t)
             in_force == LogBoundary(decided, plans[i].generation, t.to)
  <2>1. t \in Decisions /\ t.to \in Boundaries /\ plans[i].generation \in Nat
    BY DecisionTypes
  <2>2. up' => UNCHANGED <<up, attempts>>
    BY <1>7 DEF AcceptTransition, OnlyTransitionCounted, Halt, identity, tables
  <2>3. faults \in Nat /\ faults + 1 # 0
    BY DEF TypeOK
  <2>4. \E d \in Committed(disk, decided) :
          disk' = d \/ disk' \in Committed(d, LogBoundary(d, plans[i].generation, t.to))
    BY <1>7, <2>3 DEF AcceptTransition, CommitFails
  <2> HIDE DEF t
  <2>5. decided \in Durables /\ Kept(decided)
    BY <1>1, <2>1, LogTypes, AttemptsUntouched, TailUntouched
  <2> HIDE DEF decided
  <2>6. Kept(in_force)
    BY <2>1, <2>5, AttemptsUntouched, TailUntouched
  <2>7. disk' = decided \/ disk' = in_force
    BY <2>4, <2>5 DEF Committed
  <2> QED
    BY <2>2, <2>5, <2>6, <2>7
<1>8. ASSUME NEW a \in 0..Len(authorizations), RefuseTransition(a) \/ RefusalLost(a)
      PROVE  UNCHANGED <<up, attempts>> /\ Kept(disk')
  <2>1. /\ UNCHANGED <<up, attempts>>
        /\ Commits(LogTransition(disk, Refused)) \/ CommitFails(LogTransition(disk, Refused))
    BY <1>8 DEF RefuseTransition, RefusalLost, identity
  <2>2. disk' = LogTransition(disk, Refused)
    BY <2>1, CleanCommit
  <2> QED
    BY <1>1, <2>1, <2>2, RefusedType, AttemptsUntouched, TailUntouched
<1> QED
  BY <1>2, <1>3, <1>4, <1>5, <1>6, <1>7, <1>8 DEF Next, Transition

\* Failed commits are counted, up to the bound, and never uncounted.
LEMMA FaultsGrow ==
  ASSUME [Next]_vars
  PROVE  faults' = faults \/ (faults' = faults + 1 /\ faults < MaxFaults)
<1>2. CASE ~Report /\ ~Transition
  BY <1>2 DEF Next, Open, OpenCrashes, Stop, Halt, Tick, ApplyTopology, ApplyPolicy, Detect,
     RecordDetection, ReconfirmDetection, ConflictingDetection, Authorize, PresentStale,
     PresentStaleAuthorization, Plan, Submit, SubmitApply, Checkpoint, Commits, CommitFails, vars
<1>3. CASE Transition
  BY <1>3 DEF Transition, AcceptTransition, RefuseTransition, RefusalLost, Halt, Commits,
     CommitFails
<1>4. CASE Report
  <2>1. PICK i \in DOMAIN attempts, s \in 1..MaxApplierSequence :
          \/ AcknowledgeMismatch(i, s)
          \/ \E accepted \in BOOLEAN : Acknowledge(i, s, accepted)
          \/ \E observation \in Observations, matches \in BOOLEAN :
               VerifyEffect(i, s, observation, matches)
    BY <1>4 DEF Report
  <2>2. faults' = faults \/ (faults' = faults + 1 /\ faults < MaxFaults)
    <3>1. CASE AcknowledgeMismatch(i, s)
      BY <3>1 DEF AcknowledgeMismatch, Complete, Commits, CommitFails
    <3>2. ASSUME NEW accepted \in BOOLEAN, Acknowledge(i, s, accepted)
          PROVE  faults' = faults \/ (faults' = faults + 1 /\ faults < MaxFaults)
      BY <3>2 DEF Acknowledge, Complete, Commits, CommitFails
    <3>3. ASSUME NEW observation \in Observations, NEW matches \in BOOLEAN,
                 VerifyEffect(i, s, observation, matches)
          PROVE  faults' = faults \/ (faults' = faults + 1 /\ faults < MaxFaults)
      BY <3>3 DEF VerifyEffect, Complete, Commits, CommitFails
    <3> QED
      BY <2>1, <3>1, <3>2, <3>3
  <2> QED
    BY <2>2
<1> QED
  BY <1>2, <1>3, <1>4

\* As long as no commit has failed, a verified attempt is verified on disk as well: no crash
\* takes the verification back, and no later record of the attempt lowers it.
THEOREM VerifiedTheorem == Spec => []VerifiedIsDurable
<1> DEFINE I == TypeOK /\ (faults = 0 => disk.tail = "Clean" /\ (up => VerifiedOnDisk))
<1>1. Init => I
  BY TypeOKInit DEF Init, FreshDisk, VerifiedOnDisk
<1>2. I /\ [Next]_vars => I'
  <2> SUFFICES ASSUME TypeOK, faults = 0 => disk.tail = "Clean" /\ (up => VerifiedOnDisk),
                      [Next]_vars, faults' = 0, TypeOK'
               PROVE  disk'.tail = "Clean" /\ (up' => VerifiedOnDisk')
    BY TypeOKNext
  <2>1. disk.tail = "Clean" /\ (up => VerifiedOnDisk)
    <3>1. faults \in Nat /\ faults + 1 # 0
      BY DEF TypeOK
    <3> QED
      BY <3>1, FaultsGrow
  <2>2. CASE Open
    <3>1. disk' = AfterFence
      BY <2>2 DEF Open
    <3>2. disk'.tail = "Clean"
      BY <3>1, OpenRecords DEF Scope
    <3> QED
      BY <2>2, <3>2, OpenVerified
  <2>3. CASE Submit
    BY <2>1, <2>3, SubmitVerified DEF Submit, SubmitApply
  <2>4. CASE Report
    <3>1. up
      BY <2>4 DEF Report, AcknowledgeMismatch, Acknowledge, VerifyEffect
    <3> QED
      BY <2>1, <2>4, <3>1, ReportVerified
  <2>5. CASE Checkpoint
    <3>1. disk'.attempts = attempts /\ attempts' = attempts /\ disk'.tail = "Clean"
      BY <2>5 DEF Checkpoint, Snapshot, tables
    <3> QED
      BY <3>1 DEF VerifiedOnDisk, HasVerified, SameId
  <2>6. CASE ~Open /\ ~Submit /\ ~Report /\ ~Checkpoint
    <3>1. /\ disk'.attempts = disk.attempts /\ disk'.tail = "Clean"
          /\ up' => UNCHANGED <<up, attempts>>
      BY <2>1, <2>6, OtherStepsKeepAttempts
    <3> QED
      BY <2>1, <3>1 DEF VerifiedOnDisk, HasVerified, SameId
  <2> QED
    BY <2>2, <2>3, <2>4, <2>5, <2>6
<1>3. I => VerifiedIsDurable
  BY DEF VerifiedIsDurable, VerifiedOnDisk, HasVerified
<1> QED
  BY <1>1, <1>2, <1>3, PTL DEF Spec

(***************************************************************************)
(* V.  What is verified is the scope in force, as long as no plan is       *)
(* evicted: a plan counter that a crash takes back numbers two plans alike *)
(***************************************************************************)

-----------------------------------------------------------------------------
(* The inductive invariant *)

\* The plan that generation g finds in the table governs exactly the members m.
Governs(table, g, m) ==
  \E j \in DOMAIN table :
    FirstPlan(table, j) /\ table[j].generation = g /\ table[j].boundary.members = m

\* An attempt carries the boundary of the plan it names.
Follows(table, t) == Governs(table, t.plan, t.boundary.members)
FollowPlans(table, entries) == \A i \in DOMAIN entries : Follows(table, entries[i])

\* Every plan that was computed is retained, under a generation that is not the absent one.
AllRetained(table) ==
  Len(table) <= RetainedPlans /\ \A j \in DOMAIN table : table[j].generation # 0

\* On disk and in memory alike attempts follow the plans, and the boundary in force is that of
\* the plan it names; as long as no commit has failed the plans are the same.
DiskFollows(d) ==
  /\ AllRetained(d.plans) /\ FollowPlans(d.plans, d.attempts)
  /\ d.readable /\ d.boundary_plan # 0 => Governs(d.plans, d.boundary_plan, d.boundary.members)
StoreFollows == DiskFollows(disk)
MemoryFollows ==
  /\ AllRetained(plans) /\ FollowPlans(plans, attempts)
  /\ boundary_plan # 0 => Governs(plans, boundary_plan, boundary.members)
PlansOnDisk == up /\ disk.tail = "Clean" => plans = disk.plans

ScopeInvariant ==
  /\ SafetyInvariant
  /\ StoreFollows /\ MemoryFollows /\ PlansOnDisk
  /\ VerifiedIsTheScope

-----------------------------------------------------------------------------
(* Plans, attempts and the effect derived from them *)

\* A generation finds one plan.
LEMMA GovernsOnce ==
  ASSUME NEW table \in Seq(Plans), NEW g, NEW m, NEW n, Governs(table, g, m), Governs(table, g, n)
  PROVE  m = n
<1>1. PICK i \in DOMAIN table :
        FirstPlan(table, i) /\ table[i].generation = g /\ table[i].boundary.members = m
  BY DEF Governs
<1>2. PICK j \in DOMAIN table :
        FirstPlan(table, j) /\ table[j].generation = g /\ table[j].boundary.members = n
  BY DEF Governs
<1>3. i \in Nat /\ j \in Nat /\ i >= 1 /\ j >= 1
  OBVIOUS
<1>4. ~(i < j) /\ ~(j < i)
  BY <1>1, <1>2, <1>3 DEF FirstPlan
<1> QED
  BY <1>1, <1>2, <1>3, <1>4

\* A plan recorded later does not hide it.
LEMMA GovernsStays ==
  ASSUME NEW table \in Seq(Plans), NEW p \in Plans, NEW g, NEW m, Governs(table, g, m)
  PROVE  Governs(Append(table, p), g, m)
<1>1. PICK j \in DOMAIN table :
        FirstPlan(table, j) /\ table[j].generation = g /\ table[j].boundary.members = m
  BY DEF Governs
<1>2. /\ DOMAIN Append(table, p) = 1..(Len(table) + 1) /\ DOMAIN table = 1..Len(table)
      /\ Len(table) \in Nat
      /\ \A i \in 1..Len(table) : Append(table, p)[i] = table[i]
  BY AppendProperties
<1>3. FirstPlan(Append(table, p), j)
  BY <1>1, <1>2 DEF FirstPlan
<1>4. j \in DOMAIN Append(table, p) /\ Append(table, p)[j] = table[j]
  BY <1>2
<1> QED
  BY <1>1, <1>3, <1>4 DEF Governs

\* The plan found at an index governs its members.
LEMMA FoundGoverns ==
  ASSUME NEW table, NEW j \in DOMAIN table, FirstPlan(table, j)
  PROVE  Governs(table, table[j].generation, table[j].boundary.members)
  BY DEF Governs

\* An attempt record leaves the other entries as they are.
LEMMA OverwriteKeeps ==
  ASSUME NEW T, NEW table \in Seq(Attempts), NEW a \in Attempts, a \in T,
         \A i \in DOMAIN table : table[i] \in T
  PROVE  \A i \in DOMAIN Overwrite(table, a) : Overwrite(table, a)[i] \in T
<1>1. CASE \E i \in DOMAIN table : SameId(table[i], a)
  <2> DEFINE f == [i \in DOMAIN table |->
                     IF /\ SameId(table[i], a) /\ FirstAttempt(table, i)
                        /\ effect_rank[table[i].state] <= effect_rank[a.state]
                     THEN a ELSE table[i]]
  <2>1. Overwrite(table, a) = f
    BY <1>1 DEF Overwrite
  <2>2. DOMAIN f = DOMAIN table /\ \A i \in DOMAIN table : f[i] \in T
    OBVIOUS
  <2> QED
    BY <2>1, <2>2
<1>2. CASE ~(\E i \in DOMAIN table : SameId(table[i], a))
  <2>1. Overwrite(table, a) = Append(table, a)
    BY <1>2 DEF Overwrite
  <2> QED
    BY <2>1, PushKeeps, BoundTypes
<1> QED
  BY <1>1, <1>2

\* Fencing changes states only.
LEMMA FencingKeeps ==
  ASSUME NEW table \in Seq(Attempts), NEW i \in DOMAIN table
  PROVE  /\ FencedByRestart(table)[i].plan = table[i].plan
         /\ FencedByRestart(table)[i].boundary = table[i].boundary
<1>1. table[i] \in Attempts
  BY ElementOfSeq
<1>2. FencedByRestart(table)[i] \in {table[i], [table[i] EXCEPT !.state = "Fenced"]}
  BY DEF FencedByRestart
<1> QED
  BY <1>1, <1>2 DEF Attempts

\* A recomputed effect that is verified is that of an attempt of the plan.
LEMMA RecomputeState ==
  ASSUME NEW reverify, NEW b, NEW plan, NEW table \in Seq(Attempts),
         Recompute(reverify, b, plan, table) \in Verified
  PROVE  \E i \in DOMAIN table :
           table[i].plan = plan /\ table[i].state = Recompute(reverify, b, plan, table)
<1>1. "Ambiguous" \notin Verified /\ "NotRequested" \notin Verified
  BY DEF Verified
<1>2. /\ Newest(table, plan) # {}
      /\ Recompute(reverify, b, plan, table) = table[CHOOSE i \in Newest(table, plan) : TRUE].state
  BY <1>1 DEF Recompute
<1>3. (CHOOSE i \in Newest(table, plan) : TRUE) \in Newest(table, plan)
  BY <1>2
<1> QED
  BY <1>2, <1>3 DEF Newest

-----------------------------------------------------------------------------
(* The records *)

\* What the invariant reads of the disk.
Recorded(d) == <<d.readable, d.plans, d.attempts, d.boundary, d.boundary_plan>>

\* Records other than those of plans, attempts and boundaries leave it alone.
LEMMA RecordedUntouched ==
  ASSUME NEW d \in Durables
  PROVE  /\ \A g \in Nat : /\ Recorded(LogTopology(d, g)) = Recorded(d)
                           /\ Recorded(LogPolicy(d, g)) = Recorded(d)
         /\ \A o \in Observation : Recorded(LogDetection(d, o)) = Recorded(d)
         /\ \A t \in Decisions : Recorded(LogTransition(d, t)) = Recorded(d)
         /\ \A e, b \in Nat : Recorded(LogEpoch(d, e, b)) = Recorded(d)
         /\ \A f \in SUBSET Nat : Recorded(LogFence(d, f)) = Recorded(d)
  BY DEF LogTopology, LogPolicy, LogDetection, LogTransition, LogEpoch, LogFence, Recorded, Durables

\* So do the records of open(), as far as they got.
LEMMA OpenRecorded ==
  ASSUME TypeOK
  PROVE  \A d \in {AfterTopology, AfterPolicy, AfterEpoch, AfterFence} : Recorded(d) = Recorded(disk)
<1>1. disk \in Durables /\ disk.epoch + 1 \in Nat /\ boots + 1 \in Nat
  BY DEF TypeOK, Durables
<1>0. Found \in Durables /\ Recorded(Found) = Recorded(disk)
  BY <1>1 DEF Found, Recorded, Durables, Tails
<1>2. Recorded(AfterTopology) = Recorded(disk)
  BY <1>0, RecoveredTypes, RecordedUntouched DEF AfterTopology
<1>3. Recorded(AfterPolicy) = Recorded(disk)
  BY <1>2, RecoveredTypes, RecordedUntouched DEF AfterPolicy
<1>4. Recorded(AfterEpoch) = Recorded(disk)
  BY <1>1, <1>3, RecoveredTypes, RecordedUntouched DEF AfterEpoch
<1>5. Recorded(AfterFence) = Recorded(disk)
  BY <1>4, RecoveredTypes, RecordedUntouched DEF AfterFence
<1> QED
  BY <1>2, <1>3, <1>4, <1>5

LEMMA RecordedFollows ==
  ASSUME NEW d, NEW x, Recorded(x) = Recorded(d), DiskFollows(d)
  PROVE  DiskFollows(x)
<1>1. /\ x.readable = d.readable /\ x.plans = d.plans /\ x.attempts = d.attempts
      /\ x.boundary = d.boundary /\ x.boundary_plan = d.boundary_plan
  BY DEF Recorded
<1> QED
  BY <1>1 DEF DiskFollows

LEMMA FrozenFollows ==
  ASSUME NEW d, NEW x, Body(x) = Body(d), x.readable => d.readable, DiskFollows(d)
  PROVE  DiskFollows(x)
<1>1. /\ x.plans = d.plans /\ x.attempts = d.attempts
      /\ x.boundary = d.boundary /\ x.boundary_plan = d.boundary_plan
  BY DEF Body
<1> QED
  BY <1>1 DEF DiskFollows

\* A commit, acknowledged or failed, keeps the disk consistent, and the log stays clean only
\* if the record is on it, or nothing has changed.
LEMMA CommitFollows ==
  ASSUME NEW d \in Durables, NEW e \in Durables, NEW x \in Committed(d, e),
         DiskFollows(d), d.tail = "Clean" => DiskFollows(e)
  PROVE  DiskFollows(x) /\ (x.tail = "Clean" => d.tail = "Clean" /\ x = e)
<1>1. CASE d.tail = "Clean" /\ x = e
  BY <1>1
<1>2. CASE d.tail # "Clean" /\ x.tail # "Clean" /\ Frozen(x, d)
  BY <1>2, FrozenFollows DEF Frozen
<1> QED
  BY <1>1, <1>2, CommittedOutcome

LEMMA FailureFollows ==
  ASSUME NEW d \in Durables, NEW e \in Durables, NEW x \in NotCommitted(d, e),
         DiskFollows(d), d.tail = "Clean" => DiskFollows(e)
  PROVE  DiskFollows(x) /\ (x.tail = "Clean" => x = d)
<1>1. CASE Frozen(x, d) /\ (x.tail = "Clean" => x = d)
  BY <1>1, FrozenFollows DEF Frozen
<1>2. CASE d.tail = "Clean" /\ x.tail = "Whole" /\ x.readable = e.readable /\ Body(x) = Body(e)
  <2>1. DiskFollows(x)
    BY <1>2, FrozenFollows
  <2> QED
    BY <1>2, <2>1
<1> QED
  BY <1>1, <1>2, FailedOutcome

\* The same for one commit of a step.
LEMMA RecordFollows ==
  ASSUME ScopeInvariant, NEW e \in Durables, disk.tail = "Clean" => DiskFollows(e)
  PROVE  /\ Commits(e) => StoreFollows' /\ (disk'.tail = "Clean" => disk.tail = "Clean" /\ disk' = e)
         /\ CommitFails(e) => StoreFollows' /\ (disk'.tail = "Clean" => disk' = disk)
<1>1. disk \in Durables /\ DiskFollows(disk)
  BY DEF ScopeInvariant, SafetyInvariant, TypeOK, StoreFollows
<1>2. PICK x : x = disk'
  OBVIOUS
<1>3. DiskFollows(x) => StoreFollows'
  BY <1>2 DEF StoreFollows, DiskFollows, AllRetained, FollowPlans, Follows, Governs, FirstPlan
<1>4. ASSUME Commits(e)
      PROVE  DiskFollows(x) /\ (x.tail = "Clean" => disk.tail = "Clean" /\ x = e)
  <2>1. x \in Committed(disk, e)
    BY <1>2, <1>4 DEF Commits
  <2> QED
    BY <1>1, <2>1, CommitFollows
<1>5. ASSUME CommitFails(e)
      PROVE  DiskFollows(x) /\ (x.tail = "Clean" => x = disk)
  <2>1. x \in NotCommitted(disk, e)
    BY <1>2, <1>5 DEF CommitFails
  <2> QED
    BY <1>1, <2>1, FailureFollows
<1> QED
  BY <1>2, <1>3, <1>4, <1>5

-----------------------------------------------------------------------------
(* The steps *)

\* A step that leaves plans, attempts and intent alone in memory.
LEMMA ScopeFrame ==
  ASSUME ScopeInvariant, SafetyInvariant', StoreFollows',
         up /\ disk'.tail = "Clean" => disk.tail = "Clean" /\ disk'.plans = disk.plans,
         UNCHANGED <<up, plans, attempts, boundary, boundary_plan, effect_state>>
  PROVE  ScopeInvariant'
<1>1. MemoryFollows'
  BY DEF ScopeInvariant, MemoryFollows, AllRetained, FollowPlans, Follows, Governs, FirstPlan
<1>2. PlansOnDisk' /\ VerifiedIsTheScope'
  BY DEF ScopeInvariant, PlansOnDisk, VerifiedIsTheScope, SameMembers
<1> QED
  BY <1>1, <1>2 DEF ScopeInvariant

\* A record of something else, or an operation that is refused before it writes one.
LEMMA ScopeRecord ==
  ASSUME ScopeInvariant, SafetyInvariant', NEW e \in Durables, Recorded(e) = Recorded(disk),
         Commits(e) \/ CommitFails(e) \/ disk' = disk,
         UNCHANGED <<up, plans, attempts, boundary, boundary_plan, effect_state>>
  PROVE  ScopeInvariant'
<1>1. DiskFollows(disk) /\ e.plans = disk.plans
  BY DEF ScopeInvariant, StoreFollows, Recorded
<1>2. DiskFollows(e)
  BY <1>1, RecordedFollows
<1>3. CASE disk' = disk
  <2>1. StoreFollows'
    BY <1>3 DEF ScopeInvariant, StoreFollows, DiskFollows, AllRetained, FollowPlans, Follows,
       Governs, FirstPlan
  <2> QED
    BY <1>3, <2>1, ScopeFrame
<1>4. CASE Commits(e) \/ CommitFails(e)
  <2>1. StoreFollows' /\ (disk'.tail = "Clean" => disk.tail = "Clean" /\ disk'.plans = disk.plans)
    BY <1>1, <1>2, <1>4, RecordFollows
  <2> QED
    BY <2>1, ScopeFrame
<1> QED
  BY <1>3, <1>4

\* The process is gone: what is left to show is about the disk.
LEMMA ScopeHalt ==
  ASSUME ScopeInvariant, SafetyInvariant', NEW x, disk' = x, DiskFollows(x), Halt
  PROVE  ScopeInvariant'
<1>1. ~up' /\ attempts' = <<>> /\ boundary_plan' = 0 /\ plans' = <<>>
  BY DEF Halt
<1>2. StoreFollows'
  BY DEF StoreFollows, DiskFollows, AllRetained, FollowPlans, Follows, Governs, FirstPlan
<1>3. MemoryFollows' /\ PlansOnDisk' /\ VerifiedIsTheScope'
  BY <1>1, BoundTypes DEF MemoryFollows, AllRetained, FollowPlans, PlansOnDisk, VerifiedIsTheScope
<1> QED
  BY <1>2, <1>3 DEF ScopeInvariant

LEMMA ScopeInit == Init => ScopeInvariant
<1> SUFFICES ASSUME Init PROVE ScopeInvariant
  OBVIOUS
<1>1. SafetyInvariant
  BY SafetyInit
<1>2. ~up /\ attempts = <<>> /\ boundary_plan = 0 /\ plans = <<>> /\ disk = FreshDisk
  BY DEF Init
<1>3. disk.plans = <<>> /\ disk.attempts = <<>> /\ disk.boundary_plan = 0
  BY <1>2 DEF FreshDisk
<1>4. AllRetained(<<>>)
  BY BoundTypes DEF AllRetained
<1>5. StoreFollows /\ MemoryFollows
  BY <1>2, <1>3, <1>4 DEF StoreFollows, DiskFollows, MemoryFollows, FollowPlans
<1>6. PlansOnDisk /\ VerifiedIsTheScope
  BY <1>2 DEF PlansOnDisk, VerifiedIsTheScope
<1> QED
  BY <1>1, <1>5, <1>6 DEF ScopeInvariant

\* A recovery takes everything from the disk, and never reports a boundary as verified.
LEMMA ScopeOpen ==
  ASSUME ScopeInvariant, SafetyInvariant', Open
  PROVE  ScopeInvariant'
<1>1. TypeOK /\ disk \in Durables /\ disk.readable /\ disk' = AfterFence
  BY DEF ScopeInvariant, SafetyInvariant, TypeOK, Open
<1>2. /\ disk'.readable = disk.readable /\ disk'.plans = disk.plans
      /\ disk'.attempts = disk.attempts /\ disk'.boundary = disk.boundary
      /\ disk'.boundary_plan = disk.boundary_plan
  BY <1>1, OpenRecorded DEF Recorded
<1>3. disk.plans \in Seq(Plans) /\ disk.attempts \in Seq(Attempts)
  BY <1>1 DEF Durables
<1>4. /\ plans' = Evict(disk.plans, RetainedPlans)
      /\ attempts' = Evict(FencedByRestart(disk.attempts), RetainedAttempts)
      /\ boundary' = disk.boundary /\ boundary_plan' = disk.boundary_plan
      /\ effect_state' = IF RequiresReverification THEN "Ambiguous" ELSE recovered_effect
  BY DEF Open, Recovered
<1>5. /\ AllRetained(disk.plans) /\ FollowPlans(disk.plans, disk.attempts)
      /\ disk.boundary_plan # 0 => Governs(disk.plans, disk.boundary_plan, disk.boundary.members)
  BY <1>1 DEF ScopeInvariant, StoreFollows, DiskFollows
<1>6. plans' = disk.plans
  <2>1. Len(disk.plans) \in Nat /\ RetainedPlans \in Nat /\ Len(disk.plans) <= RetainedPlans
    BY <1>3, <1>5, BoundTypes DEF AllRetained
  <2> QED
    BY <1>4, <2>1 DEF Evict
<1>7. StoreFollows'
  BY <1>2, <1>5 DEF StoreFollows, DiskFollows, AllRetained, FollowPlans, Follows, Governs, FirstPlan
<1>8. \A i \in DOMAIN attempts' : Follows(disk.plans, attempts'[i])
  <2> DEFINE fenced == FencedByRestart(disk.attempts)
             T == {x \in Attempts : Follows(disk.plans, x)}
  <2>1. /\ fenced \in Seq(Attempts) /\ DOMAIN fenced = DOMAIN disk.attempts
        /\ \A i \in DOMAIN disk.attempts : fenced[i] \in Attempts
    <3>1. fenced \in Seq(Attempts) /\ Len(fenced) = Len(disk.attempts)
      BY <1>3, FencedByRestartType
    <3>2. DOMAIN fenced = 1..Len(fenced) /\ DOMAIN disk.attempts = 1..Len(disk.attempts)
      BY <1>3, <3>1
    <3> HIDE DEF fenced
    <3> QED
      BY <3>1, <3>2, ElementOfSeq
  <2>2. \A i \in DOMAIN disk.attempts : fenced[i] \in T
    BY <1>3, <1>5, <2>1, FencingKeeps DEF FollowPlans, Follows
  <2> HIDE DEF fenced, T
  <2>3. \A i \in DOMAIN Evict(fenced, RetainedAttempts) : Evict(fenced, RetainedAttempts)[i] \in T
    <3>1. /\ Evict(fenced, RetainedAttempts) \in Seq(Attempts)
          /\ \A i \in 1..Len(Evict(fenced, RetainedAttempts)) :
               \E j \in 1..Len(fenced) : Evict(fenced, RetainedAttempts)[i] = fenced[j]
      BY <2>1, EvictKeepsSuffix, BoundTypes
    <3>2. DOMAIN Evict(fenced, RetainedAttempts) = 1..Len(Evict(fenced, RetainedAttempts))
          /\ DOMAIN fenced = 1..Len(fenced)
      BY <2>1, <3>1
    <3> QED
      BY <2>1, <2>2, <3>1, <3>2
  <2> QED
    BY <1>4, <2>3 DEF fenced, T
<1>9. MemoryFollows'
  BY <1>4, <1>5, <1>6, <1>8 DEF MemoryFollows, AllRetained, FollowPlans, Follows, Governs, FirstPlan
<1>10. effect_state' \notin Verified
  BY <1>4 DEF RequiresReverification, Verified
<1>11. PlansOnDisk' /\ VerifiedIsTheScope'
  BY <1>2, <1>6, <1>10 DEF PlansOnDisk, VerifiedIsTheScope
<1> QED
  BY <1>7, <1>9, <1>11 DEF ScopeInvariant

\* A plan behind the others of a table that has room for it.
LEMMA PlanRetained ==
  ASSUME MaxPlans <= RetainedPlans, NEW table \in Seq(Plans), NEW p \in Plans, p.generation # 0,
         AllRetained(table), Len(table) < MaxPlans
  PROVE  AllRetained(Append(table, p)) /\ Evict(Append(table, p), RetainedPlans) = Append(table, p)
<1> DEFINE new == Append(table, p)
<1>1. /\ DOMAIN new = 1..(Len(table) + 1) /\ Len(new) = Len(table) + 1 /\ Len(table) \in Nat
      /\ DOMAIN table = 1..Len(table)
      /\ \A i \in 1..Len(table) : new[i] = table[i]
      /\ new[Len(table) + 1] = p
  BY AppendProperties
<1>2. MaxPlans \in Nat /\ RetainedPlans \in Nat
  BY BoundsAssumption
<1> HIDE DEF new
<1>3. Len(new) <= RetainedPlans
  BY <1>1, <1>2
<1>4. ASSUME NEW j \in DOMAIN new
      PROVE  new[j].generation # 0
  <2>1. j \in 1..Len(table) \/ j = Len(table) + 1
    BY <1>1
  <2> QED
    BY <1>1, <2>1 DEF AllRetained
<1>5. AllRetained(new)
  BY <1>3, <1>4 DEF AllRetained
<1>6. Evict(new, RetainedPlans) = new
  BY <1>1, <1>2, <1>3 DEF Evict
<1> QED
  BY <1>5, <1>6 DEF new

\* A plan is recorded behind the others, in memory and on disk alike.
LEMMA ScopePlan ==
  ASSUME MaxPlans <= RetainedPlans, ScopeInvariant, SafetyInvariant', Plan
  PROVE  ScopeInvariant'
<1>1. /\ TypeOK /\ disk \in Durables /\ disk.plans \in Seq(Plans) /\ plans \in Seq(Plans)
      /\ disk.attempts \in Seq(Attempts) /\ up
      /\ disk.tail = "Clean" => plans = disk.plans
  BY DEF ScopeInvariant, SafetyInvariant, TypeOK, Durables, PlansOnDisk, Plan
<1>2. PICK c \in PlanResults(plan_counter + 1) :
        \/ /\ Commits(LogPlan(disk, NewPlan(c)))
           /\ plans' = Evict(Append(plans, NewPlan(c)), RetainedPlans)
        \/ CommitFails(LogPlan(disk, NewPlan(c))) /\ UNCHANGED plans
  BY DEF Plan
<1>3. UNCHANGED <<up, attempts, boundary, boundary_plan, effect_state>>
  BY DEF Plan, identity, intent
<1>4. Len(disk.plans) < MaxPlans /\ Len(plans) < MaxPlans
  BY DEF Plan, RoomForPlan
<1> DEFINE p == NewPlan(c)
           e == LogPlan(disk, p)
<1>5. p \in Plans /\ p.generation # 0
  <2>1. p \in Plans
    BY <1>1, PlanType
  <2>2. p.generation = plan_counter + 1 /\ plan_counter \in Nat
    BY <1>1 DEF NewPlan, TypeOK
  <2> QED
    BY <2>1, <2>2
<1>6. \/ Commits(e) /\ plans' = Evict(Append(plans, p), RetainedPlans)
      \/ CommitFails(e) /\ UNCHANGED plans
  BY <1>2
<1> HIDE DEF p
<1>7. /\ e \in Durables /\ e.plans = Append(disk.plans, p) /\ e.boundary = disk.boundary
      /\ e.readable => disk.readable
      /\ e.attempts = disk.attempts /\ e.boundary_plan = disk.boundary_plan
  <2>1. e.boundary_plan = disk.boundary_plan /\ e.attempts = disk.attempts
    BY <1>1 DEF LogPlan, Durables
  <2> QED
    BY <1>1, <1>5, <2>1, LogPlanFields, LogTypes
<1> HIDE DEF e
<1>8. AllRetained(disk.plans) /\ AllRetained(plans)
  BY DEF ScopeInvariant, StoreFollows, DiskFollows, MemoryFollows
<1>9. /\ AllRetained(Append(disk.plans, p)) /\ AllRetained(Append(plans, p))
      /\ Evict(Append(plans, p), RetainedPlans) = Append(plans, p)
  BY <1>1, <1>4, <1>5, <1>8, PlanRetained
<1>10. DiskFollows(e)
  <2>1. \A g, m : Governs(disk.plans, g, m) => Governs(e.plans, g, m)
    BY <1>1, <1>5, <1>7, GovernsStays
  <2>2. FollowPlans(e.plans, e.attempts)
    BY <1>7, <2>1 DEF ScopeInvariant, StoreFollows, DiskFollows, FollowPlans, Follows
  <2> QED
    BY <1>7, <1>9, <2>1, <2>2 DEF ScopeInvariant, StoreFollows, DiskFollows
<1>11. CASE CommitFails(e) /\ UNCHANGED plans
  <2>1. StoreFollows' /\ (disk'.tail = "Clean" => disk' = disk)
    BY <1>7, <1>10, <1>11, RecordFollows
  <2> QED
    BY <1>3, <1>11, <2>1, ScopeFrame
<1>12. CASE Commits(e) /\ plans' = Evict(Append(plans, p), RetainedPlans)
  <2>1. StoreFollows' /\ (disk'.tail = "Clean" => disk.tail = "Clean" /\ disk' = e)
    BY <1>7, <1>10, <1>12, RecordFollows
  <2>2. plans' = Append(plans, p)
    BY <1>9, <1>12
  <2>3. PlansOnDisk'
    BY <1>1, <1>7, <2>1, <2>2 DEF PlansOnDisk
  <2>4. \A g, m : Governs(plans, g, m) => Governs(Append(plans, p), g, m)
    BY <1>1, <1>5, GovernsStays
  <2>5. /\ FollowPlans(Append(plans, p), attempts)
        /\ boundary_plan # 0 => Governs(Append(plans, p), boundary_plan, boundary.members)
    BY <2>4 DEF ScopeInvariant, MemoryFollows, FollowPlans, Follows
  <2>6. MemoryFollows'
    BY <1>3, <1>9, <2>2, <2>5 DEF MemoryFollows, AllRetained, FollowPlans, Follows, Governs, FirstPlan
  <2>7. VerifiedIsTheScope'
    BY <1>3 DEF ScopeInvariant, VerifiedIsTheScope, SameMembers
  <2> QED
    BY <2>1, <2>3, <2>6, <2>7 DEF ScopeInvariant
<1> QED
  BY <1>6, <1>11, <1>12

\* What a decision of a plan at hand puts on record once it is followed by its boundary.
LEMMA DecisionFollows ==
  ASSUME ScopeInvariant, up, NEW i \in DOMAIN plans, NEW k \in Kinds, FirstPlan(plans, i),
         k = "Release" => plans[i].boundary.members = {}
  PROVE  LET t == Decided(k, plans[i])
             decided == LogTransition(disk, t)
             in_force == LogBoundary(decided, plans[i].generation, t.to)
         IN /\ decided \in Durables /\ DiskFollows(decided) /\ decided.tail = disk.tail
            /\ t.to.members = plans[i].boundary.members /\ t.to \in Boundaries
            /\ \A d \in Durables : LogBoundary(d, plans[i].generation, t.to) \in Durables
            /\ decided.plans = disk.plans /\ in_force.plans = disk.plans
            /\ disk.tail = "Clean" => DiskFollows(in_force)
<1> DEFINE t == Decided(k, plans[i])
           decided == LogTransition(disk, t)
           in_force == LogBoundary(decided, plans[i].generation, t.to)
<1>1. /\ TypeOK /\ disk \in Durables /\ SafetyInvariant /\ DiskFollows(disk)
      /\ disk.tail = "Clean" => plans = disk.plans
  BY DEF ScopeInvariant, SafetyInvariant, TypeOK, StoreFollows, PlansOnDisk
<1>2. /\ t \in Decisions /\ t.to \in Boundaries /\ plans[i].generation \in Nat
  BY <1>1, DecisionTypes
<1>3. t.to.members = plans[i].boundary.members
  <2>1. t.to = IF k = "Release" THEN NoBoundary ELSE plans[i].boundary
    BY DEF Decided
  <2> QED
    BY <2>1 DEF NoBoundary
<1>4. disk.tail = "Clean" /\ disk.readable => in_force.boundary = t.to
  BY <1>1, TransitionRecords
<1> HIDE DEF t
<1>5. decided \in Durables /\ Recorded(decided) = Recorded(disk)
  BY <1>1, <1>2, LogTypes, RecordedUntouched
<1>6. /\ decided.plans = disk.plans /\ decided.attempts = disk.attempts
      /\ decided.readable = disk.readable /\ decided.tail = disk.tail
  BY <1>1, <1>2, <1>5, LogTransitionFields DEF Recorded, Scope
<1>7. DiskFollows(decided)
  BY <1>1, <1>5, RecordedFollows
<1> HIDE DEF decided
<1>8. /\ in_force.plans = disk.plans /\ in_force.readable = disk.readable
      /\ in_force.attempts = disk.attempts /\ in_force.boundary_plan = plans[i].generation
  <2>1. in_force.boundary_plan = plans[i].generation /\ in_force.attempts = decided.attempts
    BY <1>2, <1>5 DEF LogBoundary, Durables
  <2> QED
    BY <1>2, <1>5, <1>6, <2>1, LogBoundaryFields
<1>9. \A d \in Durables : LogBoundary(d, plans[i].generation, t.to) \in Durables
  BY <1>2, LogTypes
<1> HIDE DEF in_force
<1>10. disk.tail = "Clean" => DiskFollows(in_force)
  <2>1. Governs(plans, plans[i].generation, t.to.members)
    BY <1>3, FoundGoverns
  <2> QED
    BY <1>1, <1>4, <1>8, <2>1 DEF DiskFollows
<1> QED
  BY <1>2, <1>3, <1>5, <1>6, <1>7, <1>8, <1>9, <1>10 DEF t, decided, in_force

\* An accepted transition puts in force the boundary of the plan found, or releases it where
\* that plan has no members.
LEMMA ScopeAccept ==
  ASSUME ScopeInvariant, SafetyInvariant', NEW a \in DOMAIN authorizations, NEW i \in DOMAIN plans,
         NEW k \in Kinds, AcceptTransition(a, i, k)
  PROVE  ScopeInvariant'
<1> DEFINE t == Decided(k, plans[i])
           first == LogTransition(disk, t)
           InForceOn(d) == LogBoundary(d, plans[i].generation, t.to)
<1>1. /\ disk \in Durables /\ DiskFollows(disk) /\ up /\ FirstPlan(plans, i)
      /\ k = "Release" => plans[i].boundary.members = {}
      /\ disk.tail = "Clean" => plans = disk.plans
  BY DEF ScopeInvariant, SafetyInvariant, TypeOK, StoreFollows, PlansOnDisk, AcceptTransition,
     KindAllows, Releasable
<1>2. /\ first \in Durables /\ DiskFollows(first) /\ first.tail = disk.tail
      /\ t.to.members = plans[i].boundary.members
      /\ \A d \in Durables : InForceOn(d) \in Durables
      /\ first.plans = disk.plans /\ InForceOn(first).plans = disk.plans
      /\ disk.tail = "Clean" => DiskFollows(InForceOn(first))
  BY <1>1, DecisionFollows
<1> DEFINE Same == UNCHANGED <<up, plans, attempts, boundary, boundary_plan, effect_state>>
<1>3. \/ \E decided \in Committed(disk, first) :
           \/ /\ disk' \in Committed(decided, InForceOn(decided))
              /\ boundary' = t.to /\ boundary_plan' = plans[i].generation
              /\ effect_state' = "NotRequested" /\ UNCHANGED <<up, plans, attempts>>
           \/ disk' = decided /\ Halt
           \/ disk' \in NotCommitted(decided, InForceOn(decided)) /\ Same
      \/ CommitFails(first) /\ Same
  BY DEF AcceptTransition, OnlyTransitionCounted, ResetEffect, identity, intent, tables
<1> HIDE DEF t, first, InForceOn
<1>4. CASE CommitFails(first) /\ Same
  <2>1. StoreFollows' /\ (disk'.tail = "Clean" => disk' = disk)
    BY <1>2, <1>4, RecordFollows
  <2> QED
    BY <1>4, <2>1, ScopeFrame
<1>5. ASSUME NEW decided \in Committed(disk, first),
             \/ /\ disk' \in Committed(decided, InForceOn(decided))
                /\ boundary' = t.to /\ boundary_plan' = plans[i].generation
                /\ effect_state' = "NotRequested" /\ UNCHANGED <<up, plans, attempts>>
             \/ disk' = decided /\ Halt
             \/ disk' \in NotCommitted(decided, InForceOn(decided)) /\ Same
      PROVE  ScopeInvariant'
  <2>1. DiskFollows(decided) /\ (decided.tail = "Clean" => disk.tail = "Clean" /\ decided = first)
    BY <1>1, <1>2, CommitFollows
  <2>2. decided \in Durables /\ InForceOn(decided) \in Durables
    BY <1>1, <1>2, CommitTypes
  <2>3. decided.tail = "Clean" => DiskFollows(InForceOn(decided))
    BY <1>2, <2>1
  <2>4. PICK x : x = disk'
    OBVIOUS
  <2>5. DiskFollows(x) => StoreFollows'
    BY <2>4 DEF StoreFollows, DiskFollows, AllRetained, FollowPlans, Follows, Governs, FirstPlan
  <2>6. CASE disk' = decided /\ Halt
    BY <2>1, <2>6, ScopeHalt
  <2>7. CASE disk' \in NotCommitted(decided, InForceOn(decided)) /\ Same
    <3>1. x \in NotCommitted(decided, InForceOn(decided))
      BY <2>4, <2>7
    <3>2. DiskFollows(x) /\ (x.tail = "Clean" => x = decided)
      BY <2>1, <2>2, <2>3, <3>1, FailureFollows
    <3>3. disk'.tail = "Clean" => disk.tail = "Clean" /\ disk'.plans = disk.plans
      BY <1>2, <2>1, <2>4, <3>2
    <3> QED
      BY <2>5, <2>7, <3>2, <3>3, ScopeFrame
  <2>8. CASE /\ disk' \in Committed(decided, InForceOn(decided))
             /\ boundary' = t.to /\ boundary_plan' = plans[i].generation
             /\ effect_state' = "NotRequested" /\ UNCHANGED <<up, plans, attempts>>
    <3>1. x \in Committed(decided, InForceOn(decided))
      BY <2>4, <2>8
    <3>2. DiskFollows(x) /\ (x.tail = "Clean" => decided.tail = "Clean" /\ x = InForceOn(decided))
      BY <2>1, <2>2, <2>3, <3>1, CommitFollows
    <3>3. disk'.tail = "Clean" => disk.tail = "Clean" /\ disk'.plans = disk.plans
      BY <1>2, <2>1, <2>4, <3>2
    <3>4. PlansOnDisk'
      BY <1>1, <2>8, <3>3 DEF PlansOnDisk
    <3>5. Governs(plans, plans[i].generation, t.to.members)
      BY <1>1, <1>2, FoundGoverns
    <3>6. MemoryFollows'
      BY <2>8, <3>5 DEF ScopeInvariant, MemoryFollows, AllRetained, FollowPlans, Follows, Governs,
         FirstPlan
    <3>7. VerifiedIsTheScope'
      BY <2>8 DEF VerifiedIsTheScope, Verified
    <3> QED
      BY <2>5, <3>2, <3>4, <3>6, <3>7 DEF ScopeInvariant
  <2> QED
    BY <1>5, <2>6, <2>7, <2>8
<1> QED
  BY <1>3, <1>4, <1>5

LEMMA ScopeTransition ==
  ASSUME ScopeInvariant, SafetyInvariant', Transition
  PROVE  ScopeInvariant'
<1>1. ASSUME NEW a \in 0..Len(authorizations), RefuseTransition(a) \/ RefusalLost(a)
      PROVE  ScopeInvariant'
  <2>1. UNCHANGED <<up, plans, attempts, boundary, boundary_plan, effect_state>>
    BY <1>1 DEF RefuseTransition, RefusalLost, identity, intent
  <2>2. Commits(LogTransition(disk, Refused)) \/ CommitFails(LogTransition(disk, Refused))
    BY <1>1 DEF RefuseTransition, RefusalLost
  <2>3. /\ LogTransition(disk, Refused) \in Durables
        /\ Recorded(LogTransition(disk, Refused)) = Recorded(disk)
    <3>1. TypeOK /\ disk \in Durables
      BY DEF ScopeInvariant, SafetyInvariant, TypeOK
    <3> QED
      BY <3>1, RefusedType, LogTypes, RecordedUntouched
  <2> QED
    BY <2>1, <2>2, <2>3, ScopeRecord
<1> QED
  BY <1>1, ScopeAccept DEF Transition

\* An attempt that follows the plans, in a table of such attempts or on record.
LEMMA AttemptFollows ==
  ASSUME ScopeInvariant, up, NEW t \in Attempts, Follows(plans, t)
  PROVE  /\ LogAttempt(disk, t) \in Durables /\ LogAttempt(disk, t).plans = disk.plans
         /\ disk.tail = "Clean" => DiskFollows(LogAttempt(disk, t))
         /\ FollowPlans(plans, Evict(Append(attempts, t), RetainedAttempts))
         /\ \A i \in DOMAIN attempts : FollowPlans(plans, [attempts EXCEPT ![i] = t])
<1> DEFINE e == LogAttempt(disk, t)
<1>1. /\ TypeOK /\ disk \in Durables /\ disk.attempts \in Seq(Attempts)
      /\ attempts \in Seq(Attempts) /\ (disk.tail = "Clean" => plans = disk.plans)
  BY DEF ScopeInvariant, SafetyInvariant, TypeOK, Durables, PlansOnDisk
<1>2. /\ e \in Durables /\ e.readable = disk.readable /\ e.plans = disk.plans
      /\ e.boundary = disk.boundary /\ e.boundary_plan = disk.boundary_plan
      /\ e.attempts = Overwrite(disk.attempts, t)
  <2>1. e \in Durables
    BY <1>1, LogTypes
  <2> QED
    BY <1>1, <2>1 DEF LogAttempt, Durables
<1> HIDE DEF e
<1>3. ASSUME disk.tail = "Clean"
      PROVE  DiskFollows(e)
  <2> DEFINE T == {x \in Attempts : Follows(disk.plans, x)}
  <2>1. t \in T /\ \A j \in DOMAIN disk.attempts : disk.attempts[j] \in T
    BY <1>1, <1>3, ElementOfSeq DEF ScopeInvariant, StoreFollows, DiskFollows, FollowPlans
  <2> HIDE DEF T
  <2>2. \A j \in DOMAIN e.attempts : e.attempts[j] \in T
    BY <1>1, <1>2, <2>1, OverwriteKeeps
  <2>3. FollowPlans(e.plans, e.attempts)
    BY <1>2, <2>2 DEF T, FollowPlans
  <2> QED
    BY <1>2, <2>3 DEF ScopeInvariant, StoreFollows, DiskFollows
<1> DEFINE T == {x \in Attempts : Follows(plans, x)}
<1>4. t \in T /\ \A j \in DOMAIN attempts : attempts[j] \in T
  BY <1>1, ElementOfSeq DEF ScopeInvariant, MemoryFollows, FollowPlans
<1> HIDE DEF T
<1>5. LET table == Evict(Append(attempts, t), RetainedAttempts)
      IN \A j \in DOMAIN table : table[j] \in T
  BY <1>1, <1>4, PushKeeps, BoundTypes
<1>6. \A i \in DOMAIN attempts, j \in DOMAIN attempts : [attempts EXCEPT ![i] = t][j] \in T
  BY <1>4
<1> QED
  BY <1>2, <1>3, <1>5, <1>6 DEF e, T, FollowPlans

\* A submission carries the boundary of the plan it names, and is admitted over no verified one.
LEMMA ScopeSubmit ==
  ASSUME ScopeInvariant, SafetyInvariant', Submit
  PROVE  ScopeInvariant'
<1>1. PICK a \in DOMAIN authorizations, i \in DOMAIN plans : SubmitApply(a, i)
  BY DEF Submit
<1> DEFINE t == NewAttempt(plans[i])
           e == LogAttempt(disk, t)
<1>2. /\ TypeOK /\ up /\ (disk.tail = "Clean" => plans = disk.plans)
  BY <1>1 DEF ScopeInvariant, SafetyInvariant, PlansOnDisk, SubmitApply
<1>3. t \in Attempts /\ Follows(plans, t)
  <2>1. plans[i].generation \in Nat /\ plans[i].boundary \in Boundaries
    BY <1>2, EntryTypes
  <2>2. t \in Attempts
    BY <1>2, <2>1 DEF TypeOK, NewAttempt, Attempts, EffectStates
  <2>3. t.plan = plans[i].generation /\ t.boundary = plans[i].boundary /\ FirstPlan(plans, i)
    BY <1>1 DEF NewAttempt, SubmitApply
  <2> QED
    BY <2>2, <2>3, FoundGoverns DEF Follows
<1>4. /\ UNCHANGED <<up, plans, boundary, boundary_plan>>
      /\ \/ /\ Commits(e) /\ effect_state' = "Submitted"
            /\ attempts' = Evict(Append(attempts, t), RetainedAttempts)
         \/ CommitFails(e) /\ UNCHANGED <<attempts, effect_state>>
  BY <1>1 DEF SubmitApply, identity, intent, tables
<1> HIDE DEF t
<1>5. /\ e \in Durables /\ e.plans = disk.plans /\ (disk.tail = "Clean" => DiskFollows(e))
      /\ FollowPlans(plans, Evict(Append(attempts, t), RetainedAttempts))
  BY <1>2, <1>3, AttemptFollows
<1> HIDE DEF e
<1>6. StoreFollows' /\ (disk'.tail = "Clean" => disk.tail = "Clean" /\ disk'.plans = disk.plans)
  BY <1>4, <1>5, RecordFollows
<1>7. CASE CommitFails(e) /\ UNCHANGED <<attempts, effect_state>>
  BY <1>4, <1>6, <1>7, ScopeFrame
<1>8. CASE /\ Commits(e) /\ effect_state' = "Submitted"
           /\ attempts' = Evict(Append(attempts, t), RetainedAttempts)
  <2>1. MemoryFollows'
    BY <1>4, <1>5, <1>8 DEF ScopeInvariant, MemoryFollows, AllRetained, FollowPlans, Follows,
       Governs, FirstPlan
  <2>2. PlansOnDisk' /\ VerifiedIsTheScope'
    BY <1>2, <1>4, <1>6, <1>8 DEF PlansOnDisk, VerifiedIsTheScope, Verified
  <2> QED
    BY <1>6, <2>1, <2>2 DEF ScopeInvariant
<1> QED
  BY <1>4, <1>7, <1>8

\* Attempt i becomes t, for the same plan and boundary.  Its record may be written or not, and
\* the intent is left alone, or the boundary adopts that of a retained plan with its members
\* and the effect is recomputed from the attempts of the plan in force then.
LEMMA ScopeComplete ==
  ASSUME ScopeInvariant, SafetyInvariant', up, NEW i \in DOMAIN attempts, NEW t \in Attempts,
         t.plan = attempts[i].plan, t.boundary = attempts[i].boundary,
         Commits(LogAttempt(disk, t)) \/ CommitFails(LogAttempt(disk, t)),
         attempts' = [attempts EXCEPT ![i] = t], UNCHANGED <<up, plans>>,
         \/ /\ attempts[i].state \notin Verified
            /\ UNCHANGED <<boundary, boundary_plan, effect_state>>
         \/ /\ \/ UNCHANGED <<boundary, boundary_plan>>
               \/ \E j \in DOMAIN plans : /\ FirstPlan(plans, j)
                                          /\ boundary' = plans[j].boundary
                                          /\ boundary_plan' = plans[j].generation
            /\ \E reverify \in BOOLEAN :
                 effect_state' = Recompute(reverify, boundary', boundary_plan', attempts')
  PROVE  ScopeInvariant'
<1>1. /\ TypeOK /\ TypeOK' /\ plans \in Seq(Plans)
      /\ attempts \in Seq(Attempts) /\ attempts' \in Seq(Attempts)
      /\ disk.tail = "Clean" => plans = disk.plans
  BY DEF ScopeInvariant, SafetyInvariant, TypeOK, PlansOnDisk
<1>2. Follows(plans, t)
  BY DEF ScopeInvariant, MemoryFollows, FollowPlans, Follows
<1> DEFINE e == LogAttempt(disk, t)
<1>3. /\ e \in Durables /\ e.plans = disk.plans /\ (disk.tail = "Clean" => DiskFollows(e))
      /\ FollowPlans(plans, [attempts EXCEPT ![i] = t])
  BY <1>2, AttemptFollows
<1>4. FollowPlans(plans, attempts')
  BY <1>3
<1>5. Commits(e) \/ CommitFails(e)
  OBVIOUS
<1> HIDE DEF e
<1>6. StoreFollows' /\ (disk'.tail = "Clean" => disk.tail = "Clean" /\ disk'.plans = disk.plans)
  BY <1>3, <1>5, RecordFollows
<1>7. boundary_plan' # 0 => Governs(plans, boundary_plan', boundary'.members)
  BY FoundGoverns DEF ScopeInvariant, MemoryFollows
<1>8. MemoryFollows'
  BY <1>4, <1>7 DEF ScopeInvariant, MemoryFollows, AllRetained, FollowPlans, Follows, Governs,
     FirstPlan
<1>9. PlansOnDisk'
  BY <1>1, <1>6 DEF PlansOnDisk
<1>10. VerifiedIsTheScope'
  <2> SUFFICES ASSUME effect_state' \in Verified
               PROVE  \E h \in DOMAIN attempts' :
                        attempts'[h].state = effect_state' /\ SameMembers(attempts'[h].boundary, boundary')
    BY DEF VerifiedIsTheScope, SameMembers
  <2>1. CASE attempts[i].state \notin Verified /\ UNCHANGED <<boundary, boundary_plan, effect_state>>
    <3>1. PICK h \in DOMAIN attempts :
            attempts[h].state = effect_state /\ SameMembers(attempts[h].boundary, boundary)
      BY <2>1 DEF ScopeInvariant, VerifiedIsTheScope
    <3>2. h # i
      BY <2>1, <3>1
    <3>3. h \in DOMAIN attempts' /\ attempts'[h] = attempts[h]
      BY <3>2
    <3> QED
      BY <2>1, <3>1, <3>3
  <2>2. ASSUME NEW reverify \in BOOLEAN,
               effect_state' = Recompute(reverify, boundary', boundary_plan', attempts')
        PROVE  \E h \in DOMAIN attempts' :
                 attempts'[h].state = effect_state' /\ SameMembers(attempts'[h].boundary, boundary')
    <3>1. PICK h \in DOMAIN attempts' :
            attempts'[h].plan = boundary_plan' /\ attempts'[h].state = effect_state'
      <4>1. PICK table \in Seq(Attempts) : table = attempts'
        BY <1>1
      <4>2. PICK b, plan : b = boundary' /\ plan = boundary_plan'
        OBVIOUS
      <4>3. Recompute(reverify, b, plan, table) = effect_state'
        BY <2>2, <4>1, <4>2
      <4>4. Recompute(reverify, b, plan, table) \in Verified
        BY <4>3
      <4>5. \E h \in DOMAIN table :
              table[h].plan = plan /\ table[h].state = Recompute(reverify, b, plan, table)
        BY <4>4, RecomputeState
      <4> QED
        BY <4>1, <4>2, <4>3, <4>5
    <3>2. Governs(plans, boundary_plan', attempts'[h].boundary.members)
      BY <1>4, <3>1 DEF FollowPlans, Follows
    <3>3. boundary_plan' # 0
      BY <3>2 DEF Governs, ScopeInvariant, MemoryFollows, AllRetained
    <3>4. attempts'[h].boundary.members = boundary'.members
      BY <1>1, <1>7, <3>2, <3>3, GovernsOnce
    <3> QED
      BY <3>1, <3>4 DEF SameMembers
  <2> QED
    BY <2>1, <2>2
<1> QED
  BY <1>6, <1>8, <1>9, <1>10 DEF ScopeInvariant

\* The same for each report of the enforcement plane.
LEMMA ScopeReport ==
  ASSUME ScopeInvariant, SafetyInvariant', Report
  PROVE  ScopeInvariant'
<1>1. PICK i \in DOMAIN attempts, s \in 1..MaxApplierSequence :
        \/ AcknowledgeMismatch(i, s)
        \/ \E accepted \in BOOLEAN : Acknowledge(i, s, accepted)
        \/ \E observation \in Observations, matches \in BOOLEAN :
             VerifyEffect(i, s, observation, matches)
  BY DEF Report
<1>2. TypeOK /\ s \in Nat /\ attempts[i] \in Attempts
  BY BoundTypes, EntryTypes DEF ScopeInvariant, SafetyInvariant
<1>3. \A st \in EffectStates :
        /\ [attempts[i] EXCEPT !.state = st].plan = attempts[i].plan
        /\ [attempts[i] EXCEPT !.state = st].boundary = attempts[i].boundary
        /\ [attempts[i] EXCEPT !.state = st, !.applier_sequence = s].plan = attempts[i].plan
        /\ [attempts[i] EXCEPT !.state = st, !.applier_sequence = s].boundary = attempts[i].boundary
  BY <1>2 DEF Attempts
<1>4. Verified \subseteq Terminal
  BY DEF Verified, Terminal, EffectStates
<1>5. CASE AcknowledgeMismatch(i, s)
  <2> DEFINE t == [attempts[i] EXCEPT !.state = "Ambiguous"]
  <2>1. t \in Attempts /\ t.plan = attempts[i].plan /\ t.boundary = attempts[i].boundary
    BY <1>2, <1>3, AttemptTypes DEF EffectStates
  <2>2. Complete(i, t, UNCHANGED intent) /\ attempts[i].state \notin Terminal /\ up
    BY <1>5 DEF AcknowledgeMismatch
  <2> HIDE DEF t
  <2>3. /\ Commits(LogAttempt(disk, t)) \/ CommitFails(LogAttempt(disk, t))
        /\ attempts' = [attempts EXCEPT ![i] = t]
        /\ UNCHANGED <<up, plans, boundary, boundary_plan, effect_state>>
    BY <2>2 DEF Complete, intent, identity
  <2> QED
    BY <1>4, <2>1, <2>2, <2>3, ScopeComplete
<1>6. ASSUME NEW accepted \in BOOLEAN, Acknowledge(i, s, accepted)
      PROVE  ScopeInvariant'
  <2> DEFINE t == [attempts[i] EXCEPT !.state = IF accepted THEN "Acknowledged" ELSE "Failed",
                                      !.applier_sequence = s]
  <2>1. t \in Attempts /\ t.plan = attempts[i].plan /\ t.boundary = attempts[i].boundary
    <3>1. (IF accepted THEN "Acknowledged" ELSE "Failed") \in EffectStates
      BY DEF EffectStates
    <3> QED
      BY <1>2, <1>3, <3>1, AttemptTypes
  <2>2. /\ attempts[i].state \notin Terminal /\ up
        /\ Complete(i, t,
             /\ effect_state' = Recompute(effect_requires_reverification, boundary, boundary_plan,
                                          [attempts EXCEPT ![i] = t])
             /\ UNCHANGED <<boundary, boundary_plan, effect_requires_reverification>>)
    BY <1>6 DEF Acknowledge
  <2> HIDE DEF t
  <2>3. effect_requires_reverification \in BOOLEAN
    BY <1>2 DEF TypeOK
  <2>4. /\ Commits(LogAttempt(disk, t)) \/ CommitFails(LogAttempt(disk, t))
        /\ attempts' = [attempts EXCEPT ![i] = t]
        /\ UNCHANGED <<up, plans, boundary, boundary_plan>>
        /\ \/ UNCHANGED effect_state
           \/ effect_state' =
                Recompute(effect_requires_reverification, boundary', boundary_plan', attempts')
    BY <2>2 DEF Complete, intent, identity
  <2> QED
    BY <1>4, <2>1, <2>2, <2>3, <2>4, ScopeComplete
<1>7. ASSUME NEW observation \in Observations, NEW matches \in BOOLEAN,
             VerifyEffect(i, s, observation, matches)
      PROVE  ScopeInvariant'
  <2> DEFINE t == [attempts[i] EXCEPT !.state = Observed(observation, matches), !.applier_sequence = s]
             reverify == effect_requires_reverification /\ t.state \notin Verified
  <2>1. t \in Attempts /\ t.plan = attempts[i].plan /\ t.boundary = attempts[i].boundary
    BY <1>2, <1>3, ObservedType, AttemptTypes
  <2>2. /\ attempts[i].state \notin Verified /\ up
        /\ Complete(i, t,
             /\ Adopt(t)
             /\ effect_requires_reverification' = reverify
             /\ effect_state' = Recompute(reverify, boundary', boundary_plan', [attempts EXCEPT ![i] = t]))
    BY <1>7 DEF VerifyEffect
  <2>3. reverify \in BOOLEAN
    BY <1>2 DEF TypeOK
  <2> HIDE DEF t, reverify
  <2>4. Adopt(t) =>
          \/ UNCHANGED <<boundary, boundary_plan>>
          \/ \E j \in DOMAIN plans : /\ FirstPlan(plans, j) /\ boundary' = plans[j].boundary
                                     /\ boundary_plan' = plans[j].generation
    BY DEF Adopt, Adopts
  <2>5. /\ Commits(LogAttempt(disk, t)) \/ CommitFails(LogAttempt(disk, t))
        /\ attempts' = [attempts EXCEPT ![i] = t] /\ UNCHANGED <<up, plans>>
        /\ \/ UNCHANGED <<boundary, boundary_plan, effect_state>>
           \/ /\ Adopt(t)
              /\ effect_state' = Recompute(reverify, boundary', boundary_plan', attempts')
    BY <2>2 DEF Complete, intent, identity
  <2> QED
    BY <2>1, <2>2, <2>3, <2>4, <2>5, ScopeComplete
<1> QED
  BY <1>1, <1>5, <1>6, <1>7

\* A checkpoint records the plans, attempts and boundary in memory.
LEMMA ScopeCheckpoint ==
  ASSUME ScopeInvariant, SafetyInvariant', Checkpoint
  PROVE  ScopeInvariant'
<1>1. disk' = Snapshot /\ up
      /\ UNCHANGED <<up, plans, attempts, boundary, boundary_plan, effect_state>>
  BY DEF Checkpoint, identity, intent, tables
<1>2. /\ disk'.plans = plans /\ disk'.attempts = attempts
      /\ disk'.boundary = boundary /\ disk'.boundary_plan = boundary_plan
  BY <1>1 DEF Snapshot
<1>3. StoreFollows'
  BY <1>2 DEF ScopeInvariant, MemoryFollows, StoreFollows, DiskFollows, AllRetained, FollowPlans,
     Follows, Governs, FirstPlan
<1>4. MemoryFollows'
  BY <1>1 DEF ScopeInvariant, MemoryFollows, AllRetained, FollowPlans, Follows, Governs, FirstPlan
<1>5. PlansOnDisk' /\ VerifiedIsTheScope'
  BY <1>1, <1>2 DEF ScopeInvariant, PlansOnDisk, VerifiedIsTheScope, SameMembers
<1> QED
  BY <1>3, <1>4, <1>5 DEF ScopeInvariant

LEMMA ScopeNext ==
  ASSUME MaxPlans <= RetainedPlans, ScopeInvariant, [Next]_vars
  PROVE  ScopeInvariant'
<1>1. /\ SafetyInvariant /\ SafetyInvariant' /\ TypeOK /\ disk \in Durables /\ DiskFollows(disk)
      /\ Recorded(disk) = Recorded(disk)
  BY SafetyNext DEF ScopeInvariant, SafetyInvariant, TypeOK, StoreFollows
<1> DEFINE Same == UNCHANGED <<up, plans, attempts, boundary, boundary_plan, effect_state>>
<1>2. CASE Open
  BY <1>1, <1>2, ScopeOpen
<1>3. CASE OpenCrashes
  <2>1. /\ disk' \in {AfterTopology, AfterPolicy, AfterEpoch}
        /\ ~up /\ Same
    BY <1>3 DEF OpenCrashes, identity, intent, tables
  <2>2. PICK x : x = disk'
    OBVIOUS
  <2>3. DiskFollows(x)
    BY <1>1, <2>1, <2>2, OpenRecorded, RecordedFollows
  <2>4. StoreFollows'
    BY <2>2, <2>3 DEF StoreFollows, DiskFollows, AllRetained, FollowPlans, Follows, Governs, FirstPlan
  <2> QED
    BY <1>1, <2>1, <2>4, ScopeFrame
<1>4. CASE Stop
  <2>1. disk' = disk /\ Halt
    BY <1>4 DEF Stop
  <2> QED
    BY <1>1, <2>1, ScopeHalt
<1>5. CASE Tick \/ Authorize \/ PresentStale \/ UNCHANGED vars
  <2>1. Same /\ disk' = disk
    BY <1>5 DEF Tick, Authorize, PresentStale, PresentStaleAuthorization, vars, identity, intent, tables
  <2> QED
    BY <1>1, <2>1, ScopeRecord
<1>6. CASE ApplyTopology \/ ApplyPolicy
  <2>1. Same
    BY <1>6 DEF ApplyTopology, ApplyPolicy, identity, intent, tables
  <2>2. PICK g \in Nat : \/ Commits(LogTopology(disk, g)) \/ CommitFails(LogTopology(disk, g))
                         \/ Commits(LogPolicy(disk, g)) \/ CommitFails(LogPolicy(disk, g))
    BY <1>6, BoundTypes DEF ApplyTopology, ApplyPolicy
  <2>3. \A e \in {LogTopology(disk, g), LogPolicy(disk, g)} :
          e \in Durables /\ Recorded(e) = Recorded(disk)
    BY <1>1, LogTypes, RecordedUntouched
  <2> QED
    BY <1>1, <2>1, <2>2, <2>3, ScopeRecord
<1>7. CASE Detect
  <2>1. PICK o \in Observation :
          /\ Same
          /\ disk' = disk \/ Commits(LogDetection(disk, o)) \/ CommitFails(LogDetection(disk, o))
    BY <1>7 DEF Detect, RecordDetection, ReconfirmDetection, ConflictingDetection, identity,
       intent, tables
  <2>2. LogDetection(disk, o) \in Durables /\ Recorded(LogDetection(disk, o)) = Recorded(disk)
    BY <1>1, LogTypes, RecordedUntouched
  <2> QED
    BY <1>1, <2>1, <2>2, ScopeRecord
<1>8. CASE Plan
  BY <1>1, <1>8, ScopePlan
<1>9. CASE Transition
  BY <1>1, <1>9, ScopeTransition
<1>10. CASE Submit
  BY <1>1, <1>10, ScopeSubmit
<1>11. CASE Report
  BY <1>1, <1>11, ScopeReport
<1>12. CASE Checkpoint
  BY <1>1, <1>12, ScopeCheckpoint
<1> QED
  BY <1>2, <1>3, <1>4, <1>5, <1>6, <1>7, <1>8, <1>9, <1>10, <1>11, <1>12 DEF Next

\* A boundary reported as verified has exactly the members of an attempt that was verified,
\* through re-asserted plans, late and failing reports and restarts, for a runtime that is
\* asked for no more plans than it retains.  (With more, an evicted plan and one numbered
\* alike after a crash can be mistaken for each other, and the property fails.)
THEOREM VerifiedScopeTheorem ==
  ASSUME MaxPlans <= RetainedPlans
  PROVE  Spec => []VerifiedIsTheScope
<1>1. Init => ScopeInvariant
  BY ScopeInit
<1>2. ScopeInvariant /\ [Next]_vars => ScopeInvariant'
  BY ScopeNext
<1>3. ScopeInvariant => VerifiedIsTheScope
  BY DEF ScopeInvariant
<1> QED
  BY <1>1, <1>2, <1>3, PTL DEF Spec

=============================================================================
