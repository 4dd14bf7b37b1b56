----------------------- MODULE CoordinatorProperties -----------------------
(***************************************************************************)
(* What the containment runtime promises: properties that hold (the first  *)
(* two sections) and statements of the repository's documentation that the *)
(* code does not keep (the last one, one counterexample run each).         *)
(***************************************************************************)
EXTENDS Coordinator

\* Every variable has its type: counters and generations are naturals, the tables hold
\* well-formed plans, attempts, decisions and leases, disk is a recoverable state.
TypeOK ==
  /\ up \in BOOLEAN /\ epoch \in Nat /\ boot \in Nat /\ now \in Nat
  /\ boots \in Nat /\ faults \in Nat /\ checkpoints \in Nat
  /\ policy \in Nat /\ topology \in Nat
  /\ evidence \in Evidences /\ evidence_revision \in Nat /\ evidence_conflict \in BOOLEAN
  /\ evidence_confirmation \in [Resources -> Nat]
  /\ plan_counter \in Nat /\ transition_counter \in Nat /\ attempt_counter \in Nat
  /\ authorization_counter \in Nat
  /\ boundary \in Boundaries /\ boundary_plan \in Nat
  /\ effect_state \in EffectStates /\ effect_requires_reverification \in BOOLEAN
  /\ plans \in Seq(Plans) /\ attempts \in Seq(Attempts) /\ transitions \in Seq(Decisions)
  /\ authorizations \in Seq(Authorizations) /\ fenced_boots \in SUBSET Nat
  /\ disk \in Durables

\* No two incarnations ever serve under the same epoch, although a crash can hit open()
\* between any two of its records and a checkpoint can replace the log (open: "A new
\* incarnation always advances the epoch").
EpochNeverReused == [][boot' # boot => epoch' > epoch]_vars

\* An attempt still in flight was submitted by the serving incarnation: everything older
\* was fenced by open(), whether it came from the snapshot, the log or both.
InFlightIsOurs ==
  up => \A i \in DOMAIN attempts : attempts[i].state \notin Terminal => attempts[i].boot = boot

\* The governed scope in memory is the one a recovery would restore, through transitions
\* torn by a crash, adoption of re-asserted plans (which is not logged), checkpoints and
\* commits that failed without a trace, as long as the store can be read back at all.  What a
\* commit that failed after its append may add is the scope of one decision, the last on record.
SameScope(b, c) == b.present = c.present /\ SameMembers(b, c)
LastDecided(b) ==
  disk.transitions # <<>> /\ LET t == disk.transitions[Len(disk.transitions)]
                             IN t.accepted /\ SameScope(t.to, b)
ScopeIsDurable ==
  up /\ disk.readable =>
    /\ disk.tail = "Clean" => SameScope(boundary, disk.boundary)
    /\ disk.tail = "Whole" => SameScope(boundary, disk.boundary) \/ LastDecided(disk.boundary)

\* Whatever made an authorization stop matching, no later operation of the incarnation
\* makes it match again: a refused lease never revives, even before it is marked fenced.
StaleAuthorizationNeverRevives ==
  [][up /\ up' =>
       \A i \in DOMAIN authorizations, j \in DOMAIN authorizations' :
         /\ authorizations[i].id = authorizations'[j].id
         /\ ~Usable(authorizations[i])
         => ~Usable(authorizations[j])']_vars

\* Only an accepted transition changes the members of the boundary of a serving incarnation:
\* submitting, acknowledging, verifying and adopting a re-asserted plan never do (README
\* section 5: "Membership never changes through this path").
ScopeChangesByDecision ==
  [][up /\ up' /\ (boundary'.present # boundary.present \/ ~SameMembers(boundary, boundary'))
       => /\ transition_counter' = transition_counter + 1
          /\ effect_state' = "NotRequested"
          /\ \E k \in DOMAIN authorizations : Usable(authorizations[k])
          /\ boundary.present => effect_state \in Verified]_vars

\* A boundary is reported as verified only on the strength of a verified attempt whose
\* observed boundary has exactly the members in force.
VerifiedIsTheScope ==
  up /\ effect_state \in Verified =>
    \E i \in DOMAIN attempts :
      attempts[i].state = effect_state /\ SameMembers(attempts[i].boundary, boundary)

\* A verified attempt is verified on disk as well, so no crash takes the verification
\* back: the record is committed before the runtime acts on it (README section 6,
\* "append to the write-ahead log, flush durably, publish to memory").  A later record for
\* the same attempt id cannot lower it, thanks to effect_rank.
VerifiedIsDurable ==
  up /\ faults = 0 =>
    \A i \in DOMAIN attempts : attempts[i].state \in Verified =>
          \E j \in DOMAIN disk.attempts :
            SameId(disk.attempts[j], attempts[i]) /\ disk.attempts[j].state \in Verified

\* What authority vectors are bound to survives every stop: the definitions and the
\* evidence in memory are those a recovery restores, whatever open() logged before a crash,
\* until a failed commit leaves something in the log.
InputsAreDurable ==
  up /\ disk.tail = "Clean" =>
    policy = disk.policy /\ topology = disk.topology /\ evidence = disk.evidence

\* The durable definitions and evidence never go back, not even when an older policy or
\* topology is configured at a restart or a checkpoint replaces the log; only a checkpoint
\* after a failed commit may, since it drops what that commit has left.
DurableInputsNeverRegress ==
  [][disk.tail = "Clean" \/ UNCHANGED checkpoints =>
       /\ disk.policy <= disk'.policy /\ disk.topology <= disk'.topology
       /\ \A r \in Resources : disk.evidence[r].generation <= disk'.evidence[r].generation]_vars

\* authorize() pops expired leases from the front of the table only, and refuses when the
\* table is full.  That never refuses on account of an expired lease: behind a lease that
\* is still good there is none that is not.
ExpiredLeaseIsNeverHidden ==
  (authorizations # <<>> /\ authorizations[1].expires > now) =>
    \A i \in DOMAIN authorizations : authorizations[i].expires > now

-----------------------------------------------------------------------------
(* Statements of the documentation that the code does not keep *)

\* README section 5: lineage, plans included, is restored at startup.  A plan without a
\* feasible cut is logged with a boundary of generation zero, which its decoder refuses,
\* so open() fails from then on.
StoreReopens == disk.readable

\* README section 5: "release requires a proven plan with an empty boundary (no active
\* failures)".  transition() never compares the plan with the current evidence.
ReleaseWithoutFailures ==
  [][up /\ up' /\ boundary.present /\ ~boundary'.present => Failed = {}]_vars

=============================================================================
