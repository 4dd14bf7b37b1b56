# A TLA+ verification of the Failure Containment Fabric Network

FCFN is a coordinator that is told about failures, computes the smallest boundary that
contains them, decides how the boundary in force may change, and tracks whether the
enforcement plane has really applied it. Everything it decides is written to a durable store
before it takes effect, and a restarted coordinator must trust nothing it cannot re-establish.
This directory models the coordinator's runtime, its store, its server and its planning engine in
TLA+, checks them with TLC on small instances and proves every safety property that TLC checks,
of runtime, store, server and engine, with TLAPS for every instance. Paths are relative to the repository root
(`src/` in `PROJECT.json`); line numbers of every definition are in `PROJECT.json`, `map`.

## 1. The system

| Component | State | Operations | Talks to |
|---|---|---|---|
| Containment runtime (`src/runtime/coordinator.cpp`, `runtime_state.hpp`) | epoch, boot, policy, topology, evidence, counters, boundary in force with its plan and effect state, bounded tables of plans, attempts, transitions, leases, fenced boots | `open`, `apply_topology`, `apply_policy`, `record_detection`, `authorize`, `plan`, `transition`, `checkpoint` | store, planner |
| Apply protocol (`src/runtime/executor.cpp`) | the attempts and the effect state above | `submit_apply`, `acknowledge`, `verify_effect` | store; called for the enforcement plane |
| Document model (`src/model/*.cpp`) | value types: evidence, authority vector, boundary, plan, attempt, decision | merge, compare, validate, encode, decode | runtime, planner |
| Planner (`src/engine/planner.cpp`) | none: a function of definitions and evidence | `compute_plan` | engine; called by the runtime |
| Engine (`graph.cpp`, `cut.cpp`, `solver_*.cpp`, `necessity.cpp`) | none: pure functions | instance and frontier, witness paths, `verify_cut`, exact and heuristic search, necessity analysis | planner |
| Durable store (`src/store/store.cpp`, `record.cpp`) | files `CURRENT`, `snapshot-N`, `wal-N`; last sequence, segment and snapshot in use | `open` (replay, torn-tail repair, retention), `commit`, `write_snapshot` | file system |
| Incarnation lock (`store.cpp`) | file `LOCK` with a pid | `acquire_lock`, `release_lock` | other processes |
| Server (`src/net/server.cpp`) | socket table, thread table, session counter, the shutdown flag; per session its id, last sequence and stream | `start`, `serve` (accept loop), `run_session` (handshake, request loop, dispatch), `request_shutdown` | runtime, clients |
| Wire protocol and client (`src/net/frame.cpp`, `messages.cpp`, `socket.cpp`, `client.cpp`) | stream buffers; a client's handshake and sequence | framing, `connect`, `call`, `close` | server |
| Core (`src/core/*.cpp`) and applications (`apps/`) | none | hashing, JSON, identifiers, clocks; command lines | all |

Every public operation of the runtime takes one mutex for its whole duration, so the threads
of the server interleave whole operations. What makes the system hard is

* **crashes**: `open` writes up to four records, `transition` two; a process may be killed
  between any two of them, and recovery replays log records over a snapshot that may already
  contain them;
* **failed commits**: the process goes on, with memory changed or not, depending on the place, and
  with nothing, a part or all of the refused record in the log;
* **staleness**: leases, plans and evidence are made at one moment and presented at a later one,
  perhaps after a restart; acknowledgements and verifications arrive late or for another attempt;
* **file operations** of the store, each of which may be the last one, and appends that are cut
  short; several processes opening one store;
* **bounds**: tables that evict from the front, whatever the entry is still needed for; a session
  table and a stream buffer at their limits; searches whose budget ends;
* **threads** of the server: sessions that start, end and are joined while the accept loop and a
  shutdown work on the same two tables, and clients that wait without a timeout;
* **optimisation**: an answer called optimal, infeasible, minimal or necessary is the result of a
  search that prunes, breaks ties and may stop early.

What each part has to guarantee:

* runtime: an epoch identifies one incarnation; memory never claims a scope or inputs that a
  recovery would not restore; only decisions under a live lease change the scope; a lease once
  dead stays dead; an old attempt is never taken for a current one;
* apply protocol: "verified" is said only of an effect observed for exactly the members in force;
* store: an acknowledged record is found again, once and in order, wherever the process stopped;
  the store always opens again;
* lock: one owner;
* engine and planner: a boundary called proven contains every failure whatever is not known, is
  the optimum when it says so, and has no member that carries nothing; infeasible means infeasible;
* server: a request reaches the runtime once, from its own session and in its own incarnation;
  the number of sessions is bounded; every thread is joined; clients and shutdown come to an end.

## 2. Modules

| Module | What it is |
|---|---|
| `Coordinator` | the runtime and the apply protocol over a durable state |
| `CoordinatorProperties` | what is claimed of it |
| `CoordinatorProofs` | its theorems, in five parts: types; safety; leases; scope and durability of verifications; what is verified is in force |
| `DurableLog` | abstract: what a durable store promises |
| `Store` | the store's files, and its properties, refinement of `DurableLog` included |
| `StoreProofs` | the store's inductive invariant, what a recovery finds, and the refinement, proved |
| `Recursion` | induction over the natural numbers, the least-number principle, and that recursive functions have the values of their equations, for the proofs |
| `StoreLock` | processes racing for the lock file |
| `Wire` | frames, their decoding and the stream buffer |
| `Server` | the server's threads, its clients and the wire between them, over `Wire` |
| `ServerProofs` | its types, and the life of its threads: table, shutdown, session limit |
| `ServerWireProofs` | what crosses the wire: whose requests are done, what "ok" stands for, which frames pass |
| `Cut` | the containment problem: instance, searches over its graph, checks of answers |
| `Solver` | exact and heuristic solver and necessity analysis, over `Cut` |
| `CutProofs` | what the graph searches compute, the order of boundaries, what `verify_cut` decides |
| `SolverProofs` | that the answers of both solvers are right |
| `Planner` | `compute_plan` over `Solver`, with evidence that grows, and what is claimed of plans |
| `PlannerProofs` | the theorems about plans |
| `MCCoordinator`, `MCStore`, `MCStoreLock`, `MCServer`, `MCPlanner` | values for the constants of the runs |

### Coordinator

The variables are the fields of `RuntimeState`, under their names, and `disk`: the state that
replaying the store would yield. A commit folds its record into `disk` with the `Log...`
operator of its record type (one per case of `apply_replayed_frame`), a checkpoint replaces it
by `Snapshot`, and `Open` starts from it. There is one action per operation:

* `Open` is all of `ContainmentRuntime::open` after the store was read: reconciliation of policy and topology
  with the configuration (`recovered_policy`, `recovered_topology`), fencing of old attempts
  (`FencedByRestart`), the derived effect state (`recovered_effect`, `RequiresReverification`),
  and the topology, policy, epoch and fence records. `OpenCrashes` stops after any of them. A
  commit that fails there also makes `open` fail, so it is the same step.
* `Stop` is a crash or an orderly stop: volatile state goes, `disk` stays.
* `ApplyTopology`, `ApplyPolicy`, `RecordDetection`, `ReconfirmDetection`,
  `ConflictingDetection`, `Authorize`, `PresentStaleAuthorization` (a lease that does not
  validate is fenced in place and the request refused), `Plan`, `AcceptTransition`,
  `RefuseTransition`, `SubmitApply`, `Acknowledge`, `AcknowledgeMismatch`, `VerifyEffect`,
  `Checkpoint`, and `Tick` for the steady clock.
* The alternatives in which a commit fails are part of the operations that commit
  (`RefusalLost` for a refused transition), up to `MaxFaults`. `append_file_durable` writes the
  whole record before it flushes, so a commit that fails leaves nothing, a part of the record or
  all of it at the end of the log (`disk.tail`: "Clean", "Cut", "Whole"), while the runtime goes
  on and its sequence number does not advance (`NotCommitted`). What `commit` acknowledges from
  then on (`Committed`) is lost or makes the log corrupt behind a part, and behind a whole record
  carries the number of that record, which replay refuses. `Open` repairs a torn tail (`Found`),
  and a checkpoint replaces the log.

Abstractions. Digests are equality of what they cover. The solver is the set `Solutions` of
answers it may give for a set of failure sources; `SolutionsAssumption` says what any feasible
answer satisfies (eligible members only, eligible sources included, as with
`require_failure_source_inclusion`). Left out, because no branch modelled here depends on them:
the detections table, statistics, `boundary_counter`, `boundary_plan_digest`, a plan's
authority, refusal reasons, weights, witnesses and the limit on fenced boots. The runtime
without a store is not modelled.

### Store, DurableLog and StoreLock

`Store` has the files as variables: `pointer` (CURRENT), `snapshots` and `logs` by number, and
`litter`, a temporary file left by an interrupted first open. Each operation comes in up to three forms:
complete, killed at any of its file operations, and failing with the process going on
(`CommitFails`, `WriteSnapshotFails`). `write_file_atomic` is one step, since it replaces a
file by a rename. A log record is complete or cut off; a cut-off one is a torn tail until enough
bytes follow to fill the length its header declares, and a corrupt record from then on, which is
what `decode_record` makes of it. Retention reads file names in decimal although they are
written in hexadecimal (`Reading`), below 160 exactly as the code does. The client is the
runtime: `memory` is the sequence of mutations it has recovered or committed, and a snapshot
contains just that. `durable_commit` and `allow_torn_tail_recovery` are taken to be on.

`DurableLog` is the abstract log (open, commit, crash); `Store` implements it with
`durable <- Contents`, what an open would find.

`StoreLock` makes each file operation of `acquire_lock` a step, with the temporary sibling that
all processes share, and lets processes be killed and started again. It does not model the pid
test failing for lack of permission (`kill` returning EPERM), which the code takes for a dead
owner.

How they meet: `Coordinator` has one record per commit in place of the store's files. That a kill
in a commit leaves the record or nothing of it is what `ImplementsDurableLog` shows. What a failed
commit leaves, and what becomes of the commits after it, is in `Coordinator` as it is in `Store`,
where `StoreFaults` and `ShortAppend` check it.

### Wire and Server

A connection stands for the server's socket and thread and for the client at the other end. A
frame travels as two units, header and payload, that reads may cut apart; a unit carries the
verdict `decode_frame` would reach about it. `Feed`, `NextOutcome` and `AfterNext` are
`FrameStream`, with the bound on buffered bytes in units.

* The serving thread: `Accept` (which reaps finished threads), `Spawn` (the socket enters its
  table, the thread starts), `RegisterThread` (the thread enters its table).
* `request_shutdown`, by the serving thread at the end of its loop and by other threads at any
  time: `CloseListener`, `CopySockets`, `CloseSockets`, `TakeThreads`, `Join`. Its branch for a
  session thread that calls it is left out, since no session thread does.
* A session: `ReadMore`, `Handshake`, `Admit`, `Welcome`, `LoopTop`, `Dispatch`, `Answer`,
  `CloseSocket`, `EraseSocket`. A dispatched operation is one step with an outcome, because the
  runtime holds its mutex throughout; `handled` is a history of them.
* A client: `Connect`, `Greet`, `Call`, `Receive`, `Close`. Some connections of a scenario belong
  to clients outside the protocol: `Greetings` and `Strays` are hellos without the token or not
  decodable, frames repeated, damaged, of another type, or made under another handshake. A client
  may also `Die` while it waits.
* `Kill` ends the server process anywhere, which includes the three configured crash points;
  `Start` opens the runtime, which takes the next epoch, and may fail to bind afterwards.

Steps no other thread can tell apart are one: the flag and the closing of the listener, the
shutting down of the copied sockets, the joins. Left out: an accept that fails for another reason
than shutdown, partial reads on the client's side, and several calls in flight, which the client
library cannot have.

Fairness. `Spec` asks only that while a running thread of the server or a waiting client can
take a step, some such thread does: what an operating system that schedules threads gives, and no
more; that each gets its turn follows, because a connection and a thread take finitely many steps
in all. Nothing is assumed of clients that are not waiting, or of whoever stops or kills the
server. `SpecWithEndingClients` adds that clients which are not waiting close some day, which is
an assumption about the environment; `ShutdownEnds` needs it, as the run `Shutdown` shows.

### Cut, Solver and Planner

The engine has no state, so it is modelled by operators that follow the code's searches and
compute what it computes, with the same order of exploration. `Advance` is one turn of the
breadth-first loop over queue, visited set and path; `Branch` one call of `ExactSearch::search`,
with its recursion as an explicit stack of calls (included, excluded, witness path), the budget and
the best set so far; `Grow` a step of the heuristic, `Thinned` reverse deletion. Each loop is a
recursive function of the number of turns, taken at a bound no run of the loop exceeds, because
TLAPS can reason about recursive functions and not about RECURSIVE operators. Resources are
numbers in the order of their ids, because topologies number them so.

`Planner` makes a behaviour of it: a topology and a policy that the validators accept, evidence
that arrives one failure at a time, confirmed since the restart or not, and a plan computed after
each. Its properties compare plans with definitions that search nothing: `Separates` (there is a
set that holds the sources, is closed under propagation outside the cut, and holds no
obligation), `FeasibleSets` (every subset that satisfies the constraints), both in `Cut`, and `Walks`.

What it owes to `Coordinator`: `SolutionsAssumption` asks that a feasible answer has eligible
members only and contains the eligible sources it must. The first conjunct of
`MembersCarryTheCut` is that and more, for the answers the code computes; it is proved (`Minimality`).

`Regular` leaves out instances in which a failed resource is itself an obligation; section 5 says
why. Left out of the model: 64-bit overflow of weights (the code checks additions and validates
the sums), the digest, reasons, counters, and limits on sizes (nodes, edges, certificates).

## 3. Runs

All bounds are constants of the cfg. Deadlock is not checked: every instance ends when its
bounds are used up, and a coordinator without requests may rest. Fairness is stated for the
server only (section 2); the other specifications claim safety.

| Run | Bounds that matter | Shows |
|---|---|---|
| `Protocol` | 1 resource whose failure comes and goes, 2 boots, 2 plans, 1 attempt, 1 transition, 1 checkpoint, 1 failed commit | types; attempts in flight are ours; verified attempts and the scope are durable; "verified" is about the members in force, over restarts too; epochs are never reused |
| `Scope` | 2 resources, 1 boot, 2 leases, 2 plans, 2 transitions, 1 attempt, 1 failed commit anywhere; optimal, bounded and limited searches | the scope changes only by a decision on a verified boundary; disk has the scope in memory even after half a transition, or that of the last decision when its record was appended and refused; "verified" is about the members in force |
| `Authority` | 3 leases in a table of 2, 2 time steps, 2 policies, topologies, evidence generations, 2 boots, 1 checkpoint, 1 failed commit | stale leases never revive, no expired lease is hidden behind a live one, inputs are durable and never regress |
| `Store` | 18 segments, 3 records, 1 failed snapshot, kills everywhere | the store always opens again and refines `DurableLog` |
| `StoreFaults` | 2 failed commits, 4 records, 3 segments | after one failed commit, what opens has nothing foreign in it |
| `Server` | 2 connections, a session limit of 2; either one of them outside the protocol and 2 server processes, or a thread that stops the server; 1 call per client | requests are done once, for their session and epoch; "ok" means done; fewer sessions than the limit; good frames pass; no thread is lost and none runs after a shutdown; callers are answered or cut off; shutdown ends |
| `Planner` | all graphs over 7 edges of 5 resources (6 edges where adjacency is incomplete) and over 7 edges of 6 around a fixed one, 8 policies, one or two weightings per family, obligations on the way to others, incomplete adjacency, up to 2 failures | optimal plans are the optimum, infeasible ones infeasible, members carry the cut, certificates and witnesses hold, necessity is exact, claims survive what is unknown, more failures never make things look better |

Why these are enough to be interesting: two incarnations are needed for fencing, replay over a
snapshot, and reuse of counters; a second plan for re-assertion and adoption; two resources for
expand and contract to differ; a table of two leases with a third request for it to fill up;
segment 16 is the first whose hexadecimal name reads as another decimal number (10) and 18
brings two of them together, with a retention of one snapshot. Two connections are enough for
sessions to race for the last place and for a frame of one to arrive on the other; two server
processes for session ids to be given again; a stopping thread beside the serving one for two
shutdowns to overlap. The graphs have two sources, diamonds, a cycle and resources on several
paths, so that the bound prunes, ties are broken by every part of the objective, greedy growth
takes members it has to give back, and a budget ends before or after the first set.
`Scope` has the decisions and `Protocol` the restarts: a second incarnation matters to what is
recovered, for which one resource is enough, and two resources to what may be decided.
`VerifiedIsTheScope` is checked with tables large enough that nothing it needs is evicted;
`VerifiedIsDurable` speaks of runtimes in which no commit has failed, `NothingInvented` of stores
in which one has, and `ScopeIsDurable` and `InputsAreDurable` say for each tail of the log what
holds: outside those limits they fail (section 5). The theorems of section 4 have the same limits.

Runs that end in a counterexample, one statement of the repository each:

| Run | Statement | What happens |
|---|---|---|
| `Unreadable` | lineage is restored at startup (README section 5) | a plan without a feasible cut is logged with a boundary of generation zero, which cannot be decoded; every later open fails |
| `StaleRelease` | "release requires a proven plan with an empty boundary (no active failures)" | an empty plan made before a failure releases the boundary afterwards, under a fresh lease |
| `ShortAppend` | "A mutation is durable only after its flush returns" (`store.hpp`) | the rest of a failed append swallows, corrupts or collides with the next, acknowledged, record |
| `StoreLock` | "A store is opened by one incarnation at a time" | two processes both find no LOCK; each writes `LOCK.tmp` and renames it, the second over the lock of the first, and both hold the store |
| `Shutdown` | "Returns once shutdown has been requested and every session has been joined" (`server.hpp:57`) | `request_shutdown` copies the socket table just before `serve` enters a connection it has accepted, and at its end clears the table, so that the shutdown `serve` itself runs afterwards finds no socket either; nobody shuts that one down, and `serve` joins a thread that waits for a hello until the client sends one or goes away |

Every property of a passing run has a mutant in `PROJECT.json`: a plausible error in one
definition (marked "Mutant" where it is written) under which TLC finds the property violated.

## 4. Proofs

`tlapm` checks everything below, for every value of the constants: the bounds of the runs are
arbitrary numbers here, so nothing limits incarnations, plans, attempts, records, connections,
stopping threads or faults. Segments go up to 159, as far as `Reading` follows the code. The assumptions are those of the modules, which TLC
evaluates on every run: `BoundsAssumption` (the bounds are natural numbers, tables have room for
one entry), `ConfigAssumption` (the configured policy has a generation, topologies declare known
resources), `SolutionsAssumption` (what a feasible solution is), `BoundAssumption` and
`PlannerAssumption` (the limits of the engine are natural numbers), `DefinitionsAssumption`
(definitions have the types the code declares; the validators are part of `Init`), `StoreAssumption`,
`MaxBufferedAssumption` (the stream buffer holds one frame) and `ServerAssumption` (there is room
for one session; the scenarios are well-formed).

**Runtime** (`CoordinatorProofs`, parts I and II). `TypeCorrect` is
`Spec => []TypeOK`, by one lemma per action. `SafetyHolds` is `Spec => []SafetyInvariant`, and from
it follow `InFlightTheorem`, `ScopeTheorem`, `InputsTheorem`, and the action properties
`EpochTheorem` and `DurableInputsTheorem`.

`ScopeIsDurable` says what a recovery restores by what is at the end of the log. While no failed
commit has left anything there, it is the scope in memory. Behind a record that was appended and
refused it is that scope or, when the record is the second one of a transition, the scope this
transition decided. It is not inductive. A boundary record whose boundary does not decode is skipped
by replay, so a transition to such a boundary would leave memory and disk apart. It cannot
happen while the store is readable, because a plan with such a boundary makes the store
unreadable when it is logged. Hence the conjuncts `PlansCarryBoundaries`, `DecodableOnDisk` and
`DecodableInMemory`: in a readable store every plan on disk, and in memory while the log is clean,
has a boundary that decodes. Likewise the epoch property needs `EpochOnDisk` (no incarnation is ahead of the disk),
since `open` takes the next epoch from there, and the durable inputs need `InputsAreDurable`,
since a checkpoint replaces those on disk by those in memory.

`CommittedOutcome` and `FailedOutcome` reduce the outcomes of a commit to three: the record folded
into a clean disk, the whole record behind which nothing counts any more, or a disk on which what
was recovered before stays (`Frozen`). Most operations touch none of what the invariant is about;
`PreserveStep` proves it for every step that puts no definition, evidence, plan or boundary on
record, `RecordStep` for one commit and its failures, `MemoryStep` for steps without a commit,
`HaltStep` for steps that end in a crash, and the lemmas `Log...Fields` say what each record leaves
alone. The two commits of a transition are taken apart in `TransitionClean` and
`TransitionUnclean`, by the log they start from.

**Leases** (part III). `LeaseInvariant` says that a lease was issued under
generations no newer than the current ones, and that the table is ordered by id and by expiry.
`ExpiredLeaseTheorem` is the second half. For `StaleAuthorizationTheorem` the first one is needed:
a lease that does not match has a generation below the current one, or is expired or fenced;
generations and time only grow within an incarnation (`Advances`), so it is below for good. Ids
are needed too, to know that the lease of the next state is the same one after others were dropped
from the front.

**Scope and durability** (part IV). `ScopeChangeTheorem` goes through the actions:
only an accepted transition changes the members in force, since adoption by `verify_effect` picks
a plan with the same members. `VerifiedTheorem` is
`Spec => []VerifiedIsDurable`. Its limit, that no commit has failed, is in the property:
`acknowledge` and `verify_effect` change the attempt before they commit, so after a failed commit
an attempt is verified in memory only (section 5). The core is that folding a record into the disk's attempts never lowers
the state of the attempt that is found first, which is where the least index with an id comes in.

**What is verified is in force** (part V). `VerifiedScopeTheorem` is
`Spec => []VerifiedIsTheScope` for `MaxPlans <= RetainedPlans`. The effect is derived from attempts
by the number of their plan, and the counter that gives the numbers can be taken back by a crash,
so two plans of one number have to be told apart. `find_plan` returns the first one of a number, and
as long as no plan is evicted that one never changes, even when a restart brings the table back:
`Governs(table, g, m)` says that generation g finds a plan with members m, and only once
(`GovernsOnce`). `ScopeInvariant` then has: an attempt carries the members of the plan its number
finds, and so does the boundary in force, each in its own tables, those on disk (`StoreFollows`)
and those in memory (`MemoryFollows`); and while no failed commit has left anything in the log the
plans in memory are those on record (`PlansOnDisk`), so that what is committed follows on disk
what it follows in memory. Hence an attempt with the number in force has the members in force.
The hypothesis is the property's limit and cannot be dropped: with a table of one plan, three plans
and a restart, an evicted plan's number finds another plan, and TLC finds the effect of another
boundary verifying the one in force.

**Store** (`StoreProofs`). `StoreInvariant` has the types, `PairInUse` (CURRENT names files that
exist and that the process works on, whatever retention has removed), and `LogInOrder`, the
strengthening the rest needs: while at most one commit has failed, there is a place k in the
segment in use such that records are numbered on from the snapshot, the one behind k with the
number of k again; only k, or the last record of a killed process, is cut off; and a running
process has published exactly the snapshot and every record but k. From it:

* `NothingIsInvented`: after at most one failed commit, what opens is what was committed, in
  order, and at most the refused mutation behind it;
* `KillsLoseNothing`: while no commit has failed, the store opens and holds every acknowledged
  mutation; `StoreStaysReadable` is the part of it that a run checks, for `MaxCommitFaults = 0`;
* `StoreImplementsLog`: for `MaxCommitFaults = 0`, every step of `Store` is a step of `DurableLog`
  or changes nothing of it. A commit is a commit; one that is killed is a crash that leaves the
  mutation or does not; `open` is an open; snapshots, killed or failing ones too, and retention
  leave `Contents` alone.

`MaxCommitFaults = 0` says that appends and flushes succeed or the process dies in them. It is the
setting of the run `Store`, and cannot be dropped: `ShortAppend` is the counterexample.

**Server** (`ServerProofs`, `ServerWireProofs`). The theorems hold of `Spec` and of
`SpecWithEndingClients`; they use neither's fairness.

* `ServerTypes`, `NoThreadLostTheorem`, `SessionLimitTheorem` and `QuietTheorem` rest on
  `LifeInvariant`. `NoThreadLost` is inductive only with `NothingWithoutProcess` (a dead process
  has no tables) and `CallersInOrder` (who is where in `request_shutdown`, and that the serving
  thread stops with nothing left to register). `SessionLimit` needs `TableHoldsThreads`: before a
  shutdown every running thread is in the socket table, so a session that is let in counts itself
  and all others. `QuietTheorem` then says that the thread table was emptied after the last
  registration, and whoever emptied it has joined what it took.
* `OwnRequestsTheorem` and `AcknowledgedTheorem` rest on `WireInvariant`. A check in `run_session`
  looks at numbers in a frame; that these identify its maker is a statement about everything under
  way. `Names(c, id, e)` says that id and epoch stand for connection c: while epoch e lasts the
  counter is past id and no other session has it. Every frame in a wire or a buffer that asks for an operation
  carries its maker's name (`Genuine`), every grant names its connection and every "ok" answers
  something done (`Owed`), and `NextRemembers` shows that no step takes that back. `AcceptedOnce`
  (a connection gets one thread) and `HandledInOrder` (what was done is at or below the session's
  last sequence) give "once" and "in order".
* `GoodFramesTheorem` rests on `OneFrame` besides: a client sends one frame and waits, so while a
  session runs at most two units are under way to it or unread, none while it works or answers.
  Hence no read exceeds the bound, for every `MaxBuffered` that holds a frame.

Proving `SessionLimit` corrected it: as first stated, it bounded every admitted session at all
times, which the one stopping thread of the run did not refute. When a shutdown has cleared the
table, sessions that are deciding find room; they leave at the top of their loop. The bound
therefore stands for sessions that serve, and for admitted ones until a shutdown is asked for.

**Engine** (`CutProofs`, `SolverProofs`, `PlannerProofs`).

* Searches: the layers a frontier grows by end in the least closed set that holds the start
  (`ClosedUnder`), because each layer that is not the last adds one of finitely many resources; so
  `verify_cut` accepts exactly the members of `FeasibleSets`, which search nothing. The breadth-first
  loop keeps its visited set closed up to the queue, so an empty queue without a path means
  separation; the path it returns is a walk outside the blocked resources (`ResidualPath`), and the
  first one by length and then by ids, since the queue is in that order (`Ranks`).
* The order of objectives is total and decides between any two different sets (`Precedes`), whichever
  measure the policy minimises. Reverse deletion ends in a set from which nothing can be removed
  (`Irreducible`).
* `SolversAreRight`: for an instance in which no source is protected, "optimal" means that the answer
  comes before every other feasible set, "infeasible" that there is none, and the certificate verifies
  when the limits are ample; whatever has a solution is feasible. The heart is `SearchInv`: every
  feasible set is matched by the best one or still covered by a call on the stack (`Coverage`), which
  every branch, exclusion and pruning keeps, pruning because the bound never exceeds the weight of a
  set that a branch can still reach (the disjoint paths each cost a member of their own). `Done`
  grows with every turn and bounds their number, so the function has reached its end. `Descent` says
  where the certificate comes from.
* `IndInv` of `Planner`: the plan is that of the present evidence, and the one before it still tells the
  truth (`Foretells`), because a failure more leaves fewer feasible sets. From it come types,
  `Optimality`, `Infeasibility`, `Minimality`, `Certificates`, `Canonicity` (witness paths are
  first among all walks), `Necessity`, `Containment` (whatever is unknown) and `Monotony`: the
  properties of the run `Planner`, for every topology, policy and evidence.

Inductions are written with `Induction`, a lemma about sets of numbers, and recursive functions get
their values by `Iteration`: facts about predicates as parameters cannot be used.

**Only model-checked.** Liveness under fairness (`CallsEnd`, `ShutdownEnds`), which is out of the
prover's reach; and the runs that end in a counterexample.

## 5. Behaviour met while modelling and not stated as a run

The runtime:

* Replaying a plan record does not advance the plan counter, so after a crash that no checkpoint
  preceded a generation is issued again, although `coordinator.cpp:812` says that a generation
  "always identifies the exact decision that produced it".
* Verifying any attempt clears the reverification flag (`executor.cpp:257`), also one for another
  plan than the one in force, and the effect verified before a restart is current again
  (`VerifiedIsTheScope` still holds: it was verified for the members in force).
* The attempt counter is not rebuilt from the log either; an attempt with a reused identity is
  hidden behind the older one (`find_attempt`) and can never be acknowledged or verified.
* `acknowledge` and `verify_effect` recompute the effect from the attempts of `boundary_plan`
  only, so while an attempt for a re-asserted plan is acknowledged a second one can be submitted.
* After a second restart, attempts fenced by the first, and recorded so by a checkpoint, make the
  surviving boundary's effect `Fenced` rather than `Ambiguous`; no operation accepts it, although
  the README (section 5) has the boundary re-asserted after any restart.
* `verify_effect` compares the caller's incarnation with the current one, not with the attempt's:
  a `Failed` or `Ambiguous` attempt of an earlier incarnation can still become verified.
* Only `Present` evidence is asked for confirmation in the current boot; with all failures
  `Absent` a plan right after a restart is proven.
* One flag stands for contradictory evidence of all resources, and newer evidence for any of them
  clears it (`coordinator.cpp:740`), also when the contradicted resource got none.
* Re-assertion compares members only, so an older plan can become the plan in force.
* Adoption writes no record and replay keeps the higher-ranked state of an attempt, so a log and
  a snapshot of the same moment can recover to different effect states.
* `acknowledge` and `verify_effect` change the attempt before committing and do not restore it
  when the commit fails: the attempt is then verified in memory only.
* When only the flush of a transition's second commit fails, the caller is told of an error and memory
  keeps the old boundary, but the log holds the decision and the new boundary: a restart puts it
  in force (`ScopeIsDurable` says that it is that one or the old one, and no other). When that commit
  fails before it writes, the decision stays on record as accepted and its boundary never comes.
* The runtime goes on after a failed commit. If it left a whole record behind, the next commit, which
  is acknowledged, repeats its sequence number and the store no longer opens; if it left a part,
  acknowledged records are lost or the log is corrupt. Until then, memory and disk can differ in
  scope and in definitions; a checkpoint ends this, and then drops what the failed commit left.
* With a reused generation and a plan table that has evicted the first of the two plans, the
  effect of another boundary verifies the one in force.

The store:

* Retention that misreads names keeps more files than configured. It never removes the pair in use
  (`StaysReadable`).
* A first open that is killed before CURRENT is written leaves a store that is refused from then on, as
  documented (store files without a pointer are corruption).
* After two failed commits a refused record can end up in the middle of the log.

The server:

* The operation `Shutdown` ends its own session and does not stop the server (`server.cpp:645`).
* When two threads ask for a shutdown, the second one finds the thread table empty and returns
  while the first is still joining; if that is the serving thread, `serve` returns with sessions
  running. `QuietAfterShutdown` is therefore about the moment when all of them are back.
* A connection is in the table when its admission is decided, so `max_sessions` admits one session
  less than it says, and nobody when it is one (`SessionLimit` states the strict bound). A shutdown
  clears the table while other threads may still decide on admission; those are let in past the
  limit and end at the top of their loop, without serving a request.
* Session ids start at one again after a restart: only the epoch keeps old frames out
  (`OwnRequestsOnce`). A coordinator without a store starts at epoch one again too.
* The buffer of a stream holds exactly one frame of the largest size; a client that sends a second
  request before the first is answered could fill it. The client library never does.
* A crash between commit and answer leaves a client that cannot know whether its call was done;
  it learns that by asking again.

The engine:

* An obligation stays containable when it is barred, if the policy allows obligations
  (`cut.cpp:144` runs after `cut.cpp:110`): such a member is never found necessary.
* The check that a resource is not both failed and protected (`cut.cpp:127`) looks at a mask that
  is filled later and never refuses. The path searches then do not see a source that is itself an
  obligation, while `verify_cut` does, so such an instance can be called infeasible although
  containing that resource is a solution. `Regular` leaves these instances out.
* When a limit on weight or members is what makes an instance infeasible, the path recorded at the
  root (`solver_exact.cpp:251`) consists of eligible resources, and `verify_infeasibility_witness`
  rejects it. `CertificatesHold` is stated for limits that do not bind.
* Without obligations the planner contains every eligible source, whether or not sources must be
  included, and looks at no limit of the policy (`planner.cpp:162`).
* A plan is called infeasible whatever the currency of its evidence.
* Reverse deletion in the heuristic can be held up by the weight limit, since a set that is still
  too heavy does not verify; the planner's own pass over the result is what makes
  `MembersCarryTheCut` hold.

## 6. Not modelled

Byte layouts (records, frames, the arguments of operations, documents), hashing, JSON,
explanations, the runtime without a store, and the command lines other than the coordinator's
loop: pure encoding, rendering or input parsing, without state of their own. `PROJECT.json` gives
the reason for each; `hazards` lists what could go wrong there and in the modelled parts, at the
line where it bites.

## 7. What remains

Liveness of the runtime: a submitted attempt whose verification arrives leaves the table free again,
a restart whose applier re-asserts becomes verified. Both need fairness of the detector, the applier
and the operator, which the code does not provide, and the second is false after a second restart
(section 5).
