----------------------------- MODULE StoreLock -----------------------------
(***************************************************************************)
(* The incarnation lock of the durable store (store.cpp, acquire_lock and  *)
(* release_lock): a file LOCK that holds the pid of its owner.  Several    *)
(* processes may open the same store at once, each file operation of each  *)
(* of them is a step, and a process can be killed at any point.            *)
(***************************************************************************)
CONSTANT Processes

VARIABLES
  pc,          \* where each process is in acquire_lock; "out" before and after
  alive,       \* the processes that exist
  lock,        \* the owner LOCK names: a set of one process, empty when there is no file
  temporary    \* the same of LOCK.tmp, the sibling every process writes through

vars == <<pc, alive, lock, temporary>>

Init == /\ pc = [p \in Processes |-> "out"] /\ alive = Processes
        /\ lock = {} /\ temporary = {}

Goto(p, place) == pc' = [pc EXCEPT ![p] = place]

\* exists(LOCK)
Look(p) ==
  /\ p \in alive /\ pc[p] = "out"
  /\ Goto(p, IF lock = {} THEN "writing" ELSE "reading")
  /\ UNCHANGED <<alive, lock, temporary>>

\* The owner is read: if it is alive the open is refused; a file that has gone meanwhile, or
\* that names a dead process, is removed.
Read(p) ==
  /\ p \in alive /\ pc[p] = "reading"
  /\ Goto(p, IF lock \cap alive # {} THEN "out" ELSE "removing")
  /\ UNCHANGED <<alive, lock, temporary>>

Remove(p) ==
  /\ p \in alive /\ pc[p] = "removing"
  /\ lock' = {} /\ Goto(p, "writing")
  /\ UNCHANGED <<alive, temporary>>

\* write_file_atomic: the temporary file, then the rename, which fails if another process
\* has renamed the same file already.
WriteTemporary(p) ==
  /\ p \in alive /\ pc[p] = "writing"
  /\ temporary' = {p} /\ Goto(p, "renaming")
  /\ UNCHANGED <<alive, lock>>
Rename(p) ==
  /\ p \in alive /\ pc[p] = "renaming"
  /\ \/ temporary # {} /\ lock' = temporary /\ temporary' = {} /\ Goto(p, "holding")
     \/ temporary = {} /\ Goto(p, "out") /\ UNCHANGED <<lock, temporary>>
  /\ UNCHANGED alive

\* release_lock removes the file whoever it names.
Release(p) ==
  /\ p \in alive /\ pc[p] = "holding"
  /\ lock' = {} /\ Goto(p, "out")
  /\ UNCHANGED <<alive, temporary>>

\* A process is killed and leaves its files; a later one may have the same pid.
Kill(p) ==
  /\ p \in alive /\ alive' = alive \ {p} /\ Goto(p, "out")
  /\ UNCHANGED <<lock, temporary>>
Start(p) ==
  /\ p \notin alive /\ alive' = alive \cup {p}
  /\ UNCHANGED <<pc, lock, temporary>>

Next ==
  \E p \in Processes :
    \/ Look(p) \/ Read(p) \/ Remove(p) \/ WriteTemporary(p) \/ Rename(p) \/ Release(p)
    \/ Kill(p) \/ Start(p)

Spec == Init /\ [][Next]_vars

-----------------------------------------------------------------------------
\* README section 6: "A store is opened by one incarnation at a time".
OneOwner == \A p, q \in alive : pc[p] = "holding" /\ pc[q] = "holding" => p = q
=============================================================================
