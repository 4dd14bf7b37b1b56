----------------------------- MODULE DurableLog -----------------------------
(***************************************************************************)
(* What the durable store promises the runtime (include/fcfn/store/        *)
(* store.hpp): a log of mutations that a process holds open, extends one   *)
(* record at a time and finds again, complete and in order, whenever it    *)
(* opens the store, wherever the previous process stopped.                 *)
(***************************************************************************)
EXTENDS Sequences

CONSTANT Payloads

VARIABLES open,      \* a process holds the store open
          memory,    \* the mutations it has published
          durable    \* the mutations an open would find

vars == <<open, memory, durable>>

Init == open = FALSE /\ memory = <<>> /\ durable = <<>>

Open == ~open /\ open' = TRUE /\ memory' = durable /\ UNCHANGED durable

Commit == open /\ (\E p \in Payloads : durable' = Append(durable, p)) /\ memory' = durable'
          /\ UNCHANGED open

\* The process stops.  The one mutation it was committing may have become durable.
Crash ==
  /\ open /\ open' = FALSE /\ memory' = <<>>
  /\ durable' = durable \/ \E p \in Payloads : durable' = Append(durable, p)

Next == Open \/ Commit \/ Crash

Spec == Init /\ [][Next]_vars
=============================================================================
