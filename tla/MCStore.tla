------------------------------ MODULE MCStore ------------------------------
(* Small instances of the durable store for TLC. *)
EXTENDS Store
CONSTANTS p1, p2
=============================================================================
