---------------------------- MODULE MCStoreLock ----------------------------
(* Two processes that open one store. *)
EXTENDS StoreLock
CONSTANTS p1, p2
=============================================================================
