------------------------------ MODULE MCServer ------------------------------
(* Two connections; clients that misbehave over two processes of the server, and *)
(* clients that do not while another thread stops the server.                    *)
EXTENDS Server
CONSTANTS c1, c2

Misbehaving == [stoppers |-> {}, strays |-> {c2}, calls |-> 1, boots |-> 2]
Stopped == [stoppers |-> {"stopper"}, strays |-> {}, calls |-> 0, boots |-> 1]
Both == {Misbehaving, Stopped}
OnlyStopped == {Stopped}
=============================================================================
