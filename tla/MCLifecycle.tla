---------------------------- MODULE MCLifecycle ----------------------------
(* Instances of Lifecycle: a client that can move between two addresses,   *)
(* and a server.                                                           *)
EXTENDS Lifecycle
CONSTANTS a1, a2, b1
MCHome == [s \in Side |-> IF s = "client" THEN {a1, a2} ELSE {b1}]
MCStart == [s \in Side |-> IF s = "client" THEN a1 ELSE b1]
MCFiring == [s \in Side |-> IF s = "client" THEN {"conn"} ELSE {"path"}]
MCMaxSeq == [s \in Side |-> IF s = "client" THEN 2 ELSE 3]
ServerOnly == [s \in Side |-> IF s = "server" THEN 1 ELSE 0]
=============================================================================
