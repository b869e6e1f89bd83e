---------------------------- MODULE MCConnection ----------------------------
(* Small instances of Connection.                                          *)
EXTENDS ConnectionClaims

CONSTANTS a, b   (* the two endpoints, as model values *)

(* How many units each user writes.                                        *)
OneWrite    == [p \in Peer |-> IF p = a THEN 1 ELSE 0]
TwoWrites   == [p \in Peer |-> IF p = a THEN 2 ELSE 0]
ThreeWrites == [p \in Peer |-> IF p = a THEN 3 ELSE 0]
FiveWrites  == [p \in Peer |-> IF p = a THEN 5 ELSE 0]
ThreeAndOne == [p \in Peer |-> IF p = a THEN 3 ELSE 1]
=============================================================================
