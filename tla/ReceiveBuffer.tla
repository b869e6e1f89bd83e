---------------------------- MODULE ReceiveBuffer ----------------------------
(***************************************************************************)
(* The receive side of the reliability layer                               *)
(* (src/core/reliability/recv_buffer.rs): out-of-order frames are kept in  *)
(* a map from sequence number to PUSH payload or FIN, and leave it in      *)
(* sequence order.                                                         *)
(*                                                                         *)
(* A buffer is a record with the fields of the Rust structure.  Its        *)
(* operations are written as operators from buffers to buffers, so that    *)
(* every module that owns one (Connection) composes them into its actions. *)
(***************************************************************************)
EXTENDS Naturals, FiniteSets, Sequences

CONSTANTS
  Fin,           (* PacketOrFin::Fin, the end-of-stream mark             *)
  RecvCapacity   (* recv_buffer_capacity_packets                         *)

ASSUME RecvCapacityAssumption == RecvCapacity \in Nat

(* PacketOrFin: a PUSH payload is the ordinal of the user's write.         *)
Payload == Nat \ {0}
Item == Payload \cup {Fin}

ASSUME FinAssumption == Fin \notin Nat

EmptyMap == [s \in {} |-> Fin]

EmptyBuffer ==
  [next_sequence |-> 0, received |-> EmptyMap, fin_reached |-> FALSE]

(* The type of a buffer, as a predicate: the set of all maps is infinite.  *)
IsReceiveBuffer(rb) ==
  /\ rb = [next_sequence |-> rb.next_sequence,
           received      |-> rb.received,
           fin_reached   |-> rb.fin_reached]
  /\ rb.next_sequence \in Nat
  /\ rb.fin_reached \in BOOLEAN
  /\ DOMAIN rb.received \subseteq Nat
  /\ IsFiniteSet(DOMAIN rb.received)
  /\ rb.received = [s \in DOMAIN rb.received |-> rb.received[s]]
  /\ \A s \in DOMAIN rb.received : rb.received[s] \in Item

(***************************************************************************)
(* receive_push and receive_fin.  They refuse what is behind the reader or *)
(* already held, and everything once the FIN has been reassembled.  They   *)
(* do not compare the buffer with its capacity.                            *)
(***************************************************************************)
Accepts(rb, seq) ==
  /\ ~rb.fin_reached
  /\ seq >= rb.next_sequence
  /\ seq \notin DOMAIN rb.received

Receive(rb, seq, item) ==
  [rb EXCEPT !.received =
     [s \in DOMAIN rb.received \cup {seq} |->
        IF s = seq THEN item ELSE rb.received[s]]]

(* window_size: the free slots, as advertised to the peer.                 *)
WindowSize(rb) ==
  IF Cardinality(DOMAIN rb.received) > RecvCapacity
    THEN 0
    ELSE RecvCapacity - Cardinality(DOMAIN rb.received)

(* The sequence numbers covered by get_sack_ranges.                        *)
SackSet(rb) == DOMAIN rb.received

(***************************************************************************)
(* reassemble.  ContiguousRun(rb, n) says that exactly n payloads are      *)
(* popped; exactly one n satisfies it.  A FIN right behind them is popped  *)
(* too, and empties the buffer.                                            *)
(***************************************************************************)
HoldsPush(rb, s) == s \in DOMAIN rb.received /\ rb.received[s] # Fin

ContiguousRun(rb, n) ==
  IF rb.fin_reached
    THEN n = 0
    ELSE /\ \A i \in 0..(n-1) : HoldsPush(rb, rb.next_sequence + i)
         /\ ~HoldsPush(rb, rb.next_sequence + n)

(* Mutant: a FIN ends the stream although frames below it are missing.     *)
MutantFinSeen(rb, n) ==
  ~rb.fin_reached /\ \E s \in DOMAIN rb.received : rb.received[s] = Fin

FinSeen(rb, n) ==
  /\ ~rb.fin_reached
  /\ rb.next_sequence + n \in DOMAIN rb.received
  /\ rb.received[rb.next_sequence + n] = Fin

ReassembledData(rb, n) == [i \in 1..n |-> rb.received[rb.next_sequence + i - 1]]

(* Mutant: next_sequence does not move with what is popped.                *)
MutantReassembled(rb, n) ==
  [rb EXCEPT !.received = [s \in {t \in DOMAIN rb.received :
                                    t >= rb.next_sequence + n} |-> rb.received[s]],
             !.fin_reached = @ \/ FinSeen(rb, n)]

Reassembled(rb, n) ==
  IF FinSeen(rb, n)
    THEN [next_sequence |-> rb.next_sequence + n + 1,
          received      |-> EmptyMap,
          fin_reached   |-> TRUE]
    ELSE [next_sequence |-> rb.next_sequence + n,
          received      |-> [s \in {t \in DOMAIN rb.received :
                                      t >= rb.next_sequence + n} |-> rb.received[s]],
          fin_reached   |-> rb.fin_reached]
=============================================================================
