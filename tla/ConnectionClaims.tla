-------------------------- MODULE ConnectionClaims --------------------------
(***************************************************************************)
(* Statements of the repository's documents about an established           *)
(* connection which the code does not keep.  Each is refuted by a          *)
(* configuration (README.md, "Disagreements between documents and code").  *)
(***************************************************************************)
EXTENDS Connection

(* "The size of the receive window is advertised continuously": a sender   *)
(* with data that faces a closed window hears of the window opening again. *)
(* The ACK is built before reassemble empties the buffer, and nothing is   *)
(* sent afterwards (send_standalone_ack, event_loop::run).                 *)
WindowReopens ==
  \A p \in Peer :
    (peer_recv_window[p] = 0 /\ stream_buffer[p] # <<>>)
      ~> (peer_recv_window[p] > 0 \/ state[p] = "Closed")

(* Flow control keeps the receive buffer within its capacity.  An old ACK  *)
(* re-opens the window it advertises (process_ack_common), and             *)
(* receive_push does not look at the capacity.                             *)
RecvBufferBounded ==
  \A p \in Peer : Cardinality(DOMAIN recv_buffer[p].received) <= RecvCapacity

(* Shutdown sends both streams completely: a reader at EOF has everything  *)
(* the peer's send buffer had accepted.  The FIN is numbered as soon as    *)
(* the state is Closing, whatever the windows have kept back               *)
(* (packetize_and_send).                                                   *)
NothingBehindFin ==
  \A p \in Peer :
    recv_buffer[Other(p)].fin_reached /\ ~dropped[Other(p)]
      => to_stream[Other(p)] = written[p]

(* The same, for the data of the peer: an endpoint that has closed without *)
(* an error has handed over all that it had acknowledged.  A FIN that      *)
(* overtakes data moves Closing to ClosingWait (handle_fin_in_closing).    *)
NothingLeftUndelivered ==
  \A p \in Peer :
    state[p] = "Closed" /\ ~aborted[p] => DOMAIN recv_buffer[p].received = {}

(* Once everything in flight (the FIN too) is acknowledged, a closing      *)
(* endpoint ends its turn in Closed.  packetize_and_send numbers another   *)
(* FIN first, so is_in_flight_empty is false when should_close asks.       *)
ClosesOnceAcked ==
  [][\A p \in Peer :
       /\ state[p] = "Closing"
       /\ Fin \in {sent[p][i] : i \in DOMAIN sent[p]}
       /\ DOMAIN in_flight[p] = {} /\ DOMAIN in_flight_simple[p] = {}
       /\ stream_buffer[p] = <<>>
       /\ loop[p] # "select" /\ loop'[p] = "select"
       => state'[p] = "Closed"]_vars

(* What the peer reads is a prefix of what the user wrote.  A write that   *)
(* meets a full send buffer is dropped, and the next one may fit again     *)
(* (handle_stream_command ignores what write_to_stream returns).           *)
ReadsWhatWasWritten ==
  \A p \in Peer :
    LET d == to_stream[Other(p)] IN \A i \in 1..Len(d) : d[i] = i
=============================================================================
