-------------------------- MODULE LifecycleClaims --------------------------
(***************************************************************************)
(* What the documentation says of migration, timeouts and the end of a     *)
(* connection, and the code does not do.  LifecycleClaims.cfg refutes them.*)
(***************************************************************************)
EXTENDS MCLifecycle

(* migrate() that returns an error has not moved the connection.  The copy *)
(* of the state that handle_path_response_frame works on has no notifier,  *)
(* so even a confirmed migration is reported as failed.                    *)
FailedMigrationStays ==
  [][\A s \in Side : endpoint[s].migrate = "pending" /\ endpoint'[s].migrate = "failed"
        => endpoint'[s].remote = endpoint[s].remote]_vars

(* A migration asked for by the user ends by an answer or by a timeout;    *)
(* handle_stream_command registers no timer for it.                        *)
ActiveMigrationEnds ==
  \A s \in Side : endpoint[s].notifier ~> ~endpoint[s].notifier

(* The connection timeout concerns the handshake only.  An event that is in*)
(* the channel when the SYN-ACK arrives is not withdrawn by cancel_timer.  *)
EstablishedIsNotTimedOut ==
  endpoint["client"].aborted /\ "idle" \in endpoint["client"].armed
    => ~endpoint["client"].peer_cid

(* An endpoint whose peer has finished leaves Established.  A FIN that is  *)
(* reassembled while the path is validated moves nothing, later neither.   *)
FinLeavesEstablished ==
  \A s \in Side : endpoint[s].eof /\ endpoint[s].loop = "select"
    => endpoint[s].state \notin {"Established", "ValidatingPath"}

(* Every sequence number an endpoint has given out is, sooner or later,    *)
(* received: none is neither in flight nor at the peer.  The number of a   *)
(* PATH_CHALLENGE is, and what follows it is never delivered.              *)
NoHole ==
  \A s \in Side : Live(s) =>
    \A n \in 0 .. endpoint[s].seq - 1 : n \in Tracked(endpoint[s]) \cup endpoint[Peer(s)].got
=============================================================================
