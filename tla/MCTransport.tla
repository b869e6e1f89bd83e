---------------------------- MODULE MCTransport ----------------------------
(***************************************************************************)
(* Small instances of Transport for TLC, and the claims of the comments.   *)
(***************************************************************************)
EXTENDS Transport, TransportClaims

\* Two ranges, one with a number that needs more than one octet.
MCSacks == { << <<2, 3>>, <<5, 300>> >> }

\* Five gaps in the receive buffer: the ACK is longer than a datagram may be.
MCManySacks == { [i \in 1..5 |-> <<2 * i, 2 * i>>] }

\* What the peer sends: every kind of frame, and one batch that is longer
\* than the receiver's buffer.
MCPeerBatches ==
  << << new_syn_ack(1, 258, 772), new_push(772, 0, 513, 770, 66051, <<7, 8>>),
        new_path_response(772, 259, 66051, 65793) >>,
     << new_push(772, 1, 513, 770, 66051, <<9>>), new_ping(772, 2, 513, 770, 66051),
        new_fin(772, 3, 66051, 513, 770), new_ack(772, 1, 9, << <<4, 4>> >>, 7) >> >>
=============================================================================
