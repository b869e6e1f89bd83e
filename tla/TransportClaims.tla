--------------------------- MODULE TransportClaims ---------------------------
(***************************************************************************)
(* What comments say of the transport layer and its code does not keep.    *)
(***************************************************************************)
EXTENDS Transport

\* A step in which the receiver of t takes a datagram: enabled when receive(t)
\* is.
Takes(t) ==
  LET a == udp[t].listening IN
  /\ Held(t) /\ a # 0 /\ kernel[a] # <<>>
  /\ kernel' = [kernel EXCEPT ![a] = Tail(@)]

\* The runtime also polls the receiver tasks and the socket actor.
PolledSpec ==
  /\ FairSpec
  /\ WF_vars(recv_frames) /\ WF_vars(RebindSwap)
  /\ \A t \in Transports : WF_kernel(Takes(t))

\* socket/transport/manager.rs:54: rebind "atomically replaces the underlying
\* transport instance".  Once the command channel is empty, the sender task
\* sends over the transport the manager receives from.
SenderFollowsManager ==
  chan = <<>> => task.transport = manager.transport

\* socket/transport/manager.rs:55: "no ongoing requests are lost during the
\* rebinding process".  A datagram that was queued is taken in the end.
QueuedIsDelivered ==
  \A t \in Transports : [](udp[t].queue # <<>> => <>(udp[t].queue = <<>>))

\* socket/transport/udp.rs:145: "The receiver task will pick this up on its
\* next loop."  After an in-place rebind the receiver comes to wait at the
\* new socket.
ReceiverFollowsRebind ==
  \A t \in Transports :
    [](udp[t].socket # udp[t].listening => <>(udp[t].socket = udp[t].listening))

\* socket/transport/udp.rs:179: "Max UDP packet size".  Whatever one frame the
\* endpoint sends, the receiver's buffer is large enough for its datagram.
AckFitsBuffer ==
  \A i \in DOMAIN wire : Len(wire[i].octets) <= BufferSize
=============================================================================
