------------------------------ MODULE Transport ------------------------------
(***************************************************************************)
(* How an endpoint's frames reach a UDP socket and how datagrams reach the *)
(* socket actor: Endpoint::send_* over the shared command channel, the     *)
(* transport_sender_task, UdpTransport with its send actor and its         *)
(* receiver task, and TransportManager::rebind, which replaces one         *)
(* UdpTransport by another while all of these run.                         *)
(*                                                                         *)
(* Transports are numbered in the order they are bound, and so are socket  *)
(* addresses.  The acknowledgement state of the endpoint (windows, next    *)
(* expected number) is an input here: it is modelled in Connection.        *)
(***************************************************************************)
EXTENDS Packetizer

CONSTANTS
  Writes,        (* lengths of the user's writes                           *)
  Windows,       (* inputs: congestion window and peer window              *)
  Sacks,         (* inputs: lists of SACK ranges to acknowledge            *)
  PeerBatches,   (* the batches the peer may send                          *)
  ChanCap,       (* capacity of the transport command channel              *)
  MaxDrain,      (* MAX_BATCH_SIZE of the sender task                      *)
  QueueCap,      (* capacity of a transport's received datagrams           *)
  BufferSize,    (* the receiver's buffer, in octets                       *)
  MaxBatches,    (* bound: batches the endpoint starts to produce          *)
  MaxWritten,    (* bound: bytes written                                   *)
  MaxTransports, (* bound: transports bound                                *)
  MaxRebinds,    (* bound: in-place rebinds of a UdpTransport              *)
  MaxEvents      (* bound: arrivals, rebinds and socket errors together    *)

ASSUME TransportAssumption ==
  /\ \A n \in {ChanCap, MaxDrain, QueueCap, MaxTransports} : n \in Nat \ {0}
  /\ \A n \in {BufferSize, MaxBatches, MaxRebinds, MaxEvents, MaxWritten} : n \in Nat
  /\ Writes \subseteq Nat /\ Windows \subseteq Nat
  /\ Sacks \subseteq Seq(Word \X Word)
  /\ \A b \in DOMAIN PeerBatches :
       /\ PeerBatches[b] \in Seq(LongFrame \cup ShortFrame)
       /\ \A i \in DOMAIN PeerBatches[b] : Encodable(PeerBatches[b][i])

Transports == 1..MaxTransports
Addresses == 1..(MaxTransports + MaxRebinds)

VARIABLES
  ep,        (* the endpoint: its stage, buffer, numbers, tracked frames   *)
             (* and outbox, the batches it waits to hand over              *)
  chan,      (* the channel to the sender task                             *)
  task,      (* the sender task: its transport and its drained batches     *)
  manager,   (* TransportManager: its transport, and the one being bound   *)
  udp,       (* transport -> socket, listening, received queue, commands   *)
  kernel,    (* address -> datagrams that arrived and were not read        *)
  wire,      (* history: what left, in order                               *)
  produced,  (* history: the batches the endpoint made, in order           *)
  delivered, (* history: the datagrams the socket actor took               *)
  count      (* transports and addresses used; bound: events so far        *)

vars == <<ep, chan, task, manager, udp, kernel, wire, produced, delivered, count>>

LocalCid == 772
PeerCid == 258
Version == 1
Challenge == 65793

Ctx(cid, cwnd, window) ==
  [cid |-> cid, timestamp |-> 66051, cwnd |-> cwnd, window |-> window,
   next |-> 513, mine |-> 770]

MoreEvents == count.events < MaxEvents

\* Sequence numbers in ascending order.
InOrder(numbers) ==
  FoldLeft(LAMBDA order, s : IF s \in numbers THEN Append(order, s) ELSE order,
           <<>>, [i \in 1..ep.rel.seq |-> i - 1])

\* The bytes of a stream are numbered from 1.
Bytes(from, n) == [i \in 1..n |-> from + i]

(***************************************************************************)
(* UdpTransport: from_socket starts the send actor and the receiver task,  *)
(* which loads the socket it then waits at.                                *)
(***************************************************************************)
from_socket(address) ==
  [socket |-> address, listening |-> address, queue |-> <<>>, commands |-> <<>>]

Unbound == [socket |-> 0, listening |-> 0, queue |-> <<>>, commands |-> <<>>]

\* The owners of a transport: dropped by all of them, it shuts down.
Held(t) ==
  \/ manager.transport = t \/ manager.binding = t \/ task.transport = t
  \/ \E i \in DOMAIN chan : chan[i].kind = "Swap" /\ chan[i].transport = t

Init ==
  /\ \E n \in Writes \cup {0} :
       /\ InitialDataFits(Bytes(0, n))
       /\ ep \in {[stage |-> s, cid |-> IF s = "client" THEN 0 ELSE PeerCid,
                   rel |-> [buffer |-> IF s = "client" /\ n > 0
                                       THEN write_to_stream(EmptySendBuffer, Bytes(0, n))
                                       ELSE EmptySendBuffer,
                            seq |-> 0, tracked |-> <<>>],
                   written |-> IF s = "client" THEN Least(n, StreamCap) ELSE 0,
                   outbox |-> <<>>, panicked |-> FALSE] : s \in {"client", "server"}}
  /\ chan = <<>>
  /\ task = [transport |-> 1, pending |-> <<>>, waiting |-> FALSE]
  /\ manager = [transport |-> 1, binding |-> 0]
  /\ udp = [t \in Transports |-> IF t = 1 THEN from_socket(1) ELSE Unbound]
  /\ kernel = [a \in Addresses |-> <<>>]
  /\ wire = <<>> /\ produced = <<>> /\ delivered = <<>>
  /\ count = [transports |-> 1, addresses |-> 1, events |-> 0]

(***************************************************************************)
(* The endpoint.  It does one thing at a time: while the channel is full   *)
(* it waits with the rest of its batches in its outbox.                    *)
(***************************************************************************)
IsFree == ep.outbox = <<>> /\ ~ep.panicked /\ Len(produced) < MaxBatches
transportSide == <<task, manager, udp, kernel, wire, delivered, count>>

Batches(to, packets) ==
  [i \in DOMAIN packets |-> [to |-> to, frames |-> packets[i]]]

\* Hands batches over: the histories record them, the outbox holds them.
Produce(e, batches) ==
  /\ ep' = [e EXCEPT !.outbox = batches]
  /\ produced' = produced \o batches
  /\ UNCHANGED <<chan, transportSide>>

\* packetize_stream_data: the new state of the reliability layer.
packetize_stream_data(rel, ctx) ==
  LET p == packetize(ctx, rel) IN
  [frames |-> p.frames,
   rel |-> [buffer |-> p.buffer, seq |-> p.seq,
            tracked |-> TrackAll(rel.tracked, p.frames)]]

\* send_initial_syn: SYN and the initial data in one datagram, or a panic.
send_initial_syn(cwnd, window) ==
  /\ IsFree /\ ep.stage = "client"
  /\ LET p      == packetize_stream_data(ep.rel, Ctx(ep.cid, cwnd, window))
         frames == <<new_syn(Version, LocalCid, 0)>> \o p.frames
         size   == PacketSize(frames)
     IN Produce([ep EXCEPT !.stage = "open", !.rel = p.rel,
                           !.panicked = size > MaxPacket],
                IF size > MaxPacket THEN <<>>
                ELSE Batches("peer", <<frames>>))

\* handle_stream_command(SendData) of a server that has not answered yet:
\* the SYN-ACK leaves with the first data.  The SYN-ACK has no number and is
\* not tracked.
SendFirstData(n, cwnd, window) ==
  /\ IsFree /\ ep.stage = "server"
  /\ LET buf == write_to_stream(ep.rel.buffer, Bytes(ep.written, n))
         p   == packetize_stream_data([ep.rel EXCEPT !.buffer = buf],
                                      Ctx(ep.cid, cwnd, window))
     IN Produce([ep EXCEPT !.stage = "open", !.rel = p.rel,
                           !.written = @ + Least(n, StreamCap)],
                Batches("peer", packetize_zero_rtt(p.frames,
                                  new_syn_ack(Version, LocalCid, ep.cid))))

\* handle_stream_command(SendData) otherwise.
Write(n) ==
  /\ IsFree /\ ep.stage = "open" /\ ep.written < MaxWritten
  /\ LET buf == write_to_stream(ep.rel.buffer, Bytes(ep.written, n)) IN
     /\ buf # ep.rel.buffer
     /\ ep' = [ep EXCEPT !.rel.buffer = buf,
                         !.written = @ + buf.size - ep.rel.buffer.size]
  /\ UNCHANGED <<chan, transportSide, produced>>

Close ==
  /\ IsFree /\ ep.stage = "open"
  /\ ep' = [ep EXCEPT !.stage = "closing"]
  /\ UNCHANGED <<chan, transportSide, produced>>

\* The peer's SYN-ACK tells a client the cid to send to.
LearnCid ==
  /\ IsFree /\ ep.stage = "open" /\ ep.cid = 0
  /\ ep' = [ep EXCEPT !.cid = PeerCid]
  /\ UNCHANGED <<chan, transportSide, produced>>

has_fin_in_flight(rel) ==
  \E s \in DOMAIN rel.tracked : rel.tracked[s].type = "Fin"

\* packetize_and_send: data as the windows permit, then a FIN when closing.
packetize_and_send(cwnd, window) ==
  /\ IsFree /\ ep.stage \in {"open", "closing"}
  /\ LET ctx    == Ctx(ep.cid, cwnd, window)
         p      == packetize_stream_data(ep.rel, ctx)
         fin    == IF ep.stage = "closing" /\ ~has_fin_in_flight(p.rel)
                   THEN <<new_fin(ctx.cid, p.rel.seq, ctx.timestamp, ctx.next, ctx.mine)>>
                   ELSE <<>>
         frames == p.frames \o fin
     IN /\ frames # <<>>
        /\ Produce([ep EXCEPT !.rel =
                      [p.rel EXCEPT !.seq = @ + Len(fin),
                                    !.tracked = TrackAll(@, fin)]],
                   Batches("peer", BuildPackets(frames)))

\* send_standalone_ack: one frame, whatever its size.
send_standalone_ack(ranges) ==
  /\ IsFree /\ ep.stage # "client"
  /\ Produce(ep, Batches("peer", << <<new_ack(ep.cid, 513, 770, ranges, 66051)>> >>))

\* send_frame_to: a PATH_CHALLENGE to an address that is being validated.  It
\* takes a number but is not tracked.
SendChallenge ==
  /\ IsFree /\ ep.stage = "open"
  /\ Produce([ep EXCEPT !.rel.seq = @ + 1],
             Batches("new", << <<new_path_challenge(ep.cid, ep.rel.seq, 66051, Challenge)>> >>))

\* send_frames: what the retransmission layers found due, made anew.
Retransmit ==
  /\ IsFree /\ ep.stage # "client" /\ DOMAIN ep.rel.tracked # {}
  /\ LET due == InOrder(DOMAIN ep.rel.tracked)
     IN Produce(ep, Batches("peer", BuildPackets(
          [i \in DOMAIN due |-> reconstruct_frame(due[i], ep.rel.tracked[due[i]],
                                                  Ctx(ep.cid, 0, 0))])))

\* An acknowledgement of everything below n (in Connection).
Acknowledge(n) ==
  /\ IsFree /\ \E s \in DOMAIN ep.rel.tracked : s < n
  /\ ep' = [ep EXCEPT !.rel.tracked =
              [s \in {s \in DOMAIN @ : s >= n} |-> @[s]]]
  /\ UNCHANGED <<chan, transportSide, produced>>

\* send_raw_frames: the channel takes a batch when it has room.
send_raw_frames ==
  /\ ep.outbox # <<>> /\ Len(chan) < ChanCap
  /\ chan' = Append(chan, [kind |-> "Send", batch |-> Head(ep.outbox)])
  /\ ep' = [ep EXCEPT !.outbox = Tail(@)]
  /\ UNCHANGED <<transportSide, produced>>

(***************************************************************************)
(* transport_sender_task.  After a Send it drains further Sends without    *)
(* waiting; the command that ends the draining was taken from the channel  *)
(* too, and if it is a SwapTransport it is dropped with it.                *)
(***************************************************************************)
\* Mutant: the drained batches are sent from the last to the first.
MutantDrained(commands) ==
  LET other == {i \in DOMAIN commands : commands[i].kind # "Send"}
      sends == IF other = {} THEN Len(commands)
               ELSE (CHOOSE i \in other : \A j \in other : i <= j) - 1
      n     == Least(sends, MaxDrain)
  IN [batches |-> [i \in 1..n |-> commands[n + 1 - i].batch],
      left |-> Rest(commands, IF n < MaxDrain THEN Least(n + 1, Len(commands)) ELSE n)]

Drained(commands) ==
  LET other == {i \in DOMAIN commands : commands[i].kind # "Send"}
      sends == IF other = {} THEN Len(commands)
               ELSE (CHOOSE i \in other : \A j \in other : i <= j) - 1
      n     == Least(sends, MaxDrain)
  IN [batches |-> [i \in 1..n |-> commands[i].batch],
      left |-> Rest(commands, IF n < MaxDrain THEN Least(n + 1, Len(commands)) ELSE n)]

TaskRecv ==
  /\ task.pending = <<>> /\ chan # <<>>
  /\ IF Head(chan).kind = "Swap"
     THEN /\ task' = [task EXCEPT !.transport = Head(chan).transport]
          /\ chan' = Tail(chan)
     ELSE /\ task' = [task EXCEPT !.pending = Drained(chan).batches]
          /\ chan' = Drained(chan).left
  /\ UNCHANGED <<ep, manager, udp, kernel, wire, produced, delivered, count>>

\* send_frames: the batch goes to the transport's actor; the task waits.
TaskSend ==
  /\ task.pending # <<>> /\ ~task.waiting
  /\ task' = [task EXCEPT !.waiting = TRUE]
  /\ udp' = [udp EXCEPT ![task.transport].commands =
               Append(@, [kind |-> "Send", batch |-> Head(task.pending)])]
  /\ UNCHANGED <<ep, chan, manager, kernel, wire, produced, delivered, count>>

(***************************************************************************)
(* UdpTransportSendActor.  A failing send is only logged by the task.      *)
(***************************************************************************)
Command(t) == udp[t].commands # <<>>
\* Mutant: the task goes on without taking the answer.
MutantAnswered == [task EXCEPT !.pending = Tail(@)]

Answered == [task EXCEPT !.pending = Tail(@), !.waiting = FALSE]

handle_send(t, ok) ==
  /\ Command(t) /\ Head(udp[t].commands).kind = "Send"
  /\ ok \/ MoreEvents
  /\ LET batch == Head(udp[t].commands).batch IN
     wire' = Append(wire, [from |-> udp[t].socket, to |-> batch.to, ok |-> ok,
                           octets |-> serialize_frames(batch.frames)])
  /\ udp' = [udp EXCEPT ![t].commands = Tail(@)]
  /\ task' = Answered
  /\ count' = [count EXCEPT !.events = IF ok THEN @ ELSE @ + 1]
  /\ UNCHANGED <<ep, chan, manager, kernel, produced, delivered>>

\* BindableTransport::rebind, called by an owner of the transport.
RebindInPlace(t) ==
  /\ Held(t) /\ udp[t].socket # 0 /\ MoreEvents
  /\ ~\E i \in DOMAIN udp[t].commands : udp[t].commands[i].kind = "Rebind"
  /\ count.addresses < MaxTransports + MaxRebinds
  /\ udp' = [udp EXCEPT ![t].commands =
               Append(@, [kind |-> "Rebind", address |-> count.addresses + 1])]
  /\ count' = [count EXCEPT !.addresses = @ + 1, !.events = @ + 1]
  /\ UNCHANGED <<ep, chan, task, manager, kernel, wire, produced, delivered>>

\* The new socket replaces the shared one; the receiver task is not told.
handle_rebind(t) ==
  /\ Command(t) /\ Head(udp[t].commands).kind = "Rebind"
  /\ udp' = [udp EXCEPT ![t].commands = Tail(@),
                         ![t].socket = Head(udp[t].commands).address]
  /\ UNCHANGED <<ep, chan, task, manager, kernel, wire, produced, delivered, count>>

(***************************************************************************)
(* receiver_task.  It waits at the socket it loaded at the top of its      *)
(* loop, so a datagram or an error must come before it moves to the new    *)
(* one.  A datagram is cut at the buffer's size, decoded as far as it      *)
(* goes, and dropped when the queue is full.                               *)
(***************************************************************************)
Reload(u) == [u EXCEPT !.listening = u.socket]

receive(t) ==
  /\ Held(t) /\ udp[t].listening # 0 /\ kernel[udp[t].listening] # <<>>
  /\ LET u        == udp[t]
         a        == u.listening
         datagram == Head(kernel[a])
         received == [batch |-> datagram.batch,
                      frames |-> deserialize_frames(
                        SubSeq(datagram.octets, 1,
                               Least(BufferSize, Len(datagram.octets))))]
     IN /\ kernel' = [kernel EXCEPT ![a] = Tail(@)]
        /\ udp' = [udp EXCEPT ![t] = Reload(
                     IF Len(u.queue) < QueueCap
                     THEN [u EXCEPT !.queue = Append(@, received)] ELSE u)]
  /\ UNCHANGED <<ep, chan, task, manager, wire, produced, delivered, count>>

ReceiveError(t) ==
  /\ Held(t) /\ udp[t].listening # udp[t].socket /\ MoreEvents
  /\ udp' = [udp EXCEPT ![t] = Reload(@)]
  /\ count' = [count EXCEPT !.events = @ + 1]
  /\ UNCHANGED <<ep, chan, task, manager, kernel, wire, produced, delivered>>

\* recv_frames in the event loop of the socket actor: of the manager's
\* transport only, and not while the actor is in rebind.
recv_frames ==
  /\ manager.binding = 0 /\ udp[manager.transport].queue # <<>>
  /\ delivered' = Append(delivered, Head(udp[manager.transport].queue))
  /\ udp' = [udp EXCEPT ![manager.transport].queue = Tail(@)]
  /\ UNCHANGED <<ep, chan, task, manager, kernel, wire, produced, count>>

(***************************************************************************)
(* TransportManager::rebind: bind a new transport, hand it to the sender   *)
(* task (waiting while the channel is full), then use it for receiving.    *)
(***************************************************************************)
RebindBind ==
  /\ manager.binding = 0 /\ count.transports < MaxTransports /\ MoreEvents
  /\ count.addresses < MaxTransports + MaxRebinds
  /\ manager' = [manager EXCEPT !.binding = count.transports + 1]
  /\ udp' = [udp EXCEPT ![count.transports + 1] = from_socket(count.addresses + 1)]
  /\ count' = [count EXCEPT !.transports = @ + 1, !.addresses = @ + 1,
                             !.events = @ + 1]
  /\ UNCHANGED <<ep, chan, task, kernel, wire, produced, delivered>>

RebindSwap ==
  /\ manager.binding # 0 /\ Len(chan) < ChanCap
  /\ chan' = Append(chan, [kind |-> "Swap", transport |-> manager.binding])
  /\ manager' = [transport |-> manager.binding, binding |-> 0]
  /\ UNCHANGED <<ep, task, udp, kernel, wire, produced, delivered, count>>

rebind == RebindBind \/ RebindSwap

(***************************************************************************)
(* The network: a datagram of the peer arrives at an open socket.          *)
(***************************************************************************)
Open(a) == \E t \in Transports : Held(t) /\ a \in {udp[t].socket, udp[t].listening}

Arrive(a, b) ==
  /\ Open(a) /\ MoreEvents
  /\ kernel' = [kernel EXCEPT ![a] =
                  Append(@, [batch |-> b, octets |-> serialize_frames(PeerBatches[b])])]
  /\ count' = [count EXCEPT !.events = @ + 1]
  /\ UNCHANGED <<ep, chan, task, manager, udp, wire, produced, delivered>>

EndpointStep ==
  \/ \E c, w \in Windows : send_initial_syn(c, w)
  \/ \E c, w \in Windows : packetize_and_send(c, w)
  \/ \E n \in Writes, c, w \in Windows : SendFirstData(n, c, w)
  \/ \E n \in Writes : Write(n)
  \/ \E r \in Sacks : send_standalone_ack(r)
  \/ \E n \in 1..ep.rel.seq : Acknowledge(n)
  \/ Close \/ LearnCid \/ SendChallenge \/ Retransmit
  \/ send_raw_frames

SenderStep == TaskRecv \/ TaskSend

ActorStep(t) ==
  \/ \E ok \in BOOLEAN : handle_send(t, ok)
  \/ handle_rebind(t)

ReceiverStep(t) == receive(t) \/ ReceiveError(t)

Next ==
  \/ EndpointStep
  \/ SenderStep
  \/ \E t \in Transports : ActorStep(t) \/ ReceiverStep(t) \/ RebindInPlace(t)
  \/ recv_frames
  \/ rebind
  \/ \E a \in Addresses, b \in DOMAIN PeerBatches : Arrive(a, b)

Spec == Init /\ [][Next]_vars

\* The runtime polls the endpoint's send, the sender task and the actors: as
\* long as one of them can move, one of them does.
Pipeline == send_raw_frames \/ SenderStep \/ \E t \in Transports : ActorStep(t)

Fairness == WF_vars(Pipeline)

FairSpec == Spec /\ Fairness

-----------------------------------------------------------------------------
(***************************************************************************)
(* Properties.                                                             *)
(***************************************************************************)
Frames == UNION {ToSet(produced[i].frames) : i \in DOMAIN produced}
Pushes == {f \in Frames : command(f) = "Push"}

\* Type invariant: the variables have their shape, the queues respect their
\* capacities, and SendBuffer's size is what its pieces hold
\* (stream_buffer_size of send_buffer.rs).
TrTypeOK ==
  /\ ep.stage \in {"client", "server", "open", "closing"}
  /\ ep.cid \in {0, PeerCid} /\ ep.panicked \in BOOLEAN
  /\ ep.rel.buffer.size = Len(FlattenSeq(ep.rel.buffer.pieces))
  /\ ep.rel.buffer.size \in 0..StreamCap
  /\ \A s \in DOMAIN ep.rel.tracked : s < ep.rel.seq
  /\ Len(chan) <= ChanCap
  /\ task.transport \in Transports /\ Len(task.pending) <= MaxDrain
  /\ manager.transport \in Transports /\ manager.binding \in 0..MaxTransports
  /\ \A t \in Transports :
       /\ udp[t].socket \in 0..(MaxTransports + MaxRebinds)
       /\ Len(udp[t].queue) <= QueueCap

\* The batches of the Send commands in a channel.
Sends(commands) ==
  FoldLeft(LAMBDA batches, c : IF c.kind = "Send" THEN Append(batches, c.batch) ELSE batches,
           <<>>, commands)

AllInRange(frames) == \A i \in DOMAIN frames : InRange(frames[i])

\* What the endpoint handed over is, in the order in which it was made, what
\* left (or failed to leave), what the sender task holds, what is in the
\* channel and what the endpoint still holds; a datagram has the octets of its
\* batch and, as long as numbers and payloads fit their widths, decodes at the
\* other side into exactly the frames of the batch.  Drained batches, the swap of the transport
\* and the codec can each break it.
SentInOrder ==
  LET queued == task.pending \o Sends(chan) \o ep.outbox
  IN /\ Len(wire) + Len(queued) = Len(produced)
     /\ queued = Rest(produced, Len(wire))
     /\ \A i \in DOMAIN wire :
          /\ wire[i].to = produced[i].to
          /\ wire[i].octets = serialize_frames(produced[i].frames)
          /\ AllInRange(produced[i].frames)
               => deserialize_frames(wire[i].octets) = produced[i].frames

\* The sender task waits for an answer exactly while one batch, the first of
\* those it holds, is with the actor of its transport, whatever transports are
\* bound, swapped or dropped meanwhile: an answer is never lost, and no actor
\* has a batch nobody waits for.
AnswerPending ==
  /\ task.waiting => task.pending # <<>>
  /\ \A t \in Transports :
       Sends(udp[t].commands) = IF task.waiting /\ t = task.transport
                                THEN <<Head(task.pending)>> ELSE <<>>

\* A datagram of several frames stays within max_packet_size: PacketBuilder
\* and the 0-RTT grouping count sizes with encoded_size, the wire has octets.
DatagramsFit ==
  \A i \in DOMAIN wire :
    Len(produced[i].frames) > 1 => Len(wire[i].octets) <= MaxPacket

\* Initial data that InitialData::new accepts never trips the assertion of
\* send_initial_syn, which adds the sizes up from the frames it made.
InitialDataNeverPanics == ~ep.panicked

\* Over all PUSH frames ever handed over, first sent or sent again: a number
\* carries one payload, and the payloads in the order of their numbers are
\* the written bytes, each once, up to those still in the send buffer.
StreamIntact ==
  LET numbers  == {f.header.seq : f \in Pushes}
      payload  == [s \in numbers |-> (CHOOSE f \in Pushes : f.header.seq = s).body]
      order    == InOrder(numbers)
      pushed   == FlattenSeq([i \in DOMAIN order |-> payload[order[i]]])
  IN /\ \A f, g \in Pushes : f.header.seq = g.header.seq => f.body = g.body
     /\ ~ep.panicked =>
          pushed \o FlattenSeq(ep.rel.buffer.pieces) = Bytes(0, ep.written)

\* A received datagram has the frames its sender put into it, all of them if
\* it fits the receiver's buffer and otherwise a proper prefix: a cut frame
\* is never handed on.
ReceivedAsSent ==
  \A d \in ToSet(delivered) \cup UNION {ToSet(udp[t].queue) : t \in Transports} :
    /\ IsPrefix(d.frames, PeerBatches[d.batch])
    /\ Len(serialize_frames(PeerBatches[d.batch])) <= BufferSize
         => d.frames = PeerBatches[d.batch]

\* Sizes and contents at both ends: the buffer's count, the capacities, the
\* limit of a datagram, the limit of initial data, what a receiver decodes, and
\* whom the sender task waits for.
TrInv ==
  TrTypeOK /\ DatagramsFit /\ InitialDataNeverPanics /\ ReceivedAsSent /\ AnswerPending

\* All ways of cutting frames into k runs that fit a datagram.
Groupings(frames, k) ==
  {cut \in SUBSET (1..(Len(frames) - 1)) :
     /\ Cardinality(cut) = k - 1
     /\ \A i \in {0} \cup cut, j \in cut \cup {Len(frames)} :
          i < j /\ (\A c \in cut : c <= i \/ c >= j)
            => j = i + 1 \/ PacketSize(SubSeq(frames, i + 1, j)) <= MaxPacket}

\* PacketBuilder and the 0-RTT grouping keep every frame, in order, and use
\* no more datagrams than the best grouping would.
FewestDatagrams ==
  [][ep.outbox = <<>> /\ ep'.outbox # <<>> =>
       LET packets == [i \in DOMAIN ep'.outbox |-> ep'.outbox[i].frames]
           frames  == FlattenSeq(packets)
       IN \A k \in 1..(Len(packets) - 1) : Groupings(frames, k) = {}]_vars

\* Again and again everything that was handed over has left (or failed to),
\* whatever swaps and rebinds happen meanwhile: no one waits for an answer
\* that is gone.
EveryBatchLeaves == []<>(Len(wire) = Len(produced))
=============================================================================
