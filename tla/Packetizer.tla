----------------------------- MODULE Packetizer -----------------------------
(***************************************************************************)
(* From the bytes of a stream to the frames of datagrams: the SendBuffer,  *)
(* the packetizer, the PacketBuilder that groups frames into datagrams,    *)
(* the 0-RTT grouping, InitialData's limit, and what is kept of a frame so *)
(* that it can be sent again.                                              *)
(***************************************************************************)
EXTENDS Packets, FiniteSets

CONSTANTS
  MaxPayload,    (* config.connection.max_payload_size                     *)
  MaxPacket,     (* config.connection.max_packet_size                      *)
  StreamCap,     (* capacity of the send buffer in bytes                   *)
  Layered        (* config.reliability.enable_layered_retransmission       *)

ASSUME PacketizerAssumption ==
  /\ MaxPayload \in Nat \ {0} /\ StreamCap \in Nat /\ Layered \in BOOLEAN
  /\ MaxPacket \in Nat /\ MaxPacket >= 1 + LongSize

Least(a, b) == IF a <= b THEN a ELSE b
Permit(limit, used) == IF limit > used THEN limit - used ELSE 0

(***************************************************************************)
(* SendBuffer: pieces as they were written, and their total size.          *)
(***************************************************************************)
EmptySendBuffer == [pieces |-> <<>>, size |-> 0]

\* What does not fit is cut off; a full buffer takes nothing.
write_to_stream(sb, data) ==
  LET space == Permit(StreamCap, sb.size)
      taken == SubSeq(data, 1, Least(Len(data), space))
  IN IF space = 0 THEN sb
     ELSE [pieces |-> Append(sb.pieces, taken), size |-> sb.size + Len(taken)]

\* Empty pieces in front are skipped.
WithoutEmptyFront(pieces) ==
  LET full == {i \in DOMAIN pieces : pieces[i] # <<>>} IN
  IF full = {} THEN <<>>
  ELSE Rest(pieces, (CHOOSE i \in full : \A j \in full : i <= j) - 1)

\* At most MaxPayload bytes of the first piece; <<>> where there are none.
create_chunk(sb) ==
  LET pieces == WithoutEmptyFront(sb.pieces) IN
  IF pieces = <<>> THEN [chunk |-> <<>>, sb |-> [sb EXCEPT !.pieces = <<>>]]
  ELSE LET n    == Least(Len(Head(pieces)), MaxPayload)
           left == Rest(Head(pieces), n)
       IN [chunk |-> SubSeq(Head(pieces), 1, n),
           sb |-> [pieces |-> IF left = <<>> THEN Tail(pieces)
                              ELSE <<left>> \o Tail(pieces),
                   size |-> sb.size - n]]

(***************************************************************************)
(* packetize: PUSH frames while the windows permit and bytes are left.     *)
(* ctx has cid, timestamp, cwnd, window, next (what we expect) and mine    *)
(* (our own window); rel has buffer, seq and tracked.                      *)
(***************************************************************************)
sack_in_flight_count(rel) ==
  Cardinality({s \in DOMAIN rel.tracked : rel.tracked[s].mode = "Reliable"})

PacketizeOne(ctx, acc) ==
  LET cut == create_chunk(acc.buffer) IN
  IF cut.chunk = <<>> THEN [acc EXCEPT !.buffer = cut.sb]
  ELSE [buffer |-> cut.sb, seq |-> acc.seq + 1,
        frames |-> Append(acc.frames,
                     new_push(ctx.cid, acc.seq, ctx.next, ctx.mine,
                              ctx.timestamp, cut.chunk))]

packetize(ctx, rel) ==
  LET used   == sack_in_flight_count(rel)
      permit == Least(Permit(ctx.cwnd, used), Permit(ctx.window, used))
  IN FoldLeft(LAMBDA acc, i : PacketizeOne(ctx, acc),
              [buffer |-> rel.buffer, seq |-> rel.seq, frames |-> <<>>],
              [i \in 1..permit |-> i])

(***************************************************************************)
(* What is kept of a frame, and the frame made from it again, with the     *)
(* peer's cid, the acknowledgement and the time of now.                    *)
(***************************************************************************)
from_frame(f) ==
  [type |-> frame_type(f), body |-> f.body,
   mode |-> reliability_mode_with_config(f, Layered)]

\* Mutant: a PUSH is made anew without its payload.
MutantReconstruct(seq, info, ctx) ==
  CASE info.type = "Push" ->
         new_push(ctx.cid, seq, ctx.next, ctx.mine, ctx.timestamp, <<>>)
    [] info.type = "Fin" ->
         new_fin(ctx.cid, seq, ctx.timestamp, ctx.next, ctx.mine)
    [] info.type = "PathChallenge" ->
         new_path_challenge(ctx.cid, seq, ctx.timestamp, info.body[1])
    [] info.type = "PathResponse" ->
         new_path_response(ctx.cid, seq, ctx.timestamp, info.body[1])

reconstruct_frame(seq, info, ctx) ==
  CASE info.type = "Push" ->
         new_push(ctx.cid, seq, ctx.next, ctx.mine, ctx.timestamp, info.body)
    [] info.type = "Fin" ->
         new_fin(ctx.cid, seq, ctx.timestamp, ctx.next, ctx.mine)
    [] info.type = "PathChallenge" ->
         new_path_challenge(ctx.cid, seq, ctx.timestamp, info.body[1])
    [] info.type = "PathResponse" ->
         new_path_response(ctx.cid, seq, ctx.timestamp, info.body[1])

\* add_in_flight_packet: a frame without a number, or of best effort, is not
\* kept by either layer.
Tracks(f) ==
  sequence_number(f) # NoNumber /\ reliability_mode_with_config(f, Layered) # "BestEffort"

add_in_flight_packet(tracked, f) ==
  IF Tracks(f)
  THEN [s \in DOMAIN tracked \cup {sequence_number(f)} |->
          IF s = sequence_number(f) THEN from_frame(f) ELSE tracked[s]]
  ELSE tracked

TrackAll(tracked, frames) == FoldLeft(add_in_flight_packet, tracked, frames)

(***************************************************************************)
(* PacketBuilder: frames go into the datagram being filled until the next  *)
(* one would exceed MaxPacket.  sent collects the datagrams.               *)
(***************************************************************************)
PacketSize(frames) == FoldLeft(LAMBDA n, f : n + encoded_size(f), 0, frames)

NewBuilder == [frames |-> <<>>, size |-> 0, sent |-> <<>>]

\* Mutant: the size of the flushed datagram is kept.
MutantFlush(b) ==
  IF b.frames = <<>> THEN b
  ELSE [frames |-> <<>>, size |-> b.size, sent |-> Append(b.sent, b.frames)]

flush(b) ==
  IF b.frames = <<>> THEN b
  ELSE [frames |-> <<>>, size |-> 0, sent |-> Append(b.sent, b.frames)]

add_frame(b, f) ==
  LET c == IF b.frames # <<>> /\ b.size + encoded_size(f) > MaxPacket
           THEN flush(b) ELSE b
  IN [c EXCEPT !.frames = Append(@, f), !.size = @ + encoded_size(f)]

BuildPackets(frames) == flush(FoldLeft(add_frame, NewBuilder, frames)).sent

(***************************************************************************)
(* packetize_zero_rtt: the SYN-ACK opens the first datagram.  The grouping *)
(* of the PUSH frames is a loop of its own, not the PacketBuilder.         *)
(***************************************************************************)
ZeroRttFrame(acc, f) ==
  IF acc.size + encoded_size(f) <= MaxPacket
  THEN [acc EXCEPT !.current = Append(@, f), !.size = @ + encoded_size(f)]
  ELSE [packets |-> Append(acc.packets, acc.current),
        current |-> <<f>>, size |-> encoded_size(f)]

packetize_zero_rtt(pushes, synAck) ==
  LET all == FoldLeft(ZeroRttFrame,
               [packets |-> <<>>, current |-> <<synAck>>, size |-> encoded_size(synAck)],
               pushes)
  IN Append(all.packets, all.current)

(***************************************************************************)
(* InitialData::new: whether data fits a single datagram behind a SYN.     *)
(***************************************************************************)
InitialDataFits(data) ==
  data = <<>>
    \/ LET pushes == (Len(data) + MaxPayload - 1) \div MaxPayload IN
       1 + LongSize + pushes * (1 + ShortSize) + Len(data) <= MaxPacket
=============================================================================
