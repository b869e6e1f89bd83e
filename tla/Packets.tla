------------------------------ MODULE Packets ------------------------------
(***************************************************************************)
(* The packet codec (src/packet): commands, long and short headers,        *)
(* SACK ranges and frames, down to the octets of a datagram.  An octet is  *)
(* a number below 256 and an integer field is written big endian in the    *)
(* width it has in the code, so sizes and limits are the real ones.  The   *)
(* numbers used as field values stay below 2^31.                           *)
(*                                                                         *)
(* A frame is [header, body]: body is the payload of PUSH and ACK, the one *)
(* challenge number of PATH_CHALLENGE and PATH_RESPONSE, else empty.       *)
(***************************************************************************)
EXTENDS Integers, Sequences, SequencesExt

None == "none"

(***************************************************************************)
(* Command bytes.                                                          *)
(***************************************************************************)
Code == [Syn |-> 1, SynAck |-> 2, Fin |-> 3, Push |-> 16, Ack |-> 17,
         Ping |-> 18, PathChallenge |-> 19, PathResponse |-> 20]

from_u8(octet) ==
  IF \E c \in DOMAIN Code : Code[c] = octet
  THEN CHOOSE c \in DOMAIN Code : Code[c] = octet
  ELSE None

is_long_header(command) == command \in {"Syn", "SynAck"}

(***************************************************************************)
(* Integers as octets.  put writes the low octets of value; get reads.     *)
(***************************************************************************)
put(value, width) ==
  [i \in 1..width |-> IF width - i > 3 THEN 0
                      ELSE (value \div 256^(width - i)) % 256]

get(octets, from, width) ==
  FoldLeft(LAMBDA v, octet : v * 256 + octet, 0,
           SubSeq(octets, from, from + width - 1))

Rest(octets, n) == SubSeq(octets, n + 1, Len(octets))

(***************************************************************************)
(* Headers.  The sizes leave out the command octet in front of them.       *)
(***************************************************************************)
ShortSize == 4 + 2 + 2 + 4 + 4 + 4
LongSize == 1 + 4 + 4

EncodeShort(h) ==
  put(Code[h.command], 1) \o put(h.cid, 4) \o put(h.length, 2)
    \o put(h.window, 2) \o put(h.timestamp, 4) \o put(h.seq, 4)
    \o put(h.next, 4)

DecodeShort(octets) ==
  [command   |-> from_u8(octets[1]),
   cid       |-> get(octets, 2, 4),
   length    |-> get(octets, 6, 2),
   window    |-> get(octets, 8, 2),
   timestamp |-> get(octets, 10, 4),
   seq       |-> get(octets, 14, 4),
   next      |-> get(octets, 18, 4)]

EncodeLong(h) ==
  put(Code[h.command], 1) \o put(h.version, 1) \o put(h.destination, 4)
    \o put(h.source, 4)

DecodeLong(octets) ==
  [command     |-> from_u8(octets[1]),
   version     |-> get(octets, 2, 1),
   destination |-> get(octets, 3, 4),
   source      |-> get(octets, 7, 4)]

(***************************************************************************)
(* SACK ranges are pairs <<start, end>>.  A trailing piece shorter than a  *)
(* range is ignored.                                                       *)
(***************************************************************************)
SackRangeSize == 8

encode_sack_ranges(ranges) ==
  FoldLeft(LAMBDA buf, r : buf \o put(r[1], 4) \o put(r[2], 4), <<>>, ranges)

decode_sack_ranges(buf) ==
  [i \in 1..(Len(buf) \div SackRangeSize) |->
     <<get(buf, SackRangeSize * (i - 1) + 1, 4),
       get(buf, SackRangeSize * (i - 1) + 5, 4)>>]

(***************************************************************************)
(* Frame constructors.                                                     *)
(***************************************************************************)
ShortHeader(command, cid, length, window, timestamp, seq, next) ==
  [command |-> command, cid |-> cid, length |-> length % 65536,
   window |-> window, timestamp |-> timestamp, seq |-> seq, next |-> next]

new_push(cid, seq, next, window, timestamp, payload) ==
  [header |-> ShortHeader("Push", cid, Len(payload), window, timestamp, seq, next),
   body |-> payload]

new_ack(cid, next, window, ranges, timestamp) ==
  LET payload == encode_sack_ranges(ranges) IN
  [header |-> ShortHeader("Ack", cid, Len(payload), window, timestamp, 0, next),
   body |-> payload]

new_ping(cid, seq, next, window, timestamp) ==
  [header |-> ShortHeader("Ping", cid, 0, window, timestamp, seq, next),
   body |-> <<>>]

new_fin(cid, seq, timestamp, next, window) ==
  [header |-> ShortHeader("Fin", cid, 0, window, timestamp, seq, next),
   body |-> <<>>]

new_syn(version, source, destination) ==
  [header |-> [command |-> "Syn", version |-> version,
               destination |-> destination, source |-> source],
   body |-> <<>>]

new_syn_ack(version, source, destination) ==
  [header |-> [command |-> "SynAck", version |-> version,
               destination |-> destination, source |-> source],
   body |-> <<>>]

new_path_challenge(cid, seq, timestamp, data) ==
  [header |-> ShortHeader("PathChallenge", cid, 8, 0, timestamp, seq, 0),
   body |-> <<data>>]

new_path_response(cid, seq, timestamp, data) ==
  [header |-> ShortHeader("PathResponse", cid, 8, 0, timestamp, seq, 0),
   body |-> <<data>>]

(***************************************************************************)
(* What a frame answers about itself.                                      *)
(***************************************************************************)
command(f) == f.header.command
HasPayload(c) == c \in {"Push", "Ack"}
IsPath(c) == c \in {"PathChallenge", "PathResponse"}

NoNumber == -1
sequence_number(f) == IF is_long_header(command(f)) THEN NoNumber ELSE f.header.seq

encoded_size(f) ==
  1 + (IF is_long_header(command(f)) THEN LongSize ELSE ShortSize)
    + (IF HasPayload(command(f)) THEN Len(f.body)
       ELSE IF IsPath(command(f)) THEN 8 ELSE 0)

\* The frames that may be sent again; ACK and PING have no frame type.
frame_type(f) == IF command(f) \in {"Ack", "Ping"} THEN None ELSE command(f)

\* Which retransmission layer keeps a frame (layered is the configuration's
\* enable_layered_retransmission).
reliability_mode_with_config(f, layered) ==
  IF command(f) \in {"Ack", "Ping"} THEN "BestEffort"
  ELSE IF command(f) = "Push" \/ ~layered THEN "Reliable"
  ELSE "SimpleRetransmit"

(***************************************************************************)
(* One frame as octets, and back.  decode gives <<frame, octets left>>, or *)
(* <<>> where the code gives None.                                         *)
(***************************************************************************)
encode(f) ==
  IF is_long_header(command(f)) THEN EncodeLong(f.header)
  ELSE EncodeShort(f.header)
         \o (IF IsPath(command(f)) THEN put(f.body[1], 8) ELSE f.body)

DecodeLongFrame(octets) ==
  IF Len(octets) < 1 + LongSize THEN <<>>
  ELSE << [header |-> DecodeLong(octets), body |-> <<>>],
          Rest(octets, 1 + LongSize) >>

\* Mutant: the length of the payload is not compared with what is left.
MutantDecodeShortFrame(octets) ==
  LET h    == DecodeShort(octets)
      left == Rest(octets, 1 + ShortSize)
  IN IF Len(octets) < 1 + ShortSize THEN <<>>
     ELSE
     CASE HasPayload(h.command) ->
            << [header |-> h, body |-> SubSeq(left, 1, IF Len(left) < h.length
                                                       THEN Len(left) ELSE h.length)],
               Rest(left, h.length) >>
       [] IsPath(h.command) ->
            IF Len(left) < 8 THEN <<>>
            ELSE << [header |-> h, body |-> <<get(left, 1, 8)>>], Rest(left, 8) >>
       [] OTHER -> << [header |-> h, body |-> <<>>], left >>

DecodeShortFrame(octets) ==
  LET h    == DecodeShort(octets)
      left == Rest(octets, 1 + ShortSize)
  IN IF Len(octets) < 1 + ShortSize \/ Len(left) < h.length THEN <<>>
     ELSE
     CASE HasPayload(h.command) ->
            << [header |-> h, body |-> SubSeq(left, 1, h.length)],
               Rest(left, h.length) >>
       [] IsPath(h.command) ->
            IF Len(left) < 8 THEN <<>>
            ELSE << [header |-> h, body |-> <<get(left, 1, 8)>>], Rest(left, 8) >>
       [] OTHER -> << [header |-> h, body |-> <<>>], left >>

decode(octets) ==
  IF octets = <<>> THEN <<>>
  ELSE LET c == from_u8(octets[1]) IN
       CASE c = None          -> <<>>
         [] is_long_header(c) -> DecodeLongFrame(octets)
         [] OTHER             -> DecodeShortFrame(octets)

(***************************************************************************)
(* The frames whose fields fit the widths they are written in.             *)
(***************************************************************************)
Word == {n \in Nat : n <= 2147483647}
Half == {n \in Nat : n <= 65535}
Octet == {n \in Nat : n <= 255}

LongFrame ==
  [header : [command : {"Syn", "SynAck"}, version : Octet, destination : Word,
             source : Word],
   body : {<<>>}]

ShortFrame ==
  [header : [command : {"Fin", "Push", "Ack", "Ping", "PathChallenge", "PathResponse"},
             cid : Word, length : Half, window : Half, timestamp : Word, seq : Word,
             next : Word],
   body : Seq(Nat)]

Encodable(f) ==
  \/ f \in LongFrame
  \/ /\ f \in ShortFrame
     /\ IF HasPayload(command(f)) THEN f.header.length = Len(f.body)
        ELSE IF IsPath(command(f))
             THEN f.header.length = 8 /\ Len(f.body) = 1 /\ f.body[1] \in Word
             ELSE f.header.length = 0 /\ f.body = <<>>

\* Number and payload are the two fields that nothing bounds where a frame is
\* made: u32 wraps, and the length of the payload is cut to u16.
InRange(f) ==
  is_long_header(command(f)) \/ (f.header.seq \in Word /\ Len(f.body) \in Half)

(***************************************************************************)
(* A datagram is the frames of a batch one after the other.  The reader    *)
(* takes frames until the octets end or do not decode.                     *)
(***************************************************************************)
serialize_frames(frames) ==
  FoldLeft(LAMBDA buffer, f : buffer \o encode(f), <<>>, frames)

deserialize_frames(octets) ==
  LET from[n \in 0..Len(octets)] ==
        LET first == decode(Rest(octets, n)) IN
        IF first = <<>> THEN <<>>
        ELSE <<first[1]>> \o from[Len(octets) - Len(first[2])]
  IN from[0]
=============================================================================
