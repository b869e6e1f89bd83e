----------------------------- MODULE Connection -----------------------------
(***************************************************************************)
(* Two endpoints of one established connection, and the datagram network   *)
(* between them.  Each endpoint is the task of                             *)
(* src/core/endpoint/core/event_loop.rs: it waits in a select for a frame, *)
(* a command of its user's Stream or a timeout, drains what else is ready  *)
(* on the same channel, and then runs the follow-up work of the loop:      *)
(* reassemble, move the lifecycle, packetize, signal EOF, maybe close.     *)
(* Between two frames of one drain nothing is reassembled, so an ACK shows *)
(* the buffer as the drain has left it.                                    *)
(*                                                                         *)
(* A unit of user data is the k-th write of the user, worth one PUSH.      *)
(* Frames and acknowledgements in transit are sets: they are received in   *)
(* any order, never, or (if Duplicating) more than once.                   *)
(***************************************************************************)
EXTENDS ReceiveBuffer, Retransmission, Integers

CONSTANTS
  Peer,             (* the two endpoints                                 *)
  SendCapacity,     (* send buffer capacity, in units                    *)
  InitialWindow,    (* the peer window assumed before the first ACK      *)
  MinCwnd, MaxCwnd, (* range in which congestion control moves           *)
  MaxWrites,        (* bound: writes of each user                        *)
  MaxSeq,           (* bound: sequence numbers of each endpoint          *)
  MaxLosses,        (* bound: datagrams the network loses explicitly     *)
  LossyKinds,       (* which datagrams it may lose                       *)
  Duplicating,      (* may a datagram be received twice?                 *)
  Closers,          (* the users that may close their stream             *)
  Droppers,         (* the users that may drop their stream              *)
  IdleTimers        (* the endpoints whose idle timer may fire           *)

ASSUME PeerAssumption ==
  /\ Peer # {}
  /\ \A p \in Peer : \E q \in Peer : q # p /\ Peer = {p, q}
ASSUME BoundsAssumption ==
  /\ SendCapacity \in Nat
  /\ InitialWindow \in Nat
  /\ MinCwnd \in Nat /\ MaxCwnd \in Nat
  /\ MinCwnd <= MaxCwnd
  /\ MaxWrites \in [Peer -> Nat]
  /\ MaxSeq \in Nat
  /\ MaxLosses \in Nat
  /\ LossyKinds \subseteq {"frame", "ack"}
  /\ Duplicating \in BOOLEAN
  /\ Closers \subseteq Peer
  /\ Droppers \subseteq Peer
  /\ IdleTimers \subseteq Peer

VARIABLES
  state,             (* lifecycle state of the endpoint                  *)
  loop,              (* where its event loop is: select, or what it drains *)
  stream_buffer,     (* units accepted from the user, not yet numbered   *)
  in_flight,         (* SackManager's book                               *)
  in_flight_simple,  (* SimpleRetransmissionManager's book               *)
  cwnd,              (* congestion window                                *)
  peer_recv_window,  (* window last advertised by the peer               *)
  recv_buffer,       (* ReceiveBuffer                                    *)
  to_stream,         (* units handed to the user's Stream, in order      *)
  stream_open,       (* tx_to_stream is still there (no EOF yet)         *)
  aborted,           (* the loop ended with an error                     *)
  dropped,           (* the user has dropped its Stream                  *)
  user_closed,       (* the user has called shutdown                     *)
  offered,           (* number of writes the user has made               *)
  written,           (* history: the writes the send buffer accepted     *)
  sent,              (* history: what sequence number i-1 was given to   *)
  frames,            (* PUSH and FIN frames in transit                   *)
  acks,              (* ACK frames in transit                            *)
  losses             (* datagrams lost so far                            *)

endpointVars == <<state, loop, stream_buffer, in_flight, in_flight_simple, cwnd,
                  peer_recv_window, recv_buffer, to_stream, stream_open, aborted>>
userVars == <<dropped, user_closed, offered, written, sent>>
netVars == <<frames, acks, losses>>
vars == <<state, loop, stream_buffer, in_flight, in_flight_simple, cwnd,
          peer_recv_window, recv_buffer, to_stream, stream_open, aborted,
          dropped, user_closed, offered, written, sent, frames, acks, losses>>

(* The lifecycle states a connection passes after its handshake.           *)
States == {"Established", "FinWait", "Closing", "ClosingWait", "Closed"}
LoopStates == {"select", "frames", "commands", "timer"}

Other(p) == CHOOSE q \in Peer : q # p

Frame(to, seq, item) == [to |-> to, seq |-> seq, item |-> item]
Min2(a, b) == IF a < b THEN a ELSE b
SaturatingSub(a, b) == IF a > b THEN a - b ELSE 0

(* sequence_number_counter: the next number to give out.                   *)
SequenceNumberCounter(p) == Len(sent[p])

Init ==
  /\ state = [p \in Peer |-> "Established"]
  /\ loop = [p \in Peer |-> "select"]
  /\ stream_buffer = [p \in Peer |-> <<>>]
  /\ in_flight = [p \in Peer |-> EmptyBook]
  /\ in_flight_simple = [p \in Peer |-> EmptyBook]
  /\ cwnd \in [Peer -> MinCwnd..MaxCwnd]
  /\ peer_recv_window = [p \in Peer |-> InitialWindow]
  /\ recv_buffer = [p \in Peer |-> EmptyBuffer]
  /\ to_stream = [p \in Peer |-> <<>>]
  /\ stream_open = [p \in Peer |-> TRUE]
  /\ aborted = [p \in Peer |-> FALSE]
  /\ dropped = [p \in Peer |-> FALSE]
  /\ user_closed = [p \in Peer |-> FALSE]
  /\ offered = [p \in Peer |-> 0]
  /\ written = [p \in Peer |-> <<>>]
  /\ sent = [p \in Peer |-> <<>>]
  /\ frames = {}
  /\ acks = {}
  /\ losses = 0

-----------------------------------------------------------------------------
(* packetize: how many units the windows let out now.  Only SackManager's  *)
(* book counts as in flight.                                               *)
PacketizeCount(p) ==
  LET inFlight == Cardinality(DOMAIN in_flight[p])
      permit == Min2(SaturatingSub(cwnd[p], inFlight),
                     SaturatingSub(peer_recv_window[p], inFlight))
  IN  Min2(permit, Len(stream_buffer[p]))

HasFinInFlight(p) == DOMAIN in_flight_simple[p] # {}

(***************************************************************************)
(* packetize_and_send: number what the windows permit, and in Closing also *)
(* a FIN, unless one is in flight.  The frames enter the books and the     *)
(* network.  Nothing here looks at what is left in the send buffer.        *)
(***************************************************************************)
PacketizeAndSend(p, st) ==
  \E n \in 0..Len(stream_buffer[p]) :
    LET base == SequenceNumberCounter(p)
        fin  == st = "Closing" /\ ~HasFinInFlight(p)
        new  == base..(base + n - 1)
        payload(s) == stream_buffer[p][s - base + 1]
    IN  /\ n = PacketizeCount(p)
        /\ fin => base + n < MaxSeq
        /\ stream_buffer' = [stream_buffer EXCEPT ![p] = SubSeq(@, n + 1, Len(@))]
        /\ sent' = [sent EXCEPT ![p] = @ \o SubSeq(stream_buffer[p], 1, n)
                                         \o (IF fin THEN <<Fin>> ELSE <<>>)]
        /\ in_flight' = [in_flight EXCEPT ![p] =
             [s \in DOMAIN in_flight[p] \cup new |->
                IF s \in new THEN [payload |-> payload(s), fast_retx_count |-> 0]
                             ELSE in_flight[p][s]]]
        /\ in_flight_simple' = [in_flight_simple EXCEPT ![p] =
             IF fin THEN [s \in {base + n} |-> 0] ELSE @]
        /\ frames' = frames \cup {Frame(Other(p), s, payload(s)) : s \in new}
                            \cup (IF fin THEN {Frame(Other(p), base + n, Fin)} ELSE {})

-----------------------------------------------------------------------------
(* Commands of the user.  The loop takes one, drains the others, and then  *)
(* runs its follow-up work.                                                *)

CanTake(p, source) ==
  /\ state[p] # "Closed"
  /\ loop[p] \in {"select", source}

(***************************************************************************)
(* StreamCommand::SendData.  write_to_stream takes what fits; the handler  *)
(* ignores how much that was, and poll_write has already said Ok.          *)
(***************************************************************************)
Write(p) ==
  /\ CanTake(p, "commands")
  /\ ~user_closed[p] /\ ~dropped[p]
  /\ offered[p] < MaxWrites[p]
  /\ offered' = [offered EXCEPT ![p] = @ + 1]
  /\ IF Len(stream_buffer[p]) < SendCapacity
       THEN /\ stream_buffer' = [stream_buffer EXCEPT ![p] = Append(@, offered[p] + 1)]
            /\ written' = [written EXCEPT ![p] = Append(@, offered[p] + 1)]
       ELSE UNCHANGED <<stream_buffer, written>>
  /\ loop' = [loop EXCEPT ![p] = "commands"]
  /\ UNCHANGED <<state, in_flight, in_flight_simple, cwnd, peer_recv_window,
                 recv_buffer, to_stream, stream_open, aborted, dropped,
                 user_closed, sent, netVars>>

(* begin_graceful_shutdown.                                                *)
ShutdownState(st) == IF st \in {"Established", "FinWait"} THEN "Closing" ELSE st

(* StreamCommand::Close: shutdown, then packetize_and_send.                *)
Close(p) ==
  /\ CanTake(p, "commands")
  /\ p \in Closers
  /\ ~user_closed[p] /\ ~dropped[p]
  /\ user_closed' = [user_closed EXCEPT ![p] = TRUE]
  /\ state' = [state EXCEPT ![p] = ShutdownState(@)]
  /\ PacketizeAndSend(p, ShutdownState(state[p]))
  /\ loop' = [loop EXCEPT ![p] = "commands"]
  /\ UNCHANGED <<cwnd, peer_recv_window, recv_buffer, to_stream, stream_open,
                 aborted, dropped, offered, written, acks, losses>>

(* The user drops its Stream without closing it.  No command is sent; the  *)
(* endpoint finds out when it next hands over data.                        *)
DropStream(p) ==
  /\ p \in Droppers
  /\ ~dropped[p]
  /\ dropped' = [dropped EXCEPT ![p] = TRUE]
  /\ UNCHANGED <<endpointVars, user_closed, offered, written, sent, netVars>>

-----------------------------------------------------------------------------
(* Frames from the network.  The loop takes one and drains the others.     *)

Remaining(msgs, m) == IF Duplicating THEN msgs ELSE msgs \ {m}

(* send_standalone_ack: the buffer as it is after the frame was received.  *)
Ack(to, rb) == [to     |-> to,
                next   |-> rb.next_sequence,
                sack   |-> SackSet(rb),
                window |-> WindowSize(rb)]

(* receive_data_and_maybe_ack and receive_fin_and_ack: what is not new is  *)
(* dropped without an acknowledgement.                                     *)
ReceiveAndAck(p, m) ==
  LET rb == Receive(recv_buffer[p], m.seq, m.item)
  IN  IF Accepts(recv_buffer[p], m.seq)
        THEN /\ recv_buffer' = [recv_buffer EXCEPT ![p] = rb]
             /\ acks' = acks \cup {Ack(Other(p), rb)}
        ELSE UNCHANGED <<recv_buffer, acks>>

(* A PUSH is received in every state of an established connection.         *)
HandlePush(p, m) ==
  /\ CanTake(p, "frames")
  /\ m.to = p /\ m.item # Fin
  /\ ReceiveAndAck(p, m)
  /\ frames' = Remaining(frames, m)
  /\ loop' = [loop EXCEPT ![p] = "frames"]
  /\ UNCHANGED <<state, stream_buffer, in_flight, in_flight_simple, cwnd,
                 peer_recv_window, to_stream, stream_open, aborted, userVars,
                 losses>>

(* Mutant: Established moves to FinWait when a FIN arrives, in order or not. *)
MutantHandleFin(p, m) ==
  /\ CanTake(p, "frames")
  /\ m.to = p /\ m.item = Fin
  /\ ReceiveAndAck(p, m)
  /\ state' = [state EXCEPT ![p] = IF @ = "Established" THEN "FinWait" ELSE @]
  /\ frames' = Remaining(frames, m)
  /\ loop' = [loop EXCEPT ![p] = "frames"]
  /\ UNCHANGED <<stream_buffer, in_flight, in_flight_simple, cwnd,
                 peer_recv_window, to_stream, stream_open, aborted, userVars,
                 losses>>

(* handle_fin_frame: a FIN moves Closing on at once, before it is          *)
(* reassembled; in ClosingWait it is ignored.                              *)
HandleFin(p, m) ==
  /\ CanTake(p, "frames")
  /\ m.to = p /\ m.item = Fin
  /\ IF state[p] = "ClosingWait"
       THEN UNCHANGED <<recv_buffer, acks>>
       ELSE ReceiveAndAck(p, m)
  /\ state' = [state EXCEPT ![p] =
       IF @ = "Closing" /\ Accepts(recv_buffer[p], m.seq) THEN "ClosingWait" ELSE @]
  /\ frames' = Remaining(frames, m)
  /\ loop' = [loop EXCEPT ![p] = "frames"]
  /\ UNCHANGED <<stream_buffer, in_flight, in_flight_simple, cwnd,
                 peer_recv_window, to_stream, stream_open, aborted, userVars,
                 losses>>

(* Mutant: nothing is sent a second time.                                  *)
MutantResent(p, S) == {}

(* The frames with the sequence numbers S of p's book, sent once more.     *)
Resent(p, S) == {Frame(Other(p), s, in_flight[p][s].payload) : s \in S}

(***************************************************************************)
(* process_ack_common: take over the advertised window, whatever its age;  *)
(* clear the books; resend what was skipped too often.  How far the window *)
(* of congestion control moves is left open.                               *)
(***************************************************************************)
HandleAck(p, a) ==
  LET book == in_flight[p]
      retx == FastRetransmitted(book, a.next, a.sack)
  IN  /\ CanTake(p, "frames")
      /\ a.to = p
      /\ peer_recv_window' = [peer_recv_window EXCEPT ![p] = a.window]
      /\ in_flight' = [in_flight EXCEPT ![p] = ProcessAck(book, a.next, a.sack)]
      /\ in_flight_simple' = [in_flight_simple EXCEPT ![p] =
                                AcknowledgeSimple(@, a.next, a.sack)]
      /\ \E c \in MinCwnd..MaxCwnd :
           /\ StillInFlight(book, a.next, a.sack) = DOMAIN book => c = cwnd[p]
           /\ cwnd' = [cwnd EXCEPT ![p] = c]
      /\ frames' = frames \cup Resent(p, retx)
      /\ acks' = Remaining(acks, a)
      /\ loop' = [loop EXCEPT ![p] = "frames"]
      /\ UNCHANGED <<state, stream_buffer, recv_buffer, to_stream, stream_open,
                     aborted, userVars, losses>>

-----------------------------------------------------------------------------
(***************************************************************************)
(* check_all_timeouts.  The loop wakes up at the latest every 50 ms; due   *)
(* and dueSimple are the entries whose timeout has passed by then, and may *)
(* be empty.  SackManager resends for ever; a FIN that has been retried    *)
(* MaxRetries times is forgotten.  A loss never raises cwnd.               *)
(***************************************************************************)
RetransmissionTimeout(p, due, dueSimple) ==
  LET finRetx == dueSimple \ GivenUp(in_flight_simple[p], dueSimple)
  IN  /\ state[p] # "Closed"
      /\ loop[p] = "select"
      /\ in_flight_simple' = [in_flight_simple EXCEPT ![p] = RetrySimple(@, dueSimple)]
      /\ \E c \in MinCwnd..cwnd[p] :
           /\ due \cup finRetx = {} => c = cwnd[p]
           /\ cwnd' = [cwnd EXCEPT ![p] = c]
      /\ frames' = frames \cup Resent(p, due)
                          \cup {Frame(Other(p), s, Fin) : s \in finRetx}
      /\ loop' = [loop EXCEPT ![p] = "timer"]
      /\ UNCHANGED <<state, stream_buffer, in_flight, peer_recv_window,
                     recv_buffer, to_stream, stream_open, aborted, userVars,
                     acks, losses>>

(* TimeoutEvent::IdleTimeout: force_close, and run() returns an error.     *)
(* The timer is started with the connection and never restarted, so it may *)
(* fire at any moment, whatever has been received.                         *)
IdleTimeout(p) ==
  /\ p \in IdleTimers
  /\ state[p] # "Closed"
  /\ loop[p] = "select"
  /\ state' = [state EXCEPT ![p] = "Closed"]
  /\ aborted' = [aborted EXCEPT ![p] = TRUE]
  /\ stream_open' = [stream_open EXCEPT ![p] = FALSE]
  /\ UNCHANGED <<loop, stream_buffer, in_flight, in_flight_simple, cwnd,
                 peer_recv_window, recv_buffer, to_stream, userVars, netVars>>

-----------------------------------------------------------------------------
(* The state once reassemble has met a FIN.                                *)
AfterFin(st) ==
  CASE st = "Established" -> "FinWait"
    [] st = "Closing"     -> "ClosingWait"
    [] OTHER              -> st

(* Mutant: only the FIN is waited for.                                     *)
MutantShouldClose(p, st) ==
  st \in {"Closing", "ClosingWait"} /\ DOMAIN in_flight_simple'[p] = {}

(* should_close, evaluated on what packetize_and_send has left in flight.  *)
ShouldClose(p, st) ==
  /\ st \in {"Closing", "ClosingWait"}
  /\ DOMAIN in_flight'[p] = {}
  /\ DOMAIN in_flight_simple'[p] = {}

(***************************************************************************)
(* The tail of the loop, after the drain: reassemble, hand the data to the *)
(* user, move the state on a FIN, packetize, signal EOF, perhaps close.    *)
(***************************************************************************)
FollowUp(p) ==
  \E n \in 0..Cardinality(DOMAIN recv_buffer[p].received) :
    LET rb      == recv_buffer[p]
        finSeen == FinSeen(rb, n)
        st      == IF finSeen THEN AfterFin(state[p]) ELSE state[p]
        refused == n > 0 /\ dropped[p]
    IN  /\ state[p] # "Closed"
        /\ loop[p] # "select"
        /\ ContiguousRun(rb, n)
        /\ recv_buffer' = [recv_buffer EXCEPT ![p] = Reassembled(rb, n)]
        /\ to_stream' = [to_stream EXCEPT ![p] =
             IF stream_open[p] /\ ~refused THEN @ \o ReassembledData(rb, n) ELSE @]
        /\ IF st \in {"Established", "FinWait", "Closing"}
             THEN PacketizeAndSend(p, st)
             ELSE UNCHANGED <<stream_buffer, sent, in_flight, in_flight_simple, frames>>
        /\ state' = [state EXCEPT ![p] = IF ShouldClose(p, st) THEN "Closed" ELSE st]
        /\ stream_open' = [stream_open EXCEPT ![p] =
             @ /\ ~refused /\ ~finSeen /\ ~ShouldClose(p, st)]
        /\ loop' = [loop EXCEPT ![p] = "select"]
        /\ UNCHANGED <<cwnd, peer_recv_window, aborted, dropped, user_closed,
                       offered, written, acks, losses>>

-----------------------------------------------------------------------------
(* The network loses a datagram.  (Never delivering one is possible        *)
(* anyway; an explicit loss matters under fairness.)                       *)
LoseFrame(m) ==
  /\ "frame" \in LossyKinds
  /\ losses < MaxLosses
  /\ frames' = frames \ {m}
  /\ losses' = losses + 1
  /\ UNCHANGED <<endpointVars, userVars, acks>>

LoseAck(a) ==
  /\ "ack" \in LossyKinds
  /\ losses < MaxLosses
  /\ acks' = acks \ {a}
  /\ losses' = losses + 1
  /\ UNCHANGED <<endpointVars, userVars, frames>>

Timer(p) ==
  \E due \in SUBSET DOMAIN in_flight[p] :
    \E dueSimple \in SUBSET DOMAIN in_flight_simple[p] :
      RetransmissionTimeout(p, due, dueSimple)

Next ==
  \/ \E p \in Peer : \/ Write(p) \/ Close(p) \/ DropStream(p)
                     \/ Timer(p) \/ IdleTimeout(p) \/ FollowUp(p)
  \/ \E p \in Peer, m \in frames : HandlePush(p, m) \/ HandleFin(p, m)
  \/ \E p \in Peer, a \in acks : HandleAck(p, a)
  \/ \E m \in frames : LoseFrame(m)
  \/ \E a \in acks : LoseAck(a)

Spec == Init /\ [][Next]_vars

-----------------------------------------------------------------------------
(* Safety.  p sends, q == Other(p) receives.                               *)

IsFrame(m) ==
  /\ m = Frame(m.to, m.seq, m.item)
  /\ m.to \in Peer /\ m.seq \in Nat /\ m.item \in Item

IsAck(a) ==
  /\ a = [to |-> a.to, next |-> a.next, sack |-> a.sack, window |-> a.window]
  /\ a.to \in Peer /\ a.next \in Nat /\ a.sack \subseteq Nat /\ a.window \in Nat

IsBook(book) ==
  /\ book = [s \in DOMAIN book |-> book[s]]
  /\ DOMAIN book \subseteq Nat
  /\ \A s \in DOMAIN book : book[s] \in [payload : Payload, fast_retx_count : Nat]

IsSimpleBook(book) ==
  /\ book = [s \in DOMAIN book |-> book[s]]
  /\ DOMAIN book \subseteq Nat
  /\ \A s \in DOMAIN book : book[s] \in 0..MaxRetries

(* Every variable has its type: in particular cwnd stays in its range, a   *)
(* FIN is retried at most MaxRetries times, and only payloads are buffered *)
(* for sending or delivered.                                               *)
TypeOK ==
  /\ state \in [Peer -> States]
  /\ loop \in [Peer -> LoopStates]
  /\ stream_buffer \in [Peer -> Seq(Payload)]
  /\ DOMAIN in_flight = Peer
  /\ DOMAIN in_flight_simple = Peer
  /\ DOMAIN recv_buffer = Peer
  /\ \A p \in Peer : /\ IsBook(in_flight[p])
                     /\ IsSimpleBook(in_flight_simple[p])
                     /\ IsReceiveBuffer(recv_buffer[p])
  /\ cwnd \in [Peer -> MinCwnd..MaxCwnd]
  /\ peer_recv_window \in [Peer -> Nat]
  /\ to_stream \in [Peer -> Seq(Payload)]
  /\ stream_open \in [Peer -> BOOLEAN]
  /\ aborted \in [Peer -> BOOLEAN]
  /\ dropped \in [Peer -> BOOLEAN]
  /\ user_closed \in [Peer -> BOOLEAN]
  /\ offered \in [Peer -> Nat]
  /\ written \in [Peer -> Seq(Payload)]
  /\ sent \in [Peer -> Seq(Item)]
  /\ \A m \in frames : IsFrame(m)
  /\ \A a \in acks : IsAck(a)
  /\ losses \in 0..MaxLosses

(* What the user of q reads is a prefix of what the user of p wrote: no    *)
(* loss, duplication or reordering of frames or acknowledgements shows     *)
(* (receive_push, reassemble, packetize).                                  *)
InOrderDelivery ==
  \A p \in Peer :
    LET d == to_stream[Other(p)]
    IN  /\ Len(d) <= Len(written[p])
        /\ d = SubSeq(written[p], 1, Len(d))

(* Is sequence number s of p's stream past q's reader, or held by q?       *)
Got(q, s) ==
  \/ s < recv_buffer[q].next_sequence
  \/ s \in DOMAIN recv_buffer[q].received
  \/ recv_buffer[q].fin_reached

(* SackManager lets go of a PUSH only when the peer has it: however ACKs   *)
(* are reordered, lost or repeated, what is neither in flight nor received *)
(* does not exist (process_ack).                                           *)
AckedWasReceived ==
  \A p \in Peer : \A s \in 0..(Len(sent[p]) - 1) :
    sent[p][s + 1] # Fin /\ s \notin DOMAIN in_flight[p] => Got(Other(p), s)

(* An endpoint that closes gracefully leaves no PUSH behind that the peer  *)
(* has not received (should_close); one that is aborted may.               *)
ClosedMeansAcked ==
  \A p \in Peer : \A s \in 0..(Len(sent[p]) - 1) :
    state[p] = "Closed" /\ ~aborted[p] /\ sent[p][s + 1] # Fin => Got(Other(p), s)

(* Once a FIN is reassembled, the user who still listens has been given    *)
(* everything the peer numbered before that FIN, and nothing else.         *)
EofIsComplete ==
  \A p \in Peer :
    LET q == Other(p)
        k == recv_buffer[q].next_sequence
    IN  recv_buffer[q].fin_reached =>
          /\ k \in 1..Len(sent[p])
          /\ sent[p][k] = Fin
          /\ ~dropped[q] => to_stream[q] = SubSeq(sent[p], 1, k - 1)

(* FinWait is entered only by an endpoint whose peer has finished, and its *)
(* user then gets EOF in the same turn of the loop.                        *)
FinWaitMeansEof ==
  \A p \in Peer :
    state[p] = "FinWait" => recv_buffer[p].fin_reached /\ ~stream_open[p]

(* The two directions as streams.                                          *)
First == CHOOSE p \in Peer : TRUE
Second == Other(First)
Forth == INSTANCE ByteStream WITH Unit <- Payload,
  written <- written[First], delivered <- to_stream[Second], eof <- ~stream_open[Second]
Back == INSTANCE ByteStream WITH Unit <- Payload,
  written <- written[Second], delivered <- to_stream[First], eof <- ~stream_open[First]

(* Each direction implements ByteStream: a delivered unit is never taken   *)
(* back, what follows it continues the written stream, and nothing is      *)
(* handed to the user after EOF (event_loop::run).                         *)
BothStreams == Forth!BSSpec /\ Back!BSSpec

-----------------------------------------------------------------------------
(***************************************************************************)
(* The inductive invariant behind the safety properties.  sent is the      *)
(* witness: every copy of a sequence number, wherever it is, carries what  *)
(* that number was given to.                                               *)
(***************************************************************************)
Numbered(p, s, item) == s < Len(sent[p]) /\ sent[p][s + 1] = item

GenuineFrames == \A m \in frames : Numbered(Other(m.to), m.seq, m.item)

GenuineBooks ==
  \A p \in Peer :
    /\ \A s \in DOMAIN in_flight[p] : Numbered(p, s, in_flight[p][s].payload)
    /\ \A s \in DOMAIN in_flight_simple[p] : Numbered(p, s, Fin)

GenuineBuffers ==
  \A p \in Peer : \A s \in DOMAIN recv_buffer[Other(p)].received :
    Numbered(p, s, recv_buffer[Other(p)].received[s])

(* An ACK on its way never claims more than its sender has by now.         *)
GenuineAcks ==
  \A a \in acks :
    /\ a.next <= recv_buffer[Other(a.to)].next_sequence
    /\ \A s \in a.sack : Got(Other(a.to), s)

(* The first n sequence numbers of p went to PUSH frames.                  *)
FinFree(p, n) == \A i \in 1..n : sent[p][i] # Fin

(* Up to the first FIN, numbers follow the writes; what is not numbered    *)
(* yet is the rest of them.                                                *)
NumberedInOrder ==
  \A p \in Peer :
    /\ \A i \in 1..Len(sent[p]) :
         FinFree(p, i) => i <= Len(written[p]) /\ sent[p][i] = written[p][i]
    /\ FinFree(p, Len(sent[p])) =>
         /\ Len(written[p]) = Len(sent[p]) + Len(stream_buffer[p])
         /\ \A i \in 1..Len(stream_buffer[p]) :
              stream_buffer[p][i] = written[p][Len(sent[p]) + i]

(* The number of payloads that reassemble has taken from the buffer of q.  *)
Popped(q) == IF recv_buffer[q].fin_reached
               THEN recv_buffer[q].next_sequence - 1
               ELSE recv_buffer[q].next_sequence

DeliveredInOrder ==
  \A p \in Peer :
    LET q  == Other(p)
        rb == recv_buffer[q]
    IN  /\ rb.next_sequence <= Len(sent[p])
        /\ rb.fin_reached => rb.next_sequence >= 1 /\ sent[p][rb.next_sequence] = Fin
        /\ FinFree(p, Popped(q))
        /\ Len(to_stream[q]) <= Popped(q)
        /\ \A i \in 1..Len(to_stream[q]) : to_stream[q][i] = sent[p][i]
        /\ stream_open[q] \/ (rb.fin_reached /\ ~dropped[q])
             => Len(to_stream[q]) = Popped(q)

(* Why a user may have lost its side of the channel.                       *)
OpenUntilEnd ==
  \A p \in Peer : \/ stream_open[p] \/ recv_buffer[p].fin_reached
                 \/ dropped[p] \/ state[p] = "Closed"

ClosedIsEmpty ==
  \A p \in Peer : state[p] = "Closed" /\ ~aborted[p] => DOMAIN in_flight[p] = {}

(* Everything the proofs need beyond the types (event_loop::run keeps it). *)
IInv ==
  /\ GenuineFrames /\ GenuineBooks /\ GenuineBuffers /\ GenuineAcks
  /\ NumberedInOrder /\ DeliveredInOrder /\ OpenUntilEnd
  /\ AckedWasReceived /\ ClosedIsEmpty /\ FinWaitMeansEof

-----------------------------------------------------------------------------
(***************************************************************************)
(* Fairness.  A loop that has taken an event finishes its turn.  Whatever  *)
(* stays in flight is eventually past its timeout when the loop wakes up,  *)
(* and the fallback wakeup comes every 50 ms.  A frame that reaches the    *)
(* socket is eventually taken from the endpoint's channel: the network     *)
(* loses at most MaxLosses datagrams.  Strong fairness is needed because   *)
(* an endpoint in the middle of a turn takes nothing.  Nothing is assumed  *)
(* of the users, of losses, and of the idle timer.                         *)
(***************************************************************************)
AllDue(p) ==
  /\ DOMAIN in_flight[p] \cup DOMAIN in_flight_simple[p] # {}
  /\ RetransmissionTimeout(p, DOMAIN in_flight[p], DOMAIN in_flight_simple[p])

HandleFrame(p, s) ==
  \E m \in frames : m.seq = s /\ (HandlePush(p, m) \/ HandleFin(p, m))

HandleAnyAck(p) == \E a \in acks : HandleAck(p, a)

Fairness ==
  \A p \in Peer :
    /\ WF_vars(FollowUp(p))
    /\ SF_vars(AllDue(p))
    /\ \A s \in 0..(MaxSeq - 1) : SF_vars(HandleFrame(p, s))
    /\ SF_vars(HandleAnyAck(p))

FairSpec == Spec /\ Fairness

(* Every unit the send buffer accepted is eventually handed to the peer's  *)
(* user, unless a connection is aborted.                                   *)
EventuallyDelivered ==
  \A p \in Peer : \A i \in 1..MaxWrites[p] :
    (Len(written[p]) >= i)
      ~> \/ Len(to_stream[Other(p)]) >= i
         \/ aborted[p] \/ aborted[Other(p)]
=============================================================================
