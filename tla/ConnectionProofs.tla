-------------------------- MODULE ConnectionProofs --------------------------
(***************************************************************************)
(* Machine-checked proofs about Connection, for every number of writes,    *)
(* every capacity and every window: type correctness, the inductive        *)
(* invariant IInv, the safety properties that follow from it, and that     *)
(* each direction implements ByteStream.                                   *)
(***************************************************************************)
EXTENDS Connection, FiniteSetTheorems, SequenceTheorems, TLAPS

-----------------------------------------------------------------------------
(* Facts about the operators the model is built from.                      *)

(* A connection has exactly two ends.                                      *)
LEMMA OtherLemma ==
  ASSUME NEW p \in Peer
  PROVE  /\ Other(p) \in Peer
         /\ Other(p) # p
         /\ Other(Other(p)) = p
         /\ \A q \in Peer : q = p \/ q = Other(p)
<1>1. PICK r \in Peer : r # p /\ Peer = {p, r}
  BY PeerAssumption
<1>2. Other(p) = r
  BY <1>1 DEF Other
<1>3. Other(r) = p
  BY <1>1 DEF Other
<1> QED BY <1>1, <1>2, <1>3

(* Receiving an item keeps a buffer a buffer (receive_push, receive_fin).  *)
LEMMA ReceiveType ==
  ASSUME NEW rb, IsReceiveBuffer(rb), NEW seq \in Nat, NEW item \in Item
  PROVE  IsReceiveBuffer(Receive(rb, seq, item))
<1> DEFINE rb2 == Receive(rb, seq, item)
           S   == DOMAIN rb.received \cup {seq}
<1>1. /\ rb2.next_sequence = rb.next_sequence
      /\ rb2.fin_reached = rb.fin_reached
      /\ rb2.received = [s \in S |-> IF s = seq THEN item ELSE rb.received[s]]
      /\ rb2 = [next_sequence |-> rb2.next_sequence, received |-> rb2.received,
                fin_reached |-> rb2.fin_reached]
  BY DEF Receive, IsReceiveBuffer
<1>2. IsFiniteSet(S)
  BY FS_AddElement DEF IsReceiveBuffer
<1>3. DOMAIN rb2.received = S
  BY <1>1
<1>4. \A s \in S : rb2.received[s] \in Item
  BY <1>1 DEF IsReceiveBuffer
<1> HIDE DEF rb2, S
<1>5. S \subseteq Nat
  BY DEF S, IsReceiveBuffer
<1>6. rb2.received = [s \in DOMAIN rb2.received |-> rb2.received[s]]
  BY <1>1
<1>7. IsReceiveBuffer(rb2)
  BY <1>1, <1>2, <1>3, <1>4, <1>5, <1>6 DEF IsReceiveBuffer
<1> QED BY <1>7 DEF rb2

(* The advertised window is a natural number (window_size saturates).      *)
LEMMA WindowSizeType ==
  ASSUME NEW rb, IsReceiveBuffer(rb)
  PROVE  WindowSize(rb) \in Nat
<1>1. Cardinality(DOMAIN rb.received) \in Nat
  BY FS_CardinalityType DEF IsReceiveBuffer
<1> QED BY <1>1, RecvCapacityAssumption DEF WindowSize

(* reassemble keeps a buffer a buffer, and hands out payloads.             *)
LEMMA ReassembledType ==
  ASSUME NEW rb, IsReceiveBuffer(rb), NEW n \in Nat, ContiguousRun(rb, n)
  PROVE  /\ IsReceiveBuffer(Reassembled(rb, n))
         /\ ReassembledData(rb, n) \in Seq(Payload)
         /\ Len(ReassembledData(rb, n)) = n
<1> DEFINE rb2 == Reassembled(rb, n)
           T   == {t \in DOMAIN rb.received : t >= rb.next_sequence + n}
<1>1. IsFiniteSet(T)
  BY FS_Subset DEF IsReceiveBuffer
<1>2. ASSUME FinSeen(rb, n) PROVE IsReceiveBuffer(rb2)
  <2>1. IsFiniteSet({})
    BY FS_EmptySet
  <2>2. /\ rb2 = [next_sequence |-> rb.next_sequence + n + 1,
                  received |-> EmptyMap, fin_reached |-> TRUE]
        /\ DOMAIN EmptyMap = {}
    BY <1>2 DEF Reassembled, EmptyMap
  <2> QED BY <2>1, <2>2 DEF IsReceiveBuffer, EmptyMap
<1>3. ASSUME ~FinSeen(rb, n) PROVE IsReceiveBuffer(rb2)
  <2>1. rb2 = [next_sequence |-> rb.next_sequence + n,
               received |-> [s \in T |-> rb.received[s]],
               fin_reached |-> rb.fin_reached]
    BY <1>3 DEF Reassembled
  <2> QED BY <1>1, <2>1 DEF IsReceiveBuffer
<1>4. \A i \in 1..n : rb.received[rb.next_sequence + i - 1] \in Payload
  <2> SUFFICES ASSUME NEW i \in 1..n
               PROVE  rb.received[rb.next_sequence + i - 1] \in Payload
    OBVIOUS
  <2>1. HoldsPush(rb, rb.next_sequence + (i - 1))
    BY DEF ContiguousRun, IsReceiveBuffer
  <2> QED BY <2>1 DEF HoldsPush, IsReceiveBuffer, Item
<1>5. ReassembledData(rb, n) \in Seq(Payload) /\ Len(ReassembledData(rb, n)) = n
  BY <1>4 DEF ReassembledData
<1> QED BY <1>2, <1>3, <1>5

-----------------------------------------------------------------------------
(* Type correctness.                                                       *)

(* What packetize_and_send does to the variables it changes.               *)
LEMMA PacketizeType ==
  ASSUME TypeOK, NEW p \in Peer, NEW st, PacketizeAndSend(p, st)
  PROVE  /\ stream_buffer' \in [Peer -> Seq(Payload)]
         /\ sent' \in [Peer -> Seq(Item)]
         /\ DOMAIN in_flight' = Peer
         /\ DOMAIN in_flight_simple' = Peer
         /\ \A r \in Peer : /\ IsBook(in_flight'[r])
                            /\ IsSimpleBook(in_flight_simple'[r])
         /\ \A m \in frames' : IsFrame(m)
<1> DEFINE base == Len(sent[p])
           fin  == st = "Closing" /\ ~HasFinInFlight(p)
           buf  == stream_buffer[p]
<1>1. PICK n \in 0..Len(buf) :
        /\ stream_buffer' = [stream_buffer EXCEPT ![p] = SubSeq(@, n + 1, Len(@))]
        /\ sent' = [sent EXCEPT ![p] = @ \o SubSeq(buf, 1, n)
                                         \o (IF fin THEN <<Fin>> ELSE <<>>)]
        /\ in_flight' = [in_flight EXCEPT ![p] =
             [s \in DOMAIN in_flight[p] \cup base..(base + n - 1) |->
                IF s \in base..(base + n - 1)
                  THEN [payload |-> buf[s - base + 1], fast_retx_count |-> 0]
                  ELSE in_flight[p][s]]]
        /\ in_flight_simple' = [in_flight_simple EXCEPT ![p] =
             IF fin THEN [s \in {base + n} |-> 0] ELSE @]
        /\ frames' = frames \cup {Frame(Other(p), s, buf[s - base + 1]) :
                                   s \in base..(base + n - 1)}
                            \cup (IF fin THEN {Frame(Other(p), base + n, Fin)} ELSE {})
  BY DEF PacketizeAndSend, SequenceNumberCounter
<1>2. /\ buf \in Seq(Payload) /\ Len(buf) \in Nat
      /\ sent[p] \in Seq(Item) /\ base \in Nat
      /\ \A i \in 1..Len(buf) : buf[i] \in Payload
  BY DEF TypeOK
<1>3. \A s \in base..(base + n - 1) : s \in Nat /\ buf[s - base + 1] \in Payload
  <2> HIDE DEF base, buf
  <2> SUFFICES ASSUME NEW s \in base..(base + n - 1)
               PROVE  s \in Nat /\ buf[s - base + 1] \in Payload
    OBVIOUS
  <2>1. s \in Nat /\ s - base + 1 \in 1..Len(buf)
    BY <1>2
  <2> QED BY <1>2, <2>1
<1>4. stream_buffer' \in [Peer -> Seq(Payload)]
  <2>1. SubSeq(buf, n + 1, Len(buf)) \in Seq(Payload)
    <3>1. \A i \in (n + 1)..Len(buf) : buf[i] \in Payload
      BY <1>2
    <3> HIDE DEF buf
    <3> QED BY <1>2, <3>1, SubSeqProperties
  <2> QED BY <1>1, <2>1 DEF TypeOK
<1>5. sent' \in [Peer -> Seq(Item)]
  <2>1. SubSeq(buf, 1, n) \in Seq(Item)
    <3>1. \A i \in 1..n : buf[i] \in Item
      BY <1>2 DEF Item
    <3> QED BY <3>1, SubSeqProperties
  <2>2. (IF fin THEN <<Fin>> ELSE <<>>) \in Seq(Item)
    <3>1. <<Fin>> \in Seq(Item) /\ <<>> \in Seq(Item)
      BY DEF Item
    <3> QED BY <3>1, Zenon
  <2>3. sent[p] \o SubSeq(buf, 1, n) \o (IF fin THEN <<Fin>> ELSE <<>>) \in Seq(Item)
    BY <1>2, <2>1, <2>2, ConcatProperties
  <2> HIDE DEF fin, buf
  <2> QED BY <1>1, <2>3 DEF TypeOK
<1> HIDE DEF base, fin, buf
<1>6. DOMAIN in_flight' = Peer /\ \A r \in Peer : IsBook(in_flight'[r])
  <2> DEFINE new  == base..(base + n - 1)
             book == [s \in DOMAIN in_flight[p] \cup new |->
                        IF s \in new
                          THEN [payload |-> buf[s - base + 1], fast_retx_count |-> 0]
                          ELSE in_flight[p][s]]
  <2>1. IsBook(in_flight[p])
    BY DEF TypeOK
  <2>2. IsBook(book)
    <3>1. \A s \in new : s \in Nat /\ book[s] \in [payload : Payload, fast_retx_count : Nat]
      BY <1>3
    <3>2. \A s \in DOMAIN in_flight[p] \ new :
            s \in Nat /\ book[s] \in [payload : Payload, fast_retx_count : Nat]
      BY <2>1 DEF IsBook
    <3> QED BY <3>1, <3>2 DEF IsBook
  <2>3. in_flight' = [in_flight EXCEPT ![p] = book]
    BY <1>1
  <2> HIDE DEF book
  <2> QED BY <2>2, <2>3 DEF TypeOK
<1>7. DOMAIN in_flight_simple' = Peer /\ \A r \in Peer : IsSimpleBook(in_flight_simple'[r])
  <2>1. IsSimpleBook([s \in {base + n} |-> 0])
    BY <1>2, MaxRetriesAssumption DEF IsSimpleBook
  <2> QED BY <1>1, <2>1 DEF TypeOK
<1>8. \A m \in frames' : IsFrame(m)
  <2>1. \A s \in base..(base + n - 1) : IsFrame(Frame(Other(p), s, buf[s - base + 1]))
    BY <1>3, OtherLemma DEF IsFrame, Frame, Item
  <2>2. IsFrame(Frame(Other(p), base + n, Fin))
    BY <1>2, OtherLemma DEF IsFrame, Frame, Item
  <2> QED BY <1>1, <2>1, <2>2 DEF TypeOK
<1> QED BY <1>4, <1>5, <1>6, <1>7, <1>8

(* Receiving a frame and answering with an ACK keeps both well typed.      *)
LEMMA ReceiveAndAckType ==
  ASSUME TypeOK, NEW p \in Peer, NEW m, IsFrame(m), ReceiveAndAck(p, m)
  PROVE  /\ DOMAIN recv_buffer' = Peer
         /\ \A r \in Peer : IsReceiveBuffer(recv_buffer'[r])
         /\ \A a \in acks' : IsAck(a)
<1> DEFINE rb == Receive(recv_buffer[p], m.seq, m.item)
<1>1. IsReceiveBuffer(rb)
  BY ReceiveType DEF TypeOK, IsFrame
<1>2. IsAck(Ack(Other(p), rb))
  <2>1. /\ WindowSize(rb) \in Nat
        /\ rb.next_sequence \in Nat
        /\ DOMAIN rb.received \subseteq Nat
    BY <1>1, WindowSizeType DEF IsReceiveBuffer
  <2> HIDE DEF rb
  <2> QED BY <2>1, OtherLemma DEF IsAck, Ack, SackSet
<1>3. CASE UNCHANGED <<recv_buffer, acks>>
  BY <1>3 DEF TypeOK
<1>4. CASE /\ recv_buffer' = [recv_buffer EXCEPT ![p] = rb]
           /\ acks' = acks \cup {Ack(Other(p), rb)}
  <2> HIDE DEF rb
  <2> QED BY <1>1, <1>2, <1>4 DEF TypeOK
<1> QED BY <1>3, <1>4 DEF ReceiveAndAck

(* An acknowledgement only removes entries and counts skips (process_ack,  *)
(* acknowledge_up_to).                                                     *)
LEMMA AckType ==
  ASSUME NEW next, NEW sack
  PROVE  /\ \A book : IsBook(book) => IsBook(ProcessAck(book, next, sack))
         /\ \A book : IsSimpleBook(book) => IsSimpleBook(AcknowledgeSimple(book, next, sack))
<1>1. ASSUME NEW book, IsBook(book)
      PROVE  IsBook(ProcessAck(book, next, sack))
  <2> DEFINE S  == StillInFlight(book, next, sack)
             b2 == ProcessAck(book, next, sack)
  <2>1. S \subseteq DOMAIN book
    BY DEF StillInFlight
  <2>2. DOMAIN b2 = S /\ b2 = [s \in S |-> b2[s]]
    BY DEF ProcessAck
  <2>3. ASSUME NEW s \in S
        PROVE  b2[s] \in [payload : Payload, fast_retx_count : Nat]
    <3>1. book[s] \in [payload : Payload, fast_retx_count : Nat]
      BY <1>1, <2>1 DEF IsBook
    <3>2. \/ b2[s] = [book[s] EXCEPT !.fast_retx_count = 0]
          \/ b2[s] = [book[s] EXCEPT !.fast_retx_count = @ + 1]
          \/ b2[s] = book[s]
      BY DEF ProcessAck
    <3> HIDE DEF b2, S
    <3> QED BY <3>1, <3>2
  <2> HIDE DEF S, b2
  <2>4. IsBook(b2)
    BY <1>1, <2>1, <2>2, <2>3 DEF IsBook
  <2> QED BY <2>4 DEF b2
<1>2. ASSUME NEW book, IsSimpleBook(book)
      PROVE  IsSimpleBook(AcknowledgeSimple(book, next, sack))
  BY <1>2 DEF IsSimpleBook, AcknowledgeSimple
<1> QED BY <1>1, <1>2

(* A FIN's retry count stays within MaxRetries (check_for_retransmissions).*)
LEMMA RetryType ==
  ASSUME NEW book, IsSimpleBook(book), NEW due \in SUBSET DOMAIN book
  PROVE  IsSimpleBook(RetrySimple(book, due))
BY MaxRetriesAssumption DEF IsSimpleBook, RetrySimple, GivenUp

(* What is sent once more is a well-formed frame.                          *)
LEMMA ResentType ==
  ASSUME TypeOK, NEW p \in Peer, NEW S \in SUBSET DOMAIN in_flight[p]
  PROVE  \A m \in Resent(p, S) : IsFrame(m)
<1> SUFFICES ASSUME NEW s \in S
             PROVE  IsFrame(Frame(Other(p), s, in_flight[p][s].payload))
  BY DEF Resent
<1>1. s \in Nat /\ in_flight[p][s].payload \in Payload
  BY DEF TypeOK, IsBook
<1> QED BY <1>1, OtherLemma DEF IsFrame, Frame, Item

(* Every step keeps the type invariant.                                    *)
LEMMA TypeStep == TypeOK /\ [Next]_vars => TypeOK'
<1> SUFFICES ASSUME TypeOK, [Next]_vars PROVE TypeOK'
  OBVIOUS
<1> USE BoundsAssumption
<1>1. ASSUME NEW p \in Peer, Write(p) PROVE TypeOK'
  <2>1. offered[p] + 1 \in Payload
    BY DEF TypeOK, Payload
  <2>2. Append(stream_buffer[p], offered[p] + 1) \in Seq(Payload)
    BY <2>1 DEF TypeOK
  <2>3. Append(written[p], offered[p] + 1) \in Seq(Payload)
    BY <2>1 DEF TypeOK
  <2>4. /\ offered' \in [Peer -> Nat]
        /\ loop' \in [Peer -> LoopStates]
    <3>1. /\ offered' = [offered EXCEPT ![p] = @ + 1]
          /\ loop' = [loop EXCEPT ![p] = "commands"]
      BY <1>1 DEF Write
    <3> QED BY <3>1 DEF TypeOK, LoopStates
  <2>5. /\ stream_buffer' \in [Peer -> Seq(Payload)]
        /\ written' \in [Peer -> Seq(Payload)]
    <3>1. CASE UNCHANGED <<stream_buffer, written>>
      BY <3>1 DEF TypeOK
    <3>2. CASE /\ stream_buffer' = [stream_buffer EXCEPT ![p] = Append(@, offered[p] + 1)]
               /\ written' = [written EXCEPT ![p] = Append(@, offered[p] + 1)]
      BY <2>2, <2>3, <3>2 DEF TypeOK
    <3> QED BY <1>1, <3>1, <3>2 DEF Write
  <2> QED BY <1>1, <2>4, <2>5 DEF TypeOK, Write, netVars
<1>2. ASSUME NEW p \in Peer, Close(p) PROVE TypeOK'
  <2>1. /\ state' \in [Peer -> States]
        /\ loop' \in [Peer -> LoopStates]
        /\ user_closed' \in [Peer -> BOOLEAN]
    BY <1>2 DEF TypeOK, Close, ShutdownState, States, LoopStates
  <2>2. PacketizeAndSend(p, ShutdownState(state[p]))
    BY <1>2 DEF Close
  <2> QED BY <1>2, <2>1, <2>2, PacketizeType DEF TypeOK, Close
<1>3. ASSUME NEW p \in Peer, DropStream(p) PROVE TypeOK'
  BY <1>3 DEF TypeOK, DropStream, endpointVars, netVars
<1>4. ASSUME NEW p \in Peer, NEW m \in frames, HandlePush(p, m) PROVE TypeOK'
  <2>1. IsFrame(m)
    BY DEF TypeOK
  <2>2. /\ loop' \in [Peer -> LoopStates]
        /\ \A k \in frames' : IsFrame(k)
    BY <1>4 DEF TypeOK, HandlePush, LoopStates, Remaining
  <2>3. ReceiveAndAck(p, m)
    BY <1>4 DEF HandlePush
  <2> QED BY <1>4, <2>1, <2>2, <2>3, ReceiveAndAckType DEF TypeOK, HandlePush, userVars
<1>5. ASSUME NEW p \in Peer, NEW m \in frames, HandleFin(p, m) PROVE TypeOK'
  <2>1. IsFrame(m)
    BY DEF TypeOK
  <2>2. /\ loop' \in [Peer -> LoopStates]
        /\ state' \in [Peer -> States]
        /\ \A k \in frames' : IsFrame(k)
    BY <1>5 DEF TypeOK, HandleFin, LoopStates, States, Remaining
  <2>3. /\ DOMAIN recv_buffer' = Peer
        /\ \A r \in Peer : IsReceiveBuffer(recv_buffer'[r])
        /\ \A a \in acks' : IsAck(a)
    <3>1. CASE ReceiveAndAck(p, m)
      BY <2>1, <3>1, ReceiveAndAckType
    <3>2. CASE UNCHANGED <<recv_buffer, acks>>
      BY <3>2 DEF TypeOK
    <3> QED BY <1>5, <3>1, <3>2 DEF HandleFin
  <2> QED BY <1>5, <2>2, <2>3 DEF TypeOK, HandleFin, userVars
<1>6. ASSUME NEW p \in Peer, NEW a \in acks, HandleAck(p, a) PROVE TypeOK'
  <2>1. IsAck(a)
    BY DEF TypeOK
  <2>2. FastRetransmitted(in_flight[p], a.next, a.sack) \in SUBSET DOMAIN in_flight[p]
    BY DEF FastRetransmitted, Skipped, StillInFlight
  <2>3. \A m \in Resent(p, FastRetransmitted(in_flight[p], a.next, a.sack)) : IsFrame(m)
    BY <2>2, ResentType
  <2>4. /\ IsBook(ProcessAck(in_flight[p], a.next, a.sack))
        /\ IsSimpleBook(AcknowledgeSimple(in_flight_simple[p], a.next, a.sack))
    BY AckType DEF TypeOK
  <2>5. /\ DOMAIN in_flight' = Peer
        /\ DOMAIN in_flight_simple' = Peer
        /\ \A r \in Peer : IsBook(in_flight'[r]) /\ IsSimpleBook(in_flight_simple'[r])
    BY <1>6, <2>4 DEF TypeOK, HandleAck
  <2>6. /\ loop' \in [Peer -> LoopStates]
        /\ peer_recv_window' \in [Peer -> Nat]
        /\ cwnd' \in [Peer -> MinCwnd..MaxCwnd]
    BY <1>6, <2>1 DEF TypeOK, HandleAck, LoopStates, IsAck
  <2>7. (\A m \in frames' : IsFrame(m)) /\ (\A k \in acks' : IsAck(k))
    BY <1>6, <2>3 DEF TypeOK, HandleAck, Remaining
  <2> QED BY <1>6, <2>5, <2>6, <2>7 DEF TypeOK, HandleAck, userVars
<1>7. ASSUME NEW p \in Peer, Timer(p) PROVE TypeOK'
  <2>1. PICK due \in SUBSET DOMAIN in_flight[p],
             dueSimple \in SUBSET DOMAIN in_flight_simple[p] :
               RetransmissionTimeout(p, due, dueSimple)
    BY <1>7 DEF Timer
  <2>2. IsSimpleBook(RetrySimple(in_flight_simple[p], dueSimple))
    BY RetryType DEF TypeOK
  <2>3. /\ DOMAIN in_flight_simple' = Peer
        /\ \A r \in Peer : IsSimpleBook(in_flight_simple'[r])
    BY <2>1, <2>2 DEF TypeOK, RetransmissionTimeout
  <2>4. loop' \in [Peer -> LoopStates]
    BY <2>1 DEF TypeOK, RetransmissionTimeout, LoopStates
  <2>5. cwnd' \in [Peer -> MinCwnd..MaxCwnd]
    BY <2>1 DEF TypeOK, RetransmissionTimeout
  <2>6. \A m \in frames' : IsFrame(m)
    <3>1. \A m \in Resent(p, due) : IsFrame(m)
      BY ResentType
    <3>2. \A s \in dueSimple : IsFrame(Frame(Other(p), s, Fin))
      BY OtherLemma DEF TypeOK, IsSimpleBook, IsFrame, Frame, Item
    <3> QED BY <2>1, <3>1, <3>2 DEF TypeOK, RetransmissionTimeout
  <2> QED BY <2>1, <2>3, <2>4, <2>5, <2>6 DEF TypeOK, RetransmissionTimeout, userVars
<1>8. ASSUME NEW p \in Peer, IdleTimeout(p) PROVE TypeOK'
  BY <1>8 DEF TypeOK, IdleTimeout, States, userVars, netVars
<1>9. ASSUME NEW p \in Peer, FollowUp(p) PROVE TypeOK'
  <2> DEFINE rb == recv_buffer[p]
             st(n) == IF FinSeen(rb, n) THEN AfterFin(state[p]) ELSE state[p]
             refused(n) == n > 0 /\ dropped[p]
  <2>1. PICK n \in 0..Cardinality(DOMAIN rb.received) :
          /\ ContiguousRun(rb, n)
          /\ recv_buffer' = [recv_buffer EXCEPT ![p] = Reassembled(rb, n)]
          /\ to_stream' = [to_stream EXCEPT ![p] =
               IF stream_open[p] /\ ~refused(n) THEN @ \o ReassembledData(rb, n) ELSE @]
          /\ IF st(n) \in {"Established", "FinWait", "Closing"}
               THEN PacketizeAndSend(p, st(n))
               ELSE UNCHANGED <<stream_buffer, sent, in_flight, in_flight_simple, frames>>
          /\ state' = [state EXCEPT ![p] =
               IF ShouldClose(p, st(n)) THEN "Closed" ELSE st(n)]
          /\ stream_open' = [stream_open EXCEPT ![p] =
               @ /\ ~refused(n) /\ ~FinSeen(rb, n) /\ ~ShouldClose(p, st(n))]
          /\ loop' = [loop EXCEPT ![p] = "select"]
          /\ UNCHANGED <<cwnd, peer_recv_window, aborted, dropped, user_closed,
                         offered, written, acks, losses>>
    BY <1>9 DEF FollowUp
  <2>2. n \in Nat /\ IsReceiveBuffer(rb)
    BY FS_CardinalityType DEF TypeOK, IsReceiveBuffer
  <2>3. /\ IsReceiveBuffer(Reassembled(rb, n))
        /\ ReassembledData(rb, n) \in Seq(Payload)
    BY <2>1, <2>2, ReassembledType
  <2>4. st(n) \in States
    BY DEF TypeOK, AfterFin, States
  <2> HIDE DEF st, refused, rb
  <2>5. /\ DOMAIN recv_buffer' = Peer
        /\ \A r \in Peer : IsReceiveBuffer(recv_buffer'[r])
    BY <2>1, <2>3 DEF TypeOK
  <2>6. to_stream' \in [Peer -> Seq(Payload)]
    <3>1. to_stream[p] \o ReassembledData(rb, n) \in Seq(Payload)
      BY <2>3, ConcatProperties DEF TypeOK
    <3> QED BY <2>1, <3>1 DEF TypeOK
  <2>7. state' \in [Peer -> States]
    BY <2>1, <2>4 DEF TypeOK, States
  <2>8. stream_open' \in [Peer -> BOOLEAN] /\ loop' \in [Peer -> LoopStates]
    BY <2>1 DEF TypeOK, LoopStates
  <2>9. /\ stream_buffer' \in [Peer -> Seq(Payload)]
        /\ sent' \in [Peer -> Seq(Item)]
        /\ DOMAIN in_flight' = Peer
        /\ DOMAIN in_flight_simple' = Peer
        /\ \A r \in Peer : IsBook(in_flight'[r]) /\ IsSimpleBook(in_flight_simple'[r])
        /\ \A m \in frames' : IsFrame(m)
    <3>1. CASE PacketizeAndSend(p, st(n))
      BY <3>1, PacketizeType
    <3>2. CASE UNCHANGED <<stream_buffer, sent, in_flight, in_flight_simple, frames>>
      BY <3>2 DEF TypeOK
    <3> QED BY <2>1, <3>1, <3>2
  <2> QED BY <2>1, <2>5, <2>6, <2>7, <2>8, <2>9 DEF TypeOK
<1>10. ASSUME NEW m \in frames, LoseFrame(m) PROVE TypeOK'
  BY <1>10 DEF TypeOK, LoseFrame, endpointVars, userVars
<1>11. ASSUME NEW a \in acks, LoseAck(a) PROVE TypeOK'
  BY <1>11 DEF TypeOK, LoseAck, endpointVars, userVars
<1>12. CASE UNCHANGED vars
  BY <1>12 DEF TypeOK, vars
<1> QED
  BY <1>1, <1>2, <1>3, <1>4, <1>5, <1>6, <1>7, <1>8, <1>9, <1>10, <1>11, <1>12
  DEF Next

(* Init satisfies the type invariant.                                      *)
LEMMA TypeInit == Init => TypeOK
<1> SUFFICES ASSUME Init PROVE TypeOK
  OBVIOUS
<1>1. IsReceiveBuffer(EmptyBuffer)
  BY FS_EmptySet DEF IsReceiveBuffer, EmptyBuffer, EmptyMap
<1>2. IsBook(EmptyBook) /\ IsSimpleBook(EmptyBook)
  BY DEF IsBook, IsSimpleBook, EmptyBook
<1>3. <<>> \in Seq(Payload) /\ <<>> \in Seq(Item)
  OBVIOUS
<1> HIDE DEF EmptyBuffer, EmptyBook
<1> QED BY <1>1, <1>2, <1>3, BoundsAssumption DEF Init, TypeOK, States, LoopStates

(* Type correctness of a connection: the state machine never leaves its    *)
(* types, whatever the network does.                                       *)
THEOREM TypeCorrect == Spec => []TypeOK
BY TypeInit, TypeStep, PTL DEF Spec

(***************************************************************************)
(* IInv is inductive.  There is one lemma per conjunct of IInv, and under  *)
(* it one step per action that can disturb the conjunct.                   *)
(***************************************************************************)
-----------------------------------------------------------------------------
(* What the compound operators do, as facts about single entries.          *)

(* Three sequences in a row, entry by entry.                               *)
LEMMA ConcatOfThree ==
  ASSUME NEW S, NEW a \in Seq(S), NEW b \in Seq(S), NEW c \in Seq(S),
         NEW t, t = (a \o b) \o c
  PROVE  /\ Len(t) = Len(a) + Len(b) + Len(c)
         /\ \A i \in 1..Len(a) : t[i] = a[i]
         /\ \A i \in 1..Len(b) : t[Len(a) + i] = b[i]
         /\ \A i \in 1..Len(c) : t[Len(a) + Len(b) + i] = c[i]
<1> DEFINE ab == a \o b
<1>1. Len(a) \in Nat /\ Len(b) \in Nat /\ Len(c) \in Nat
  OBVIOUS
<1>2. /\ ab \in Seq(S)
      /\ Len(ab) = Len(a) + Len(b)
      /\ \A i \in 1..(Len(a) + Len(b)) : ab[i] =
           IF i <= Len(a) THEN a[i] ELSE b[i - Len(a)]
  BY ConcatProperties
<1> HIDE DEF ab
<1>3. /\ Len(t) = Len(ab) + Len(c)
      /\ \A i \in 1..(Len(ab) + Len(c)) : t[i] =
           IF i <= Len(ab) THEN ab[i] ELSE c[i - Len(ab)]
  BY <1>2, ConcatProperties DEF ab
<1>4. ASSUME NEW i \in 1..Len(a) PROVE t[i] = a[i]
  BY <1>1, <1>2, <1>3
<1>5. ASSUME NEW i \in 1..Len(b) PROVE t[Len(a) + i] = b[i]
  <2>1. /\ Len(a) + i \in 1..(Len(ab) + Len(c))
        /\ Len(a) + i <= Len(ab) /\ ~(Len(a) + i <= Len(a))
        /\ Len(a) + i - Len(a) = i
    BY <1>1, <1>2
  <2> QED BY <1>2, <1>3, <2>1
<1>6. ASSUME NEW i \in 1..Len(c) PROVE t[Len(a) + Len(b) + i] = c[i]
  <2>1. /\ Len(a) + Len(b) + i \in 1..(Len(ab) + Len(c))
        /\ ~(Len(a) + Len(b) + i <= Len(ab))
        /\ Len(a) + Len(b) + i - Len(ab) = i
    BY <1>1, <1>2
  <2> QED BY <1>2, <1>3, <2>1
<1> QED BY <1>1, <1>2, <1>3, <1>4, <1>5, <1>6

(* packetize_and_send numbers the first n buffered units and perhaps a     *)
(* FIN, and leaves all older entries alone.                                *)
Packetized(p, n, fin) ==
  LET base == Len(sent[p])
      buf  == stream_buffer[p]
      new  == base..(base + n - 1)
  IN  /\ \A r \in Peer : r # p => /\ sent'[r] = sent[r]
                                  /\ stream_buffer'[r] = stream_buffer[r]
                                  /\ in_flight'[r] = in_flight[r]
                                  /\ in_flight_simple'[r] = in_flight_simple[r]
      /\ Len(sent'[p]) = base + n + (IF fin THEN 1 ELSE 0)
      /\ \A i \in 1..base : sent'[p][i] = sent[p][i]
      /\ \A i \in 1..n : sent'[p][base + i] = buf[i]
      /\ fin => sent'[p][base + n + 1] = Fin
      /\ Len(stream_buffer'[p]) = Len(buf) - n
      /\ \A i \in 1..(Len(buf) - n) : stream_buffer'[p][i] = buf[n + i]
      /\ DOMAIN in_flight'[p] = DOMAIN in_flight[p] \cup new
      /\ \A s \in new : in_flight'[p][s].payload = buf[s - base + 1]
      /\ \A s \in DOMAIN in_flight[p] \ new : in_flight'[p][s] = in_flight[p][s]
      /\ DOMAIN in_flight_simple'[p] =
           IF fin THEN {base + n} ELSE DOMAIN in_flight_simple[p]
      /\ \A m \in frames' :
           \/ m \in frames
           \/ \E s \in new : m = Frame(Other(p), s, buf[s - base + 1])
           \/ fin /\ m = Frame(Other(p), base + n, Fin)

LEMMA PacketizeEffect ==
  ASSUME TypeOK, NEW p \in Peer, NEW st, PacketizeAndSend(p, st)
  PROVE  \E n \in 0..Len(stream_buffer[p]), fin \in BOOLEAN : Packetized(p, n, fin)
<1> DEFINE base == Len(sent[p])
           buf  == stream_buffer[p]
           fin  == st = "Closing" /\ ~HasFinInFlight(p)
<1>1. PICK n \in 0..Len(buf) :
        /\ stream_buffer' = [stream_buffer EXCEPT ![p] = SubSeq(@, n + 1, Len(@))]
        /\ sent' = [sent EXCEPT ![p] = @ \o SubSeq(buf, 1, n)
                                         \o (IF fin THEN <<Fin>> ELSE <<>>)]
        /\ in_flight' = [in_flight EXCEPT ![p] =
             [s \in DOMAIN in_flight[p] \cup base..(base + n - 1) |->
                IF s \in base..(base + n - 1)
                  THEN [payload |-> buf[s - base + 1], fast_retx_count |-> 0]
                  ELSE in_flight[p][s]]]
        /\ in_flight_simple' = [in_flight_simple EXCEPT ![p] =
             IF fin THEN [s \in {base + n} |-> 0] ELSE @]
        /\ frames' = frames \cup {Frame(Other(p), s, buf[s - base + 1]) :
                                   s \in base..(base + n - 1)}
                            \cup (IF fin THEN {Frame(Other(p), base + n, Fin)} ELSE {})
  BY DEF PacketizeAndSend, SequenceNumberCounter
<1>2. /\ buf \in Seq(Payload) /\ Len(buf) \in Nat
      /\ sent[p] \in Seq(Item) /\ base \in Nat
      /\ DOMAIN sent = Peer /\ DOMAIN stream_buffer = Peer
      /\ DOMAIN in_flight = Peer /\ DOMAIN in_flight_simple = Peer
      /\ \A i \in 1..Len(buf) : buf[i] \in Payload
  BY DEF TypeOK
<1> DEFINE head == SubSeq(buf, 1, n)
           tail == IF fin THEN <<Fin>> ELSE <<>>
<1>3. /\ head \in Seq(Item)
      /\ Len(head) = n
      /\ \A i \in 1..n : head[i] = buf[i]
  <2>1. \A i \in 1..n : buf[i] \in Item
    BY <1>2 DEF Item
  <2> HIDE DEF buf
  <2> QED BY <2>1, <1>2, SubSeqProperties
<1>4. /\ SubSeq(buf, n + 1, Len(buf)) \in Seq(Payload)
      /\ Len(SubSeq(buf, n + 1, Len(buf))) = Len(buf) - n
      /\ \A i \in 1..(Len(buf) - n) : SubSeq(buf, n + 1, Len(buf))[i] = buf[n + i]
  <2>1. \A i \in (n + 1)..Len(buf) : buf[i] \in Payload
    BY <1>2
  <2> HIDE DEF buf
  <2> QED BY <1>2, <2>1, SubSeqProperties
<1>5. /\ tail \in Seq(Item)
      /\ Len(tail) = IF fin THEN 1 ELSE 0
      /\ fin => tail[1] = Fin
  <2>1. <<Fin>> \in Seq(Item) /\ <<>> \in Seq(Item)
    BY DEF Item
  <2>2. Len(<<Fin>>) = 1 /\ <<Fin>>[1] = Fin /\ Len(<<>>) = 0
    OBVIOUS
  <2> HIDE DEF fin
  <2>3. CASE fin
    <3>1. tail = <<Fin>>
      BY <2>3
    <3> HIDE DEF tail
    <3> QED BY <2>1, <2>2, <2>3, <3>1
  <2>4. CASE ~fin
    <3>1. tail = <<>>
      BY <2>4
    <3> HIDE DEF tail
    <3> QED BY <2>1, <2>2, <2>4, <3>1
  <2> QED BY <2>3, <2>4
<1> HIDE DEF head, tail, fin, buf
<1>6. /\ Len(sent'[p]) = base + n + (IF fin THEN 1 ELSE 0)
      /\ \A i \in 1..base : sent'[p][i] = sent[p][i]
      /\ \A i \in 1..n : sent'[p][base + i] = buf[i]
      /\ fin => sent'[p][base + n + 1] = Fin
  <2>1. sent'[p] = (sent[p] \o head) \o tail
    BY <1>1, <1>2 DEF head, tail
  <2>2. /\ Len(sent'[p]) = Len(sent[p]) + Len(head) + Len(tail)
        /\ \A i \in 1..Len(sent[p]) : sent'[p][i] = sent[p][i]
        /\ \A i \in 1..Len(head) : sent'[p][Len(sent[p]) + i] = head[i]
        /\ \A i \in 1..Len(tail) : sent'[p][Len(sent[p]) + Len(head) + i] = tail[i]
    <3> DEFINE old == sent[p]
               snt == sent'[p]
    <3>1. old \in Seq(Item) /\ head \in Seq(Item) /\ tail \in Seq(Item)
      BY <1>2, <1>3, <1>5
    <3>2. snt = (old \o head) \o tail
      BY <2>1
    <3> HIDE DEF old, snt
    <3>3. /\ Len(snt) = Len(old) + Len(head) + Len(tail)
          /\ \A i \in 1..Len(old) : snt[i] = old[i]
          /\ \A i \in 1..Len(head) : snt[Len(old) + i] = head[i]
          /\ \A i \in 1..Len(tail) : snt[Len(old) + Len(head) + i] = tail[i]
      BY <3>1, <3>2, ConcatOfThree
    <3> QED BY <3>3 DEF old, snt
  <2>3. fin => 1 \in 1..Len(tail)
    BY <1>5
  <2> HIDE DEF base
  <2> QED BY <1>2, <1>3, <1>5, <2>2, <2>3 DEF base
<1>7. /\ Len(stream_buffer'[p]) = Len(buf) - n
      /\ \A i \in 1..(Len(buf) - n) : stream_buffer'[p][i] = buf[n + i]
  BY <1>1, <1>2, <1>4 DEF buf
<1>8. /\ DOMAIN in_flight'[p] = DOMAIN in_flight[p] \cup base..(base + n - 1)
      /\ \A s \in base..(base + n - 1) : in_flight'[p][s].payload = buf[s - base + 1]
      /\ \A s \in DOMAIN in_flight[p] \ (base..(base + n - 1)) :
           in_flight'[p][s] = in_flight[p][s]
  <2> HIDE DEF base
  <2> QED BY <1>1, <1>2
<1>9. DOMAIN in_flight_simple'[p] =
        IF fin THEN {base + n} ELSE DOMAIN in_flight_simple[p]
  BY <1>1, <1>2
<1>10. \A m \in frames' :
         \/ m \in frames
         \/ \E s \in base..(base + n - 1) : m = Frame(Other(p), s, buf[s - base + 1])
         \/ fin /\ m = Frame(Other(p), base + n, Fin)
  <2> HIDE DEF base
  <2> QED BY <1>1
<1>11. \A r \in Peer : r # p => /\ sent'[r] = sent[r]
                                /\ stream_buffer'[r] = stream_buffer[r]
                                /\ in_flight'[r] = in_flight[r]
                                /\ in_flight_simple'[r] = in_flight_simple[r]
  BY <1>1, <1>2
<1>12. fin \in BOOLEAN
  BY DEF fin
<1>13. Packetized(p, n, fin)
  BY <1>6, <1>7, <1>8, <1>9, <1>10, <1>11 DEF Packetized, buf
<1> QED BY <1>12, <1>13 DEF buf

(* reassemble, entry by entry.                                             *)
LEMMA ReassembledEffect ==
  ASSUME NEW rb, IsReceiveBuffer(rb), NEW n \in Nat, ContiguousRun(rb, n)
  PROVE  LET rb2 == Reassembled(rb, n)
         IN  /\ rb2.next_sequence = rb.next_sequence + n + (IF FinSeen(rb, n) THEN 1 ELSE 0)
             /\ rb2.fin_reached <=> rb.fin_reached \/ FinSeen(rb, n)
             /\ rb.fin_reached => n = 0
             /\ DOMAIN rb2.received \subseteq DOMAIN rb.received
             /\ \A s \in DOMAIN rb2.received : rb2.received[s] = rb.received[s]
             /\ \A s \in DOMAIN rb.received :
                  \/ s < rb2.next_sequence
                  \/ s \in DOMAIN rb2.received
                  \/ rb2.fin_reached
             /\ \A i \in 1..n : HoldsPush(rb, rb.next_sequence + i - 1)
<1> DEFINE rb2 == Reassembled(rb, n)
<1>1. /\ rb.next_sequence \in Nat /\ rb.fin_reached \in BOOLEAN
      /\ DOMAIN rb.received \subseteq Nat
  BY DEF IsReceiveBuffer
<1>2. rb.fin_reached => n = 0
  BY DEF ContiguousRun
<1>3. \A i \in 1..n : HoldsPush(rb, rb.next_sequence + i - 1)
  <2> SUFFICES ASSUME NEW i \in 1..n PROVE HoldsPush(rb, rb.next_sequence + i - 1)
    OBVIOUS
  <2>1. HoldsPush(rb, rb.next_sequence + (i - 1))
    BY <1>2 DEF ContiguousRun
  <2>2. rb.next_sequence + (i - 1) = rb.next_sequence + i - 1
    BY <1>1
  <2> QED BY <2>1, <2>2
<1>4. ASSUME FinSeen(rb, n)
      PROVE  /\ rb2.next_sequence = rb.next_sequence + n + 1
             /\ rb2.fin_reached = TRUE
             /\ DOMAIN rb2.received = {}
  BY <1>4 DEF Reassembled, EmptyMap
<1>5. ASSUME ~FinSeen(rb, n)
      PROVE  /\ rb2.next_sequence = rb.next_sequence + n
             /\ rb2.fin_reached = rb.fin_reached
             /\ DOMAIN rb2.received = {t \in DOMAIN rb.received : t >= rb.next_sequence + n}
             /\ \A s \in DOMAIN rb2.received : rb2.received[s] = rb.received[s]
  BY <1>5 DEF Reassembled
<1> HIDE DEF rb2
<1>6. CASE FinSeen(rb, n)
  BY <1>1, <1>2, <1>3, <1>4, <1>6 DEF rb2
<1>7. CASE ~FinSeen(rb, n)
  BY <1>1, <1>2, <1>3, <1>5, <1>7 DEF rb2
<1> QED BY <1>6, <1>7

(* A turn of the loop's tail that pops n payloads.                         *)
FollowedUp(p, n) ==
  LET rb == recv_buffer[p]
      refused == n > 0 /\ dropped[p]
      handed == stream_open[p] /\ ~refused
  IN  /\ state[p] # "Closed"
      /\ ContiguousRun(rb, n)
      /\ \A r \in Peer : r # p => /\ recv_buffer'[r] = recv_buffer[r]
                                  /\ to_stream'[r] = to_stream[r]
                                  /\ stream_open'[r] = stream_open[r]
                                  /\ state'[r] = state[r]
      /\ recv_buffer'[p] = Reassembled(rb, n)
      /\ handed => to_stream'[p] = to_stream[p] \o ReassembledData(rb, n)
      /\ ~handed => to_stream'[p] = to_stream[p]
      /\ stream_open'[p] => handed /\ ~FinSeen(rb, n)
      /\ handed => stream_open'[p] \/ FinSeen(rb, n) \/ state'[p] = "Closed"
      /\ state'[p] = "FinWait" => state[p] = "FinWait" \/ FinSeen(rb, n)
      /\ state'[p] = "Closed" => DOMAIN in_flight'[p] = {}
      /\ \/ \E st : PacketizeAndSend(p, st)
         \/ UNCHANGED <<stream_buffer, sent, in_flight, in_flight_simple, frames>>
      /\ UNCHANGED <<aborted, dropped, written, acks>>

LEMMA FollowUpEffect ==
  ASSUME TypeOK, NEW p \in Peer, FollowUp(p)
  PROVE  \E n \in Nat : FollowedUp(p, n)
<1> DEFINE rb == recv_buffer[p]
           st(n) == IF FinSeen(rb, n) THEN AfterFin(state[p]) ELSE state[p]
           refused(n) == n > 0 /\ dropped[p]
<1>1. PICK n \in 0..Cardinality(DOMAIN rb.received) :
        /\ state[p] # "Closed"
        /\ ContiguousRun(rb, n)
        /\ recv_buffer' = [recv_buffer EXCEPT ![p] = Reassembled(rb, n)]
        /\ to_stream' = [to_stream EXCEPT ![p] =
             IF stream_open[p] /\ ~refused(n) THEN @ \o ReassembledData(rb, n) ELSE @]
        /\ IF st(n) \in {"Established", "FinWait", "Closing"}
             THEN PacketizeAndSend(p, st(n))
             ELSE UNCHANGED <<stream_buffer, sent, in_flight, in_flight_simple, frames>>
        /\ state' = [state EXCEPT ![p] =
             IF ShouldClose(p, st(n)) THEN "Closed" ELSE st(n)]
        /\ stream_open' = [stream_open EXCEPT ![p] =
             @ /\ ~refused(n) /\ ~FinSeen(rb, n) /\ ~ShouldClose(p, st(n))]
        /\ UNCHANGED <<aborted, dropped, written, acks>>
  BY DEF FollowUp
<1>2. n \in Nat
  BY FS_CardinalityType DEF TypeOK, IsReceiveBuffer
<1>3. /\ DOMAIN recv_buffer = Peer /\ DOMAIN to_stream = Peer
      /\ DOMAIN state = Peer /\ DOMAIN stream_open = Peer
      /\ stream_open[p] \in BOOLEAN /\ dropped[p] \in BOOLEAN
  BY DEF TypeOK
<1>4. /\ st(n) = "Closed" => FALSE
      /\ st(n) = "FinWait" => state[p] = "FinWait" \/ FinSeen(rb, n)
  BY <1>1 DEF AfterFin, TypeOK, States
<1>5. ShouldClose(p, st(n)) => DOMAIN in_flight'[p] = {}
  BY DEF ShouldClose
<1> HIDE DEF st
<1>6. /\ \A r \in Peer : r # p => /\ recv_buffer'[r] = recv_buffer[r]
                                  /\ to_stream'[r] = to_stream[r]
                                  /\ stream_open'[r] = stream_open[r]
                                  /\ state'[r] = state[r]
      /\ recv_buffer'[p] = Reassembled(rb, n)
      /\ state'[p] = IF ShouldClose(p, st(n)) THEN "Closed" ELSE st(n)
      /\ to_stream'[p] = IF stream_open[p] /\ ~refused(n)
                           THEN to_stream[p] \o ReassembledData(rb, n)
                           ELSE to_stream[p]
      /\ stream_open'[p] = (stream_open[p] /\ ~refused(n) /\ ~FinSeen(rb, n)
                              /\ ~ShouldClose(p, st(n)))
  BY <1>1, <1>3
<1>7. \/ \E x : PacketizeAndSend(p, x)
      \/ UNCHANGED <<stream_buffer, sent, in_flight, in_flight_simple, frames>>
  BY <1>1, Zenon
<1> DEFINE handed == stream_open[p] /\ ~refused(n)
<1>8. /\ handed => to_stream'[p] = to_stream[p] \o ReassembledData(rb, n)
      /\ ~handed => to_stream'[p] = to_stream[p]
  BY <1>6
<1>9. /\ stream_open'[p] => handed /\ ~FinSeen(rb, n)
      /\ handed => stream_open'[p] \/ FinSeen(rb, n) \/ state'[p] = "Closed"
      /\ state'[p] = "FinWait" => state[p] = "FinWait" \/ FinSeen(rb, n)
      /\ state'[p] = "Closed" => DOMAIN in_flight'[p] = {}
  BY <1>4, <1>5, <1>6
<1>10. FollowedUp(p, n)
  BY <1>1, <1>6, <1>7, <1>8, <1>9, Zenon DEF FollowedUp
<1> QED BY <1>2, <1>10

-----------------------------------------------------------------------------
(* Which steps touch which part of the state.                              *)

(* Numbers are given out by packetize_and_send only; writes arrive in      *)
(* Write only.                                                             *)
LEMMA SendSteps ==
  ASSUME TypeOK, [Next]_vars
  PROVE  \/ \E p \in Peer : (\E st : PacketizeAndSend(p, st)) /\ UNCHANGED written
         \/ \E p \in Peer : Write(p)
         \/ UNCHANGED <<sent, stream_buffer, written>>
<1>1. ASSUME NEW p \in Peer, Close(p)
      PROVE  (\E st : PacketizeAndSend(p, st)) /\ UNCHANGED written
  BY <1>1, Zenon DEF Close
<1>2. ASSUME NEW p \in Peer, FollowUp(p)
      PROVE  \/ (\E st : PacketizeAndSend(p, st)) /\ UNCHANGED written
             \/ UNCHANGED <<sent, stream_buffer, written>>
  BY <1>2, FollowUpEffect, Zenon DEF FollowedUp
<1>3. ASSUME NEW p \in Peer,
             \/ DropStream(p) \/ Timer(p) \/ IdleTimeout(p)
             \/ \E m \in frames : HandlePush(p, m) \/ HandleFin(p, m)
             \/ \E a \in acks : HandleAck(p, a)
      PROVE  UNCHANGED <<sent, stream_buffer, written>>
  BY <1>3, Zenon DEF DropStream, Timer, RetransmissionTimeout, IdleTimeout, HandlePush,
     HandleFin, HandleAck, endpointVars, userVars
<1>4. ASSUME \/ \E m \in frames : LoseFrame(m)
             \/ \E a \in acks : LoseAck(a)
             \/ UNCHANGED vars
      PROVE  UNCHANGED <<sent, stream_buffer, written>>
  BY <1>4, Zenon DEF LoseFrame, LoseAck, vars, endpointVars, userVars
<1> QED BY <1>1, <1>2, <1>3, <1>4, Zenon DEF Next

(* A buffer changes when a new frame is received, which is acknowledged,   *)
(* and in the tail of the loop.                                            *)
LEMMA ReceiveSteps ==
  ASSUME TypeOK, [Next]_vars
  PROVE  \/ \E p \in Peer, m \in frames :
              LET rb == Receive(recv_buffer[p], m.seq, m.item)
              IN  /\ m.to = p
                  /\ Accepts(recv_buffer[p], m.seq)
                  /\ recv_buffer' = [recv_buffer EXCEPT ![p] = rb]
                  /\ acks' = acks \cup {Ack(Other(p), rb)}
                  /\ UNCHANGED <<sent, to_stream, stream_open, dropped>>
         \/ \E p \in Peer : FollowUp(p)
         \/ /\ UNCHANGED <<recv_buffer, to_stream>>
            /\ acks' \subseteq acks
            /\ \A p \in Peer : stream_open'[p] => stream_open[p]
            /\ \A p \in Peer : dropped[p] => dropped'[p]
<1>1. ASSUME NEW p \in Peer, NEW m \in frames, HandlePush(p, m) \/ HandleFin(p, m)
      PROVE  \/ LET rb == Receive(recv_buffer[p], m.seq, m.item)
                IN  /\ m.to = p
                    /\ Accepts(recv_buffer[p], m.seq)
                    /\ recv_buffer' = [recv_buffer EXCEPT ![p] = rb]
                    /\ acks' = acks \cup {Ack(Other(p), rb)}
                    /\ UNCHANGED <<sent, to_stream, stream_open, dropped>>
             \/ UNCHANGED <<recv_buffer, to_stream, acks, stream_open, dropped>>
  BY <1>1, Zenon DEF HandlePush, HandleFin, ReceiveAndAck, userVars
<1>2. ASSUME NEW p \in Peer, Write(p) \/ Close(p) \/ Timer(p)
      PROVE  UNCHANGED <<recv_buffer, to_stream, acks, stream_open, dropped>>
  BY <1>2, Zenon DEF Write, Close, Timer, RetransmissionTimeout, userVars, netVars
<1>3. ASSUME NEW p \in Peer, IdleTimeout(p)
      PROVE  /\ UNCHANGED <<recv_buffer, to_stream, acks, dropped>>
             /\ \A r \in Peer : stream_open'[r] => stream_open[r]
  BY <1>3 DEF IdleTimeout, userVars, netVars, TypeOK
<1>4. ASSUME NEW p \in Peer, DropStream(p)
      PROVE  /\ UNCHANGED <<recv_buffer, to_stream, acks, stream_open>>
             /\ \A r \in Peer : dropped[r] => dropped'[r]
  BY <1>4 DEF DropStream, endpointVars, netVars, TypeOK
<1>5. ASSUME NEW p \in Peer, NEW a \in acks, HandleAck(p, a)
      PROVE  UNCHANGED <<recv_buffer, to_stream, stream_open, dropped>> /\ acks' \subseteq acks
  BY <1>5 DEF HandleAck, Remaining, userVars
<1>6. ASSUME \/ \E m \in frames : LoseFrame(m)
             \/ \E a \in acks : LoseAck(a)
             \/ UNCHANGED vars
      PROVE  UNCHANGED <<recv_buffer, to_stream, stream_open, dropped>> /\ acks' \subseteq acks
  BY <1>6 DEF LoseFrame, LoseAck, vars, endpointVars, userVars
<1> QED BY <1>1, <1>2, <1>3, <1>4, <1>5, <1>6, Zenon DEF Next

(* The books grow in packetize_and_send only; otherwise entries leave, by  *)
(* an acknowledgement or when a FIN is given up.                           *)
BooksShrink ==
  /\ UNCHANGED sent
  /\ \A p \in Peer :
       /\ DOMAIN in_flight'[p] \subseteq DOMAIN in_flight[p]
       /\ \A s \in DOMAIN in_flight'[p] : in_flight'[p][s].payload = in_flight[p][s].payload
       /\ DOMAIN in_flight_simple'[p] \subseteq DOMAIN in_flight_simple[p]

(* What is on its way without having been numbered in this step was on its *)
(* way before, or is resent from a book.                                   *)
FramesFromBooks ==
  \A m \in frames' :
    \/ m \in frames
    \/ \E p \in Peer : \E s \in DOMAIN in_flight[p] :
         m = Frame(Other(p), s, in_flight[p][s].payload)
    \/ \E p \in Peer : \E s \in DOMAIN in_flight_simple[p] : m = Frame(Other(p), s, Fin)

LEMMA BookSteps ==
  ASSUME TypeOK, [Next]_vars
  PROVE  \/ \E p \in Peer : \E st : PacketizeAndSend(p, st)
         \/ BooksShrink /\ FramesFromBooks
<1>1. ASSUME NEW p \in Peer, Close(p)
      PROVE  \E st : PacketizeAndSend(p, st)
  BY <1>1, Zenon DEF Close
<1>2. ASSUME UNCHANGED <<sent, in_flight, in_flight_simple>>, frames' \subseteq frames
      PROVE  BooksShrink /\ FramesFromBooks
  BY <1>2 DEF BooksShrink, FramesFromBooks
<1>3. ASSUME NEW p \in Peer, FollowUp(p)
      PROVE  (\E st : PacketizeAndSend(p, st)) \/ (BooksShrink /\ FramesFromBooks)
  <2>1. \/ \E st : PacketizeAndSend(p, st)
        \/ UNCHANGED <<sent, in_flight, in_flight_simple, frames>>
    BY <1>3, FollowUpEffect, Zenon DEF FollowedUp
  <2> QED BY <1>2, <2>1, Zenon
<1>4. ASSUME NEW p \in Peer, Write(p) \/ DropStream(p) \/ IdleTimeout(p)
      PROVE  UNCHANGED <<sent, in_flight, in_flight_simple>> /\ frames' \subseteq frames
  BY <1>4 DEF Write, DropStream, IdleTimeout, endpointVars, userVars, netVars
<1>5. ASSUME NEW p \in Peer, NEW m \in frames, HandlePush(p, m) \/ HandleFin(p, m)
      PROVE  UNCHANGED <<sent, in_flight, in_flight_simple>> /\ frames' \subseteq frames
  BY <1>5 DEF HandlePush, HandleFin, Remaining, userVars
<1>6. ASSUME \/ \E m \in frames : LoseFrame(m)
             \/ \E a \in acks : LoseAck(a)
             \/ UNCHANGED vars
      PROVE  UNCHANGED <<sent, in_flight, in_flight_simple>> /\ frames' \subseteq frames
  BY <1>6 DEF LoseFrame, LoseAck, vars, endpointVars, userVars
<1>7. ASSUME NEW p \in Peer, NEW a \in acks, HandleAck(p, a)
      PROVE  BooksShrink /\ FramesFromBooks
  <2> DEFINE book == in_flight[p]
             S    == StillInFlight(book, a.next, a.sack)
             retx == FastRetransmitted(book, a.next, a.sack)
             b2   == ProcessAck(book, a.next, a.sack)
  <2>1. /\ in_flight' = [in_flight EXCEPT ![p] = b2]
        /\ in_flight_simple' = [in_flight_simple EXCEPT ![p] =
                                  AcknowledgeSimple(@, a.next, a.sack)]
        /\ frames' = frames \cup Resent(p, retx)
        /\ UNCHANGED sent
    BY <1>7 DEF HandleAck, userVars
  <2>2. IsBook(book) /\ DOMAIN in_flight = Peer /\ DOMAIN in_flight_simple = Peer
    BY DEF TypeOK
  <2>3. DOMAIN b2 = S /\ S \subseteq DOMAIN book /\ retx \subseteq DOMAIN book
    BY DEF ProcessAck, StillInFlight, FastRetransmitted, Skipped
  <2>4. \A s \in S : b2[s].payload = book[s].payload
    <3> SUFFICES ASSUME NEW s \in S PROVE b2[s].payload = book[s].payload
      OBVIOUS
    <3>1. book[s] \in [payload : Payload, fast_retx_count : Nat]
      BY <2>2, <2>3 DEF IsBook
    <3>2. \/ b2[s] = [book[s] EXCEPT !.fast_retx_count = 0]
          \/ b2[s] = [book[s] EXCEPT !.fast_retx_count = @ + 1]
          \/ b2[s] = book[s]
      BY DEF ProcessAck
    <3> HIDE DEF b2, S, book
    <3> QED BY <3>1, <3>2
  <2>5. DOMAIN AcknowledgeSimple(in_flight_simple[p], a.next, a.sack)
          \subseteq DOMAIN in_flight_simple[p]
    BY DEF AcknowledgeSimple
  <2>6. \A m \in Resent(p, retx) : \E s \in DOMAIN in_flight[p] :
          m = Frame(Other(p), s, in_flight[p][s].payload)
    <3> HIDE DEF retx
    <3> QED BY <2>3 DEF Resent
  <2> HIDE DEF b2, S, retx
  <2>7. FramesFromBooks
    BY <2>1, <2>6, Zenon DEF FramesFromBooks
  <2>8. BooksShrink
    BY <2>1, <2>2, <2>3, <2>4, <2>5 DEF BooksShrink
  <2> QED BY <2>7, <2>8
<1>8. ASSUME NEW p \in Peer, Timer(p)
      PROVE  BooksShrink /\ FramesFromBooks
  <2>1. PICK due \in SUBSET DOMAIN in_flight[p],
             dueSimple \in SUBSET DOMAIN in_flight_simple[p] :
               RetransmissionTimeout(p, due, dueSimple)
    BY <1>8 DEF Timer
  <2>2. DOMAIN RetrySimple(in_flight_simple[p], dueSimple) \subseteq DOMAIN in_flight_simple[p]
    BY DEF RetrySimple
  <2>3. /\ in_flight_simple' = [in_flight_simple EXCEPT ![p] = RetrySimple(@, dueSimple)]
        /\ frames' = frames \cup Resent(p, due)
             \cup {Frame(Other(p), s, Fin) : s \in dueSimple \ GivenUp(in_flight_simple[p], dueSimple)}
        /\ UNCHANGED <<in_flight, sent>>
    BY <2>1 DEF RetransmissionTimeout, userVars
  <2>4. FramesFromBooks
    BY <2>3 DEF FramesFromBooks, Resent
  <2>5. BooksShrink
    BY <2>2, <2>3 DEF BooksShrink, TypeOK
  <2> QED BY <2>4, <2>5
<1> QED BY <1>1, <1>2, <1>3, <1>4, <1>5, <1>6, <1>7, <1>8, Zenon DEF Next

-----------------------------------------------------------------------------
(* What never goes back.                                                   *)

(* A number keeps what it was given to.                                    *)
LEMMA SentGrows ==
  ASSUME TypeOK, [Next]_vars, NEW p \in Peer
  PROVE  /\ Len(sent[p]) \in Nat /\ Len(sent'[p]) \in Nat
         /\ Len(sent[p]) <= Len(sent'[p])
         /\ \A i \in 1..Len(sent[p]) : sent'[p][i] = sent[p][i]
<1>1. Len(sent[p]) \in Nat
  BY DEF TypeOK
<1>2. Len(sent'[p]) \in Nat
  BY TypeStep DEF TypeOK
<1>3. CASE UNCHANGED sent
  BY <1>1, <1>3
<1>4. ASSUME NEW r \in Peer, NEW st, PacketizeAndSend(r, st)
      PROVE  /\ Len(sent[p]) <= Len(sent'[p])
             /\ \A i \in 1..Len(sent[p]) : sent'[p][i] = sent[p][i]
  <2>1. PICK n \in 0..Len(stream_buffer[r]), fin \in BOOLEAN : Packetized(r, n, fin)
    BY <1>4, PacketizeEffect
  <2>2. Len(stream_buffer[r]) \in Nat
    BY DEF TypeOK
  <2>3. CASE r = p
    <3>1. /\ Len(sent'[r]) = Len(sent[r]) + n + (IF fin THEN 1 ELSE 0)
          /\ \A i \in 1..Len(sent[r]) : sent'[r][i] = sent[r][i]
      BY <2>1, Zenon DEF Packetized
    <3> DEFINE k == Len(sent[r])
               k2 == Len(sent'[r])
    <3>2. k \in Nat /\ n \in Nat
      BY <1>1, <2>2, <2>3
    <3> HIDE DEF k, k2
    <3>3. k2 = k + n \/ k2 = k + n + 1
      <4>1. k2 = k + n + (IF fin THEN 1 ELSE 0)
        BY <3>1 DEF k, k2
      <4>2. CASE fin
        BY <3>2, <4>1, <4>2
      <4>3. CASE ~fin
        BY <3>2, <4>1, <4>3
      <4> QED BY <4>2, <4>3
    <3>4. k <= k2
      BY <3>2, <3>3
    <3> QED BY <2>3, <3>1, <3>4 DEF k, k2
  <2>4. CASE r # p
    <3>1. sent'[p] = sent[p]
      BY <2>1, <2>4 DEF Packetized
    <3> QED BY <1>1, <3>1
  <2> QED BY <2>3, <2>4
<1>5. UNCHANGED sent \/ \E r \in Peer : \E st : PacketizeAndSend(r, st)
  BY BookSteps, Zenon DEF BooksShrink
<1> QED BY <1>1, <1>2, <1>3, <1>4, <1>5

LEMMA NumberedGrows ==
  ASSUME TypeOK, [Next]_vars, NEW p \in Peer, NEW s \in Nat, NEW item, Numbered(p, s, item)
  PROVE  Numbered(p, s, item)'
<1>1. s + 1 \in 1..Len(sent[p]) /\ s < Len(sent'[p])
  BY SentGrows DEF Numbered
<1> QED BY <1>1, SentGrows DEF Numbered

(* What an endpoint has got it keeps, until it is past it.                 *)
LEMMA GotGrows ==
  ASSUME TypeOK, [Next]_vars, NEW q \in Peer
  PROVE  /\ recv_buffer[q].next_sequence <= recv_buffer'[q].next_sequence
         /\ \A s \in Nat : Got(q, s) => Got(q, s)'
<1>1. /\ IsReceiveBuffer(recv_buffer[q])
      /\ recv_buffer[q].next_sequence \in Nat
      /\ DOMAIN recv_buffer = Peer
  BY DEF TypeOK, IsReceiveBuffer
<1>2. CASE UNCHANGED recv_buffer
  BY <1>1, <1>2 DEF Got
<1>3. ASSUME NEW p \in Peer, NEW seq, NEW item,
             recv_buffer' = [recv_buffer EXCEPT ![p] = Receive(recv_buffer[p], seq, item)]
      PROVE  /\ recv_buffer[q].next_sequence <= recv_buffer'[q].next_sequence
             /\ \A s \in Nat : Got(q, s) => Got(q, s)'
  <2>1. CASE q # p
    <3>1. recv_buffer'[q] = recv_buffer[q]
      BY <1>1, <1>3, <2>1
    <3> QED BY <1>1, <3>1 DEF Got
  <2>2. CASE q = p
    <3>1. /\ recv_buffer'[q].next_sequence = recv_buffer[q].next_sequence
          /\ recv_buffer'[q].fin_reached = recv_buffer[q].fin_reached
          /\ DOMAIN recv_buffer'[q].received = DOMAIN recv_buffer[q].received \cup {seq}
      BY <1>1, <1>3, <2>2 DEF Receive, IsReceiveBuffer
    <3> QED BY <1>1, <3>1 DEF Got
  <2> QED BY <2>1, <2>2
<1>4. ASSUME NEW p \in Peer, FollowUp(p)
      PROVE  /\ recv_buffer[q].next_sequence <= recv_buffer'[q].next_sequence
             /\ \A s \in Nat : Got(q, s) => Got(q, s)'
  <2>1. PICK n \in Nat : FollowedUp(p, n)
    BY <1>4, FollowUpEffect
  <2>2. CASE q # p
    <3>1. recv_buffer'[q] = recv_buffer[q]
      BY <2>1, <2>2 DEF FollowedUp
    <3> QED BY <1>1, <3>1 DEF Got
  <2>3. CASE q = p
    <3> DEFINE rb == recv_buffer[q]
               rb2 == recv_buffer'[q]
    <3>1. rb2 = Reassembled(rb, n) /\ ContiguousRun(rb, n)
      BY <2>1, <2>3 DEF FollowedUp
    <3>2. /\ rb2.next_sequence = rb.next_sequence + n + (IF FinSeen(rb, n) THEN 1 ELSE 0)
          /\ rb2.fin_reached <=> rb.fin_reached \/ FinSeen(rb, n)
          /\ \A s \in DOMAIN rb.received :
               \/ s < rb2.next_sequence
               \/ s \in DOMAIN rb2.received
               \/ rb2.fin_reached
      BY <1>1, <3>1, ReassembledEffect
    <3>3. \A s \in Nat : s < rb.next_sequence => s < rb2.next_sequence
      BY <1>1, <3>2
    <3> QED BY <1>1, <3>2, <3>3 DEF Got
  <2> QED BY <2>2, <2>3
<1> QED BY <1>2, <1>3, <1>4, ReceiveSteps, Zenon

-----------------------------------------------------------------------------
(* The conjuncts of IInv, one by one.                                      *)

LEMMA GenuineStep ==
  ASSUME TypeOK, GenuineFrames, GenuineBooks, [Next]_vars
  PROVE  GenuineFrames' /\ GenuineBooks'
<1>1. \A p \in Peer : /\ DOMAIN in_flight[p] \subseteq Nat
                      /\ DOMAIN in_flight_simple[p] \subseteq Nat
  BY DEF TypeOK, IsBook, IsSimpleBook
<1>2. \A m \in frames : m.to \in Peer /\ m.seq \in Nat /\ Other(m.to) \in Peer
  BY OtherLemma DEF TypeOK, IsFrame
<1>3. \A m \in frames : Numbered(Other(m.to), m.seq, m.item)'
  <2> SUFFICES ASSUME NEW m \in frames PROVE Numbered(Other(m.to), m.seq, m.item)'
    OBVIOUS
  <2>1. Numbered(Other(m.to), m.seq, m.item)
    BY DEF GenuineFrames
  <2> DEFINE q == Other(m.to)
             k == m.seq
             x == m.item
  <2>2. q \in Peer /\ k \in Nat /\ Numbered(q, k, x)
    BY <1>2, <2>1
  <2>3. Numbered(q, k, x)'
    BY <2>2, NumberedGrows
  <2> QED BY <2>3
<1>4. \A p \in Peer :
        /\ \A s \in DOMAIN in_flight[p] : Numbered(p, s, in_flight[p][s].payload)
        /\ \A s \in DOMAIN in_flight_simple[p] : Numbered(p, s, Fin)
  BY DEF GenuineBooks
<1>5. ASSUME BooksShrink, FramesFromBooks
      PROVE  GenuineFrames' /\ GenuineBooks'
  <2>1. UNCHANGED sent
    BY <1>5 DEF BooksShrink
  <2>2. GenuineBooks'
    BY <1>4, <1>5, <2>1 DEF GenuineBooks, BooksShrink, Numbered
  <2>3. \A p \in Peer : \A s, x : Numbered(p, s, x) =>
          LET m == Frame(Other(p), s, x) IN Numbered(Other(m.to), m.seq, m.item)'
    BY <2>1, OtherLemma DEF Numbered, Frame
  <2>4. GenuineFrames'
    BY <1>3, <1>4, <1>5, <2>3 DEF GenuineFrames, FramesFromBooks
  <2> QED BY <2>2, <2>4
<1>6. ASSUME NEW p \in Peer, NEW st, PacketizeAndSend(p, st)
      PROVE  GenuineFrames' /\ GenuineBooks'
  <2>1. PICK n \in 0..Len(stream_buffer[p]), fin \in BOOLEAN : Packetized(p, n, fin)
    BY <1>6, PacketizeEffect
  <2> DEFINE base == Len(sent[p])
             buf  == stream_buffer[p]
             new  == base..(base + n - 1)
  <2>2. base \in Nat /\ Len(buf) \in Nat /\ n \in Nat
    BY DEF TypeOK
  <2>3. \A s \in new : s < Len(sent'[p]) /\ sent'[p][s + 1] = buf[s - base + 1]
    <3> SUFFICES ASSUME NEW s \in new
                 PROVE  s < Len(sent'[p]) /\ sent'[p][s + 1] = buf[s - base + 1]
      OBVIOUS
    <3>1. /\ s - base + 1 \in 1..n /\ base + (s - base + 1) = s + 1
          /\ s < base + n
      BY <2>2
    <3>2. sent'[p][base + (s - base + 1)] = buf[s - base + 1]
      BY <2>1, <3>1 DEF Packetized
    <3>3. Len(sent'[p]) = base + n + (IF fin THEN 1 ELSE 0)
      BY <2>1 DEF Packetized
    <3> QED BY <2>2, <3>1, <3>2, <3>3
  <2>4. fin => base + n < Len(sent'[p]) /\ sent'[p][base + n + 1] = Fin
    BY <2>1, <2>2 DEF Packetized
  <2>5. ASSUME NEW m \in frames' PROVE Numbered(Other(m.to), m.seq, m.item)'
    <3>1. CASE m \in frames
      BY <1>3, <3>1
    <3>2. ASSUME NEW s \in new, m = Frame(Other(p), s, buf[s - base + 1])
          PROVE  Numbered(Other(m.to), m.seq, m.item)'
      <4>1. Other(m.to) = p /\ m.seq = s /\ m.item = buf[s - base + 1]
        BY <3>2, OtherLemma DEF Frame
      <4> HIDE DEF new, base, buf
      <4> QED BY <2>3, <4>1 DEF Numbered
    <3>3. ASSUME fin, m = Frame(Other(p), base + n, Fin)
          PROVE  Numbered(Other(m.to), m.seq, m.item)'
      <4>1. Other(m.to) = p /\ m.seq = base + n /\ m.item = Fin
        BY <3>3, OtherLemma DEF Frame
      <4> HIDE DEF base
      <4> QED BY <2>4, <3>3, <4>1 DEF Numbered
    <3> QED BY <2>1, <3>1, <3>2, <3>3 DEF Packetized
  <2>6. ASSUME NEW r \in Peer, NEW s \in DOMAIN in_flight'[r]
        PROVE  Numbered(r, s, in_flight[r][s].payload)'
    <3>1. CASE r # p
      <4>1. in_flight'[r] = in_flight[r]
        BY <2>1, <3>1 DEF Packetized
      <4>2. s \in Nat /\ Numbered(r, s, in_flight[r][s].payload)
        BY <1>1, <1>4, <4>1
      <4> DEFINE x == in_flight[r][s].payload
      <4>3. Numbered(r, s, x)'
        <5> HIDE DEF x
        <5>1. s \in Nat /\ Numbered(r, s, x)
          BY <4>2 DEF x
        <5>2. s < Len(sent'[r]) /\ sent'[r][s + 1] = x
          BY <5>1, SentGrows DEF Numbered
        <5>3. in_flight'[r][s].payload = x
          BY <4>1 DEF x
        <5> QED BY <5>2, <5>3 DEF Numbered, x
      <4> QED BY <4>3
    <3>2. CASE r = p /\ s \in new
      <4>1. in_flight'[p][s].payload = buf[s - base + 1]
        BY <2>1, <3>2 DEF Packetized
      <4> HIDE DEF new, base, buf
      <4> QED BY <2>3, <3>2, <4>1 DEF Numbered
    <3>3. CASE r = p /\ s \notin new
      <4>1. s \in DOMAIN in_flight[p] /\ in_flight'[p][s] = in_flight[p][s]
        BY <2>1, <3>3 DEF Packetized
      <4>2. s \in Nat /\ s < Len(sent[p]) /\ sent[p][s + 1] = in_flight[p][s].payload
        BY <1>1, <1>4, <4>1 DEF Numbered
      <4>3. s < Len(sent'[p]) /\ sent'[p][s + 1] = in_flight[p][s].payload
        BY <4>2, SentGrows
      <4> QED BY <3>3, <4>1, <4>3 DEF Numbered
    <3> QED BY <3>1, <3>2, <3>3
  <2>7. ASSUME NEW r \in Peer, NEW s \in DOMAIN in_flight_simple'[r]
        PROVE  Numbered(r, s, Fin)'
    <3>1. CASE r = p /\ fin
      <4>1. s = base + n
        BY <2>1, <3>1 DEF Packetized
      <4> HIDE DEF base
      <4> QED BY <2>4, <3>1, <4>1 DEF Numbered
    <3>2. CASE ~(r = p /\ fin)
      <4>1. s \in DOMAIN in_flight_simple[r]
        BY <2>1, <3>2 DEF Packetized
      <4>2. s \in Nat /\ s < Len(sent[r]) /\ sent[r][s + 1] = Fin
        BY <1>1, <1>4, <4>1 DEF Numbered
      <4>3. s < Len(sent'[r]) /\ sent'[r][s + 1] = Fin
        BY <4>2, SentGrows
      <4> QED BY <4>3 DEF Numbered
    <3> QED BY <3>1, <3>2
  <2>8. GenuineFrames'
    BY <2>5 DEF GenuineFrames
  <2>9. GenuineBooks'
    BY <2>6, <2>7 DEF GenuineBooks
  <2> QED BY <2>8, <2>9
<1> QED BY <1>5, <1>6, BookSteps, Zenon

LEMMA BuffersStep ==
  ASSUME TypeOK, GenuineFrames, GenuineBuffers, [Next]_vars
  PROVE  GenuineBuffers'
<1> SUFFICES ASSUME NEW p \in Peer, NEW s \in DOMAIN recv_buffer'[Other(p)].received
             PROVE  /\ s < Len(sent'[p])
                    /\ sent'[p][s + 1] = recv_buffer'[Other(p)].received[s]
  BY DEF GenuineBuffers, Numbered
<1> DEFINE q == Other(p)
           rb == recv_buffer[q]
           rb2 == recv_buffer'[q]
<1>1. /\ q \in Peer /\ Other(q) = p
      /\ IsReceiveBuffer(rb) /\ DOMAIN rb.received \subseteq Nat
      /\ DOMAIN recv_buffer = Peer
  BY OtherLemma DEF TypeOK, IsReceiveBuffer
<1>2. ASSUME s \in DOMAIN rb.received, rb2.received[s] = rb.received[s]
      PROVE  s < Len(sent'[p]) /\ sent'[p][s + 1] = rb2.received[s]
  <2>1. s \in Nat /\ s < Len(sent[p]) /\ sent[p][s + 1] = rb.received[s]
    BY <1>1, <1>2 DEF GenuineBuffers, Numbered
  <2> QED BY <1>2, <2>1, SentGrows
<1>3. CASE UNCHANGED recv_buffer
  BY <1>2, <1>3
<1>4. ASSUME NEW r \in Peer, NEW m \in frames, m.to = r,
             recv_buffer' = [recv_buffer EXCEPT ![r] = Receive(recv_buffer[r], m.seq, m.item)],
             UNCHANGED sent
      PROVE  s < Len(sent'[p]) /\ sent'[p][s + 1] = rb2.received[s]
  <2>1. CASE r # q
    <3>1. rb2 = rb
      BY <1>1, <1>4, <2>1
    <3> QED BY <1>2, <3>1
  <2>2. CASE r = q
    <3>1. /\ DOMAIN rb2.received = DOMAIN rb.received \cup {m.seq}
          /\ rb2.received[s] = IF s = m.seq THEN m.item ELSE rb.received[s]
      BY <1>1, <1>4, <2>2 DEF Receive, IsReceiveBuffer
    <3>2. CASE s = m.seq
      <4>1. Numbered(p, m.seq, m.item)
        BY <1>1, <1>4, <2>2 DEF GenuineFrames
      <4> QED BY <1>4, <3>1, <3>2, <4>1 DEF Numbered
    <3>3. CASE s # m.seq
      BY <1>2, <3>1, <3>3
    <3> QED BY <3>2, <3>3
  <2> QED BY <2>1, <2>2
<1>5. ASSUME NEW r \in Peer, FollowUp(r)
      PROVE  s < Len(sent'[p]) /\ sent'[p][s + 1] = rb2.received[s]
  <2>1. PICK n \in Nat : FollowedUp(r, n)
    BY <1>5, FollowUpEffect
  <2>2. CASE r # q
    <3>1. rb2 = rb
      BY <1>1, <2>1, <2>2 DEF FollowedUp
    <3> QED BY <1>2, <3>1
  <2>3. CASE r = q
    <3>1. rb2 = Reassembled(rb, n) /\ ContiguousRun(rb, n)
      BY <2>1, <2>3 DEF FollowedUp
    <3>2. /\ DOMAIN rb2.received \subseteq DOMAIN rb.received
          /\ \A t \in DOMAIN rb2.received : rb2.received[t] = rb.received[t]
      BY <1>1, <3>1, ReassembledEffect
    <3> QED BY <1>2, <3>2
  <2> QED BY <2>2, <2>3
<1> QED BY <1>3, <1>4, <1>5, ReceiveSteps

LEMMA AcksStep ==
  ASSUME TypeOK, GenuineAcks, [Next]_vars
  PROVE  GenuineAcks'
<1>1. ASSUME NEW a \in acks
      PROVE  /\ a.next <= recv_buffer'[Other(a.to)].next_sequence
             /\ \A s \in a.sack : Got(Other(a.to), s)'
  <2> DEFINE q == Other(a.to)
  <2>1. q \in Peer /\ a.next \in Nat /\ a.sack \subseteq Nat
    BY OtherLemma DEF TypeOK, IsAck
  <2>2. a.next <= recv_buffer[q].next_sequence /\ \A s \in a.sack : Got(q, s)
    BY DEF GenuineAcks
  <2>3. recv_buffer[q].next_sequence \in Nat /\ recv_buffer'[q].next_sequence \in Nat
    BY <2>1, TypeStep DEF TypeOK, IsReceiveBuffer
  <2> HIDE DEF q
  <2>4. /\ recv_buffer[q].next_sequence <= recv_buffer'[q].next_sequence
        /\ \A s \in Nat : Got(q, s) => Got(q, s)'
    BY <2>1, GotGrows
  <2>5. a.next <= recv_buffer'[q].next_sequence
    BY <2>1, <2>2, <2>3, <2>4
  <2>6. \A s \in a.sack : Got(q, s)'
    BY <2>1, <2>2, <2>4
  <2> QED BY <2>5, <2>6 DEF q
<1>2. CASE acks' \subseteq acks
  BY <1>1, <1>2 DEF GenuineAcks
<1>3. ASSUME NEW p \in Peer, NEW rb, recv_buffer' = [recv_buffer EXCEPT ![p] = rb],
             acks' = acks \cup {Ack(Other(p), rb)}
      PROVE  GenuineAcks'
  <2> DEFINE a == Ack(Other(p), rb)
  <2>1. recv_buffer'[p] = rb
    BY <1>3 DEF TypeOK
  <2>2. Other(a.to) = p /\ a.next = rb.next_sequence /\ a.sack = DOMAIN rb.received
    BY OtherLemma DEF Ack, SackSet
  <2>3. rb.next_sequence \in Nat
    BY <2>1, TypeStep DEF TypeOK, IsReceiveBuffer
  <2> HIDE DEF a
  <2>4. /\ a.next <= recv_buffer'[Other(a.to)].next_sequence
        /\ \A s \in a.sack : Got(Other(a.to), s)'
    BY <2>1, <2>2, <2>3 DEF Got
  <2> QED BY <1>1, <1>3, <2>4 DEF GenuineAcks, a
<1>4. ASSUME NEW p \in Peer, FollowUp(p)
      PROVE  acks' \subseteq acks
  BY <1>4, FollowUpEffect, Zenon DEF FollowedUp
<1> QED BY <1>2, <1>3, <1>4, ReceiveSteps, Zenon

LEMMA OrderStep ==
  ASSUME TypeOK, NumberedInOrder, [Next]_vars
  PROVE  NumberedInOrder'
<1>1. CASE UNCHANGED <<sent, stream_buffer, written>>
  BY <1>1 DEF NumberedInOrder, FinFree
<1>2. ASSUME NEW p \in Peer, Write(p)
      PROVE  NumberedInOrder'
  <2>1. /\ sent' = sent
        /\ \/ /\ stream_buffer' = [stream_buffer EXCEPT ![p] = Append(@, offered[p] + 1)]
              /\ written' = [written EXCEPT ![p] = Append(@, offered[p] + 1)]
           \/ UNCHANGED <<stream_buffer, written>>
    BY <1>2 DEF Write
  <2>2. CASE UNCHANGED <<stream_buffer, written>>
    BY <2>1, <2>2 DEF NumberedInOrder, FinFree
  <2>3. CASE /\ stream_buffer' = [stream_buffer EXCEPT ![p] = Append(@, offered[p] + 1)]
             /\ written' = [written EXCEPT ![p] = Append(@, offered[p] + 1)]
    <3> SUFFICES ASSUME NEW r \in Peer
                 PROVE  /\ \A i \in 1..Len(sent[r]) :
                             FinFree(r, i) => i <= Len(written'[r]) /\ sent[r][i] = written'[r][i]
                        /\ FinFree(r, Len(sent[r])) =>
                             /\ Len(written'[r]) = Len(sent[r]) + Len(stream_buffer'[r])
                             /\ \A i \in 1..Len(stream_buffer'[r]) :
                                  stream_buffer'[r][i] = written'[r][Len(sent[r]) + i]
      BY <2>1 DEF NumberedInOrder, FinFree
    <3> DEFINE w == written[r]
               b == stream_buffer[r]
               w2 == written'[r]
               b2 == stream_buffer'[r]
               k == Len(sent[r])
    <3>1. /\ \A i \in 1..k : FinFree(r, i) => i <= Len(w) /\ sent[r][i] = w[i]
          /\ FinFree(r, k) => /\ Len(w) = k + Len(b)
                              /\ \A i \in 1..Len(b) : b[i] = w[k + i]
      BY DEF NumberedInOrder
    <3>2. k \in Nat /\ Len(w) \in Nat /\ Len(b) \in Nat
      BY DEF TypeOK
    <3>3. CASE r # p
      <4>1. w2 = w /\ b2 = b
        BY <2>3, <3>3 DEF TypeOK
      <4> QED BY <3>1, <4>1
    <3>4. CASE r = p
      <4>1. /\ Len(w2) = Len(w) + 1 /\ Len(b2) = Len(b) + 1
            /\ \A i \in 1..Len(w) : w2[i] = w[i]
            /\ \A i \in 1..Len(b) : b2[i] = b[i]
            /\ w2[Len(w) + 1] = offered[p] + 1
            /\ b2[Len(b) + 1] = offered[p] + 1
        <5>1. /\ w2 = Append(w, offered[p] + 1) /\ b2 = Append(b, offered[p] + 1)
              /\ w \in Seq(Payload) /\ b \in Seq(Payload)
              /\ offered[p] + 1 \in Payload
          BY <2>3, <3>4 DEF TypeOK, Payload
        <5> HIDE DEF w, b, w2, b2
        <5> QED BY <5>1
      <4> HIDE DEF w, b, w2, b2, k
      <4>2. \A i \in 1..k : FinFree(r, i) => i <= Len(w2) /\ sent[r][i] = w2[i]
        BY <3>1, <3>2, <4>1
      <4>3. ASSUME FinFree(r, k)
            PROVE  Len(w2) = k + Len(b2) /\ \A i \in 1..Len(b2) : b2[i] = w2[k + i]
        <5>1. Len(w) = k + Len(b) /\ \A i \in 1..Len(b) : b[i] = w[k + i]
          BY <3>1, <4>3
        <5>2. Len(w2) = k + Len(b2)
          BY <3>2, <4>1, <5>1
        <5>3. ASSUME NEW i \in 1..Len(b2) PROVE b2[i] = w2[k + i]
          <6>1. CASE i \in 1..Len(b)
            BY <3>2, <4>1, <5>1, <6>1
          <6>2. CASE i = Len(b) + 1
            <7>1. k + i = Len(w) + 1
              BY <3>2, <5>1, <6>2
            <7> QED BY <4>1, <6>2, <7>1
          <6> QED BY <3>2, <4>1, <6>1, <6>2
        <5> QED BY <5>2, <5>3
      <4> QED BY <4>2, <4>3 DEF w2, b2, k
    <3> QED BY <3>3, <3>4
  <2> QED BY <2>1, <2>2, <2>3
<1>3. ASSUME NEW p \in Peer, NEW st, PacketizeAndSend(p, st), UNCHANGED written
      PROVE  NumberedInOrder'
  <2>1. PICK n \in 0..Len(stream_buffer[p]), fin \in BOOLEAN : Packetized(p, n, fin)
    BY <1>3, PacketizeEffect
  <2> SUFFICES ASSUME NEW r \in Peer
               PROVE  /\ \A i \in 1..Len(sent'[r]) : FinFree(r, i)' =>
                           i <= Len(written[r]) /\ sent'[r][i] = written[r][i]
                      /\ FinFree(r, Len(sent[r]))' =>
                           /\ Len(written[r]) = Len(sent'[r]) + Len(stream_buffer'[r])
                           /\ \A i \in 1..Len(stream_buffer'[r]) :
                                stream_buffer'[r][i] = written[r][Len(sent'[r]) + i]
    BY <1>3 DEF NumberedInOrder
  <2> DEFINE w == written[r]
             b == stream_buffer[r]
             b2 == stream_buffer'[r]
             o == sent[r]
             o2 == sent'[r]
             k == Len(o)
  <2>2. /\ \A i \in 1..k : (\A j \in 1..i : o[j] # Fin) => i <= Len(w) /\ o[i] = w[i]
        /\ (\A j \in 1..k : o[j] # Fin) =>
             /\ Len(w) = k + Len(b)
             /\ \A i \in 1..Len(b) : b[i] = w[k + i]
    BY DEF NumberedInOrder, FinFree
  <2>3. k \in Nat /\ Len(w) \in Nat /\ Len(b) \in Nat
    BY DEF TypeOK
  <2>4. CASE r # p
    <3>1. o2 = o /\ b2 = b
      BY <2>1, <2>4 DEF Packetized
    <3> QED BY <2>2, <3>1 DEF FinFree
  <2>5. CASE r = p
    <3>1. /\ Len(o2) = k + n + (IF fin THEN 1 ELSE 0)
          /\ \A i \in 1..k : o2[i] = o[i]
          /\ \A i \in 1..n : o2[k + i] = b[i]
          /\ fin => o2[k + n + 1] = Fin
          /\ Len(b2) = Len(b) - n
          /\ \A i \in 1..(Len(b) - n) : b2[i] = b[n + i]
          /\ n \in 0..Len(b)
      BY <2>1, <2>5 DEF Packetized
    <3> HIDE DEF w, b, b2, o, o2, k
    <3>2. ASSUME NEW i \in 1..Len(o2), \A j \in 1..i : o2[j] # Fin
          PROVE  i <= Len(w) /\ o2[i] = w[i]
      <4>1. CASE i <= k
        <5>1. \A j \in 1..i : o[j] # Fin
          <6>1. i \in Nat /\ \A j \in 1..i : j \in 1..k
            BY <2>3, <3>1, <4>1
          <6> QED BY <3>1, <3>2, <6>1
        <5> QED BY <2>2, <2>3, <3>1, <4>1, <5>1
      <4>2. CASE i > k /\ i <= k + n
        <5>1. \A j \in 1..k : o[j] # Fin
          BY <2>3, <3>1, <3>2, <4>2
        <5>2. i - k \in 1..n /\ k + (i - k) = i /\ i - k \in 1..Len(b)
          BY <2>3, <3>1, <4>2
        <5>3. o2[k + (i - k)] = b[i - k] /\ b[i - k] = w[k + (i - k)]
          BY <2>2, <3>1, <5>1, <5>2
        <5>4. Len(w) = k + Len(b)
          BY <2>2, <5>1
        <5> QED BY <2>3, <3>1, <4>2, <5>2, <5>3, <5>4
      <4>3. CASE i > k + n
        <5>1. fin /\ i = k + n + 1
          BY <2>3, <3>1, <4>3
        <5> QED BY <3>1, <3>2, <5>1
      <4> QED BY <2>3, <3>1, <4>1, <4>2, <4>3
    <3>3. ASSUME \A j \in 1..Len(o2) : o2[j] # Fin
          PROVE  /\ Len(w) = Len(o2) + Len(b2)
                 /\ \A i \in 1..Len(b2) : b2[i] = w[Len(o2) + i]
      <4>1. ~fin
        BY <2>3, <3>1, <3>3
      <4>2. Len(o2) = k + n
        BY <2>3, <3>1, <4>1
      <4>3. \A j \in 1..k : o[j] # Fin
        BY <2>3, <3>1, <3>3, <4>2
      <4>4. Len(w) = k + Len(b) /\ \A i \in 1..Len(b) : b[i] = w[k + i]
        BY <2>2, <4>3
      <4>5. ASSUME NEW i \in 1..Len(b2) PROVE b2[i] = w[Len(o2) + i]
        <5>1. n + i \in 1..Len(b) /\ i \in 1..(Len(b) - n) /\ k + (n + i) = Len(o2) + i
          BY <2>3, <3>1, <4>2
        <5> QED BY <3>1, <4>4, <5>1
      <4>6. Len(w) = Len(o2) + Len(b2)
        BY <2>3, <3>1, <4>2, <4>4
      <4> QED BY <4>5, <4>6
    <3> QED BY <3>2, <3>3 DEF FinFree, w, b2, o2
  <2> QED BY <2>4, <2>5
<1> QED BY <1>1, <1>2, <1>3, SendSteps, Zenon

(***************************************************************************)
(* The conjuncts that relate the two endpoints to each other and to the    *)
(* users, and the safety theorems of the connection.                       *)
(***************************************************************************)
-----------------------------------------------------------------------------
(* DeliveredInOrder of one direction, as a predicate of both states.       *)
Delivered(p) ==
  LET q  == Other(p)
      rb == recv_buffer[q]
  IN  /\ rb.next_sequence <= Len(sent[p])
      /\ rb.fin_reached => rb.next_sequence >= 1 /\ sent[p][rb.next_sequence] = Fin
      /\ FinFree(p, Popped(q))
      /\ Len(to_stream[q]) <= Popped(q)
      /\ \A i \in 1..Len(to_stream[q]) : to_stream[q][i] = sent[p][i]
      /\ stream_open[q] \/ (rb.fin_reached /\ ~dropped[q])
           => Len(to_stream[q]) = Popped(q)

(* Nothing is read: what the sender does in the meantime changes nothing.  *)
LEMMA NothingRead ==
  ASSUME TypeOK, [Next]_vars, NEW p \in Peer, Delivered(p),
         recv_buffer'[Other(p)].next_sequence = recv_buffer[Other(p)].next_sequence,
         recv_buffer'[Other(p)].fin_reached = recv_buffer[Other(p)].fin_reached,
         to_stream'[Other(p)] = to_stream[Other(p)],
         stream_open'[Other(p)] => stream_open[Other(p)],
         dropped[Other(p)] => dropped'[Other(p)]
  PROVE  Delivered(p)'
<1> DEFINE q == Other(p)
           k == recv_buffer[q].next_sequence
           f == recv_buffer[q].fin_reached
           d == to_stream[q]
           o == sent[p]
           o2 == sent'[p]
           pop == IF f THEN k - 1 ELSE k
<1>1. q \in Peer
  BY OtherLemma
<1>2. k \in Nat /\ f \in BOOLEAN /\ Len(d) \in Nat
  <2>1. IsReceiveBuffer(recv_buffer[q]) /\ d \in Seq(Payload)
    BY <1>1 DEF TypeOK
  <2> QED BY <2>1 DEF IsReceiveBuffer
<1>3. /\ Len(o) \in Nat /\ Len(o2) \in Nat /\ Len(o) <= Len(o2)
      /\ \A i \in 1..Len(o) : o2[i] = o[i]
  BY SentGrows
<1>4. /\ k <= Len(o)
      /\ f => k >= 1 /\ o[k] = Fin
      /\ \A i \in 1..pop : o[i] # Fin
      /\ Len(d) <= pop
      /\ \A i \in 1..Len(d) : d[i] = o[i]
      /\ stream_open[q] \/ (f /\ ~dropped[q]) => Len(d) = pop
  BY DEF Delivered, FinFree, Popped
<1> HIDE DEF k, d, o, o2, f
<1>5. pop \in Nat /\ pop <= Len(o)
  BY <1>2, <1>3, <1>4
<1>6. /\ k <= Len(o2)
      /\ f => k >= 1 /\ o2[k] = Fin
  BY <1>2, <1>3, <1>4
<1> HIDE DEF pop
<1>7. /\ \A i \in 1..pop : o2[i] # Fin
      /\ \A i \in 1..Len(d) : d[i] = o2[i]
  BY <1>2, <1>3, <1>4, <1>5
<1>8. stream_open'[q] \/ (f /\ ~dropped'[q]) => Len(d) = pop
  BY <1>4
<1> QED BY <1>4, <1>6, <1>7, <1>8 DEF Delivered, FinFree, Popped, pop, k, d, o2, f

(* reassemble hands over the next payloads of the peer, and no others.     *)
LEMMA SomethingRead ==
  ASSUME TypeOK, GenuineBuffers, OpenUntilEnd, [Next]_vars,
         NEW p \in Peer, Delivered(p), FollowUp(Other(p))
  PROVE  Delivered(p)'
<1> DEFINE q == Other(p)
           rb == recv_buffer[q]
           rb2 == recv_buffer'[q]
           k == rb.next_sequence
           f == rb.fin_reached
           d == to_stream[q]
           d2 == to_stream'[q]
           o == sent[p]
           o2 == sent'[p]
           pop == IF f THEN k - 1 ELSE k
<1>1. q \in Peer
  BY OtherLemma
<1>2. PICK n \in Nat : FollowedUp(q, n)
  BY <1>1, FollowUpEffect
<1> DEFINE handed == stream_open[q] /\ ~(n > 0 /\ dropped[q])
           fs == FinSeen(rb, n)
<1>3. /\ k \in Nat /\ f \in BOOLEAN /\ Len(d) \in Nat /\ d \in Seq(Payload)
      /\ IsReceiveBuffer(rb)
      /\ DOMAIN rb.received \subseteq Nat
      /\ stream_open[q] \in BOOLEAN /\ dropped[q] \in BOOLEAN
  BY <1>1 DEF TypeOK, IsReceiveBuffer
<1>4. /\ Len(o) \in Nat /\ Len(o2) \in Nat /\ Len(o) <= Len(o2)
      /\ \A i \in 1..Len(o) : o2[i] = o[i]
  BY SentGrows
<1>5. /\ k <= Len(o)
      /\ f => k >= 1 /\ o[k] = Fin
      /\ \A i \in 1..pop : o[i] # Fin
      /\ Len(d) <= pop
      /\ \A i \in 1..Len(d) : d[i] = o[i]
      /\ stream_open[q] \/ (f /\ ~dropped[q]) => Len(d) = pop
  BY DEF Delivered, FinFree, Popped
<1>6. /\ ContiguousRun(rb, n) /\ rb2 = Reassembled(rb, n)
      /\ handed => d2 = d \o ReassembledData(rb, n)
      /\ ~handed => d2 = d
      /\ stream_open'[q] => handed /\ ~fs
      /\ state[q] # "Closed"
      /\ dropped'[q] = dropped[q]
  BY <1>2 DEF FollowedUp
<1>7. /\ rb2.next_sequence = k + n + (IF fs THEN 1 ELSE 0)
      /\ rb2.fin_reached <=> f \/ fs
      /\ f => n = 0
      /\ \A i \in 1..n : HoldsPush(rb, k + i - 1)
  BY <1>3, <1>6, ReassembledEffect
<1>8. \A s \in DOMAIN rb.received : s < Len(o) /\ o[s + 1] = rb.received[s]
  BY DEF GenuineBuffers, Numbered
<1>9. fs => ~f /\ k + n \in DOMAIN rb.received /\ rb.received[k + n] = Fin
  BY DEF FinSeen
<1>10. \A i \in 1..n : k + i <= Len(o) /\ o[k + i] # Fin /\ rb.received[k + i - 1] = o[k + i]
  <2> SUFFICES ASSUME NEW i \in 1..n
               PROVE  k + i <= Len(o) /\ o[k + i] # Fin /\ rb.received[k + i - 1] = o[k + i]
    OBVIOUS
  <2>1. k + i - 1 \in DOMAIN rb.received /\ rb.received[k + i - 1] # Fin
    BY <1>7 DEF HoldsPush
  <2>2. k + i - 1 \in Nat /\ k + i - 1 + 1 = k + i
    BY <1>3
  <2> HIDE DEF k, o, rb
  <2>3. k + i - 1 < Len(o) /\ o[k + i - 1 + 1] = rb.received[k + i - 1]
    BY <1>8, <2>1
  <2> QED BY <1>3, <1>4, <2>1, <2>2, <2>3
<1>11. handed => /\ Len(d2) = Len(d) + n
                 /\ \A i \in 1..Len(d) : d2[i] = d[i]
                 /\ \A i \in 1..n : d2[Len(d) + i] = rb.received[k + i - 1]
  <2> DEFINE x == ReassembledData(rb, n)
  <2>1. x \in Seq(Payload) /\ Len(x) = n /\ \A i \in 1..n : x[i] = rb.received[k + i - 1]
    <3>1. \A i \in 1..n : rb.received[k + i - 1] \in Payload
      BY <1>3, <1>7 DEF HoldsPush, IsReceiveBuffer, Item
    <3> QED BY <3>1 DEF ReassembledData
  <2> HIDE DEF x, d, d2, k, rb
  <2>2. /\ Len(d \o x) = Len(d) + Len(x)
        /\ \A i \in 1..(Len(d) + Len(x)) :
             (d \o x)[i] = IF i <= Len(d) THEN d[i] ELSE x[i - Len(d)]
    BY <1>3, <2>1, ConcatProperties
  <2>3. \A i \in 1..Len(d) : (d \o x)[i] = d[i]
    BY <1>3, <2>1, <2>2
  <2>4. ASSUME NEW i \in 1..n PROVE (d \o x)[Len(d) + i] = x[i]
    <3>1. Len(d) + i \in 1..(Len(d) + Len(x)) /\ ~(Len(d) + i <= Len(d)) /\ Len(d) + i - Len(d) = i
      BY <1>3, <2>1
    <3> QED BY <2>2, <3>1
  <2>5. handed => d2 = d \o x
    BY <1>6 DEF x
  <2> QED BY <2>1, <2>2, <2>3, <2>4, <2>5
<1>12. ~f /\ fs => handed \/ dropped[q]
  BY <1>1, <1>6 DEF OpenUntilEnd
<1> DEFINE k2 == rb2.next_sequence
           f2 == rb2.fin_reached
           pop2 == IF f2 THEN k2 - 1 ELSE k2
<1> HIDE DEF k, f, d, d2, o, o2, fs, rb, rb2, k2, f2, handed
<1>13. /\ k2 = IF fs THEN k + n + 1 ELSE k + n
       /\ f2 <=> f \/ fs
  <2>1. k2 = k + n + (IF fs THEN 1 ELSE 0) /\ (f2 <=> f \/ fs)
    BY <1>7 DEF k2, f2
  <2>2. CASE fs
    BY <1>3, <2>1, <2>2
  <2>3. CASE ~fs
    BY <1>3, <2>1, <2>3
  <2> QED BY <2>2, <2>3
<1>14. pop \in Nat /\ pop2 = pop + n /\ (n > 0 => pop = k)
  <2>1. CASE f
    <3>1. ~fs /\ n = 0 /\ k2 = k /\ f2
      BY <1>3, <1>7, <1>9, <1>13, <2>1
    <3> QED BY <1>3, <1>5, <2>1, <3>1
  <2>2. CASE ~f /\ fs
    BY <1>3, <1>13, <2>2
  <2>3. CASE ~f /\ ~fs
    BY <1>3, <1>13, <2>3
  <2> QED BY <2>1, <2>2, <2>3
<1>15. /\ k2 <= Len(o2)
       /\ f2 => k2 >= 1 /\ o2[k2] = Fin
  <2>1. fs => k + n + 1 <= Len(o) /\ o[k + n + 1] = Fin
    BY <1>3, <1>4, <1>8, <1>9
  <2>2. k + n <= Len(o)
    <3>1. CASE n = 0
      BY <1>3, <1>5, <3>1
    <3>2. CASE n > 0
      <4>1. n \in 1..n
        BY <3>2
      <4> QED BY <1>10, <4>1
    <3> QED BY <3>1, <3>2
  <2>3. CASE fs
    BY <1>3, <1>4, <1>13, <2>1, <2>3
  <2>4. CASE ~fs
    <3>1. k2 = k + n /\ (f2 <=> f)
      BY <1>13, <2>4
    <3>2. f => k2 = k
      BY <1>3, <1>7, <3>1
    <3> QED BY <1>3, <1>4, <1>5, <2>2, <3>1, <3>2
  <2> QED BY <2>3, <2>4
<1> HIDE DEF pop, pop2
<1>16. pop <= Len(o)
  BY <1>3, <1>4, <1>5 DEF pop
<1>17. \A i \in 1..pop2 : o2[i] # Fin
  <2> SUFFICES ASSUME NEW i \in 1..pop2 PROVE o2[i] # Fin
    OBVIOUS
  <2>1. CASE i <= pop
    BY <1>4, <1>5, <1>14, <1>16, <2>1
  <2>2. CASE i > pop
    <3>1. n > 0 /\ pop = k /\ i - k \in 1..n /\ k + (i - k) = i
      BY <1>3, <1>14, <2>2
    <3>2. i <= Len(o) /\ o[i] # Fin
      BY <1>10, <3>1
    <3> QED BY <1>4, <1>14, <3>2
  <2> QED BY <1>14, <2>1, <2>2
<1>18. /\ Len(d2) <= pop2
       /\ \A i \in 1..Len(d2) : d2[i] = o2[i]
  <2>1. CASE ~handed
    <3>1. d2 = d
      BY <1>6, <2>1
    <3>2. Len(d2) <= pop2
      BY <1>3, <1>5, <1>14, <3>1
    <3> QED BY <1>3, <1>4, <1>5, <1>14, <1>16, <3>1, <3>2
  <2>2. CASE handed
    <3>1. Len(d) = pop
      BY <1>5, <2>2 DEF handed
    <3>2. Len(d2) = pop2
      BY <1>11, <1>14, <2>2, <3>1
    <3>3. ASSUME NEW i \in 1..Len(d2) PROVE d2[i] = o2[i]
      <4>1. CASE i <= pop
        BY <1>3, <1>4, <1>5, <1>11, <1>14, <1>16, <2>2, <3>1, <4>1
      <4>2. CASE i > pop
        <5>1. n > 0 /\ pop = k /\ i - k \in 1..n /\ k + (i - k) = i
          BY <1>3, <1>14, <3>2, <4>2
        <5>2. d2[k + (i - k)] = rb.received[k + (i - k) - 1]
          BY <1>11, <2>2, <3>1, <5>1
        <5>3. rb.received[k + (i - k) - 1] = o[i] /\ i <= Len(o)
          BY <1>10, <5>1
        <5>4. i \in 1..Len(o)
          BY <1>4, <1>14, <3>2, <5>3
        <5> QED BY <1>4, <5>1, <5>2, <5>3, <5>4
      <4> QED BY <1>14, <3>2, <4>1, <4>2
    <3> QED BY <1>14, <3>2, <3>3
  <2> QED BY <2>1, <2>2
<1>19. stream_open'[q] \/ (f2 /\ ~dropped'[q]) => Len(d2) = pop2
  <2>1. CASE handed
    BY <1>5, <1>11, <1>14, <2>1 DEF handed
  <2>2. CASE ~handed /\ f /\ ~dropped[q]
    <3>1. n = 0 /\ d2 = d /\ Len(d) = pop
      BY <1>5, <1>6, <1>7, <2>2
    <3> QED BY <1>14, <3>1
  <2>3. CASE ~handed /\ ~(f /\ ~dropped[q])
    BY <1>6, <1>12, <1>13, <2>3
  <2> QED BY <2>1, <2>2, <2>3
<1> QED BY <1>15, <1>17, <1>18, <1>19
        DEF Delivered, FinFree, Popped, pop2, k2, f2, d2, o2, rb2

LEMMA DeliverStep ==
  ASSUME TypeOK, GenuineBuffers, DeliveredInOrder, OpenUntilEnd, [Next]_vars
  PROVE  DeliveredInOrder'
<1> SUFFICES ASSUME NEW p \in Peer PROVE Delivered(p)'
  BY DEF DeliveredInOrder, Delivered
<1> DEFINE q == Other(p)
<1>1. Delivered(p) /\ q \in Peer /\ DOMAIN recv_buffer = Peer /\ IsReceiveBuffer(recv_buffer[q])
  BY OtherLemma DEF DeliveredInOrder, Delivered, TypeOK
<1>2. ASSUME NEW r \in Peer, NEW m,
             recv_buffer' = [recv_buffer EXCEPT ![r] = Receive(recv_buffer[r], m.seq, m.item)],
             UNCHANGED <<sent, to_stream, stream_open, dropped>>
      PROVE  Delivered(p)'
  <2>1. /\ recv_buffer'[q].next_sequence = recv_buffer[q].next_sequence
        /\ recv_buffer'[q].fin_reached = recv_buffer[q].fin_reached
    BY <1>1, <1>2 DEF Receive, IsReceiveBuffer
  <2> QED BY <1>1, <1>2, <2>1, NothingRead
<1>3. ASSUME NEW r \in Peer, FollowUp(r)
      PROVE  Delivered(p)'
  <2>1. CASE r = q
    BY <1>1, <1>3, <2>1, SomethingRead
  <2>2. CASE r # q
    <3>1. PICK n \in Nat : FollowedUp(r, n)
      BY <1>3, FollowUpEffect
    <3>2. /\ recv_buffer'[q] = recv_buffer[q] /\ to_stream'[q] = to_stream[q]
          /\ stream_open'[q] = stream_open[q] /\ dropped'[q] = dropped[q]
      BY <1>1, <2>2, <3>1 DEF FollowedUp
    <3> QED BY <1>1, <3>2, NothingRead
  <2> QED BY <2>1, <2>2
<1>4. ASSUME UNCHANGED <<recv_buffer, to_stream>>,
             \A r \in Peer : stream_open'[r] => stream_open[r],
             \A r \in Peer : dropped[r] => dropped'[r]
      PROVE  Delivered(p)'
  BY <1>1, <1>4, NothingRead
<1> QED BY <1>2, <1>3, <1>4, ReceiveSteps, Zenon

-----------------------------------------------------------------------------
(* The lifecycle.                                                          *)

(* A step that is neither p's follow-up work nor p's idle timeout.         *)
Calm(p) ==
  /\ state'[p] = "Closed" <=> state[p] = "Closed"
  /\ state'[p] = "FinWait" => state[p] = "FinWait"
  /\ stream_open'[p] = stream_open[p]
  /\ aborted'[p] = aborted[p]
  /\ dropped[p] => dropped'[p]
  /\ recv_buffer'[p].fin_reached = recv_buffer[p].fin_reached
  /\ state[p] = "Closed" => DOMAIN in_flight'[p] \subseteq DOMAIN in_flight[p]

LEMMA LifeSteps ==
  ASSUME TypeOK, [Next]_vars, NEW p \in Peer
  PROVE  FollowUp(p) \/ IdleTimeout(p) \/ Calm(p)
<1>1. /\ DOMAIN state = Peer /\ DOMAIN stream_open = Peer /\ DOMAIN aborted = Peer
      /\ DOMAIN dropped = Peer /\ DOMAIN in_flight = Peer /\ DOMAIN recv_buffer = Peer
      /\ \A r \in Peer : IsReceiveBuffer(recv_buffer[r])
  BY DEF TypeOK
<1>2. ASSUME NEW r \in Peer, Write(r) \/ DropStream(r) \/ Timer(r)
      PROVE  Calm(p)
  <2>1. UNCHANGED <<state, stream_open, aborted, recv_buffer, in_flight>>
    BY <1>2, Zenon DEF Write, DropStream, Timer, RetransmissionTimeout, endpointVars
  <2>2. dropped[p] => dropped'[p]
    BY <1>1, <1>2 DEF Write, DropStream, Timer, RetransmissionTimeout, userVars
  <2> QED BY <2>1, <2>2 DEF Calm
<1>3. ASSUME NEW r \in Peer, Close(r)
      PROVE  Calm(p)
  <2>1. /\ state[r] # "Closed"
        /\ state' = [state EXCEPT ![r] = ShutdownState(@)]
        /\ PacketizeAndSend(r, ShutdownState(state[r]))
        /\ UNCHANGED <<stream_open, aborted, recv_buffer, dropped>>
    BY <1>3 DEF Close, CanTake
  <2>2. PICK n \in 0..Len(stream_buffer[r]), fin \in BOOLEAN : Packetized(r, n, fin)
    BY <2>1, PacketizeEffect
  <2>3. /\ state'[p] = "Closed" <=> state[p] = "Closed"
        /\ state'[p] = "FinWait" => state[p] = "FinWait"
    BY <1>1, <2>1 DEF ShutdownState
  <2>4. state[p] = "Closed" => in_flight'[p] = in_flight[p]
    BY <2>1, <2>2 DEF Packetized
  <2> QED BY <2>1, <2>3, <2>4 DEF Calm
<1>4. ASSUME NEW r \in Peer, r # p, IdleTimeout(r)
      PROVE  Calm(p)
  BY <1>1, <1>4 DEF IdleTimeout, userVars, Calm
<1>5. ASSUME NEW r \in Peer, r # p, FollowUp(r)
      PROVE  Calm(p)
  <2>1. PICK n \in Nat : FollowedUp(r, n)
    BY <1>5, FollowUpEffect
  <2>2. /\ recv_buffer'[p] = recv_buffer[p] /\ stream_open'[p] = stream_open[p]
        /\ state'[p] = state[p]
        /\ UNCHANGED <<aborted, dropped>>
    BY <1>5, <2>1 DEF FollowedUp
  <2>3. in_flight'[p] = in_flight[p]
    <3>1. CASE UNCHANGED in_flight
      BY <3>1
    <3>2. ASSUME NEW st, PacketizeAndSend(r, st) PROVE in_flight'[p] = in_flight[p]
      <4>1. PICK k \in 0..Len(stream_buffer[r]), fin \in BOOLEAN : Packetized(r, k, fin)
        BY <3>2, PacketizeEffect
      <4> QED BY <1>5, <4>1 DEF Packetized
    <3> QED BY <2>1, <3>1, <3>2, Zenon DEF FollowedUp
  <2> QED BY <2>2, <2>3 DEF Calm
<1>6. ASSUME NEW r \in Peer, NEW m \in frames, HandlePush(r, m) \/ HandleFin(r, m)
      PROVE  Calm(p)
  <2>1. /\ state[r] # "Closed"
        /\ \/ UNCHANGED state
           \/ state' = [state EXCEPT ![r] =
                IF @ = "Closing" /\ Accepts(recv_buffer[r], m.seq) THEN "ClosingWait" ELSE @]
        /\ UNCHANGED <<stream_open, aborted, dropped, in_flight>>
    BY <1>6, Zenon DEF HandlePush, HandleFin, CanTake, userVars
  <2>2. \/ UNCHANGED recv_buffer
        \/ recv_buffer' = [recv_buffer EXCEPT ![r] = Receive(recv_buffer[r], m.seq, m.item)]
    BY <1>6, Zenon DEF HandlePush, HandleFin, ReceiveAndAck
  <2>3. recv_buffer'[p].fin_reached = recv_buffer[p].fin_reached
    BY <1>1, <2>2 DEF Receive, IsReceiveBuffer
  <2>4. /\ state'[p] = "Closed" <=> state[p] = "Closed"
        /\ state'[p] = "FinWait" => state[p] = "FinWait"
    BY <1>1, <2>1
  <2> QED BY <2>1, <2>3, <2>4 DEF Calm
<1>7. ASSUME NEW r \in Peer, NEW a \in acks, HandleAck(r, a)
      PROVE  Calm(p)
  <2>1. /\ state[r] # "Closed"
        /\ UNCHANGED <<state, stream_open, aborted, dropped, recv_buffer>>
        /\ in_flight' = [in_flight EXCEPT ![r] = ProcessAck(in_flight[r], a.next, a.sack)]
    BY <1>7 DEF HandleAck, CanTake, userVars
  <2>2. state[p] = "Closed" => in_flight'[p] = in_flight[p]
    BY <1>1, <2>1
  <2> QED BY <2>1, <2>2 DEF Calm
<1>8. ASSUME \/ \E m \in frames : LoseFrame(m)
             \/ \E a \in acks : LoseAck(a)
             \/ UNCHANGED vars
      PROVE  Calm(p)
  <2>1. UNCHANGED <<state, stream_open, aborted, dropped, recv_buffer, in_flight>>
    BY <1>8, Zenon DEF LoseFrame, LoseAck, vars, endpointVars, userVars
  <2> QED BY <2>1 DEF Calm
<1> QED BY <1>2, <1>3, <1>4, <1>5, <1>6, <1>7, <1>8, Zenon DEF Next

LEMMA LifeStep ==
  ASSUME TypeOK, OpenUntilEnd, FinWaitMeansEof, ClosedIsEmpty, [Next]_vars
  PROVE  OpenUntilEnd' /\ FinWaitMeansEof' /\ ClosedIsEmpty'
<1> SUFFICES ASSUME NEW p \in Peer
             PROVE  /\ \/ stream_open'[p] \/ recv_buffer'[p].fin_reached
                       \/ dropped'[p] \/ state'[p] = "Closed"
                    /\ state'[p] = "FinWait" =>
                         recv_buffer'[p].fin_reached /\ ~stream_open'[p]
                    /\ state'[p] = "Closed" /\ ~aborted'[p] => DOMAIN in_flight'[p] = {}
  BY DEF OpenUntilEnd, FinWaitMeansEof, ClosedIsEmpty
<1>1. /\ stream_open[p] \/ recv_buffer[p].fin_reached \/ dropped[p] \/ state[p] = "Closed"
      /\ state[p] = "FinWait" => recv_buffer[p].fin_reached /\ ~stream_open[p]
      /\ state[p] = "Closed" /\ ~aborted[p] => DOMAIN in_flight[p] = {}
  BY DEF OpenUntilEnd, FinWaitMeansEof, ClosedIsEmpty
<1>2. CASE Calm(p)
  BY <1>1, <1>2 DEF Calm
<1>3. CASE IdleTimeout(p)
  <2>1. state'[p] = "Closed" /\ aborted'[p] = TRUE
    BY <1>3 DEF IdleTimeout, TypeOK
  <2> QED BY <2>1
<1>4. CASE FollowUp(p)
  <2>1. PICK n \in Nat : FollowedUp(p, n)
    BY <1>4, FollowUpEffect
  <2> DEFINE rb == recv_buffer[p]
             handed == stream_open[p] /\ ~(n > 0 /\ dropped[p])
             fs == FinSeen(rb, n)
  <2>2. /\ state[p] # "Closed"
        /\ ContiguousRun(rb, n) /\ recv_buffer'[p] = Reassembled(rb, n)
        /\ stream_open'[p] => handed /\ ~fs
        /\ handed => stream_open'[p] \/ fs \/ state'[p] = "Closed"
        /\ state'[p] = "FinWait" => state[p] = "FinWait" \/ fs
        /\ state'[p] = "Closed" => DOMAIN in_flight'[p] = {}
        /\ dropped' = dropped
    BY <2>1 DEF FollowedUp
  <2>3. recv_buffer'[p].fin_reached <=> rb.fin_reached \/ fs
    <3>1. IsReceiveBuffer(rb)
      BY DEF TypeOK
    <3> QED BY <2>2, <3>1, ReassembledEffect
  <2> HIDE DEF fs, rb
  <2> QED BY <1>1, <2>2, <2>3 DEF rb
<1> QED BY <1>2, <1>3, <1>4, LifeSteps

-----------------------------------------------------------------------------
(* What is neither in flight nor received does not exist.                  *)
LEMMA AckedStep ==
  ASSUME TypeOK, GenuineAcks, AckedWasReceived, [Next]_vars
  PROVE  AckedWasReceived'
<1> SUFFICES ASSUME NEW p \in Peer, NEW s \in 0..(Len(sent'[p]) - 1),
                    sent'[p][s + 1] # Fin, s \notin DOMAIN in_flight'[p]
             PROVE  Got(Other(p), s)'
  BY DEF AckedWasReceived
<1> DEFINE q == Other(p)
<1>1. /\ q \in Peer /\ s \in Nat /\ s < Len(sent'[p])
      /\ Len(sent[p]) \in Nat /\ Len(sent'[p]) \in Nat
  BY OtherLemma, SentGrows
<1>2. ASSUME Got(q, s) PROVE Got(q, s)'
  <2> HIDE DEF q
  <2> QED BY <1>1, <1>2, GotGrows
<1>3. ASSUME s < Len(sent[p]), s \notin DOMAIN in_flight[p] PROVE Got(q, s)
  <2>1. sent[p][s + 1] # Fin
    <3>1. s + 1 \in 1..Len(sent[p])
      BY <1>1, <1>3
    <3> QED BY <3>1, SentGrows
  <2>2. s \in 0..(Len(sent[p]) - 1)
    BY <1>1, <1>3
  <2> QED BY <1>3, <2>1, <2>2 DEF AckedWasReceived
<1>4. ASSUME NEW r \in Peer, NEW st, PacketizeAndSend(r, st)
      PROVE  s < Len(sent[p]) /\ s \notin DOMAIN in_flight[p]
  <2>1. PICK n \in 0..Len(stream_buffer[r]), fin \in BOOLEAN : Packetized(r, n, fin)
    BY <1>4, PacketizeEffect
  <2>2. CASE r # p
    <3>1. sent'[p] = sent[p] /\ in_flight'[p] = in_flight[p]
      BY <2>1, <2>2 DEF Packetized
    <3> QED BY <1>1, <3>1
  <2>3. CASE r = p
    <3> DEFINE k == Len(sent[p])
    <3>1. /\ Len(sent'[p]) = k + n + (IF fin THEN 1 ELSE 0)
          /\ fin => sent'[p][k + n + 1] = Fin
          /\ DOMAIN in_flight'[p] = DOMAIN in_flight[p] \cup k..(k + n - 1)
      BY <2>1, <2>3 DEF Packetized
    <3>2. n \in Nat
      BY DEF TypeOK
    <3> HIDE DEF k
    <3>3. k \in Nat
      BY <1>1 DEF k
    <3>4. s \notin DOMAIN in_flight[p] /\ s \notin k..(k + n - 1)
      BY <3>1
    <3>5. fin => s # k + n
      BY <3>1
    <3>6. CASE fin
      <4>1. Len(sent'[p]) = k + n + 1
        BY <3>1, <3>6
      <4> QED BY <1>1, <3>2, <3>3, <3>4, <3>5, <3>6, <4>1 DEF k
    <3>7. CASE ~fin
      <4>1. Len(sent'[p]) = k + n
        BY <3>1, <3>2, <3>3, <3>7
      <4> QED BY <1>1, <3>2, <3>3, <3>4, <4>1 DEF k
    <3> QED BY <3>6, <3>7
  <2> QED BY <2>2, <2>3
<1>5. ASSUME NEW r \in Peer, NEW a \in acks, HandleAck(r, a)
      PROVE  Got(q, s)
  <2>1. /\ UNCHANGED sent
        /\ a.to = r
        /\ in_flight' = [in_flight EXCEPT ![r] = ProcessAck(in_flight[r], a.next, a.sack)]
    BY <1>5 DEF HandleAck, userVars
  <2>2. s < Len(sent[p])
    BY <1>1, <2>1
  <2>3. CASE s \notin DOMAIN in_flight[p]
    BY <1>3, <2>2, <2>3
  <2>4. CASE s \in DOMAIN in_flight[p]
    <3>1. r = p
      BY <2>1, <2>4 DEF TypeOK
    <3>2. DOMAIN in_flight'[p] = StillInFlight(in_flight[p], a.next, a.sack)
      BY <2>1, <3>1 DEF TypeOK, ProcessAck
    <3>3. s < a.next \/ s \in a.sack
      BY <2>4, <3>2 DEF StillInFlight, CumulativeAcked, SackAcked
    <3>4. a.next <= recv_buffer[q].next_sequence /\ \A t \in a.sack : Got(q, t)
      BY <2>1, <3>1 DEF GenuineAcks
    <3>5. a.next \in Nat /\ recv_buffer[q].next_sequence \in Nat
      BY <1>1 DEF TypeOK, IsAck, IsReceiveBuffer
    <3>6. CASE s \in a.sack
      BY <3>4, <3>6
    <3>7. CASE s < a.next
      <4>1. s < recv_buffer[q].next_sequence
        BY <1>1, <3>4, <3>5, <3>7
      <4> QED BY <4>1 DEF Got
    <3> QED BY <3>3, <3>6, <3>7
  <2> QED BY <2>3, <2>4
<1>6. ASSUME UNCHANGED <<sent, in_flight>>
      PROVE  s < Len(sent[p]) /\ s \notin DOMAIN in_flight[p]
  BY <1>1, <1>6
<1>7. \/ \E r \in Peer : \E st : PacketizeAndSend(r, st)
      \/ \E r \in Peer, a \in acks : HandleAck(r, a)
      \/ UNCHANGED <<sent, in_flight>>
  <2>1. ASSUME NEW r \in Peer, FollowUp(r)
        PROVE  (\E st : PacketizeAndSend(r, st)) \/ UNCHANGED <<sent, in_flight>>
    BY <2>1, FollowUpEffect, Zenon DEF FollowedUp
  <2>2. ASSUME NEW r \in Peer, Close(r) PROVE \E st : PacketizeAndSend(r, st)
    BY <2>2, Zenon DEF Close
  <2>3. ASSUME NEW r \in Peer,
               \/ Write(r) \/ DropStream(r) \/ Timer(r) \/ IdleTimeout(r)
               \/ \E m \in frames : HandlePush(r, m) \/ HandleFin(r, m)
        PROVE  UNCHANGED <<sent, in_flight>>
    BY <2>3, Zenon DEF Write, DropStream, Timer, RetransmissionTimeout, IdleTimeout,
       HandlePush, HandleFin, endpointVars, userVars
  <2>4. ASSUME \/ \E m \in frames : LoseFrame(m)
               \/ \E a \in acks : LoseAck(a)
               \/ UNCHANGED vars
        PROVE  UNCHANGED <<sent, in_flight>>
    BY <2>4, Zenon DEF LoseFrame, LoseAck, vars, endpointVars, userVars
  <2> QED BY <2>1, <2>2, <2>3, <2>4, Zenon DEF Next
<1> QED BY <1>2, <1>3, <1>4, <1>5, <1>6, <1>7, Zenon

-----------------------------------------------------------------------------
(* The invariant, and what it implies.                                     *)

LEMMA IInvInit == Init => IInv
<1> SUFFICES ASSUME Init PROVE IInv
  OBVIOUS
<1>1. GenuineFrames /\ GenuineAcks
  BY DEF Init, GenuineFrames, GenuineAcks
<1>2. GenuineBooks /\ ClosedIsEmpty
  BY DEF Init, GenuineBooks, EmptyBook, ClosedIsEmpty
<1>3. GenuineBuffers
  BY OtherLemma DEF Init, GenuineBuffers, EmptyBuffer, EmptyMap
<1>4. NumberedInOrder /\ AckedWasReceived
  BY DEF Init, NumberedInOrder, AckedWasReceived
<1>5. DeliveredInOrder
  BY OtherLemma DEF Init, DeliveredInOrder, Popped, FinFree, EmptyBuffer
<1>6. OpenUntilEnd /\ FinWaitMeansEof
  BY DEF Init, OpenUntilEnd, FinWaitMeansEof
<1> QED BY <1>1, <1>2, <1>3, <1>4, <1>5, <1>6 DEF IInv

LEMMA IInvStep == TypeOK /\ IInv /\ [Next]_vars => IInv'
BY GenuineStep, BuffersStep, AcksStep, OrderStep, DeliverStep, LifeStep, AckedStep
   DEF IInv

(* The invariant that carries the safety of the connection: every copy of  *)
(* a sequence number, in a book, in a buffer or in a frame, is genuine,    *)
(* and the reader has consumed exactly the numbers below next_sequence.    *)
THEOREM Invariance == Spec => [](TypeOK /\ IInv)
<1>1. Init => TypeOK /\ IInv
  BY TypeInit, IInvInit
<1>2. TypeOK /\ IInv /\ [Next]_vars => (TypeOK /\ IInv)'
  BY TypeStep, IInvStep
<1> QED BY <1>1, <1>2, PTL DEF Spec

LEMMA PrefixRead == TypeOK /\ IInv => InOrderDelivery
<1> SUFFICES ASSUME TypeOK, IInv, NEW p \in Peer
             PROVE  LET d == to_stream[Other(p)]
                    IN  /\ Len(d) <= Len(written[p])
                        /\ d = SubSeq(written[p], 1, Len(d))
  BY DEF InOrderDelivery
<1> DEFINE q == Other(p)
           d == to_stream[q]
           o == sent[p]
           w == written[p]
           f == recv_buffer[q].fin_reached
           k == recv_buffer[q].next_sequence
           pop == IF f THEN k - 1 ELSE k
<1>1. q \in Peer /\ IsReceiveBuffer(recv_buffer[q])
  BY OtherLemma DEF TypeOK
<1>2. /\ k \in Nat /\ d \in Seq(Payload) /\ w \in Seq(Payload)
      /\ Len(d) \in Nat /\ Len(w) \in Nat /\ Len(o) \in Nat
  BY <1>1 DEF TypeOK, IsReceiveBuffer
<1>3. /\ k <= Len(o)
      /\ f => k >= 1
      /\ \A i \in 1..pop : o[i] # Fin
      /\ Len(d) <= pop
      /\ \A i \in 1..Len(d) : d[i] = o[i]
  BY DEF IInv, DeliveredInOrder, FinFree, Popped
<1>4. \A i \in 1..Len(o) : (\A j \in 1..i : o[j] # Fin) => i <= Len(w) /\ o[i] = w[i]
  BY DEF IInv, NumberedInOrder, FinFree
<1> HIDE DEF d, o, w, f, k
<1>5. pop \in Nat /\ pop <= Len(o)
  BY <1>2, <1>3
<1> HIDE DEF pop
<1>6. ASSUME NEW i \in 1..Len(d) PROVE i <= Len(w) /\ d[i] = w[i]
  <2>1. i \in 1..Len(o) /\ \A j \in 1..i : j \in 1..pop
    BY <1>2, <1>3, <1>5
  <2>2. \A j \in 1..i : o[j] # Fin
    BY <1>3, <2>1
  <2> QED BY <1>3, <1>4, <2>1, <2>2
<1>7. Len(d) <= Len(w)
  <2>1. CASE Len(d) = 0
    BY <1>2, <2>1
  <2>2. CASE Len(d) # 0
    <3>1. Len(d) \in 1..Len(d)
      BY <1>2, <2>2
    <3> QED BY <1>6, <3>1
  <2> QED BY <2>1, <2>2
<1>8. d = SubSeq(w, 1, Len(d))
  <2> DEFINE n == Len(d)
             h == SubSeq(w, 1, n)
  <2>1. \A i \in 1..n : w[i] \in Payload
    BY <1>2, <1>7
  <2> HIDE DEF n
  <2>2. n \in Nat /\ n <= Len(w)
    BY <1>2, <1>7 DEF n
  <2>3. h \in Seq(Payload) /\ Len(h) = n /\ \A i \in 1..n : h[i] = w[i]
    BY <1>2, <2>1, <2>2, SubSeqProperties
  <2> HIDE DEF h
  <2>4. \A i \in 1..Len(d) : d[i] = h[i]
    BY <1>6, <2>3 DEF n
  <2>5. Len(d) = Len(h)
    BY <2>3 DEF n
  <2>6. d = h
    BY <1>2, <2>3, <2>4, <2>5, SeqEqual
  <2> QED BY <2>6 DEF h, n
<1> QED BY <1>7, <1>8 DEF d, w

(* However frames and acknowledgements are lost, repeated or reordered,    *)
(* the user reads a prefix of what the peer's user wrote (receive_push,    *)
(* reassemble, packetize).                                                 *)
THEOREM OrderedDelivery == Spec => []InOrderDelivery
<1> QED BY PrefixRead, Invariance, PTL

(* No acknowledgement, however old, makes SackManager forget a PUSH that   *)
(* the peer does not have (process_ack).                                   *)
THEOREM AcknowledgedIsReceived == Spec => []AckedWasReceived
<1>1. IInv => AckedWasReceived
  BY DEF IInv
<1> QED BY <1>1, Invariance, PTL

(* should_close: a graceful end leaves no PUSH unreceived.                 *)
THEOREM GracefulCloseIsAcked == Spec => []ClosedMeansAcked
<1>1. IInv => ClosedMeansAcked
  BY DEF IInv, AckedWasReceived, ClosedIsEmpty, ClosedMeansAcked
<1> QED BY <1>1, Invariance, PTL

(* FinWait is only entered together with the user's EOF (event_loop::run). *)
THEOREM FinWaitHasEof == Spec => []FinWaitMeansEof
<1>1. IInv => FinWaitMeansEof
  BY DEF IInv
<1> QED BY <1>1, Invariance, PTL

(* A reassembled FIN is the end of exactly what the peer numbered before   *)
(* it: the user who listens has all of that and nothing else (reassemble,  *)
(* and the EOF of event_loop::run).                                        *)
THEOREM EndOfStream == Spec => []EofIsComplete
<1>1. TypeOK /\ IInv => EofIsComplete
  <2> SUFFICES ASSUME TypeOK, IInv, NEW p \in Peer,
                      recv_buffer[Other(p)].fin_reached
               PROVE  LET q == Other(p)
                          k == recv_buffer[q].next_sequence
                      IN  /\ k \in 1..Len(sent[p])
                          /\ sent[p][k] = Fin
                          /\ ~dropped[q] => to_stream[q] = SubSeq(sent[p], 1, k - 1)
    BY DEF EofIsComplete
  <2> DEFINE q == Other(p)
             d == to_stream[q]
             o == sent[p]
             k == recv_buffer[q].next_sequence
             n == k - 1
  <2>1. q \in Peer /\ IsReceiveBuffer(recv_buffer[q])
    BY OtherLemma DEF TypeOK
  <2>2. k \in Nat /\ d \in Seq(Payload) /\ o \in Seq(Item) /\ Len(o) \in Nat
    BY <2>1 DEF TypeOK, IsReceiveBuffer
  <2>3. /\ k <= Len(o) /\ k >= 1 /\ o[k] = Fin
        /\ \A i \in 1..Len(d) : d[i] = o[i]
        /\ ~dropped[q] => Len(d) = n
    BY DEF IInv, DeliveredInOrder, Popped
  <2> HIDE DEF d, o, k
  <2>4. k \in 1..Len(o) /\ n \in Nat /\ n <= Len(o)
    BY <2>2, <2>3
  <2>5. \A i \in 1..n : o[i] \in Item
    BY <2>2, <2>4
  <2>6. d \in Seq(Item)
    <3>1. Payload \subseteq Item
      BY DEF Item
    <3> QED BY <2>2, <3>1
  <2> HIDE DEF n
  <2>7. ASSUME ~dropped[q] PROVE d = SubSeq(o, 1, n)
    <3> DEFINE h == SubSeq(o, 1, n)
    <3>1. h \in Seq(Item) /\ Len(h) = n /\ \A i \in 1..n : h[i] = o[i]
      BY <2>2, <2>4, <2>5, SubSeqProperties
    <3> HIDE DEF h
    <3>2. Len(d) = Len(h) /\ \A i \in 1..Len(d) : d[i] = h[i]
      BY <2>3, <2>7, <3>1
    <3>3. d = h
      BY <2>6, <3>1, <3>2, SeqEqual
    <3> QED BY <3>3 DEF h
  <2> QED BY <2>3, <2>4, <2>7 DEF d, o, k, n
<1> QED BY <1>1, Invariance, PTL

-----------------------------------------------------------------------------
(* The refinement: a step of the connection is, for the direction from p,  *)
(* a write, a delivery or nothing.                                         *)

(* What the user of q sees changes only while its stream is open.          *)
LEMMA ReaderStep ==
  ASSUME TypeOK, [Next]_vars, NEW q \in Peer
  PROVE  /\ to_stream'[q] # to_stream[q] \/ stream_open'[q] # stream_open[q] => stream_open[q]
         /\ Len(to_stream[q]) <= Len(to_stream'[q])
<1>0. /\ to_stream[q] \in Seq(Payload) /\ Len(to_stream[q]) \in Nat
      /\ stream_open \in [Peer -> BOOLEAN]
  BY DEF TypeOK
<1>1. ASSUME UNCHANGED to_stream, \A r \in Peer : stream_open'[r] => stream_open[r],
             stream_open'[q] \in BOOLEAN
      PROVE  /\ to_stream'[q] # to_stream[q] \/ stream_open'[q] # stream_open[q] => stream_open[q]
             /\ Len(to_stream[q]) <= Len(to_stream'[q])
  BY <1>0, <1>1
<1>2. stream_open'[q] \in BOOLEAN
  BY TypeStep DEF TypeOK
<1>3. ASSUME NEW p \in Peer, FollowUp(p)
      PROVE  /\ to_stream'[q] # to_stream[q] \/ stream_open'[q] # stream_open[q] => stream_open[q]
             /\ Len(to_stream[q]) <= Len(to_stream'[q])
  <2>1. PICK n \in Nat : FollowedUp(p, n)
    BY <1>3, FollowUpEffect
  <2>2. CASE p # q
    BY <1>0, <2>1, <2>2 DEF FollowedUp
  <2>3. CASE p = q
    <3> DEFINE x == ReassembledData(recv_buffer[q], n)
               handed == stream_open[q] /\ ~(n > 0 /\ dropped[q])
    <3>1. /\ handed => to_stream'[q] = to_stream[q] \o x
          /\ ~handed => to_stream'[q] = to_stream[q]
          /\ stream_open'[q] => handed
          /\ ContiguousRun(recv_buffer[q], n)
      BY <2>1, <2>3 DEF FollowedUp
    <3>2. x \in Seq(Payload) /\ Len(x) \in Nat
      BY <3>1, ReassembledType DEF TypeOK
    <3> HIDE DEF x
    <3>3. Len(to_stream[q] \o x) = Len(to_stream[q]) + Len(x)
      BY <1>0, <3>2, ConcatProperties
    <3>4. Len(to_stream[q]) <= Len(to_stream'[q])
      BY <1>0, <3>1, <3>2, <3>3
    <3> QED BY <1>0, <1>2, <3>1, <3>4
  <2> QED BY <2>2, <2>3
<1> QED BY <1>1, <1>2, <1>3, ReceiveSteps

(* written[p] grows by one unit, and then no user is given anything.       *)
LEMMA WriterStep ==
  ASSUME TypeOK, [Next]_vars, NEW p \in Peer
  PROVE  \/ written'[p] = written[p]
         \/ /\ \E u \in Payload : written'[p] = Append(written[p], u)
            /\ UNCHANGED <<to_stream, stream_open>>
<1>1. CASE UNCHANGED written
  BY <1>1
<1>2. ASSUME NEW r \in Peer, Write(r)
      PROVE  \/ written'[p] = written[p]
             \/ /\ \E u \in Payload : written'[p] = Append(written[p], u)
                /\ UNCHANGED <<to_stream, stream_open>>
  <2>1. offered[r] + 1 \in Payload /\ written \in [Peer -> Seq(Payload)]
    BY DEF TypeOK, Payload
  <2> QED BY <1>2, <2>1 DEF Write
<1> QED BY <1>1, <1>2, SendSteps

LEMMA StreamStep ==
  ASSUME TypeOK, [Next]_vars, TypeOK', InOrderDelivery', NEW p \in Peer
  PROVE  LET q == Other(p)
             w == written[p]
             d == to_stream[q]
             e == ~stream_open[q]
         IN  \/ /\ w' \in Seq(Payload) /\ Len(w') = Len(w) + 1
                /\ SubSeq(w', 1, Len(w)) = w /\ d' = d /\ e' = e
             \/ /\ ~e /\ \E k \in Len(d)..Len(w) : d' = SubSeq(w, 1, k)
                /\ e' \in BOOLEAN /\ w' = w
             \/ w' = w /\ d' = d /\ e' = e
<1> DEFINE q == Other(p)
           w == written[p]
           d == to_stream[q]
           e == ~stream_open[q]
<1>1. /\ q \in Peer /\ w \in Seq(Payload) /\ d \in Seq(Payload)
      /\ written'[p] \in Seq(Payload) /\ to_stream'[q] \in Seq(Payload)
      /\ Len(w) \in Nat /\ Len(d) \in Nat /\ Len(to_stream'[q]) \in Nat
      /\ stream_open[q] \in BOOLEAN /\ stream_open'[q] \in BOOLEAN
  <2>1. q \in Peer
    BY OtherLemma
  <2>2. w \in Seq(Payload) /\ d \in Seq(Payload) /\ stream_open[q] \in BOOLEAN
    BY <2>1 DEF TypeOK
  <2>3. /\ written'[p] \in Seq(Payload) /\ to_stream'[q] \in Seq(Payload)
        /\ stream_open'[q] \in BOOLEAN
    BY <2>1 DEF TypeOK
  <2> HIDE DEF q
  <2> QED BY <2>1, <2>2, <2>3
<1>2. CASE \E u \in Payload : w' = Append(w, u) /\ UNCHANGED <<to_stream, stream_open>>
  <2>1. PICK u \in Payload : w' = Append(w, u)
    BY <1>2
  <2> DEFINE v == written[p]
             v2 == written'[p]
             h == SubSeq(v2, 1, Len(v))
  <2>2. /\ v2 \in Seq(Payload) /\ Len(v2) = Len(v) + 1 /\ \A i \in 1..Len(v) : v2[i] = v[i]
        /\ v \in Seq(Payload) /\ Len(v) \in Nat
    BY <1>1, <2>1, AppendProperties
  <2> HIDE DEF v, v2
  <2>3. \A i \in 1..Len(v) : v2[i] \in Payload
    BY <2>2
  <2>4. h \in Seq(Payload) /\ Len(h) = Len(v) /\ \A i \in 1..Len(v) : h[i] = v2[i]
    BY <2>2, <2>3, SubSeqProperties
  <2> HIDE DEF h
  <2>5. h = v
    BY <2>2, <2>4, SeqEqual
  <2> QED BY <1>1, <1>2, <2>2, <2>5 DEF v, v2, h
<1>3. CASE w' = w
  <2>1. /\ Len(to_stream'[q]) <= Len(w)
        /\ to_stream'[q] = SubSeq(w, 1, Len(to_stream'[q]))
    BY <1>3 DEF InOrderDelivery
  <2>2. /\ to_stream'[q] # to_stream[q] \/ stream_open'[q] # stream_open[q] => stream_open[q]
        /\ Len(to_stream[q]) <= Len(to_stream'[q])
    BY <1>1, ReaderStep
  <2>3. Len(to_stream'[q]) \in Len(d)..Len(w)
    BY <1>1, <2>1, <2>2
  <2> QED BY <1>1, <1>3, <2>1, <2>2, <2>3
<1>4. \/ w' = w
      \/ \E u \in Payload : w' = Append(w, u) /\ UNCHANGED <<to_stream, stream_open>>
  BY WriterStep
<1> QED BY <1>2, <1>3, <1>4

(* Each direction is a stream as ByteStream specifies it, for any windows, *)
(* capacities and number of writes: the connection refines the abstract    *)
(* specification twice (event_loop::run, receive_push, reassemble).        *)
THEOREM ConnectionRefinesStreams == Spec => BothStreams
<1>0. First \in Peer /\ Second \in Peer /\ Other(First) = Second /\ Other(Second) = First
  BY OtherLemma, PeerAssumption DEF First, Second
<1>1. Init => Forth!BSInit /\ Back!BSInit
  BY <1>0 DEF Init, Forth!BSInit, Back!BSInit
<1>2. ASSUME TypeOK, TypeOK', InOrderDelivery', [Next]_vars
      PROVE  [Forth!BSNext]_(Forth!bsVars) /\ [Back!BSNext]_(Back!bsVars)
  <2>1. [Forth!BSNext]_(Forth!bsVars)
    BY <1>0, <1>2, StreamStep
       DEF Forth!BSNext, Forth!bsVars, Forth!Append1, Forth!Deliver
  <2>2. [Back!BSNext]_(Back!bsVars)
    BY <1>0, <1>2, StreamStep
       DEF Back!BSNext, Back!bsVars, Back!Append1, Back!Deliver
  <2> QED BY <2>1, <2>2
<1> QED BY <1>1, <1>2, Invariance, OrderedDelivery, PTL
        DEF Spec, BothStreams, Forth!BSSpec, Back!BSSpec
=============================================================================
