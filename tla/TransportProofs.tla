-------------------------- MODULE TransportProofs ---------------------------
(***************************************************************************)
(* Proofs about Transport, for every channel capacity, every limit and     *)
(* every number of transports.  Inv is the inductive invariant; there is   *)
(* one lemma per action.                                                   *)
(***************************************************************************)
EXTENDS PacketProofs

----------------------------------------------------------------------------
(* The shape of the state.                                                 *)

Batch == [to : {"peer", "new"}, frames : Packet]
ChanItem == [kind : {"Send"}, batch : Batch] \cup [kind : {"Swap"}, transport : Transports]
ActorItem == [kind : {"Send"}, batch : Batch] \cup [kind : {"Rebind"}, address : Addresses]
Seen(octets) == SubSeq(octets, 1, Least(BufferSize, Len(octets)))
Datagram == {[batch |-> b, octets |-> serialize_frames(PeerBatches[b])] : b \in DOMAIN PeerBatches}
Received == {[batch |-> b, frames |-> deserialize_frames(Seen(serialize_frames(PeerBatches[b])))] :
               b \in DOMAIN PeerBatches}
Places == 0 .. (MaxTransports + MaxRebinds)
Udp == [socket : Places, listening : Places, queue : Seq(Received), commands : Seq(ActorItem)]
Sent == [from : Places, to : {"peer", "new"}, ok : BOOLEAN, octets : Seq(Nat)]
Rel == {r \in [buffer : Buffer, seq : Nat, tracked : UNION {[D -> Info] : D \in SUBSET Nat}] :
          r.tracked \in Tracked(r.seq)}
Endpoint == [stage : {"client", "server", "open", "closing"}, cid : {0, PeerCid}, rel : Rel,
             written : Nat, outbox : Seq(Batch), panicked : BOOLEAN]

EpOK(e) == e \in Endpoint
----------------------------------------------------------------------------
(* Queues.                                                                 *)

LEMMA RestTail ==
  ASSUME NEW s, Sequence(s), NEW n \in Nat, n < Len(s)
  PROVE /\ Rest(s, n) # <<>> /\ Head(Rest(s, n)) = s[n + 1] /\ Tail(Rest(s, n)) = Rest(s, n + 1)
        /\ Sequence(Rest(s, n)) /\ Sequence(Rest(s, n + 1))
<1> DEFINE q == Rest(s, n)
           r == Rest(s, n + 1)
<1>0. Len(s) \in Nat /\ n \in 0 .. Len(s) /\ n + 1 \in 0 .. Len(s)
  BY SequenceFacts
<1>1. Sequence(q) /\ Len(q) = Len(s) - n /\ \A i \in 1 .. Len(s) - n : q[i] = s[n + i]
  BY <1>0, SequenceRest
<1>2. Sequence(r) /\ Len(r) = Len(s) - (n + 1) /\ \A i \in 1 .. Len(s) - (n + 1) : r[i] = s[(n + 1) + i]
  BY <1>0, SequenceRest
<1> HIDE DEF q, r
<1>3. q # <<>> /\ 1 \in 1 .. Len(s) - n
  BY <1>0, <1>1
<1>4. /\ Sequence(Tail(q)) /\ Len(Tail(q)) = Len(q) - 1 /\ Head(q) = q[1]
      /\ \A i \in 1 .. Len(q) - 1 : Tail(q)[i] = q[i + 1]
  BY <1>1, <1>3, SequenceTail
<1>5. Len(Tail(q)) = Len(r)
  BY <1>0, <1>1, <1>2, <1>4
<1>6. ASSUME NEW i \in 1 .. Len(r) PROVE Tail(q)[i] = r[i]
  <2>1. i \in 1 .. Len(q) - 1 /\ i + 1 \in 1 .. Len(s) - n /\ n + (i + 1) = (n + 1) + i
        /\ i \in 1 .. Len(s) - (n + 1)
    BY <1>0, <1>1, <1>2
  <2> QED BY <1>1, <1>2, <1>4, <2>1
<1>7. Tail(q) = r
  BY <1>2, <1>4, <1>5, <1>6, SequencesEqual
<1>8. Head(q) = s[n + 1]
  BY <1>1, <1>3, <1>4
<1> QED BY <1>1, <1>2, <1>3, <1>7, <1>8 DEF q, r

LEMMA SplitSequence ==
  ASSUME NEW s, Sequence(s), NEW n \in Nat, n <= Len(s)
  PROVE /\ Sequence(SubSeq(s, 1, n)) /\ Len(SubSeq(s, 1, n)) = n
        /\ \A i \in 1 .. n : SubSeq(s, 1, n)[i] = s[i]
        /\ s = Cat(SubSeq(s, 1, n), Rest(s, n))
<1> DEFINE f == SubSeq(s, 1, n)
           r == Rest(s, n)
           S == Range(s)
<1>0. s \in Seq(S) /\ Len(s) \in Nat
  BY SequenceFacts DEF Sequence
<1> HIDE DEF S
<1>1. f \in Seq(S) /\ Len(f) = n /\ \A i \in 1 .. n : f[i] = s[i]
  BY <1>0
<1>2. Sequence(r) /\ Len(r) = Len(s) - n /\ \A i \in 1 .. Len(s) - n : r[i] = s[n + i]
  BY <1>0, SequenceRest
<1>3. Sequence(f)
  BY <1>1, SequenceIs
<1> HIDE DEF f, r
<1>4. Joins(f \o r, f, r)
  BY <1>2, <1>3, JoinSequences
<1> DEFINE q == f \o r
<1>5. /\ Sequence(q) /\ Len(q) = Len(f) + Len(r)
      /\ \A i \in 1 .. Len(f) : q[i] = f[i] /\ \A j \in 1 .. Len(r) : q[Len(f) + j] = r[j]
  BY <1>4 DEF Joins
<1> HIDE DEF q
<1>6. Len(q) = Len(s)
  BY <1>0, <1>1, <1>2, <1>5
<1>7. ASSUME NEW i \in 1 .. Len(s) PROVE q[i] = s[i]
  <2>1. CASE i <= n
    BY <1>0, <1>1, <1>5, <2>1
  <2>2. CASE i > n
    <3>1. i - n \in 1 .. Len(r) /\ i - n \in 1 .. Len(s) - n /\ n + (i - n) = i
      BY <1>0, <1>2, <2>2
    <3>2. q[Len(f) + (i - n)] = r[i - n]
      BY <1>4, <3>1 DEF Joins, q
    <3> QED BY <1>1, <1>2, <3>1, <3>2
  <2> QED BY <1>0, <2>1, <2>2
<1>8. q = s
  BY <1>5, <1>6, <1>7, SequencesEqual
<1> QED BY <1>1, <1>3, <1>8 DEF f, r, q, Cat

LEMMA AllSends ==
  ASSUME NEW s, Sequence(s), \A i \in 1 .. Len(s) : s[i].kind = "Send"
  PROVE Sends(s) = [i \in 1 .. Len(s) |-> s[i].batch]
<1> DEFINE n == Len(s)
           h == [i \in 0 .. n |-> [j \in 1 .. i |-> s[j].batch]]
<1>1. n \in Nat /\ DOMAIN s = 1 .. n
  BY SequenceFacts
<1>2. h[0] = <<>>
  BY <1>1
<1>3. ASSUME NEW i \in 1 .. n PROVE h[i] = Step("sends", 0, h[i - 1], s[i])
  <2> DEFINE u == [j \in 1 .. i - 1 |-> s[j].batch]
             v == [j \in 1 .. i |-> s[j].batch]
  <2>1. h[i] = v /\ h[i - 1] = u /\ i - 1 \in Nat /\ i \in Nat
    BY <1>1
  <2>2. Sequence(u) /\ Len(u) = i - 1
    <3>1. DOMAIN u = 1 .. i - 1 /\ u = [j \in 1 .. i - 1 |-> u[j]]
      OBVIOUS
    <3> HIDE DEF u
    <3> QED BY <2>1, <3>1, SequenceOf
  <2>3. Sequence(v) /\ Len(v) = i
    <3>1. DOMAIN v = 1 .. i /\ v = [j \in 1 .. i |-> v[j]]
      OBVIOUS
    <3> HIDE DEF v
    <3> QED BY <2>1, <3>1, SequenceOf
  <2>4. Appends(Append(u, s[i].batch), u, s[i].batch)
    BY <2>2, AppendSequence
  <2> DEFINE w == Append(u, s[i].batch)
  <2>5. /\ Sequence(w) /\ Len(w) = (i - 1) + 1 /\ w[(i - 1) + 1] = s[i].batch
        /\ \A j \in 1 .. i - 1 : w[j] = u[j]
    BY <2>2, <2>4 DEF Appends
  <2> HIDE DEF w
  <2>6. Len(w) = i /\ w[i] = s[i].batch
    BY <2>1, <2>5
  <2>7. ASSUME NEW j \in 1 .. i PROVE w[j] = v[j]
    <3>1. CASE j = i
      BY <2>6, <3>1
    <3>2. CASE j # i
      <4>1. j \in 1 .. i - 1
        BY <2>1, <3>2
      <4> QED BY <2>5, <4>1
    <3> QED BY <3>1, <3>2
  <2>8. w = v
    <3> HIDE DEF v
    <3> QED BY <2>3, <2>5, <2>6, <2>7, SequencesEqual
  <2>9. Step("sends", 0, u, s[i]) = w
    BY DEF Step, w
  <2> HIDE DEF u, v, w, h
  <2> QED BY <2>1, <2>8, <2>9
<1>4. h[n] = [i \in 1 .. n |-> s[i].batch]
  BY <1>1
<1> HIDE DEF h
<1>5. Walk(h, "sends", 0, <<>>, s)
  BY <1>2, <1>3 DEF Walk
<1>6. Sends(s) = h[n]
  BY <1>1, <1>5, SendsFolded, FoldedIs
<1> QED BY <1>4, <1>6

\* The task takes the batches of got from commands and leaves left there.
Takes(commands, got, left) ==
  /\ got \in Seq(Batch) /\ got # <<>> /\ Len(got) <= MaxDrain /\ left \in Seq(ChanItem)
  /\ Len(left) <= Len(commands) /\ \A i \in 1 .. Len(left) : \E j \in 1 .. Len(commands) : left[i] = commands[j]
  /\ Sends(commands) = Cat(got, Sends(left))

LEMMA DrainedIs ==
  ASSUME NEW commands \in Seq(ChanItem), commands # <<>>, Head(commands).kind # "Swap"
  PROVE Takes(commands, Drained(commands).batches, Drained(commands).left)
<1> DEFINE len == Len(commands)
           other == {i \in DOMAIN commands : commands[i].kind # "Send"}
           first == CHOOSE i \in other : \A j \in other : i <= j
           sends == IF other = {} THEN len ELSE first - 1
           n == Least(sends, MaxDrain)
           m == IF n < MaxDrain THEN Least(n + 1, len) ELSE n
           got == [i \in 1 .. n |-> commands[i].batch]
           left == Rest(commands, m)
           f == SubSeq(commands, 1, n)
<1>0. /\ len \in Nat /\ len # 0 /\ DOMAIN commands = 1 .. len /\ MaxDrain \in Nat /\ MaxDrain # 0
      /\ Sequence(commands) /\ Head(commands) = commands[1]
      /\ \A i \in 1 .. len : commands[i] \in ChanItem
  BY SequenceIs, TransportAssumption
<1>1. \A x \in ChanItem : /\ x.kind \in {"Send", "Swap"}
                          /\ x.kind = "Send" => x.batch \in Batch
  BY DEF ChanItem
<1>2. Drained(commands) = [batches |-> got, left |-> left]
  BY Zenon DEF Drained
<1>3. Drained(commands).batches = got /\ Drained(commands).left = left
  <2> HIDE DEF got, left
  <2> QED BY <1>2
<1>4. other \in SUBSET Nat /\ other \subseteq 1 .. len
  BY <1>0
<1>5. other # {} => first \in other /\ \A j \in other : first <= j
  <2> SUFFICES ASSUME other # {} PROVE first \in other /\ \A j \in other : first <= j
    OBVIOUS
  <2> HIDE DEF other
  <2>1. \E i \in other : \A j \in other : i <= j
    BY <1>4, LeastNumber
  <2> QED BY <2>1
<1>6. 1 \notin other
  BY <1>0, <1>1
<1>7. \A i \in 1 .. len : i \in other <=> commands[i].kind # "Send"
  BY <1>0
<1> HIDE DEF other, first
<1>8. /\ sends \in 1 .. len /\ \A i \in 1 .. sends : i \notin other
      /\ sends < len => sends + 1 \in other
  <2>1. CASE other = {}
    BY <1>0, <2>1
  <2>2. CASE other # {}
    <3>1. first \in 1 .. len /\ first # 1 /\ \A j \in other : first <= j
      BY <1>4, <1>5, <1>6, <2>2
    <3>2. sends = first - 1
      BY <2>2
    <3>3. sends \in 1 .. len /\ sends + 1 = first
      BY <1>0, <3>1, <3>2
    <3>4. ASSUME NEW i \in 1 .. sends PROVE i \notin other
      BY <1>0, <3>1, <3>2
    <3> QED BY <1>5, <2>2, <3>3, <3>4
  <2> QED BY <2>1, <2>2
<1> HIDE DEF sends
<1>9. n \in 1 .. len /\ n <= MaxDrain /\ n <= sends /\ (n < MaxDrain => n = sends)
  BY <1>0, <1>8 DEF Least
<1> HIDE DEF n
<1>10. \A i \in 1 .. n : i \in 1 .. len /\ commands[i].kind = "Send" /\ commands[i].batch \in Batch
  <2> TAKE i \in 1 .. n
  <2>1. i \in 1 .. len /\ i \in 1 .. sends
    BY <1>0, <1>8, <1>9
  <2>2. commands[i].kind = "Send"
    BY <1>7, <1>8, <2>1
  <2> QED BY <1>0, <1>1, <2>1, <2>2
<1>11. got \in Seq(Batch) /\ Len(got) = n /\ got # <<>>
  <2>1. got \in [1 .. n -> Batch]
    BY <1>10
  <2>2. n \in Nat /\ n # 0
    BY <1>9
  <2>3. got \in Seq(Batch) /\ Len(got) = n
    BY <2>1, <2>2
  <2> HIDE DEF got
  <2> QED BY <2>2, <2>3
<1>12. Sequence(f) /\ Len(f) = n /\ \A i \in 1 .. n : f[i] = commands[i]
  BY <1>0, <1>9, SplitSequence
<1>13. commands = Cat(f, Rest(commands, n))
  BY <1>0, <1>9, SplitSequence
<1> HIDE DEF f
<1>14. Sends(f) = got
  <2>1. \A i \in 1 .. Len(f) : f[i].kind = "Send"
    BY <1>10, <1>12
  <2>2. Sends(f) = [i \in 1 .. Len(f) |-> f[i].batch]
    BY <1>12, <2>1, AllSends
  <2> QED BY <1>12, <2>2
<1> HIDE DEF got
<1>15. Sequence(Rest(commands, n))
  BY <1>0, <1>9, SequenceRest
<1>16. Sends(commands) = Cat(got, Sends(Rest(commands, n)))
  <2>1. Sends(Cat(f, Rest(commands, n))) = Cat(Sends(f), Sends(Rest(commands, n)))
    BY <1>12, <1>15, SendsJoin
  <2> QED BY <1>13, <1>14, <2>1
<1>17. m \in 0 .. len /\ (m = n \/ (m = n + 1 /\ n < len /\ n + 1 \in other))
  <2>1. CASE n < MaxDrain /\ n + 1 <= len
    <3>1. m = n + 1 /\ n = sends /\ n < len
      BY <1>0, <1>9, <2>1 DEF Least
    <3>2. n + 1 \in other
      BY <1>8, <3>1
    <3> QED BY <1>0, <1>9, <2>1, <3>1, <3>2
  <2>2. CASE n < MaxDrain /\ ~ (n + 1 <= len)
    <3>1. m = len /\ n = len
      BY <1>0, <1>9, <2>2 DEF Least
    <3> QED BY <1>0, <3>1
  <2>3. CASE ~ (n < MaxDrain)
    BY <1>0, <1>9, <2>3
  <2> QED BY <2>1, <2>2, <2>3
<1> HIDE DEF m
<1>18. Sends(Rest(commands, n)) = Sends(Rest(commands, m))
  <2>1. CASE m = n
    BY <2>1
  <2>2. CASE m = n + 1 /\ n < len /\ n + 1 \in other
    <3> DEFINE r == Rest(commands, n)
    <3>1. r # <<>> /\ Head(r) = commands[n + 1] /\ Tail(r) = Rest(commands, m) /\ Sequence(r)
      BY <1>0, <1>9, <2>2, RestTail
    <3>2. n + 1 \in 1 .. len
      BY <1>0, <1>9, <2>2
    <3>3. Head(r).kind # "Send"
      BY <1>7, <2>2, <3>1, <3>2
    <3> HIDE DEF r
    <3>4. Sends(r) = Sends(Tail(r))
      BY <3>1, <3>3, SendsFront
    <3> QED BY <3>1, <3>4 DEF r
  <2> QED BY <1>17, <2>1, <2>2
<1>19. left \in Seq(ChanItem)
  BY <1>0, <1>17 DEF Rest
<1>20. Len(left) = len - m /\ \A i \in 1 .. len - m : left[i] = commands[m + i]
  BY <1>0, <1>17, SequenceRest
<1>21. ASSUME NEW i \in 1 .. Len(left) PROVE \E j \in 1 .. len : left[i] = commands[j]
  <2>1. m + i \in 1 .. len /\ i \in 1 .. len - m
    BY <1>0, <1>17, <1>20
  <2>2. left[i] = commands[m + i]
    BY <1>20, <2>1
  <2> HIDE DEF left
  <2> QED BY <2>1, <2>2
<1>22. Len(left) <= len
  BY <1>0, <1>17, <1>20
<1>23. Sends(commands) = Cat(got, Sends(left))
  BY <1>16, <1>18
<1> HIDE DEF left
<1>24. Takes(commands, got, left)
  BY <1>9, <1>11, <1>19, <1>21, <1>22, <1>23 DEF Takes
<1> QED BY <1>3, <1>24

LEMMA RestJoin ==
  ASSUME NEW p, Sequence(p), NEW b, Sequence(b), NEW n \in Nat, n <= Len(p)
  PROVE Rest(Cat(p, b), n) = Cat(Rest(p, n), b)
<1> DEFINE q == Cat(p, b)
           r == Rest(p, n)
           x == Rest(q, n)
           y == Cat(r, b)
<1>0. Len(p) \in Nat /\ Len(b) \in Nat /\ n \in 0 .. Len(p)
  BY SequenceFacts
<1>1. Joins(q, p, b)
  BY JoinSequences DEF Cat
<1>2. Sequence(r) /\ Len(r) = Len(p) - n /\ \A i \in 1 .. Len(p) - n : r[i] = p[n + i]
  BY <1>0, SequenceRest
<1>3. Joins(y, r, b)
  <2> HIDE DEF r
  <2> QED BY <1>2, JoinSequences DEF Cat
<1> HIDE DEF q, r, y
<1>4. Sequence(q) /\ Len(q) = Len(p) + Len(b) /\ n \in 0 .. Len(q)
  BY <1>0, <1>1 DEF Joins
<1>5. Sequence(x) /\ Len(x) = Len(q) - n /\ \A i \in 1 .. Len(q) - n : x[i] = q[n + i]
  BY <1>4, SequenceRest
<1>6. Sequence(y) /\ Len(y) = Len(r) + Len(b)
  BY <1>3 DEF Joins
<1> HIDE DEF x
<1>7. Len(x) = Len(y)
  BY <1>0, <1>2, <1>4, <1>5, <1>6
<1>8. ASSUME NEW i \in 1 .. Len(x) PROVE x[i] = y[i]
  <2>0. i \in 1 .. Len(q) - n /\ i \in Nat
    BY <1>5
  <2>1. x[i] = q[n + i]
    BY <1>5, <2>0
  <2>2. CASE i <= Len(r)
    <3>1. i \in 1 .. Len(r) /\ n + i \in 1 .. Len(p) /\ i \in 1 .. Len(p) - n
      BY <1>0, <1>2, <2>0, <2>2
    <3>2. q[n + i] = p[n + i]
      BY <1>1, <3>1 DEF Joins
    <3>3. y[i] = r[i]
      BY <1>3, <3>1 DEF Joins
    <3> QED BY <1>2, <2>1, <3>1, <3>2, <3>3
  <2>3. CASE ~ (i <= Len(r))
    <3> DEFINE j == i - Len(r)
    <3>1. j \in 1 .. Len(b) /\ Len(r) + j = i /\ Len(p) + j = n + i
      BY <1>0, <1>2, <1>4, <2>0, <2>3
    <3> HIDE DEF j
    <3>2. q[Len(p) + j] = b[j]
      BY <1>1, <3>1 DEF Joins
    <3>3. y[Len(r) + j] = b[j]
      BY <1>3, <3>1 DEF Joins
    <3> QED BY <2>1, <3>1, <3>2, <3>3
  <2> QED BY <2>2, <2>3
<1>9. x = y
  BY <1>5, <1>6, <1>7, <1>8, SequencesEqual
<1> QED BY <1>9 DEF x, y, q, r

\* What left is the beginning of what was made; the rest is queued, in order.
Ordered(w, p, pending, ch, out) ==
  /\ Len(w) <= Len(p) /\ Rest(p, Len(w)) = Cat(Cat(pending, Sends(ch)), out)
  /\ \A i \in 1 .. Len(w) : w[i].to = p[i].to /\ w[i].octets = serialize_frames(p[i].frames)

LEMMA CatSequence ==
  ASSUME NEW s, Sequence(s), NEW t, Sequence(t)
  PROVE Sequence(Cat(s, t)) /\ Cat(s, <<>>) = s /\ Cat(<<>>, s) = s
<1>1. Joins(s \o t, s, t)
  BY JoinSequences
<1>2. Sequence(Cat(s, t))
  BY <1>1 DEF Joins, Cat
<1>3. s \o <<>> = s /\ <<>> \o s = s
  BY EmptyJoin
<1> QED BY <1>2, <1>3 DEF Cat

LEMMA CatRegroup ==
  ASSUME NEW s, Sequence(s), NEW t, Sequence(t), NEW u, Sequence(u)
  PROVE Cat(Cat(s, t), u) = Cat(s, Cat(t, u))
<1>1. (s \o t) \o u = s \o (t \o u)
  BY Associates
<1> QED BY <1>1 DEF Cat

LEMMA SendsSequence ==
  ASSUME NEW s, Sequence(s)
  PROVE Sequence(Sends(s))
BY SendsJoin

LEMMA OrderedProduce ==
  ASSUME NEW w, Sequence(w), NEW p, Sequence(p), NEW pending, Sequence(pending),
         NEW ch, Sequence(ch), NEW b, Sequence(b), Ordered(w, p, pending, ch, <<>>)
  PROVE Ordered(w, Cat(p, b), pending, ch, b)
<1> DEFINE g == Cat(pending, Sends(ch))
           n == Len(w)
<1>1. Sequence(g)
  BY SendsSequence, CatSequence
<1>2. n <= Len(p) /\ Rest(p, n) = Cat(g, <<>>) /\ n \in Nat /\ Len(p) \in Nat /\ Len(b) \in Nat
  BY SequenceFacts DEF Ordered
<1>3. Cat(g, <<>>) = g
  BY <1>1, CatSequence
<1>4. Rest(Cat(p, b), n) = Cat(g, b)
  BY <1>2, <1>3, RestJoin
<1>5. Joins(Cat(p, b), p, b)
  BY JoinSequences DEF Cat
<1> DEFINE q == Cat(p, b)
<1> HIDE DEF q
<1>6. Len(q) = Len(p) + Len(b) /\ \A i \in 1 .. Len(p) : q[i] = p[i]
  BY <1>5 DEF Joins, q
<1>7. \A i \in 1 .. n : i \in 1 .. Len(p)
  BY <1>2
<1>8. n <= Len(q)
  BY <1>2, <1>6
<1>9. \A i \in 1 .. n : w[i].to = q[i].to /\ w[i].octets = serialize_frames(q[i].frames)
  BY <1>6, <1>7 DEF Ordered
<1>10. Ordered(w, q, pending, ch, b)
  BY <1>4, <1>8, <1>9 DEF Ordered, q
<1> QED BY <1>10 DEF q

LEMMA OrderedHand ==
  ASSUME NEW w, NEW p, NEW pending, Sequence(pending), NEW ch, Sequence(ch),
         NEW out, Sequence(out), out # <<>>, Ordered(w, p, pending, ch, out),
         NEW x, x.kind = "Send", x.batch = Head(out)
  PROVE Ordered(w, p, pending, Append(ch, x), Tail(out))
<1> DEFINE a == Sends(ch)
           o == <<Head(out)>>
           t == Tail(out)
<1>1. Sequence(a) /\ Sequence(o) /\ Sequence(t)
  BY SendsSequence, SequenceTail, OneIs
<1>2. out = Cat(o, t)
  BY SequenceTail DEF Cat
<1>3. Sends(Append(ch, x)) = Append(a, Head(out))
  BY SendsAppend
<1>4. Append(a, Head(out)) = Cat(a, o)
  BY <1>1, AppendIs DEF Cat
<1> HIDE DEF a, o, t
<1>5. Cat(Cat(pending, Cat(a, o)), t) = Cat(Cat(pending, a), Cat(o, t))
  <2>1. Cat(pending, Cat(a, o)) = Cat(Cat(pending, a), o)
    BY <1>1, CatRegroup
  <2>2. Sequence(Cat(pending, a))
    BY <1>1, CatSequence
  <2>3. Cat(Cat(Cat(pending, a), o), t) = Cat(Cat(pending, a), Cat(o, t))
    BY <1>1, <2>2, CatRegroup
  <2> QED BY <2>1, <2>3
<1>6. Sends(Append(ch, x)) = Cat(a, o)
  BY <1>3, <1>4
<1>7. Rest(p, Len(w)) = Cat(Cat(pending, Sends(Append(ch, x))), t)
  BY <1>2, <1>5, <1>6 DEF Ordered, a
<1> QED BY <1>7 DEF Ordered, t

LEMMA OrderedSwap ==
  ASSUME NEW w, NEW p, NEW pending, NEW ch, Sequence(ch), NEW out, Ordered(w, p, pending, ch, out),
         NEW x, x.kind # "Send"
  PROVE Ordered(w, p, pending, Append(ch, x), out)
<1>1. Sends(Append(ch, x)) = Sends(ch)
  BY SendsAppend
<1> QED BY <1>1 DEF Ordered

LEMMA OrderedSwapped ==
  ASSUME NEW w, NEW p, NEW pending, NEW ch, Sequence(ch), ch # <<>>, NEW out,
         Ordered(w, p, pending, ch, out), Head(ch).kind # "Send"
  PROVE Ordered(w, p, pending, Tail(ch), out)
<1>1. Sends(ch) = Sends(Tail(ch))
  BY SendsFront
<1> QED BY <1>1 DEF Ordered

LEMMA OrderedTaken ==
  ASSUME NEW w, NEW p, NEW ch, Sequence(ch), NEW out, Ordered(w, p, <<>>, ch, out),
         NEW got, Sequence(got), NEW left, Sequence(left), Sends(ch) = Cat(got, Sends(left))
  PROVE Ordered(w, p, got, left, out)
<1>1. Sequence(Cat(got, Sends(left)))
  BY SendsSequence, CatSequence
<1>2. Cat(<<>>, Sends(ch)) = Cat(got, Sends(left))
  BY <1>1, CatSequence
<1> QED BY <1>2 DEF Ordered

LEMMA OrderedSent ==
  ASSUME NEW w, Sequence(w), NEW p, Sequence(p), NEW pending, Sequence(pending), pending # <<>>,
         NEW ch, Sequence(ch), NEW out, Sequence(out), Ordered(w, p, pending, ch, out),
         NEW x, x.to = Head(pending).to, x.octets = serialize_frames(Head(pending).frames)
  PROVE Ordered(Append(w, x), p, Tail(pending), ch, out)
<1> DEFINE h == Head(pending)
           t == Tail(pending)
           n == Len(w)
           v == Append(w, x)
           g == Cat(Cat(t, Sends(ch)), out)
<1>1. /\ n \in Nat /\ Len(p) \in Nat /\ n <= Len(p) /\ Rest(p, n) = Cat(Cat(pending, Sends(ch)), out)
      /\ \A i \in 1 .. n : w[i].to = p[i].to /\ w[i].octets = serialize_frames(p[i].frames)
  BY SequenceFacts DEF Ordered
<1>2. Sequence(t) /\ pending = Cat(<<h>>, t) /\ Sequence(<<h>>) /\ Sequence(Sends(ch))
  BY SequenceTail, OneIs, SendsSequence DEF Cat
<1>3. Appends(v, w, x)
  BY AppendSequence
<1> HIDE DEF h, t, v
<1>4. Rest(p, n) = Cat(<<h>>, g)
  <2>1. Cat(Cat(<<h>>, t), Sends(ch)) = Cat(<<h>>, Cat(t, Sends(ch))) /\ Sequence(Cat(t, Sends(ch)))
    BY <1>2, CatRegroup, CatSequence
  <2>2. Cat(Cat(<<h>>, Cat(t, Sends(ch))), out) = Cat(<<h>>, g)
    BY <1>2, <2>1, CatRegroup
  <2> QED BY <1>1, <1>2, <2>1, <2>2
<1>5. Sequence(g)
  BY <1>2, CatSequence
<1> HIDE DEF g
<1>6. Joins(Cat(<<h>>, g), <<h>>, g)
  BY <1>2, <1>5, JoinSequences DEF Cat
<1>7. Len(<<h>>) = 1 /\ <<h>>[1] = h
  BY OneIs
<1>8. Len(Rest(p, n)) = Len(p) - n /\ n \in 0 .. Len(p)
  BY <1>1, SequenceRest
<1>9. n < Len(p)
  <2>1. Len(Rest(p, n)) = 1 + Len(g) /\ Len(g) \in Nat
    BY <1>4, <1>5, <1>6, <1>7, SequenceFacts DEF Joins
  <2> QED BY <1>1, <1>8, <2>1
<1>10. /\ Head(Rest(p, n)) = p[n + 1] /\ Tail(Rest(p, n)) = Rest(p, n + 1)
  BY <1>1, <1>9, RestTail
<1>11. p[n + 1] = h /\ Rest(p, n + 1) = g
  <2>1. Append(<<>>, h) = <<h>>
    OBVIOUS
  <2>2. Head(Cat(<<h>>, g)) = h /\ Tail(Cat(<<h>>, g)) = g
    <3> DEFINE S == Range(g) \cup {h}
    <3>1. g \in Seq(S) /\ h \in S
      BY <1>5 DEF Sequence
    <3> HIDE DEF S
    <3>2. Head(<<h>> \o g) = h /\ Tail(<<h>> \o g) = g
      BY <3>1
    <3> QED BY <3>2 DEF Cat
  <2> QED BY <1>4, <1>10, <2>2
<1>12. Len(v) = n + 1 /\ v[n + 1] = x /\ \A i \in 1 .. n : v[i] = w[i]
  BY <1>3 DEF Appends
<1>13. ASSUME NEW i \in 1 .. Len(v)
       PROVE v[i].to = p[i].to /\ v[i].octets = serialize_frames(p[i].frames)
  <2>1. CASE i \in 1 .. n
    BY <1>1, <1>12, <2>1
  <2>2. CASE i = n + 1
    BY <1>11, <1>12, <2>2 DEF h
  <2> QED BY <1>1, <1>12, <2>1, <2>2
<1>14. Len(v) <= Len(p) /\ Rest(p, Len(v)) = g
  BY <1>1, <1>9, <1>11, <1>12
<1> QED BY <1>13, <1>14 DEF Ordered, g, v, t

LEMMA PeerFrames ==
  ASSUME NEW b \in DOMAIN PeerBatches
  PROVE /\ Sequence(PeerBatches[b]) /\ serialize_frames(PeerBatches[b]) \in Seq(Nat)
        /\ \A i \in 1 .. Len(PeerBatches[b]) : Encodable(PeerBatches[b][i])
<1>1. /\ PeerBatches[b] \in Seq(LongFrame \cup ShortFrame)
      /\ \A i \in DOMAIN PeerBatches[b] : Encodable(PeerBatches[b][i])
  BY TransportAssumption
<1>2. Sequence(PeerBatches[b])
  BY <1>1, SequenceIs
<1>3. \A i \in 1 .. Len(PeerBatches[b]) : Encodable(PeerBatches[b][i])
  BY <1>1, <1>2, SequenceFacts
<1>4. \A i \in 1 .. Len(PeerBatches[b]) : Shaped(PeerBatches[b][i])
  BY <1>3, EncodableShaped
<1> QED BY <1>2, <1>3, <1>4, SerializedSize

LEMMA SeenIs ==
  ASSUME NEW x \in Seq(Nat)
  PROVE /\ Seen(x) \in Seq(Nat) /\ Begins(x, Seen(x))
        /\ Len(x) <= BufferSize => Seen(x) = x
<1> DEFINE n == Least(BufferSize, Len(x))
<1>1. BufferSize \in Nat /\ Len(x) \in Nat
  BY TransportAssumption
<1>2. n \in Nat /\ n <= Len(x) /\ (Len(x) <= BufferSize => n = Len(x))
  BY <1>1 DEF Least
<1>3. Seen(x) = SubSeq(x, 1, n)
  BY DEF Seen
<1> HIDE DEF n
<1>4. SubSeq(x, 1, n) \in Seq(Nat) /\ Len(SubSeq(x, 1, n)) = n /\ \A i \in 1 .. n : SubSeq(x, 1, n)[i] = x[i]
  BY <1>1, <1>2
<1>5. Begins(x, SubSeq(x, 1, n))
  BY <1>2, <1>4 DEF Begins
<1>6. n = Len(x) => SubSeq(x, 1, n) = x
  BY <1>1
<1> QED BY <1>2, <1>3, <1>4, <1>5, <1>6

LEMMA ReceivedIs ==
  ASSUME NEW d \in Received
  PROVE /\ IsPrefix(d.frames, PeerBatches[d.batch])
        /\ Len(serialize_frames(PeerBatches[d.batch])) <= BufferSize
             => d.frames = PeerBatches[d.batch]
<1>1. PICK b \in DOMAIN PeerBatches :
        d = [batch |-> b, frames |-> deserialize_frames(Seen(serialize_frames(PeerBatches[b])))]
  BY DEF Received
<1> DEFINE fs == PeerBatches[b]
           x == serialize_frames(fs)
           y == Seen(x)
<1>2. d.batch = b /\ d.frames = deserialize_frames(y)
  BY <1>1
<1>3. Sequence(fs) /\ x \in Seq(Nat) /\ \A i \in 1 .. Len(fs) : Encodable(fs[i])
  BY PeerFrames
<1> HIDE DEF fs
<1>4. y \in Seq(Nat) /\ Begins(x, y) /\ (Len(x) <= BufferSize => y = x)
  <2> HIDE DEF x
  <2> QED BY <1>3, SeenIs
<1> HIDE DEF y
<1>5. IsPrefix(deserialize_frames(y), fs) /\ (y = x => deserialize_frames(y) = fs)
  BY <1>3, <1>4, ReadBack
<1> HIDE DEF x
<1> QED BY <1>2, <1>4, <1>5 DEF fs, x

----------------------------------------------------------------------------
(* The inductive invariant.                                                *)

Waits(tk, u) ==
  /\ tk.waiting => tk.pending # <<>>
  /\ \A t \in Transports : Sends(u[t].commands) = IF tk.waiting /\ t = tk.transport
                                                  THEN <<Head(tk.pending)>> ELSE <<>>

\* The transports in use have been bound.
Bound(ch, tk, mg, n) ==
  /\ tk.transport <= n /\ mg.transport <= n /\ mg.binding <= n
  /\ \A i \in 1 .. Len(ch) : ch[i].kind = "Swap" => ch[i].transport <= n

Capped(ch, tk, u) ==
  /\ Len(ch) <= ChanCap /\ Len(tk.pending) <= MaxDrain
  /\ \A t \in Transports : Len(u[t].queue) <= QueueCap

\* The bytes of a client's initial data fit a datagram with its SYN.
FitsSyn(m) ==
  \E k \in Nat : /\ \A j \in Nat : (j - 1) * MaxPayload < m => j <= k
                 /\ 10 + (21 * k) + m <= MaxPacket

Calm(e) ==
  /\ ~ e.panicked
  /\ e.stage = "client" => \E m \in Nat : OnePiece(e.rel.buffer, m) /\ (m = 0 \/ FitsSyn(m))

ChanOK(ch) == ch \in Seq(ChanItem)
TaskOK(tk) == tk \in [transport : Transports, pending : Seq(Batch), waiting : BOOLEAN]
ManagerOK(mg) == mg \in [transport : Transports, binding : 0 .. MaxTransports]
UdpOK(u) == u \in [Transports -> Udp]
KernelOK(k) == k \in [Addresses -> Seq(Datagram)]
HistoryOK(w, p, d) == w \in Seq(Sent) /\ p \in Seq(Batch) /\ d \in Seq(Received)
CountOK(c) == c \in [transports : Transports, addresses : Addresses, events : Nat]

Inv ==
  /\ EpOK(ep) /\ ChanOK(chan) /\ TaskOK(task) /\ ManagerOK(manager) /\ UdpOK(udp)
  /\ KernelOK(kernel) /\ HistoryOK(wire, produced, delivered) /\ CountOK(count)
  /\ Ordered(wire, produced, task.pending, chan, ep.outbox)
  /\ Waits(task, udp)
  /\ Bound(chan, task, manager, count.transports)
  /\ Capped(chan, task, udp)
  /\ Calm(ep)

----------------------------------------------------------------------------
(* The steps of the endpoint.                                              *)

LEMMA RelIs ==
  ASSUME NEW r \in Rel
  PROVE /\ r = [buffer |-> r.buffer, seq |-> r.seq, tracked |-> r.tracked]
        /\ r.buffer \in Buffer /\ r.seq \in Nat /\ r.tracked \in Tracked(r.seq)
BY DEF Rel

LEMMA MakeRel ==
  ASSUME NEW b \in Buffer, NEW n \in Nat, NEW T \in Tracked(n)
  PROVE [buffer |-> b, seq |-> n, tracked |-> T] \in Rel
<1>1. PICK D \in SUBSET (0 .. n - 1) : T \in [D -> Info]
  BY DEF Tracked
<1>2. D \in SUBSET Nat
  OBVIOUS
<1>3. T \in UNION {[E -> Info] : E \in SUBSET Nat}
  BY <1>1, <1>2
<1> QED BY <1>3 DEF Rel

\* What packetize_stream_data gives: p.frames are the first bytes of the
\* buffer, p.rel the state with them tracked.
Streamed(p, rel, n, P) ==
  /\ p.rel \in Rel /\ p.rel.tracked \in TrackedIn(p.rel.seq, P)
  /\ Cuts(p.frames, n, p.rel.buffer, p.rel.seq, Content(rel.buffer))

\* P has what is kept of the frames numbered from n.
Keeps(fs, P) == \A i \in 1 .. Len(fs) : <<fs[i].header.seq, from_frame(fs[i])>> \in P

LEMMA NumberedKeepable ==
  ASSUME NEW fs, NEW n \in Nat, Numbered(fs, n), NEW m \in Nat, n + Len(fs) <= m,
         NEW P, Keeps(fs, P)
  PROVE Sequence(fs) /\ \A i \in 1 .. Len(fs) : Keepable(fs[i], m, P)
<1>1. fs \in Seq(Frame) /\ Sequence(fs) /\ Len(fs) \in Nat
  BY SequenceIs DEF Numbered
<1>2. ASSUME NEW i \in 1 .. Len(fs) PROVE Keepable(fs[i], m, P)
  <2>1. /\ fs[i] \in Frame /\ command(fs[i]) = "Push" /\ fs[i].header.seq = (n + i) - 1
        /\ fs[i].body \in Seq(Nat)
    BY <1>1 DEF Numbered
  <2>2. (n + i) - 1 \in 0 .. m - 1
    BY <1>1
  <2>3. Makes(fs[i], "Push", (n + i) - 1, fs[i].body)
    BY <2>1 DEF Makes
  <2>4. <<fs[i].header.seq, from_frame(fs[i])>> \in P
    BY DEF Keeps
  <2> QED BY <2>1, <2>2, <2>3, <2>4 DEF Keepable
<1> QED BY <1>1, <1>2

LEMMA StreamDataIs ==
  ASSUME NEW ctx \in Contexts, NEW rel \in Rel, NEW P, rel.tracked \in TrackedIn(rel.seq, P),
         Keeps(packetize_stream_data(rel, ctx).frames, P)
  PROVE Streamed(packetize_stream_data(rel, ctx), rel, rel.seq, P)
<1> DEFINE q == packetize(ctx, rel)
           T == TrackAll(rel.tracked, q.frames)
           p == packetize_stream_data(rel, ctx)
<1>1. rel.buffer \in Buffer /\ rel.seq \in Nat /\ rel.tracked \in Tracked(rel.seq)
  BY RelIs
<1>2. q \in Accs(rel.seq, Content(rel.buffer))
  BY <1>1, PacketizeIs
<1>3. p = [frames |-> q.frames, rel |-> [buffer |-> q.buffer, seq |-> q.seq, tracked |-> T]]
  BY Zenon DEF packetize_stream_data
<1> HIDE DEF q, T
<1>4. p.frames = q.frames /\ p.rel = [buffer |-> q.buffer, seq |-> q.seq, tracked |-> T]
  BY <1>3
<1>5. /\ q.buffer \in Buffer /\ q.seq \in Nat /\ q.frames \in Seq(Frame)
      /\ Cuts(q.frames, rel.seq, q.buffer, q.seq, Content(rel.buffer))
  BY <1>2, AccIs
<1>6. Numbered(q.frames, rel.seq) /\ q.seq = rel.seq + Len(q.frames) /\ Len(q.frames) \in Nat
  BY <1>5 DEF Cuts
<1>7. rel.seq <= q.seq /\ rel.seq + Len(q.frames) <= q.seq
  BY <1>1, <1>5, <1>6
<1>8. rel.tracked \in TrackedIn(q.seq, P)
  BY <1>1, <1>5, <1>7, TrackedGrows
<1>9. Keeps(q.frames, P)
  BY <1>4
<1>10. Sequence(q.frames) /\ \A i \in 1 .. Len(q.frames) : Keepable(q.frames[i], q.seq, P)
  BY <1>1, <1>5, <1>6, <1>7, <1>9, NumberedKeepable
<1>11. T \in TrackedIn(q.seq, P)
  BY <1>5, <1>8, <1>10, TrackAllIs DEF T
<1>12. T \in Tracked(q.seq)
  BY <1>11 DEF TrackedIn
<1>13. [buffer |-> q.buffer, seq |-> q.seq, tracked |-> T] \in Rel
  BY <1>5, <1>12, MakeRel
<1> HIDE DEF p
<1>14. p.rel.buffer = q.buffer /\ p.rel.seq = q.seq /\ p.rel.tracked = T
  BY <1>4
<1>15. Streamed(p, rel, rel.seq, P)
  BY <1>4, <1>5, <1>11, <1>13, <1>14 DEF Streamed
<1> QED BY <1>15 DEF p

\* Everything that can be kept.
AnyKept == Nat \X Info

LEMMA KeepsAny ==
  ASSUME NEW fs, NEW n \in Nat, Numbered(fs, n)
  PROVE Keeps(fs, AnyKept)
<1>1. ASSUME NEW i \in 1 .. Len(fs) PROVE <<fs[i].header.seq, from_frame(fs[i])>> \in AnyKept
  <2>1. /\ fs[i] \in Frame /\ command(fs[i]) = "Push" /\ fs[i].header.seq = (n + i) - 1
        /\ fs[i].body \in Seq(Nat)
    BY DEF Numbered
  <2>2. (n + i) - 1 \in Nat
    <3>1. fs \in Seq(Frame)
      BY DEF Numbered
    <3> QED BY <3>1
  <2>3. Makes(fs[i], "Push", (n + i) - 1, fs[i].body)
    BY <2>1 DEF Makes
  <2>4. from_frame(fs[i]) \in Info
    BY <2>1, <2>2, <2>3, FromFrameIs
  <2> QED BY <2>1, <2>2, <2>4 DEF AnyKept
<1> QED BY <1>1 DEF Keeps

LEMMA TrackedAny ==
  ASSUME NEW n \in Nat, NEW T \in Tracked(n)
  PROVE T \in TrackedIn(n, AnyKept)
<1>1. /\ DOMAIN T \subseteq 0 .. n - 1 /\ \A s \in DOMAIN T : T[s] \in Info
  BY TrackedIs
<1> QED BY <1>1 DEF TrackedIn, AnyKept

LEMMA StreamData ==
  ASSUME NEW ctx \in Contexts, NEW rel \in Rel
  PROVE Streamed(packetize_stream_data(rel, ctx), rel, rel.seq, AnyKept)
<1> DEFINE q == packetize(ctx, rel)
<1>1. rel.buffer \in Buffer /\ rel.seq \in Nat /\ rel.tracked \in Tracked(rel.seq)
  BY RelIs
<1>2. q \in Accs(rel.seq, Content(rel.buffer))
  BY <1>1, PacketizeIs
<1>3. packetize_stream_data(rel, ctx).frames = q.frames
  BY DEF packetize_stream_data
<1> HIDE DEF q
<1>4. Numbered(q.frames, rel.seq)
  BY <1>2, AccIs DEF Cuts
<1>5. Keeps(packetize_stream_data(rel, ctx).frames, AnyKept)
  BY <1>1, <1>3, <1>4, KeepsAny
<1>6. rel.tracked \in TrackedIn(rel.seq, AnyKept)
  BY <1>1, TrackedAny
<1> QED BY <1>5, <1>6, StreamDataIs

Stages == {"client", "server", "open", "closing"}

LEMMA EndpointIs ==
  ASSUME NEW e \in Endpoint
  PROVE /\ e = [stage |-> e.stage, cid |-> e.cid, rel |-> e.rel, written |-> e.written,
                outbox |-> e.outbox, panicked |-> e.panicked]
        /\ e.stage \in Stages /\ e.cid \in {0, PeerCid} /\ e.cid \in Word /\ e.rel \in Rel
        /\ e.written \in Nat /\ e.outbox \in Seq(Batch) /\ e.panicked \in BOOLEAN
<1>1. PeerCid \in Word /\ 0 \in Word
  BY SMT DEF PeerCid, Word
<1> HIDE DEF PeerCid
<1> QED BY <1>1 DEF Endpoint, Stages

LEMMA MakeEndpoint ==
  ASSUME NEW s \in Stages, NEW c \in {0, PeerCid}, NEW r \in Rel, NEW w \in Nat,
         NEW o \in Seq(Batch), NEW p \in BOOLEAN
  PROVE [stage |-> s, cid |-> c, rel |-> r, written |-> w, outbox |-> o, panicked |-> p] \in Endpoint
BY DEF Endpoint, Stages

LEMMA CtxIs ==
  ASSUME NEW cid \in Word, NEW c \in Nat, NEW w \in Nat
  PROVE Ctx(cid, c, w) \in Contexts
<1>1. 66051 \in Word /\ 513 \in Word /\ 770 \in Half
  BY SMT DEF Word, Half
<1> QED BY <1>1 DEF Ctx, Contexts

LEMMA BatchesIs ==
  ASSUME NEW to \in {"peer", "new"}, NEW packets \in Seq(Packet)
  PROVE Batches(to, packets) \in Seq(Batch)
<1>1. packets \in [1 .. Len(packets) -> Packet] /\ Len(packets) \in Nat /\ DOMAIN packets = 1 .. Len(packets)
  OBVIOUS
<1>2. \A i \in 1 .. Len(packets) : [to |-> to, frames |-> packets[i]] \in Batch
  BY <1>1 DEF Batch
<1>3. Batches(to, packets) \in [1 .. Len(packets) -> Batch]
  BY <1>1, <1>2 DEF Batches
<1> QED BY <1>1, <1>3

LEMMA InvIs ==
  ASSUME Inv
  PROVE /\ ep \in Endpoint /\ chan \in Seq(ChanItem) /\ Sequence(chan)
        /\ task = [transport |-> task.transport, pending |-> task.pending, waiting |-> task.waiting]
        /\ task.transport \in Transports /\ task.pending \in Seq(Batch) /\ task.waiting \in BOOLEAN
        /\ Sequence(task.pending)
        /\ manager = [transport |-> manager.transport, binding |-> manager.binding]
        /\ manager.transport \in Transports /\ manager.binding \in 0 .. MaxTransports
        /\ udp \in [Transports -> Udp] /\ kernel \in [Addresses -> Seq(Datagram)]
        /\ wire \in Seq(Sent) /\ produced \in Seq(Batch) /\ delivered \in Seq(Received)
        /\ Sequence(wire) /\ Sequence(produced) /\ Sequence(ep.outbox)
<1>1. /\ ep \in Endpoint /\ chan \in Seq(ChanItem)
      /\ task = [transport |-> task.transport, pending |-> task.pending, waiting |-> task.waiting]
      /\ task.transport \in Transports /\ task.pending \in Seq(Batch) /\ task.waiting \in BOOLEAN
      /\ manager = [transport |-> manager.transport, binding |-> manager.binding]
      /\ manager.transport \in Transports /\ manager.binding \in 0 .. MaxTransports
      /\ udp \in [Transports -> Udp] /\ kernel \in [Addresses -> Seq(Datagram)]
      /\ wire \in Seq(Sent) /\ produced \in Seq(Batch) /\ delivered \in Seq(Received)
  BY DEF Inv, EpOK, ChanOK, TaskOK, ManagerOK, UdpOK, KernelOK, HistoryOK
<1>2. ep.outbox \in Seq(Batch)
  BY <1>1, EndpointIs
<1>3. Sequence(chan)
  BY <1>1, SequenceIs
<1>4. Sequence(task.pending)
  BY <1>1, SequenceIs
<1>5. Sequence(wire)
  BY <1>1, SequenceIs
<1>6. Sequence(produced)
  BY <1>1, SequenceIs
<1>7. Sequence(ep.outbox)
  BY <1>2, SequenceIs
<1> QED BY <1>1, <1>3, <1>4, <1>5, <1>6, <1>7

\* A step that changes the endpoint but not what it has to hand over.
LEMMA LocalStep ==
  ASSUME Inv, ep' \in Endpoint, ep'.outbox = ep.outbox, Calm(ep)',
         UNCHANGED <<chan, transportSide, produced>>
  PROVE Inv'
<1>1. UNCHANGED <<chan, task, manager, udp, kernel, wire, delivered, count, produced>>
  BY DEF transportSide
<1> QED BY <1>1 DEF Inv, EpOK, ChanOK, TaskOK, ManagerOK, UdpOK, KernelOK, HistoryOK, CountOK,
                    Ordered, Waits, Bound, Capped

\* A step that makes batches while none is waiting to be handed over.
LEMMA ProduceStep ==
  ASSUME Inv, NEW e \in Endpoint, NEW batches \in Seq(Batch), ep.outbox = <<>>, Calm(e),
         Produce(e, batches)
  PROVE Inv'
<1>1. /\ e.stage \in Stages /\ e.cid \in {0, PeerCid} /\ e.rel \in Rel /\ e.written \in Nat
      /\ e.panicked \in BOOLEAN
      /\ e = [stage |-> e.stage, cid |-> e.cid, rel |-> e.rel, written |-> e.written,
              outbox |-> e.outbox, panicked |-> e.panicked]
  BY EndpointIs
<1>2. ep' = [e EXCEPT !.outbox = batches] /\ produced' = produced \o batches
  BY DEF Produce
<1>3. ep' = [stage |-> e.stage, cid |-> e.cid, rel |-> e.rel, written |-> e.written,
             outbox |-> batches, panicked |-> e.panicked]
  BY <1>1, <1>2
<1>4. ep' \in Endpoint
  BY <1>1, <1>3, MakeEndpoint
<1>5. ep'.outbox = batches /\ ep'.stage = e.stage /\ ep'.rel = e.rel /\ ep'.panicked = e.panicked
  BY <1>3
<1>6. Calm(ep)'
  BY <1>5 DEF Calm
<1>7. UNCHANGED <<chan, task, manager, udp, kernel, wire, delivered, count>>
  BY DEF Produce, transportSide
<1>8. Sequence(wire) /\ Sequence(produced) /\ Sequence(task.pending) /\ Sequence(chan)
      /\ produced \in Seq(Batch) /\ Sequence(batches)
  BY InvIs, SequenceIs
<1>9. Ordered(wire, Cat(produced, batches), task.pending, chan, batches)
  <2>1. Ordered(wire, produced, task.pending, chan, <<>>)
    BY DEF Inv
  <2> QED BY <1>8, <2>1, OrderedProduce
<1>10. produced' = Cat(produced, batches) /\ produced' \in Seq(Batch)
  BY <1>2, <1>8 DEF Cat
<1>11. Ordered(wire', produced', task'.pending, chan', ep'.outbox)
  BY <1>5, <1>7, <1>9, <1>10
<1>12. /\ ChanOK(chan)' /\ TaskOK(task)' /\ ManagerOK(manager)' /\ UdpOK(udp)' /\ KernelOK(kernel)'
       /\ CountOK(count)' /\ Waits(task, udp)' /\ Bound(chan, task, manager, count.transports)'
       /\ Capped(chan, task, udp)'
  BY <1>7 DEF Inv, ChanOK, TaskOK, ManagerOK, UdpOK, KernelOK, CountOK, Waits, Bound, Capped
<1>13. HistoryOK(wire, produced, delivered)'
  BY <1>7, <1>10 DEF Inv, HistoryOK
<1>14. Ordered(wire, produced, task.pending, chan, ep.outbox)'
  BY <1>11 DEF Ordered
<1> QED BY <1>4, <1>6, <1>12, <1>13, <1>14 DEF Inv, EpOK

LEMMA SizeFront ==
  ASSUME NEW f \in Frame, NEW fs \in Seq(Frame)
  PROVE /\ Cat(<<f>>, fs) \in Seq(Frame) /\ Len(Cat(<<f>>, fs)) = 1 + Len(fs)
        /\ PacketSize(Cat(<<f>>, fs)) = encoded_size(f) + PacketSize(fs)
<1> DEFINE q == Cat(<<f>>, fs)
<1>1. q \in Seq(Frame) /\ Len(q) = 1 + Len(fs) /\ q # <<>> /\ Head(q) = f /\ Tail(q) = fs
  BY DEF Cat
<1> HIDE DEF q
<1>2. \A x \in Frame : Piece("octets", 0, x) = encode(x) /\ encode(x) \in Seq(Nat) /\ Len(encode(x)) = encoded_size(x)
  BY FrameIs, EncodeIs DEF Piece
<1>3. ASSUME NEW s \in Seq(Frame)
      PROVE Pieced("octets", 0, s) /\ serialize_frames(s) = Gather("octets", 0, s)
  <2>1. Sequence(s) /\ \A i \in 1 .. Len(s) : s[i] \in Frame
    BY SequenceIs
  <2>2. \A i \in 1 .. Len(s) : Sequence(Piece("octets", 0, s[i]))
    <3> TAKE i \in 1 .. Len(s)
    <3>1. Piece("octets", 0, s[i]) = encode(s[i]) /\ encode(s[i]) \in Seq(Nat)
      BY <1>2, <2>1
    <3> QED BY <3>1, SequenceIs
  <2>3. Len(s) \in Nat /\ DOMAIN s = 1 .. Len(s)
    BY <2>1, SequenceFacts
  <2> QED BY <2>1, <2>2, <2>3, OctetsFolded DEF Pieced, Gather
<1>4. "octets" \in Kinds
  BY DEF Kinds
<1>5. Gather("octets", 0, q) = Cat(Piece("octets", 0, f), Gather("octets", 0, fs))
  BY <1>1, <1>3, <1>4, GatherFront
<1>6. serialize_frames(q) = Cat(encode(f), serialize_frames(fs))
  BY <1>1, <1>2, <1>3, <1>5
<1>7. serialize_frames(fs) \in Seq(Nat) /\ encode(f) \in Seq(Nat)
  <2>1. Sequence(fs) /\ \A i \in 1 .. Len(fs) : fs[i] \in Frame
    BY SequenceIs
  <2>2. \A i \in 1 .. Len(fs) : Shaped(fs[i])
    BY <2>1, FrameIs
  <2> QED BY <1>2, <2>1, <2>2, SerializedSize
<1>8. Len(Cat(encode(f), serialize_frames(fs))) = Len(encode(f)) + Len(serialize_frames(fs))
  BY <1>7, CatIs
<1>9. Len(serialize_frames(q)) = PacketSize(q) /\ Len(serialize_frames(fs)) = PacketSize(fs)
  BY <1>1, FramesSized
<1>10. PacketSize(q) = encoded_size(f) + PacketSize(fs)
  BY <1>2, <1>6, <1>8, <1>9
<1> QED BY <1>1, <1>10 DEF q

LEMMA OnePieceSize ==
  ASSUME NEW sb \in Buffer, NEW m \in Nat, OnePiece(sb, m)
  PROVE Len(Content(sb)) = m
<1>1. CASE m = 0 /\ sb.pieces = <<>>
  BY <1>1, FlatEmpty DEF Content
<1>2. ASSUME NEW p \in Seq(Nat), sb.pieces = <<p>>, Len(p) = m PROVE Len(Content(sb)) = m
  BY <1>2, FlatOne DEF Content
<1> QED BY <1>1, <1>2 DEF OnePiece

\* InitialData's bound holds for the frames that the packetizer makes.
LEMMA InitialFits ==
  ASSUME NEW ctx \in Contexts, NEW rel \in Rel, NEW m \in Nat, OnePiece(rel.buffer, m),
         m = 0 \/ FitsSyn(m)
  PROVE 10 + PacketSize(packetize_stream_data(rel, ctx).frames) <= MaxPacket
<1> DEFINE q == packetize(ctx, rel)
           fs == q.frames
           k == Len(fs)
           d == FlattenSeq(Bodies(fs))
<1>0. rel.buffer \in Buffer /\ rel.seq \in Nat /\ rel.tracked \in Tracked(rel.seq)
  BY RelIs
<1>1. q \in Accs(rel.seq, Content(rel.buffer)) /\ Counted(k, q.buffer, m)
  BY <1>0, PacketizeIs, PacketizeCounted
<1>2. packetize_stream_data(rel, ctx).frames = fs
  BY DEF packetize_stream_data
<1> HIDE DEF q
<1>3. Cuts(fs, rel.seq, q.buffer, q.seq, Content(rel.buffer))
  BY <1>1, AccIs
<1>4. /\ Numbered(fs, rel.seq) /\ q.buffer \in Buffer /\ fs \in Seq(Frame)
      /\ Cat(d, Content(q.buffer)) = Content(rel.buffer) /\ PacketSize(fs) = (21 * k) + Len(d)
  BY <1>3 DEF Cuts, Numbered
<1>5. d \in Seq(Nat)
  BY <1>4, BodiesIs, FlatIn
<1>6. Content(q.buffer) \in Seq(Nat)
  BY <1>4, BufferIs
<1>7. Len(Content(rel.buffer)) = m
  BY <1>0, OnePieceSize
<1> HIDE DEF d
<1>8. Len(d) + Len(Content(q.buffer)) = m
  BY <1>4, <1>5, <1>6, <1>7, CatIs
<1>9. Len(d) \in Nat /\ Len(d) <= m /\ k \in Nat
  BY <1>4, <1>5, <1>6, <1>8
<1> HIDE DEF k, fs
<1>10. PICK l \in Nat : /\ OnePiece(q.buffer, l)
                        /\ l = 0 => k = 0 \/ (k - 1) * MaxPayload < m
                        /\ l # 0 => (k * MaxPayload) + l = m
  BY <1>1 DEF Counted
<1>11. MaxPayload \in Nat /\ MaxPayload # 0 /\ MaxPacket \in Nat /\ MaxPacket >= 10
  BY PacketizerAssumption, HeaderSizes
<1> DEFINE x == (k - 1) * MaxPayload
           y == k * MaxPayload
<1>12. x \in Int /\ y \in Nat /\ x + MaxPayload = y
  BY <1>9, <1>11
<1>13. l = 0 => k = 0 \/ x < m
  BY <1>10
<1>14. l # 0 => y + l = m
  BY <1>10
<1>18. k = 0 => y = 0
  BY <1>11
<1> HIDE DEF x, y
<1>15. k = 0 \/ x < m
  BY <1>9, <1>11, <1>12, <1>13, <1>14
<1>16. CASE m = 0
  <2>1. k = 0
    <3>1. l = 0
      BY <1>12, <1>14, <1>16
    <3>2. SUFFICES ASSUME k # 0 PROVE FALSE
      OBVIOUS
    <3>3. x < 0
      BY <1>15, <1>16, <3>2
    <3>4. x >= 0
      BY <1>9, <1>11, <3>2 DEF x
    <3> QED BY <1>12, <3>3, <3>4
  <2> QED BY <1>2, <1>4, <1>9, <1>11, <1>16, <2>1
<1>17. CASE m # 0
  <2>1. PICK K \in Nat : (\A j \in Nat : (j - 1) * MaxPayload < m => j <= K) /\ 10 + (21 * K) + m <= MaxPacket
    BY <1>17 DEF FitsSyn
  <2>2. k <= K
    <3>1. CASE k = 0
      BY <3>1, <2>1
    <3>2. CASE x < m
      BY <1>9, <2>1, <3>2 DEF x
    <3> QED BY <1>15, <3>1, <3>2
  <2> QED BY <1>2, <1>4, <1>9, <1>11, <2>1, <2>2
<1> QED BY <1>16, <1>17

LEMMA BytesIs ==
  ASSUME NEW from \in Nat, NEW n \in Nat
  PROVE Bytes(from, n) \in Seq(Nat) /\ Len(Bytes(from, n)) = n
<1>1. Bytes(from, n) \in [1 .. n -> Nat]
  BY DEF Bytes
<1> QED BY <1>1

\* The endpoint with some of its fields replaced.
Ep(s, c, r, w, o, p) ==
  [stage |-> s, cid |-> c, rel |-> r, written |-> w, outbox |-> o, panicked |-> p]

LEMMA EpFields ==
  ASSUME NEW s, NEW c, NEW r, NEW w, NEW o, NEW p
  PROVE /\ Ep(s, c, r, w, o, p).stage = s /\ Ep(s, c, r, w, o, p).cid = c
        /\ Ep(s, c, r, w, o, p).rel = r /\ Ep(s, c, r, w, o, p).written = w
        /\ Ep(s, c, r, w, o, p).outbox = o /\ Ep(s, c, r, w, o, p).panicked = p
BY DEF Ep

LEMMA EpIs ==
  ASSUME NEW s \in Stages, NEW c \in {0, PeerCid}, NEW r \in Rel, NEW w \in Nat,
         NEW o \in Seq(Batch)
  PROVE Ep(s, c, r, w, o, FALSE) \in Endpoint /\ (s # "client" => Calm(Ep(s, c, r, w, o, FALSE)))
<1>1. FALSE \in BOOLEAN
  OBVIOUS
<1>2. Ep(s, c, r, w, o, FALSE) \in Endpoint
  BY <1>1, MakeEndpoint DEF Ep
<1> DEFINE e == Ep(s, c, r, w, o, FALSE)
<1>3. e.stage = s /\ ~ e.panicked
  BY DEF Ep
<1> HIDE DEF e
<1>4. s # "client" => Calm(e)
  BY <1>3 DEF Calm
<1> QED BY <1>2, <1>4 DEF e

LEMMA SameCalm ==
  ASSUME NEW s, NEW c, NEW r, NEW w, NEW o, ep' = Ep(s, c, r, w, o, FALSE),
         Calm(Ep(s, c, r, w, o, FALSE))
  PROVE Calm(ep)' /\ ep'.outbox = o
<1>1. ep'.outbox = o
  BY DEF Ep
<1>2. Calm(ep)'
  BY DEF Calm
<1> QED BY <1>1, <1>2

\* What the endpoint is while it is free to act.
LEMMA FreeIs ==
  ASSUME Inv, IsFree
  PROVE /\ ep = Ep(ep.stage, ep.cid, ep.rel, ep.written, <<>>, FALSE) /\ ep.outbox = <<>>
        /\ ep.stage \in Stages /\ ep.cid \in {0, PeerCid} /\ ep.cid \in Word /\ ep.rel \in Rel
        /\ ep.written \in Nat /\ <<>> \in Seq(Batch) /\ ep.panicked = FALSE
        /\ ep.rel = [buffer |-> ep.rel.buffer, seq |-> ep.rel.seq, tracked |-> ep.rel.tracked]
        /\ ep.rel.buffer \in Buffer /\ ep.rel.seq \in Nat /\ ep.rel.tracked \in Tracked(ep.rel.seq)
<1>1. ep \in Endpoint
  BY InvIs
<1>2. /\ ep = [stage |-> ep.stage, cid |-> ep.cid, rel |-> ep.rel, written |-> ep.written,
                outbox |-> ep.outbox, panicked |-> ep.panicked]
      /\ ep.stage \in Stages /\ ep.cid \in {0, PeerCid} /\ ep.cid \in Word /\ ep.rel \in Rel
      /\ ep.written \in Nat /\ ep.outbox \in Seq(Batch) /\ ep.panicked \in BOOLEAN
  BY <1>1, EndpointIs
<1>3. ep.outbox = <<>> /\ ep.panicked = FALSE
  BY <1>2 DEF IsFree
<1>4. /\ ep.rel = [buffer |-> ep.rel.buffer, seq |-> ep.rel.seq, tracked |-> ep.rel.tracked]
      /\ ep.rel.buffer \in Buffer /\ ep.rel.seq \in Nat /\ ep.rel.tracked \in Tracked(ep.rel.seq)
  BY <1>2, RelIs
<1> QED BY <1>2, <1>3, <1>4 DEF Ep

LEMMA WriteStep ==
  ASSUME Inv, NEW n \in Writes, Write(n)
  PROVE Inv'
<1> DEFINE d == Bytes(ep.written, n)
           b == write_to_stream(ep.rel.buffer, d)
           w == ep.written + (b.size - ep.rel.buffer.size)
           r == [buffer |-> b, seq |-> ep.rel.seq, tracked |-> ep.rel.tracked]
<1>1. IsFree /\ ep.stage = "open"
  BY DEF Write
<1>2. ep' = [ep EXCEPT !.rel.buffer = b, !.written = ep.written + (b.size - ep.rel.buffer.size)]
      /\ UNCHANGED <<chan, transportSide, produced>>
  BY Zenon DEF Write
<1>3. d \in Seq(Nat)
  BY <1>1, FreeIs, BytesIs, TransportAssumption
<1>4. Grown(ep.rel.buffer, d, Least(Len(d), Permit(StreamCap, ep.rel.buffer.size)), b)
  <2> HIDE DEF d
  <2> QED BY <1>1, <1>3, FreeIs, WriteIs
<1> HIDE DEF d, b
<1>5. b \in Buffer /\ \E k \in Nat : b.size = ep.rel.buffer.size + k
  BY <1>4 DEF Grown
<1>6. w \in Nat
  <2>1. ep.rel.buffer.size \in Nat /\ ep.written \in Nat
    BY <1>1, FreeIs, BufferIs
  <2> QED BY <1>5, <2>1
<1>7. r \in Rel
  BY <1>1, <1>5, FreeIs, MakeRel
<1>8. ep' = Ep("open", ep.cid, r, w, <<>>, FALSE)
  BY <1>1, <1>2, FreeIs, Zenon DEF Ep
<1> HIDE DEF w, r
<1>9. "open" \in Stages /\ "open" # "client"
  BY DEF Stages
<1>10. ep' \in Endpoint /\ Calm(Ep("open", ep.cid, r, w, <<>>, FALSE))
  BY <1>1, <1>6, <1>7, <1>8, <1>9, FreeIs, EpIs
<1>11. ep'.outbox = ep.outbox /\ Calm(ep)'
  BY <1>1, <1>8, <1>10, FreeIs, SameCalm
<1> QED BY <1>2, <1>10, <1>11, LocalStep

LEMMA CloseStep ==
  ASSUME Inv, Close \/ LearnCid
  PROVE Inv'
<1>1. /\ IsFree /\ ep.stage = "open" /\ UNCHANGED <<chan, transportSide, produced>>
      /\ \/ ep' = [ep EXCEPT !.stage = "closing"]
         \/ ep' = [ep EXCEPT !.cid = PeerCid]
  BY Zenon DEF Close, LearnCid
<1>2. PICK s \in {"open", "closing"}, c \in {0, PeerCid} :
        ep' = Ep(s, c, ep.rel, ep.written, <<>>, FALSE)
  BY <1>1, FreeIs, Zenon DEF Ep
<1>3. s \in Stages /\ s # "client"
  BY DEF Stages
<1>4. ep' \in Endpoint /\ Calm(Ep(s, c, ep.rel, ep.written, <<>>, FALSE))
  BY <1>1, <1>2, <1>3, FreeIs, EpIs
<1>5. ep'.outbox = ep.outbox /\ Calm(ep)'
  <2>1. ep.outbox = <<>>
    BY <1>1, FreeIs
  <2>2. ep'.outbox = <<>> /\ Calm(ep)'
    BY <1>2, <1>4, SameCalm
  <2> QED BY <2>1, <2>2
<1> QED BY <1>1, <1>4, <1>5, LocalStep

LEMMA FewerTracked ==
  ASSUME NEW m \in Nat, NEW T \in Tracked(m), NEW n
  PROVE [s \in {s \in DOMAIN T : s >= n} |-> T[s]] \in Tracked(m)
<1> DEFINE D == {s \in DOMAIN T : s >= n}
<1>1. DOMAIN T \subseteq 0 .. m - 1 /\ \A s \in DOMAIN T : T[s] \in Info
  BY TrackedIs
<1>2. D \in SUBSET (0 .. m - 1) /\ \A s \in D : T[s] \in Info
  BY <1>1
<1> HIDE DEF D
<1>3. [s \in D |-> T[s]] \in [D -> Info]
  BY <1>2
<1> QED BY <1>2, <1>3 DEF Tracked, D

LEMMA AcknowledgeStep ==
  ASSUME Inv, NEW n, Acknowledge(n)
  PROVE Inv'
<1> DEFINE T == [s \in {s \in DOMAIN ep.rel.tracked : s >= n} |-> ep.rel.tracked[s]]
           r == [buffer |-> ep.rel.buffer, seq |-> ep.rel.seq, tracked |-> T]
<1>1. IsFree /\ UNCHANGED <<chan, transportSide, produced>>
      /\ ep' = [ep EXCEPT !.rel.tracked = T]
  BY Zenon DEF Acknowledge
<1>2. T \in Tracked(ep.rel.seq)
  BY <1>1, FreeIs, FewerTracked
<1> HIDE DEF T
<1>3. ep' = Ep(ep.stage, ep.cid, r, ep.written, <<>>, FALSE)
  BY <1>1, FreeIs, Zenon DEF Ep
<1>4. r \in Rel
  BY <1>1, <1>2, FreeIs, MakeRel
<1>5. r.buffer = ep.rel.buffer
  OBVIOUS
<1> HIDE DEF r
<1>6. ep' \in Endpoint
  <2>1. /\ ep.stage \in Stages /\ ep.cid \in {0, PeerCid} /\ ep.written \in Nat /\ <<>> \in Seq(Batch)
    BY <1>1, FreeIs
  <2>2. Ep(ep.stage, ep.cid, r, ep.written, <<>>, FALSE) \in Endpoint
    BY <1>4, <2>1, EpIs
  <2> QED BY <1>3, <2>2
<1>7. ep'.outbox = ep.outbox /\ ep'.stage = ep.stage /\ ep'.rel.buffer = ep.rel.buffer /\ ~ ep'.panicked
  BY <1>1, <1>3, <1>5, FreeIs DEF Ep
<1>8. Calm(ep)'
  <2>1. Calm(ep)
    BY DEF Inv
  <2> QED BY <1>7, <2>1 DEF Calm
<1> QED BY <1>1, <1>6, <1>7, <1>8, LocalStep

LEMMA OnePacket ==
  ASSUME NEW f \in Frame
  PROVE << <<f>> >> \in Seq(Packet)
<1>1. <<f>> \in Seq(Frame) /\ Len(<<f>>) = 1
  OBVIOUS
<1>2. <<f>> \in Packet
  BY <1>1 DEF Packet
<1> QED BY <1>2

\* A step that hands one frame over.
LEMMA OneFrameStep ==
  ASSUME Inv, NEW e \in Endpoint, NEW to \in {"peer", "new"}, NEW f \in Frame, ep.outbox = <<>>,
         Calm(e), Produce(e, Batches(to, << <<f>> >>))
  PROVE Inv'
<1> DEFINE ps == << <<f>> >>
           b == Batches(to, ps)
<1>1. ps \in Seq(Packet)
  BY OnePacket
<1>2. b \in Seq(Batch)
  <2> HIDE DEF ps
  <2> QED BY <1>1, BatchesIs
<1>3. Produce(e, b)
  OBVIOUS
<1> HIDE DEF b
<1> QED BY <1>2, <1>3, ProduceStep

LEMMA AckStep ==
  ASSUME Inv, NEW ranges \in Sacks, send_standalone_ack(ranges)
  PROVE Inv'
<1> DEFINE next == 513
           mine == 770
           now == 66051
           f == new_ack(ep.cid, next, mine, ranges, now)
<1>1. IsFree /\ Produce(ep, Batches("peer", << <<f>> >>))
  BY DEF send_standalone_ack
<1>2. ranges \in Seq(Word \X Word)
  BY TransportAssumption
<1>3. next \in Word /\ mine \in Half /\ now \in Word
  BY SMT DEF Word, Half
<1> HIDE DEF next, mine, now
<1>4. f \in Frame
  BY <1>1, <1>2, <1>3, FreeIs, AckIs
<1> HIDE DEF f
<1>5. ep \in Endpoint /\ Calm(ep) /\ ep.outbox = <<>>
  BY <1>1, InvIs, FreeIs DEF Inv
<1> QED BY <1>1, <1>4, <1>5, OneFrameStep

LEMMA ChallengeStep ==
  ASSUME Inv, SendChallenge
  PROVE Inv'
<1> DEFINE now == 66051
           f == new_path_challenge(ep.cid, ep.rel.seq, now, Challenge)
           r == [buffer |-> ep.rel.buffer, seq |-> ep.rel.seq + 1, tracked |-> ep.rel.tracked]
           e == [ep EXCEPT !.rel.seq = @ + 1]
<1>1. IsFree /\ ep.stage = "open" /\ Produce(e, Batches("new", << <<f>> >>))
  BY DEF SendChallenge
<1>2. now \in Word /\ Challenge \in Word
  BY SMT DEF Word, Challenge
<1> HIDE DEF now
<1>3. f \in Frame
  BY <1>1, <1>2, FreeIs, ChallengeIs
<1>4. ep.rel.tracked \in Tracked(ep.rel.seq + 1)
  <2>1. ep.rel.tracked \in TrackedIn(ep.rel.seq, AnyKept) /\ ep.rel.seq + 1 \in Nat
        /\ ep.rel.seq <= ep.rel.seq + 1 /\ ep.rel.seq \in Nat
    BY <1>1, FreeIs, TrackedAny
  <2> DEFINE k == ep.rel.seq + 1
  <2> HIDE DEF k
  <2>2. ep.rel.tracked \in TrackedIn(k, AnyKept)
    BY <2>1, TrackedGrows DEF k
  <2> QED BY <2>2 DEF TrackedIn, k
<1>5. r \in Rel
  <2>1. ep.rel.seq + 1 \in Nat
    BY <1>1, FreeIs
  <2> QED BY <1>1, <1>4, <2>1, FreeIs, MakeRel
<1>6. e = Ep("open", ep.cid, r, ep.written, <<>>, FALSE)
  <2> DEFINE k == ep.rel.seq + 1
  <2>1. e = [ep EXCEPT !.rel.seq = k] /\ r = [buffer |-> ep.rel.buffer, seq |-> k, tracked |-> ep.rel.tracked]
    OBVIOUS
  <2> HIDE DEF k, e, r
  <2>2. e = [ep EXCEPT !.rel = [ep.rel EXCEPT !.seq = k]]
    BY <2>1
  <2>3. [ep.rel EXCEPT !.seq = k] = r
    <3>1. ep.rel = [buffer |-> ep.rel.buffer, seq |-> ep.rel.seq, tracked |-> ep.rel.tracked]
      BY <1>1, FreeIs
    <3> QED BY <2>1, <3>1
  <2>4. e = [ep EXCEPT !.rel = r]
    BY <2>2, <2>3
  <2> QED BY <1>1, <2>4, FreeIs, Zenon DEF Ep
<1> HIDE DEF e, r, f
<1>7. "open" \in Stages /\ "open" # "client" /\ "new" \in {"peer", "new"}
  BY DEF Stages
<1>8. e \in Endpoint /\ Calm(e) /\ ep.outbox = <<>>
  BY <1>1, <1>5, <1>6, <1>7, FreeIs, EpIs
<1> QED BY <1>1, <1>3, <1>7, <1>8, OneFrameStep

LEMMA RetransmitStep ==
  ASSUME Inv, Retransmit
  PROVE Inv'
<1> DEFINE T == ep.rel.tracked
           due == InOrder(DOMAIN T)
           ctx == Ctx(ep.cid, 0, 0)
           fs == [i \in DOMAIN due |-> reconstruct_frame(due[i], T[due[i]], ctx)]
           ps == BuildPackets(fs)
           b == Batches("peer", ps)
<1>1. IsFree /\ Produce(ep, b)
  BY DEF Retransmit
<1>2. /\ ep \in Endpoint /\ Calm(ep) /\ ep.outbox = <<>> /\ ep.rel.seq \in Nat
      /\ T \in Tracked(ep.rel.seq) /\ ep.cid \in Word
  BY <1>1, InvIs, FreeIs DEF Inv
<1>3. ctx \in Contexts
  BY <1>2, CtxIs
<1>4. DOMAIN T \subseteq 0 .. ep.rel.seq - 1 /\ \A s \in DOMAIN T : T[s] \in Info
  BY <1>2, TrackedIs
<1>5. due \in Seq(DOMAIN T)
  BY <1>2, InOrderIs
<1> HIDE DEF due, ctx
<1>6. fs \in Seq(Frame)
  <2>1. Len(due) \in Nat /\ DOMAIN due = 1 .. Len(due) /\ \A i \in 1 .. Len(due) : due[i] \in DOMAIN T
    BY <1>5
  <2>2. ASSUME NEW i \in 1 .. Len(due) PROVE reconstruct_frame(due[i], T[due[i]], ctx) \in Frame
    <3>1. due[i] \in Nat /\ T[due[i]] \in Info
      BY <1>2, <1>4, <2>1
    <3>2. Makes(reconstruct_frame(due[i], T[due[i]], ctx), T[due[i]].type, due[i], Remade(T[due[i]]))
      BY <1>3, <3>1, ReconstructIs
    <3> QED BY <3>2 DEF Makes
  <2>3. fs \in [1 .. Len(due) -> Frame]
    BY <2>1, <2>2
  <2> QED BY <2>1, <2>3
<1> HIDE DEF fs
<1>7. ps \in Seq(Packet)
  BY <1>6, BuildPacketsIs
<1> HIDE DEF ps
<1>8. b \in Seq(Batch)
  BY <1>7, BatchesIs
<1> HIDE DEF b
<1> QED BY <1>1, <1>2, <1>8, ProduceStep

LEMMA StreamedIs ==
  ASSUME NEW p, NEW rel, NEW n \in Nat, NEW P, Streamed(p, rel, n, P)
  PROVE /\ p.rel \in Rel /\ p.frames \in Seq(Frame) /\ Numbered(p.frames, n)
        /\ p.rel.seq = n + Len(p.frames)
BY DEF Streamed, Cuts, Numbered

LEMMA InitialStep ==
  ASSUME Inv, NEW c \in Windows, NEW w \in Windows, send_initial_syn(c, w)
  PROVE Inv'
<1> DEFINE ctx == Ctx(ep.cid, c, w)
           p == packetize_stream_data(ep.rel, ctx)
           syn == new_syn(Version, LocalCid, 0)
           fs == <<syn>> \o p.frames
           e == [ep EXCEPT !.stage = "open", !.rel = p.rel, !.panicked = PacketSize(fs) > MaxPacket]
           b == IF PacketSize(fs) > MaxPacket THEN <<>> ELSE Batches("peer", <<fs>>)
<1>1. IsFree /\ ep.stage = "client" /\ Produce(e, b)
  BY Zenon DEF send_initial_syn
<1>2. ep.rel \in Rel /\ ep.cid \in {0, PeerCid} /\ ep.cid \in Word /\ ep.written \in Nat /\ ep.outbox = <<>>
      /\ <<>> \in Seq(Batch) /\ c \in Nat /\ w \in Nat
  BY <1>1, FreeIs, TransportAssumption
<1>3. ctx \in Contexts
  BY <1>2, CtxIs
<1>4. PICK m \in Nat : OnePiece(ep.rel.buffer, m) /\ (m = 0 \/ FitsSyn(m))
  BY <1>1 DEF Inv, Calm
<1> HIDE DEF ctx
<1>5. 10 + PacketSize(p.frames) <= MaxPacket
  BY <1>2, <1>3, <1>4, InitialFits
<1>6. Streamed(p, ep.rel, ep.rel.seq, AnyKept) /\ ep.rel.seq \in Nat
  BY <1>2, <1>3, StreamData, RelIs
<1> HIDE DEF p
<1>7. p.rel \in Rel /\ p.frames \in Seq(Frame)
  BY <1>6, StreamedIs
<1>8. syn \in Frame /\ encoded_size(syn) = 10
  <2>1. Version \in Octet /\ LocalCid \in Word /\ 0 \in Word
    BY SMT DEF Version, LocalCid, Octet, Word
  <2> QED BY <2>1, SynIs
<1> HIDE DEF syn
<1>9. fs \in Seq(Frame) /\ PacketSize(fs) = encoded_size(syn) + PacketSize(p.frames)
  BY <1>7, <1>8, SizeFront DEF Cat
<1>10. PacketSize(p.frames) \in Nat
  BY <1>7, FramesSized
<1>11. PacketSize(fs) <= MaxPacket /\ ~ (PacketSize(fs) > MaxPacket)
  <2>1. MaxPacket \in Nat
    BY PacketizerAssumption
  <2> QED BY <1>5, <1>8, <1>9, <1>10, <2>1
<1>12. b = Batches("peer", <<fs>>)
  BY <1>11
<1>13. e = [ep EXCEPT !.stage = "open", !.rel = p.rel, !.panicked = FALSE]
  <2> DEFINE x == PacketSize(fs) > MaxPacket
  <2>1. x = FALSE
    BY <1>11
  <2>2. e = [ep EXCEPT !.stage = "open", !.rel = p.rel, !.panicked = x]
    OBVIOUS
  <2> HIDE DEF x, e
  <2> QED BY <2>1, <2>2, Zenon
<1> HIDE DEF fs, e, b
<1>14. <<fs>> \in Seq(Packet)
  <2>1. fs \in Packet
    BY <1>9, <1>11 DEF Packet
  <2> QED BY <2>1
<1>15. b \in Seq(Batch)
  <2> DEFINE ps == <<fs>>
  <2> HIDE DEF ps
  <2>1. Batches("peer", ps) \in Seq(Batch)
    BY <1>14, BatchesIs DEF ps
  <2> QED BY <1>12, <2>1 DEF ps
<1>16. e = Ep("open", ep.cid, p.rel, ep.written, <<>>, FALSE)
  BY <1>1, <1>13, FreeIs, Zenon DEF Ep
<1>17. "open" \in Stages /\ "open" # "client"
  BY DEF Stages
<1>18. e \in Endpoint /\ Calm(e)
  BY <1>2, <1>7, <1>16, <1>17, EpIs
<1> QED BY <1>1, <1>2, <1>15, <1>18, ProduceStep

Opened(x, s, r, w) == [x EXCEPT !.stage = s, !.rel = r, !.written = w]

LEMMA EpOpened ==
  ASSUME NEW x, NEW s, NEW c, NEW r, NEW w, NEW o, NEW p, x = Ep(s, c, r, w, o, p),
         NEW s2, NEW r2, NEW w2
  PROVE Opened(x, s2, r2, w2) = Ep(s2, c, r2, w2, o, p)
<1>1. [x EXCEPT !.stage = s2] = Ep(s2, c, r, w, o, p)
  BY DEF Ep
<1>2. [Ep(s2, c, r, w, o, p) EXCEPT !.rel = r2] = Ep(s2, c, r2, w, o, p)
  BY DEF Ep
<1>3. [Ep(s2, c, r2, w, o, p) EXCEPT !.written = w2] = Ep(s2, c, r2, w2, o, p)
  BY DEF Ep
<1>4. Opened(x, s2, r2, w2)
        = [[[x EXCEPT !.stage = s2] EXCEPT !.rel = r2] EXCEPT !.written = w2]
  BY DEF Opened
<1> QED BY <1>1, <1>2, <1>3, <1>4, Zenon

LEMMA FirstDataStep ==
  ASSUME Inv, NEW n \in Writes, NEW c \in Windows, NEW w \in Windows, SendFirstData(n, c, w)
  PROVE Inv'
<1> DEFINE ctx == Ctx(ep.cid, c, w)
           d == Bytes(ep.written, n)
           sb == write_to_stream(ep.rel.buffer, d)
           r == [ep.rel EXCEPT !.buffer = sb]
           p == packetize_stream_data(r, ctx)
           syn == new_syn_ack(Version, LocalCid, ep.cid)
           m == ep.written + Least(n, StreamCap)
           e == [ep EXCEPT !.stage = "open", !.rel = p.rel, !.written = m]
           ps == packetize_zero_rtt(p.frames, syn)
           b == Batches("peer", ps)
<1>1. IsFree /\ ep.stage = "server" /\ Produce(e, b)
  BY Zenon DEF SendFirstData
<1>2. ep.rel \in Rel /\ ep.cid \in {0, PeerCid} /\ ep.cid \in Word /\ ep.written \in Nat /\ ep.outbox = <<>>
      /\ <<>> \in Seq(Batch) /\ c \in Nat /\ w \in Nat /\ n \in Nat
      /\ ep.rel.buffer \in Buffer /\ ep.rel.seq \in Nat /\ ep.rel.tracked \in Tracked(ep.rel.seq)
      /\ ep.rel = [buffer |-> ep.rel.buffer, seq |-> ep.rel.seq, tracked |-> ep.rel.tracked]
  BY <1>1, FreeIs, TransportAssumption
<1>3. ctx \in Contexts
  BY <1>2, CtxIs
<1>4. d \in Seq(Nat)
  BY <1>2, BytesIs
<1>5. Grown(ep.rel.buffer, d, Least(Len(d), Permit(StreamCap, ep.rel.buffer.size)), sb)
  <2> HIDE DEF d
  <2> QED BY <1>2, <1>4, WriteIs
<1> HIDE DEF d, sb, ctx
<1>6. sb \in Buffer
  BY <1>5 DEF Grown
<1>7. r = [buffer |-> sb, seq |-> ep.rel.seq, tracked |-> ep.rel.tracked]
  BY <1>2
<1> HIDE DEF r
<1>8. r \in Rel
  BY <1>2, <1>6, <1>7, MakeRel
<1>9. Streamed(p, r, r.seq, AnyKept) /\ r.seq \in Nat
  BY <1>3, <1>8, StreamData, RelIs
<1> HIDE DEF p
<1>10. p.rel \in Rel /\ p.frames \in Seq(Frame)
  BY <1>9, StreamedIs
<1>11. syn \in Frame
  <2>1. Version \in Octet /\ LocalCid \in Word
    BY SMT DEF Version, LocalCid, Octet, Word
  <2> QED BY <1>2, <2>1, SynIs
<1> HIDE DEF syn
<1>12. ps \in Seq(Packet)
  BY <1>10, <1>11, ZeroRttIs
<1> HIDE DEF ps
<1>13. b \in Seq(Batch)
  BY <1>12, BatchesIs
<1>14. m \in Nat
  BY <1>2, PacketizerAssumption DEF Least
<1> HIDE DEF m, b
<1>15. e = Ep("open", ep.cid, p.rel, m, <<>>, FALSE)
  <2>1. ep = Ep(ep.stage, ep.cid, ep.rel, ep.written, ep.outbox, ep.panicked)
    BY InvIs, EndpointIs DEF Ep
  <2>2. e = Opened(ep, "open", p.rel, m)
    BY DEF Opened
  <2> HIDE DEF e
  <2>3. e = Ep("open", ep.cid, p.rel, m, ep.outbox, ep.panicked)
    BY <2>1, <2>2, EpOpened
  <2>4. ep.outbox = <<>> /\ ep.panicked = FALSE
    BY <1>1, FreeIs
  <2> QED BY <2>3, <2>4, Zenon
<1> HIDE DEF e
<1>16. "open" \in Stages /\ "open" # "client"
  BY DEF Stages
<1>17. e \in Endpoint /\ Calm(e)
  BY <1>2, <1>10, <1>14, <1>15, <1>16, EpIs
<1> QED BY <1>1, <1>2, <1>13, <1>17, ProduceStep

LEMMA TrackFin ==
  ASSUME NEW n \in Nat, NEW T \in Tracked(n), NEW f, Makes(f, "Fin", n, <<>>)
  PROVE TrackAll(T, <<f>>) \in Tracked(n + 1)
<1> DEFINE k == n + 1
           q == <<f>>
<1>1. k \in Nat /\ n <= k /\ n \in 0 .. k - 1
  OBVIOUS
<1>2. T \in TrackedIn(n, AnyKept)
  BY TrackedAny
<1> HIDE DEF k
<1>3. T \in TrackedIn(k, AnyKept)
  BY <1>1, <1>2, TrackedGrows
<1>4. <<>> \in Seq(Nat)
  OBVIOUS
<1>5. Keepable(f, k, AnyKept)
  <2>1. f.header.seq = n /\ from_frame(f) \in Info
    BY <1>4, FromFrameIs DEF Makes
  <2> QED BY <1>1, <1>4, <2>1 DEF Keepable, AnyKept
<1>6. Sequence(q) /\ Len(q) = 1 /\ q[1] = f
  BY OneIs
<1> HIDE DEF q
<1>7. \A i \in 1 .. Len(q) : Keepable(q[i], k, AnyKept)
  BY <1>5, <1>6
<1>8. TrackAll(T, q) \in TrackedIn(k, AnyKept)
  BY <1>1, <1>3, <1>6, <1>7, TrackAllIs
<1> QED BY <1>8 DEF TrackedIn, k, q

\* The FIN that packetize_and_send adds, if any, is tracked with the next number.
Finished(fin, n, T) ==
  fin \in Seq(Frame) /\ TrackAll(T, fin) \in Tracked(n + Len(fin))

LEMMA FinishedIs ==
  ASSUME NEW n \in Nat, NEW T \in Tracked(n), NEW f, Makes(f, "Fin", n, <<>>)
  PROVE Finished(<<f>>, n, T) /\ Finished(<<>>, n, T)
<1>1. <<f>> \in Seq(Frame) /\ Len(<<f>>) = 1 /\ <<>> \in Seq(Frame) /\ Len(<<>>) = 0
  BY DEF Makes
<1>2. TrackAll(T, <<f>>) \in Tracked(n + 1)
  BY TrackFin
<1>3. TrackAll(T, <<>>) = T
  BY <1>1, EmptySequence, TrackFolded, FoldedEmpty
<1> QED BY <1>1, <1>2, <1>3 DEF Finished

Closed(rel, fin) == [rel EXCEPT !.seq = @ + Len(fin), !.tracked = TrackAll(@, fin)]

LEMMA ClosedIs ==
  ASSUME NEW rel \in Rel, NEW fin, Finished(fin, rel.seq, rel.tracked)
  PROVE Closed(rel, fin) \in Rel
<1> DEFINE n == rel.seq + Len(fin)
           T == TrackAll(rel.tracked, fin)
<1>1. /\ rel = [buffer |-> rel.buffer, seq |-> rel.seq, tracked |-> rel.tracked]
      /\ rel.buffer \in Buffer /\ rel.seq \in Nat /\ rel.tracked \in Tracked(rel.seq)
  BY RelIs
<1>2. fin \in Seq(Frame) /\ T \in Tracked(n)
  BY DEF Finished
<1>3. n \in Nat
  BY <1>1, <1>2
<1>4. Closed(rel, fin) = [rel EXCEPT !.seq = n, !.tracked = T]
  BY DEF Closed
<1> HIDE DEF n, T
<1>5. Closed(rel, fin) = [buffer |-> rel.buffer, seq |-> n, tracked |-> T]
  BY <1>1, <1>4
<1> QED BY <1>1, <1>2, <1>3, <1>5, MakeRel

LEMMA PacketizeStep ==
  ASSUME Inv, NEW c \in Windows, NEW w \in Windows, packetize_and_send(c, w)
  PROVE Inv'
<1> DEFINE ctx == Ctx(ep.cid, c, w)
           p == packetize_stream_data(ep.rel, ctx)
           g == new_fin(ctx.cid, p.rel.seq, ctx.timestamp, ctx.next, ctx.mine)
           fin == IF ep.stage = "closing" /\ ~ has_fin_in_flight(p.rel) THEN <<g>> ELSE <<>>
           fs == p.frames \o fin
           r == Closed(p.rel, fin)
           e == [ep EXCEPT !.rel = r]
           ps == BuildPackets(fs)
           b == Batches("peer", ps)
<1>1. IsFree /\ ep.stage \in {"open", "closing"} /\ Produce(e, b)
  BY Zenon DEF packetize_and_send, Closed
<1>2. ep.rel \in Rel /\ ep.cid \in {0, PeerCid} /\ ep.cid \in Word /\ ep.written \in Nat /\ ep.outbox = <<>>
      /\ <<>> \in Seq(Batch) /\ c \in Nat /\ w \in Nat
  BY <1>1, FreeIs, TransportAssumption
<1>3. ctx \in Contexts
  BY <1>2, CtxIs
<1>4. ctx.cid \in Word /\ ctx.next \in Word /\ ctx.mine \in Half /\ ctx.timestamp \in Word
  BY <1>3 DEF Contexts
<1> HIDE DEF ctx
<1>5. Streamed(p, ep.rel, ep.rel.seq, AnyKept) /\ ep.rel.seq \in Nat
  BY <1>2, <1>3, StreamData, RelIs
<1> HIDE DEF p
<1>6. p.rel \in Rel /\ p.frames \in Seq(Frame)
  BY <1>5, StreamedIs
<1>7. p.rel.seq \in Nat /\ p.rel.tracked \in Tracked(p.rel.seq)
  BY <1>6, RelIs
<1>8. Makes(g, "Fin", p.rel.seq, <<>>)
  BY <1>4, <1>7, FinIs
<1> HIDE DEF g
<1>9. Finished(fin, p.rel.seq, p.rel.tracked)
  BY <1>7, <1>8, FinishedIs
<1> HIDE DEF fin
<1>10. r \in Rel
  BY <1>6, <1>9, ClosedIs
<1>11. fs \in Seq(Frame)
  BY <1>6, <1>9 DEF Finished
<1> HIDE DEF fs
<1>12. ps \in Seq(Packet)
  BY <1>11, BuildPacketsIs
<1> HIDE DEF ps
<1>13. b \in Seq(Batch)
  BY <1>12, BatchesIs
<1> HIDE DEF b, r
<1>14. e = Ep(ep.stage, ep.cid, r, ep.written, <<>>, FALSE)
  <2>1. e = [ep EXCEPT !.rel = r]
    OBVIOUS
  <2> HIDE DEF e
  <2>2. ep = Ep(ep.stage, ep.cid, ep.rel, ep.written, ep.outbox, ep.panicked)
    BY InvIs, EndpointIs DEF Ep
  <2>3. e = Ep(ep.stage, ep.cid, r, ep.written, ep.outbox, ep.panicked)
    BY <2>1, <2>2 DEF Ep
  <2>4. ep.outbox = <<>> /\ ep.panicked = FALSE
    BY <1>1, FreeIs
  <2> QED BY <2>3, <2>4, Zenon
<1> HIDE DEF e
<1>15. ep.stage \in Stages /\ ep.stage # "client"
  BY <1>1 DEF Stages
<1>16. e \in Endpoint /\ Calm(e)
  BY <1>2, <1>10, <1>14, <1>15, EpIs
<1> QED BY <1>1, <1>2, <1>13, <1>16, ProduceStep

----------------------------------------------------------------------------
(* The steps of the transport.                                             *)

With(u, t, v) == [u EXCEPT ![t] = v]

LEMMA WithIs ==
  ASSUME NEW u \in [Transports -> Udp], NEW t \in Transports, NEW v \in Udp
  PROVE /\ With(u, t, v) \in [Transports -> Udp] /\ With(u, t, v)[t] = v
        /\ \A s \in Transports : s # t => With(u, t, v)[s] = u[s]
BY DEF With

LEMMA UdpIs ==
  ASSUME Inv, NEW t \in Transports
  PROVE /\ udp[t] \in Udp /\ udp \in [Transports -> Udp]
        /\ udp[t] = [socket |-> udp[t].socket, listening |-> udp[t].listening,
                     queue |-> udp[t].queue, commands |-> udp[t].commands]
        /\ udp[t].socket \in Places /\ udp[t].listening \in Places
        /\ udp[t].queue \in Seq(Received) /\ udp[t].commands \in Seq(ActorItem)
        /\ Sequence(udp[t].commands) /\ Len(udp[t].queue) <= QueueCap
<1>1. udp \in [Transports -> Udp]
  BY InvIs
<1>2. udp[t] \in Udp
  BY <1>1
<1>3. /\ udp[t] = [socket |-> udp[t].socket, listening |-> udp[t].listening,
                     queue |-> udp[t].queue, commands |-> udp[t].commands]
      /\ udp[t].socket \in Places /\ udp[t].listening \in Places
      /\ udp[t].queue \in Seq(Received) /\ udp[t].commands \in Seq(ActorItem)
  BY <1>2 DEF Udp
<1>4. Sequence(udp[t].commands)
  BY <1>3, SequenceIs
<1>5. Len(udp[t].queue) <= QueueCap
  BY DEF Inv, Capped
<1> QED BY <1>1, <1>2, <1>3, <1>4, <1>5

LEMMA WaitsWith ==
  ASSUME NEW u \in [Transports -> Udp], NEW t \in Transports, NEW v \in Udp, NEW tk, Waits(tk, u),
         Sends(v.commands) = Sends(u[t].commands)
  PROVE Waits(tk, With(u, t, v))
<1> DEFINE w == With(u, t, v)
<1>1. w[t] = v /\ \A s \in Transports : s # t => w[s] = u[s]
  BY WithIs
<1> HIDE DEF w
<1>2. \A s \in Transports : Sends(w[s].commands) = Sends(u[s].commands)
  BY <1>1
<1>3. Waits(tk, w)
  BY <1>2 DEF Waits
<1> QED BY <1>3 DEF w

LEMMA CappedWith ==
  ASSUME NEW u \in [Transports -> Udp], NEW t \in Transports, NEW v \in Udp, NEW ch, NEW tk,
         Capped(ch, tk, u), Len(v.queue) <= QueueCap
  PROVE Capped(ch, tk, With(u, t, v))
<1> DEFINE w == With(u, t, v)
<1>1. w[t] = v /\ \A s \in Transports : s # t => w[s] = u[s]
  BY WithIs
<1> HIDE DEF w
<1>2. \A s \in Transports : Len(w[s].queue) <= QueueCap
  BY <1>1 DEF Capped
<1>3. Capped(ch, tk, w)
  BY <1>2 DEF Capped
<1> QED BY <1>3 DEF w

\* A step that changes one transport, but no batch of its actor.
LEMMA UdpStep ==
  ASSUME Inv, NEW t \in Transports, NEW v \in Udp, udp' = With(udp, t, v),
         Sends(v.commands) = Sends(udp[t].commands), Len(v.queue) <= QueueCap,
         UNCHANGED <<ep, chan, task, wire, produced>>, delivered' \in Seq(Received),
         KernelOK(kernel'), ManagerOK(manager'), CountOK(count'),
         Bound(chan, task, manager', count'.transports)
  PROVE Inv'
<1>1. udp \in [Transports -> Udp]
  BY InvIs
<1>2. With(udp, t, v) \in [Transports -> Udp]
  BY <1>1, WithIs
<1>3. Waits(task, With(udp, t, v)) /\ Capped(chan, task, With(udp, t, v))
  BY <1>1, WaitsWith, CappedWith DEF Inv
<1>4. UdpOK(udp)' /\ Waits(task, udp)' /\ Capped(chan, task, udp)'
  <2>1. udp' \in [Transports -> Udp] /\ Waits(task', udp') /\ Capped(chan', task', udp')
    BY <1>2, <1>3
  <2> QED BY <2>1 DEF UdpOK, Waits, Capped
<1>5. EpOK(ep)' /\ ChanOK(chan)' /\ TaskOK(task)' /\ HistoryOK(wire, produced, delivered)'
      /\ Ordered(wire, produced, task.pending, chan, ep.outbox)' /\ Calm(ep)'
  BY DEF Inv, EpOK, ChanOK, TaskOK, HistoryOK, Ordered, Calm
<1>6. KernelOK(kernel)' /\ ManagerOK(manager)' /\ CountOK(count)'
  BY DEF KernelOK, ManagerOK, CountOK
<1>7. Bound(chan, task, manager, count.transports)'
  BY DEF Bound
<1> QED BY <1>4, <1>5, <1>6, <1>7 DEF Inv

LEMMA CountIs ==
  ASSUME Inv
  PROVE /\ count = [transports |-> count.transports, addresses |-> count.addresses, events |-> count.events]
        /\ count.transports \in Transports /\ count.addresses \in Addresses /\ count.events \in Nat
        /\ KernelOK(kernel) /\ ManagerOK(manager) /\ CountOK(count)
        /\ Bound(chan, task, manager, count.transports) /\ delivered \in Seq(Received)
BY DEF Inv, CountOK, HistoryOK


LEMMA EventIs ==
  ASSUME Inv, count' = [count EXCEPT !.events = @ + 1]
  PROVE CountOK(count') /\ count'.transports = count.transports
<1>1. /\ count = [transports |-> count.transports, addresses |-> count.addresses, events |-> count.events]
      /\ count.transports \in Transports /\ count.addresses \in Addresses /\ count.events \in Nat
  BY CountIs
<1>2. count' = [transports |-> count.transports, addresses |-> count.addresses, events |-> count.events + 1]
  BY <1>1
<1> QED BY <1>1, <1>2 DEF CountOK

LEMMA InPlaceStep ==
  ASSUME Inv, NEW t \in Transports, RebindInPlace(t)
  PROVE Inv'
<1> DEFINE x == [kind |-> "Rebind", address |-> count.addresses + 1]
           q == Append(udp[t].commands, x)
           v == [socket |-> udp[t].socket, listening |-> udp[t].listening, queue |-> udp[t].queue,
                 commands |-> q]
<1>1. /\ count.addresses < MaxTransports + MaxRebinds
      /\ udp' = [udp EXCEPT ![t].commands = q]
      /\ count' = [count EXCEPT !.addresses = @ + 1, !.events = @ + 1]
      /\ UNCHANGED <<ep, chan, task, manager, kernel, wire, produced, delivered>>
  BY Zenon DEF RebindInPlace
<1>2. /\ count = [transports |-> count.transports, addresses |-> count.addresses, events |-> count.events]
      /\ count.transports \in Transports /\ count.addresses \in Addresses /\ count.events \in Nat
  BY CountIs
<1>3. MaxTransports \in Nat /\ MaxRebinds \in Nat
  BY TransportAssumption
<1>4. count.addresses + 1 \in Addresses
  BY <1>1, <1>2, <1>3 DEF Addresses
<1>5. count' = [transports |-> count.transports, addresses |-> count.addresses + 1, events |-> count.events + 1]
  BY <1>1, <1>2
<1>6. CountOK(count') /\ count'.transports = count.transports
  BY <1>2, <1>4, <1>5 DEF CountOK
<1>7. x \in ActorItem /\ x.kind # "Send"
  BY <1>4 DEF ActorItem
<1>8. Sequence(udp[t].commands) /\ udp[t].commands \in Seq(ActorItem)
  BY UdpIs
<1> HIDE DEF x
<1>9. q \in Seq(ActorItem) /\ Sends(q) = Sends(udp[t].commands)
  BY <1>7, <1>8, SendsAppend
<1> HIDE DEF q
<1>10. v \in Udp /\ v.commands = q /\ v.queue = udp[t].queue
  BY <1>9, UdpIs DEF Udp
<1>11. udp' = With(udp, t, v)
  <2>1. udp' = [udp EXCEPT ![t] = [udp[t] EXCEPT !.commands = q]]
    BY <1>1
  <2>2. udp[t] = [socket |-> udp[t].socket, listening |-> udp[t].listening,
                     queue |-> udp[t].queue, commands |-> udp[t].commands]
    BY UdpIs
  <2>3. [udp[t] EXCEPT !.commands = q] = v
    BY <2>2
  <2> QED BY <2>1, <2>3 DEF With
<1> HIDE DEF v
<1>12. Len(v.queue) <= QueueCap /\ Sends(v.commands) = Sends(udp[t].commands)
  BY <1>9, <1>10, UdpIs
<1>13. KernelOK(kernel') /\ ManagerOK(manager') /\ delivered' \in Seq(Received)
       /\ Bound(chan, task, manager', count'.transports)
  BY <1>1, <1>6, CountIs
<1> QED BY <1>1, <1>6, <1>10, <1>11, <1>12, <1>13, UdpStep

\* The transport t with another socket, queue or list of commands.
Sock(so, li, qu, co) == [socket |-> so, listening |-> li, queue |-> qu, commands |-> co]

LEMMA SockIs ==
  ASSUME NEW so \in Places, NEW li \in Places, NEW qu \in Seq(Received), NEW co \in Seq(ActorItem)
  PROVE /\ Sock(so, li, qu, co) \in Udp /\ Sock(so, li, qu, co).queue = qu
        /\ Sock(so, li, qu, co).commands = co
BY DEF Sock, Udp

LEMMA SocketStep ==
  ASSUME Inv, NEW t \in Transports, NEW so \in Places, NEW li \in Places, NEW qu \in Seq(Received),
         NEW co \in Seq(ActorItem), udp' = With(udp, t, Sock(so, li, qu, co)),
         Sends(co) = Sends(udp[t].commands), Len(qu) <= QueueCap,
         UNCHANGED <<ep, chan, task, wire, produced>>, delivered' \in Seq(Received),
         KernelOK(kernel'), ManagerOK(manager'), CountOK(count'),
         Bound(chan, task, manager', count'.transports)
  PROVE Inv'
<1> DEFINE v == Sock(so, li, qu, co)
<1>1. v \in Udp /\ v.queue = qu /\ v.commands = co
  BY SockIs
<1>2. udp' = With(udp, t, v)
  OBVIOUS
<1> HIDE DEF v
<1>3. Sends(v.commands) = Sends(udp[t].commands) /\ Len(v.queue) <= QueueCap
  BY <1>1
<1> QED BY <1>1, <1>2, <1>3, UdpStep

LEMMA HandleRebindStep ==
  ASSUME Inv, NEW t \in Transports, handle_rebind(t)
  PROVE Inv'
<1> DEFINE q == udp[t].commands
           a == Head(q).address
           v == Sock(a, udp[t].listening, udp[t].queue, Tail(q))
<1>1. /\ q # <<>> /\ Head(q).kind = "Rebind"
      /\ udp' = [udp EXCEPT ![t].commands = Tail(@), ![t].socket = a]
      /\ UNCHANGED <<ep, chan, task, manager, kernel, wire, produced, delivered, count>>
  BY Zenon DEF handle_rebind, Command
<1>2. q \in Seq(ActorItem) /\ Sequence(q) /\ udp[t].listening \in Places /\ udp[t].queue \in Seq(Received)
      /\ Len(udp[t].queue) <= QueueCap
  BY UdpIs
<1>3. Head(q) \in ActorItem /\ Tail(q) \in Seq(ActorItem)
  BY <1>1, <1>2
<1>4. a \in Places
  <2>1. a \in Addresses
    BY <1>1, <1>3 DEF ActorItem
  <2>2. MaxTransports \in Nat /\ MaxRebinds \in Nat
    BY TransportAssumption
  <2> QED BY <2>1, <2>2 DEF Addresses, Places
<1>5. Sends(Tail(q)) = Sends(q)
  <2>1. Head(q).kind # "Send"
    BY <1>1
  <2> QED BY <1>1, <1>2, <2>1, SendsFront
<1>6. udp' = With(udp, t, v)
  <2> DEFINE r == Tail(q)
             b == a
  <2>1. udp \in [Transports -> Udp] /\ udp[t] = [socket |-> udp[t].socket, listening |-> udp[t].listening,
                     queue |-> udp[t].queue, commands |-> udp[t].commands]
    BY UdpIs
  <2>2. udp' = [[udp EXCEPT ![t].commands = r] EXCEPT ![t].socket = b]
    BY <1>1
  <2> HIDE DEF r, b
  <2>3. udp' = [udp EXCEPT ![t] = [[udp[t] EXCEPT !.commands = r] EXCEPT !.socket = b]]
    BY <2>1, <2>2
  <2>4. [udp[t] EXCEPT !.commands = r] = Sock(udp[t].socket, udp[t].listening, udp[t].queue, r)
    BY <2>1 DEF Sock
  <2>5. [Sock(udp[t].socket, udp[t].listening, udp[t].queue, r) EXCEPT !.socket = b]
          = Sock(b, udp[t].listening, udp[t].queue, r)
    BY DEF Sock
  <2>6. udp' = [udp EXCEPT ![t] = Sock(b, udp[t].listening, udp[t].queue, r)]
    BY <2>3, <2>4, <2>5
  <2> QED BY <2>6 DEF With, r, b
<1>7. KernelOK(kernel') /\ ManagerOK(manager') /\ delivered' \in Seq(Received) /\ CountOK(count')
       /\ Bound(chan, task, manager', count'.transports)
  BY <1>1, CountIs
<1> QED BY <1>1, <1>2, <1>3, <1>4, <1>5, <1>6, <1>7, SocketStep

LEMMA ReloadStep ==
  ASSUME Inv, NEW t \in Transports, ReceiveError(t)
  PROVE Inv'
<1>1. /\ udp' = [udp EXCEPT ![t] = Reload(udp[t])]
      /\ count' = [count EXCEPT !.events = @ + 1]
      /\ UNCHANGED <<ep, chan, task, manager, kernel, wire, produced, delivered>>
  BY Zenon DEF ReceiveError
<1>2. udp[t].commands \in Seq(ActorItem) /\ udp[t].socket \in Places /\ udp[t].queue \in Seq(Received)
      /\ Len(udp[t].queue) <= QueueCap
      /\ udp[t] = [socket |-> udp[t].socket, listening |-> udp[t].listening,
                     queue |-> udp[t].queue, commands |-> udp[t].commands]
  BY UdpIs
<1>3. Reload(udp[t]) = Sock(udp[t].socket, udp[t].socket, udp[t].queue, udp[t].commands)
  BY <1>2 DEF Reload, Sock
<1>4. udp' = With(udp, t, Sock(udp[t].socket, udp[t].socket, udp[t].queue, udp[t].commands))
  BY <1>1, <1>3 DEF With
<1>5. KernelOK(kernel') /\ ManagerOK(manager') /\ delivered' \in Seq(Received) /\ CountOK(count')
       /\ Bound(chan, task, manager', count'.transports)
  BY <1>1, CountIs, EventIs
<1> QED BY <1>1, <1>2, <1>4, <1>5, SocketStep

LEMMA RecvStep ==
  ASSUME Inv, recv_frames
  PROVE Inv'
<1> DEFINE t == manager.transport
           q == udp[t].queue
<1>1. /\ q # <<>>
      /\ udp' = [udp EXCEPT ![t].queue = Tail(q)]
      /\ delivered' = Append(delivered, Head(q))
      /\ UNCHANGED <<ep, chan, task, manager, kernel, wire, produced, count>>
  BY Zenon DEF recv_frames
<1>2. t \in Transports
  BY InvIs
<1> HIDE DEF t
<1>3. udp[t].commands \in Seq(ActorItem) /\ udp[t].socket \in Places /\ udp[t].listening \in Places
      /\ q \in Seq(Received) /\ Len(q) <= QueueCap
      /\ udp[t] = [socket |-> udp[t].socket, listening |-> udp[t].listening,
                     queue |-> udp[t].queue, commands |-> udp[t].commands]
  BY <1>2, UdpIs
<1>4. Tail(q) \in Seq(Received) /\ Head(q) \in Received /\ Len(Tail(q)) <= QueueCap
  <2>1. QueueCap \in Nat
    BY TransportAssumption
  <2> QED BY <1>1, <1>3, <2>1
<1>5. udp' = With(udp, t, Sock(udp[t].socket, udp[t].listening, Tail(q), udp[t].commands))
  <2> DEFINE r == Tail(q)
  <2>1. udp' = [udp EXCEPT ![t] = [udp[t] EXCEPT !.queue = r]]
    BY <1>1
  <2> HIDE DEF r
  <2>2. [udp[t] EXCEPT !.queue = r] = Sock(udp[t].socket, udp[t].listening, r, udp[t].commands)
    BY <1>3 DEF Sock
  <2> QED BY <2>1, <2>2 DEF With, r
<1>6. KernelOK(kernel') /\ ManagerOK(manager') /\ CountOK(count')
       /\ Bound(chan, task, manager', count'.transports) /\ delivered \in Seq(Received)
  BY <1>1, CountIs
<1>7. delivered' \in Seq(Received)
  BY <1>1, <1>4, <1>6
<1> QED BY <1>1, <1>2, <1>3, <1>4, <1>5, <1>6, <1>7, SocketStep

LEMMA ReceivedFrom ==
  ASSUME NEW d \in Datagram
  PROVE [batch |-> d.batch, frames |-> deserialize_frames(Seen(d.octets))] \in Received
<1>1. PICK b \in DOMAIN PeerBatches : d = [batch |-> b, octets |-> serialize_frames(PeerBatches[b])]
  BY DEF Datagram
<1>2. d.batch = b /\ d.octets = serialize_frames(PeerBatches[b])
  BY <1>1
<1>3. [batch |-> d.batch, frames |-> deserialize_frames(Seen(d.octets))]
        = [batch |-> b, frames |-> deserialize_frames(Seen(serialize_frames(PeerBatches[b])))]
  BY <1>2, Zenon
<1> QED BY <1>3 DEF Received

LEMMA ReceiveStep ==
  ASSUME Inv, NEW t \in Transports, receive(t)
  PROVE Inv'
<1> DEFINE a == udp[t].listening
           d == Head(kernel[a])
           x == [batch |-> d.batch,
                 frames |-> deserialize_frames(
                   SubSeq(d.octets, 1, Least(BufferSize, Len(d.octets))))]
           u == IF Len(udp[t].queue) < QueueCap
                THEN [udp[t] EXCEPT !.queue = Append(@, x)] ELSE udp[t]
           q == IF Len(udp[t].queue) < QueueCap THEN Append(udp[t].queue, x) ELSE udp[t].queue
<1>1. /\ a # 0 /\ kernel[a] # <<>>
      /\ kernel' = [kernel EXCEPT ![a] = Tail(@)]
      /\ udp' = [udp EXCEPT ![t] = Reload(u)]
      /\ UNCHANGED <<ep, chan, task, manager, wire, produced, delivered, count>>
  <2>1. a # 0 /\ kernel[a] # <<>>
        /\ UNCHANGED <<ep, chan, task, manager, wire, produced, delivered, count>>
    BY DEF receive
  <2>2. kernel' = [kernel EXCEPT ![a] = Tail(@)]
    BY DEF receive
  <2>3. udp' = [udp EXCEPT ![t] = Reload(u)]
    BY Zenon DEF receive
  <2> QED BY <2>1, <2>2, <2>3
<1>2. udp[t].commands \in Seq(ActorItem) /\ udp[t].socket \in Places /\ a \in Places
      /\ udp[t].queue \in Seq(Received) /\ Len(udp[t].queue) <= QueueCap
      /\ udp[t] = [socket |-> udp[t].socket, listening |-> udp[t].listening,
                     queue |-> udp[t].queue, commands |-> udp[t].commands]
  BY UdpIs
<1>3. kernel \in [Addresses -> Seq(Datagram)]
  BY InvIs
<1>4. a \in Addresses
  <2>1. MaxTransports \in Nat /\ MaxRebinds \in Nat
    BY TransportAssumption
  <2> QED BY <1>1, <1>2, <2>1 DEF Places, Addresses
<1>5. kernel[a] \in Seq(Datagram)
  BY <1>3, <1>4
<1>6. d \in Datagram /\ Tail(kernel[a]) \in Seq(Datagram)
  BY <1>1, <1>5
<1>7. x \in Received
  <2> HIDE DEF d
  <2> QED BY <1>6, ReceivedFrom DEF Seen
<1> HIDE DEF x, d
<1>8. q \in Seq(Received) /\ Len(q) <= QueueCap
  <2>1. QueueCap \in Nat
    BY TransportAssumption
  <2>2. Append(udp[t].queue, x) \in Seq(Received) /\ Len(Append(udp[t].queue, x)) = Len(udp[t].queue) + 1
        /\ Len(udp[t].queue) \in Nat
    BY <1>2, <1>7
  <2> QED BY <1>2, <2>1, <2>2
<1>9. Reload(u) = Sock(udp[t].socket, udp[t].socket, q, udp[t].commands)
  <2>1. u = Sock(udp[t].socket, udp[t].listening, q, udp[t].commands)
    <3>1. CASE Len(udp[t].queue) < QueueCap
      <4> DEFINE z == Append(udp[t].queue, x)
      <4>1. u = [udp[t] EXCEPT !.queue = z] /\ q = z
        BY <3>1
      <4> HIDE DEF z, u, q
      <4> QED BY <1>2, <4>1 DEF Sock
    <3>2. CASE ~ (Len(udp[t].queue) < QueueCap)
      BY <1>2, <3>2 DEF Sock
    <3> QED BY <3>1, <3>2
  <2> HIDE DEF u, q
  <2> QED BY <2>1 DEF Reload, Sock
<1> HIDE DEF u, q
<1>10. udp' = With(udp, t, Sock(udp[t].socket, udp[t].socket, q, udp[t].commands))
  BY <1>1, <1>9 DEF With
<1>11. KernelOK(kernel')
  <2>1. kernel' = [kernel EXCEPT ![a] = Tail(kernel[a])]
    BY <1>1
  <2> DEFINE z == Tail(kernel[a])
  <2> HIDE DEF z, a
  <2>2. kernel' \in [Addresses -> Seq(Datagram)]
    BY <1>3, <1>6, <2>1 DEF z
  <2> QED BY <2>2 DEF KernelOK
<1>12. ManagerOK(manager') /\ CountOK(count') /\ delivered' \in Seq(Received)
       /\ Bound(chan, task, manager', count'.transports)
  BY <1>1, CountIs
<1> QED BY <1>1, <1>2, <1>8, <1>10, <1>11, <1>12, SocketStep

LEMMA BindStep ==
  ASSUME Inv, RebindBind
  PROVE Inv'
<1> DEFINE n == count.transports
           t == n + 1
           a == count.addresses + 1
<1>1. /\ manager.binding = 0 /\ n < MaxTransports /\ count.addresses < MaxTransports + MaxRebinds
      /\ manager' = [manager EXCEPT !.binding = t]
      /\ udp' = [udp EXCEPT ![t] = from_socket(a)]
      /\ count' = [count EXCEPT !.transports = @ + 1, !.addresses = @ + 1, !.events = @ + 1]
      /\ UNCHANGED <<ep, chan, task, kernel, wire, produced, delivered>>
  BY Zenon DEF RebindBind
<1>2. /\ count = [transports |-> n, addresses |-> count.addresses, events |-> count.events]
      /\ n \in Transports /\ count.addresses \in Addresses /\ count.events \in Nat
      /\ KernelOK(kernel) /\ Bound(chan, task, manager, n) /\ delivered \in Seq(Received)
  BY CountIs
<1>3. MaxTransports \in Nat /\ MaxRebinds \in Nat /\ QueueCap \in Nat
  BY TransportAssumption
<1>4. t \in Transports /\ n \in Nat /\ n <= t /\ t \in 0 .. MaxTransports /\ a \in Addresses /\ a \in Places
  BY <1>1, <1>2, <1>3 DEF Transports, Addresses, Places
<1>5. count' = [transports |-> t, addresses |-> a, events |-> count.events + 1]
  BY <1>1, <1>2
<1>6. CountOK(count') /\ count'.transports = t
  BY <1>2, <1>4, <1>5 DEF CountOK
<1>7. from_socket(a) = Sock(a, a, <<>>, <<>>)
  BY DEF from_socket, Sock
<1> HIDE DEF a
<1>8. manager' = [transport |-> manager.transport, binding |-> t] /\ manager.transport \in Transports
  BY <1>1, InvIs
<1>9. ManagerOK(manager') /\ manager'.transport = manager.transport /\ manager'.binding = t
  BY <1>4, <1>8 DEF ManagerOK
<1>10. task.transport # t /\ Bound(chan, task, manager', t)
  <2>1. task.transport <= n /\ manager.transport <= n /\ task.transport \in Nat /\ manager.transport \in Nat
    BY <1>2, InvIs DEF Bound, Transports
  <2>2. \A i \in 1 .. Len(chan) : chan[i].kind = "Swap" => chan[i].transport <= n /\ chan[i].transport \in Nat
    <3> TAKE i \in 1 .. Len(chan)
    <3>1. chan[i] \in ChanItem
      BY InvIs
    <3> QED BY <1>2, <3>1 DEF Bound, ChanItem, Transports
  <2>3. \A k \in Nat : k <= n => k <= t
    BY <1>4
  <2> QED BY <1>4, <1>9, <2>1, <2>2, <2>3 DEF Bound
<1>11. Sends(udp[t].commands) = <<>>
  BY <1>4, <1>10 DEF Inv, Waits
<1>12. udp' = With(udp, t, Sock(a, a, <<>>, <<>>))
  BY <1>1, <1>7 DEF With
<1> HIDE DEF t
<1>13. <<>> \in Seq(Received) /\ <<>> \in Seq(ActorItem) /\ Len(<<>>) <= QueueCap
  BY <1>3
<1>14. Sends(<<>>) = Sends(udp[t].commands)
  BY <1>11, SendsEmpty
<1>15. KernelOK(kernel') /\ delivered' \in Seq(Received)
  BY <1>1, <1>2
<1>16. Bound(chan, task, manager', count'.transports)
  BY <1>6, <1>10
<1> QED BY <1>1, <1>4, <1>6, <1>9, <1>12, <1>13, <1>14, <1>15, <1>16, SocketStep

LEMMA ArriveStep ==
  ASSUME Inv, NEW a \in Addresses, NEW b \in DOMAIN PeerBatches, Arrive(a, b)
  PROVE Inv'
<1> DEFINE d == [batch |-> b, octets |-> serialize_frames(PeerBatches[b])]
           q == Append(kernel[a], d)
<1>1. /\ kernel' = [kernel EXCEPT ![a] = q]
      /\ count' = [count EXCEPT !.events = @ + 1]
      /\ UNCHANGED <<ep, chan, task, manager, udp, wire, produced, delivered>>
  BY Zenon DEF Arrive
<1>2. d \in Datagram
  BY DEF Datagram
<1> HIDE DEF d
<1>3. kernel \in [Addresses -> Seq(Datagram)]
  BY InvIs
<1>4. q \in Seq(Datagram)
  BY <1>2, <1>3
<1> HIDE DEF q
<1>5. KernelOK(kernel)'
  BY <1>1, <1>3, <1>4 DEF KernelOK
<1>6. CountOK(count') /\ count'.transports = count.transports
  BY <1>1, EventIs
<1>7. CountOK(count)' /\ Bound(chan, task, manager, count.transports)'
  BY <1>1, <1>6 DEF Inv, CountOK, Bound
<1>8. /\ EpOK(ep)' /\ ChanOK(chan)' /\ TaskOK(task)' /\ ManagerOK(manager)' /\ UdpOK(udp)'
      /\ HistoryOK(wire, produced, delivered)' /\ Waits(task, udp)' /\ Capped(chan, task, udp)'
      /\ Ordered(wire, produced, task.pending, chan, ep.outbox)' /\ Calm(ep)'
  BY <1>1 DEF Inv, EpOK, ChanOK, TaskOK, ManagerOK, UdpOK, HistoryOK, Waits, Capped, Ordered, Calm
<1> QED BY <1>5, <1>7, <1>8 DEF Inv

LEMMA BoundAppend ==
  ASSUME NEW ch \in Seq(ChanItem), NEW x \in ChanItem, NEW tk, NEW mg, NEW n, Bound(ch, tk, mg, n),
         x.kind = "Swap" => x.transport <= n
  PROVE Bound(Append(ch, x), tk, mg, n) /\ Append(ch, x) \in Seq(ChanItem)
<1> DEFINE q == Append(ch, x)
<1>1. Len(q) = Len(ch) + 1 /\ Len(ch) \in Nat /\ q[Len(ch) + 1] = x /\ q \in Seq(ChanItem)
      /\ \A i \in 1 .. Len(ch) : q[i] = ch[i]
  OBVIOUS
<1> HIDE DEF q
<1>2. ASSUME NEW i \in 1 .. Len(q), q[i].kind = "Swap" PROVE q[i].transport <= n
  <2>1. CASE i \in 1 .. Len(ch)
    BY <1>1, <1>2, <2>1 DEF Bound
  <2>2. CASE i = Len(ch) + 1
    BY <1>1, <1>2, <2>2
  <2> QED BY <1>1, <2>1, <2>2
<1>3. Bound(q, tk, mg, n)
  BY <1>2 DEF Bound
<1> QED BY <1>1, <1>3 DEF q

LEMMA HandStep ==
  ASSUME Inv, send_raw_frames
  PROVE Inv'
<1> DEFINE b == Head(ep.outbox)
           x == [kind |-> "Send", batch |-> b]
           o == Tail(ep.outbox)
<1>1. /\ ep.outbox # <<>> /\ Len(chan) < ChanCap /\ chan' = Append(chan, x)
      /\ ep' = [ep EXCEPT !.outbox = o]
      /\ UNCHANGED <<task, manager, udp, kernel, wire, delivered, count, produced>>
  BY DEF send_raw_frames, transportSide
<1>2. /\ ep = [stage |-> ep.stage, cid |-> ep.cid, rel |-> ep.rel, written |-> ep.written,
                outbox |-> ep.outbox, panicked |-> ep.panicked]
      /\ ep.stage \in Stages /\ ep.cid \in {0, PeerCid} /\ ep.rel \in Rel
      /\ ep.written \in Nat /\ ep.outbox \in Seq(Batch) /\ ep.panicked \in BOOLEAN
  BY InvIs, EndpointIs
<1>3. b \in Batch /\ o \in Seq(Batch)
  BY <1>1, <1>2
<1>4. x \in ChanItem /\ x.kind = "Send" /\ x.batch = b /\ x.kind # "Swap"
  BY <1>3 DEF ChanItem
<1> HIDE DEF x
<1>5. chan \in Seq(ChanItem) /\ Sequence(chan) /\ Sequence(task.pending) /\ Sequence(ep.outbox)
  BY InvIs
<1>6. Ordered(wire, produced, task.pending, Append(chan, x), o)
  BY <1>1, <1>4, <1>5, OrderedHand DEF Inv
<1>7. Bound(Append(chan, x), task, manager, count.transports) /\ Append(chan, x) \in Seq(ChanItem)
  <2>1. Bound(chan, task, manager, count.transports)
    BY DEF Inv
  <2> QED BY <1>4, <1>5, <2>1, BoundAppend
<1> HIDE DEF o
<1>8. ep' = [stage |-> ep.stage, cid |-> ep.cid, rel |-> ep.rel, written |-> ep.written,
             outbox |-> o, panicked |-> ep.panicked]
  BY <1>1, <1>2
<1>9. ep' \in Endpoint
  BY <1>2, <1>3, <1>8, MakeEndpoint
<1>10. ep'.outbox = o /\ ep'.stage = ep.stage /\ ep'.rel = ep.rel /\ ep'.panicked = ep.panicked
  BY <1>8
<1>11. Calm(ep)'
  BY <1>10 DEF Inv, Calm
<1>12. Len(Append(chan, x)) <= ChanCap
  <2>1. ChanCap \in Nat
    BY TransportAssumption
  <2> QED BY <1>1, <1>5, <2>1
<1>13. Ordered(wire, produced, task.pending, chan, ep.outbox)'
  <2>1. Ordered(wire', produced', task'.pending, chan', ep'.outbox)
    BY <1>1, <1>6, <1>10
  <2> QED BY <2>1 DEF Ordered
<1>14. ChanOK(chan)' /\ Bound(chan, task, manager, count.transports)'
  BY <1>1, <1>7 DEF ChanOK, Bound
<1>15. Capped(chan, task, udp)'
  BY <1>1, <1>12 DEF Inv, Capped
<1>16. TaskOK(task)' /\ ManagerOK(manager)' /\ UdpOK(udp)' /\ KernelOK(kernel)' /\ CountOK(count)'
       /\ HistoryOK(wire, produced, delivered)' /\ Waits(task, udp)'
  BY <1>1 DEF Inv, TaskOK, ManagerOK, UdpOK, KernelOK, CountOK, HistoryOK, Waits
<1> QED BY <1>9, <1>11, <1>13, <1>14, <1>15, <1>16 DEF Inv, EpOK

LEMMA SwapStep ==
  ASSUME Inv, RebindSwap
  PROVE Inv'
<1> DEFINE x == [kind |-> "Swap", transport |-> manager.binding]
           m == [transport |-> manager.binding, binding |-> 0]
<1>1. /\ manager.binding # 0 /\ Len(chan) < ChanCap /\ chan' = Append(chan, x) /\ manager' = m
      /\ UNCHANGED <<ep, task, udp, kernel, wire, produced, delivered, count>>
  BY DEF RebindSwap
<1>2. manager.binding \in 0 .. MaxTransports /\ chan \in Seq(ChanItem) /\ Sequence(chan)
      /\ MaxTransports \in Nat
  BY InvIs, TransportAssumption
<1>3. manager.binding \in Transports
  BY <1>1, <1>2 DEF Transports
<1>4. x \in ChanItem /\ x.kind # "Send" /\ x.transport = manager.binding
  BY <1>3 DEF ChanItem
<1>5. ManagerOK(m) /\ m.transport = manager.binding /\ m.binding = 0
  BY <1>2, <1>3 DEF ManagerOK
<1> HIDE DEF x, m
<1>6. Ordered(wire, produced, task.pending, Append(chan, x), ep.outbox)
  BY <1>2, <1>4, OrderedSwap DEF Inv
<1>7. Bound(chan, task, m, count.transports) /\ manager.binding <= count.transports
  <2>1. 0 <= count.transports
    BY CountIs DEF Transports
  <2> QED BY <1>5, <2>1 DEF Inv, Bound
<1>8. Bound(Append(chan, x), task, m, count.transports) /\ Append(chan, x) \in Seq(ChanItem)
  BY <1>2, <1>4, <1>7, BoundAppend
<1>9. Len(Append(chan, x)) <= ChanCap
  <2>1. ChanCap \in Nat
    BY TransportAssumption
  <2> QED BY <1>1, <1>2, <2>1
<1>10. Ordered(wire, produced, task.pending, chan, ep.outbox)'
  <2>1. Ordered(wire', produced', task'.pending, chan', ep'.outbox)
    BY <1>1, <1>6
  <2> QED BY <2>1 DEF Ordered
<1>11. ChanOK(chan)' /\ Bound(chan, task, manager, count.transports)' /\ ManagerOK(manager)'
  BY <1>1, <1>5, <1>8 DEF ChanOK, Bound, ManagerOK
<1>12. Capped(chan, task, udp)'
  BY <1>1, <1>9 DEF Inv, Capped
<1>13. EpOK(ep)' /\ TaskOK(task)' /\ UdpOK(udp)' /\ KernelOK(kernel)' /\ CountOK(count)'
       /\ HistoryOK(wire, produced, delivered)' /\ Waits(task, udp)' /\ Calm(ep)'
  BY <1>1 DEF Inv, EpOK, TaskOK, UdpOK, KernelOK, CountOK, HistoryOK, Waits, Calm
<1> QED BY <1>10, <1>11, <1>12, <1>13 DEF Inv

\* A step of the sender task that changes its channel and what it holds.
LEMMA TaskStep ==
  ASSUME Inv, NEW tk, TaskOK(tk), NEW ch \in Seq(ChanItem), task' = tk, chan' = ch,
         Ordered(wire, produced, tk.pending, ch, ep.outbox), Waits(tk, udp),
         Bound(ch, tk, manager, count.transports), Capped(ch, tk, udp),
         UNCHANGED <<ep, manager, udp, kernel, wire, produced, delivered, count>>
  PROVE Inv'
<1>1. ChanOK(chan)' /\ TaskOK(task)' /\ Ordered(wire, produced, task.pending, chan, ep.outbox)'
      /\ Waits(task, udp)' /\ Bound(chan, task, manager, count.transports)' /\ Capped(chan, task, udp)'
  BY DEF ChanOK, TaskOK, Ordered, Waits, Bound, Capped
<1>2. EpOK(ep)' /\ ManagerOK(manager)' /\ UdpOK(udp)' /\ KernelOK(kernel)' /\ CountOK(count)'
       /\ HistoryOK(wire, produced, delivered)' /\ Calm(ep)'
  BY DEF Inv, EpOK, ManagerOK, UdpOK, KernelOK, CountOK, HistoryOK, Calm
<1> QED BY <1>1, <1>2 DEF Inv

Task(t, p, w) == [transport |-> t, pending |-> p, waiting |-> w]

LEMMA SwappedStep ==
  ASSUME Inv, TaskRecv, Head(chan).kind = "Swap"
  PROVE Inv'
<1> DEFINE h == Head(chan)
           ch == Tail(chan)
           tk == Task(h.transport, task.pending, task.waiting)
<1>1. /\ task.pending = <<>> /\ chan # <<>> /\ chan' = ch
      /\ task' = [task EXCEPT !.transport = h.transport]
      /\ UNCHANGED <<ep, manager, udp, kernel, wire, produced, delivered, count>>
  BY DEF TaskRecv
<1>2. chan \in Seq(ChanItem) /\ Sequence(chan) /\ task.pending \in Seq(Batch) /\ task.waiting \in BOOLEAN
      /\ task = [transport |-> task.transport, pending |-> task.pending, waiting |-> task.waiting]
  BY InvIs
<1>3. h \in ChanItem /\ ch \in Seq(ChanItem) /\ h = chan[1] /\ Len(chan) >= 1 /\ Len(ch) = Len(chan) - 1
      /\ Len(chan) \in Nat /\ \A i \in 1 .. Len(ch) : ch[i] = chan[i + 1]
  BY <1>1, <1>2
<1>4. h.transport \in Transports /\ h.kind # "Send"
  BY <1>3 DEF ChanItem
<1>5. task' = tk
  <2> HIDE DEF h
  <2> QED BY <1>1, <1>2 DEF Task
<1>6. tk.transport = h.transport /\ tk.pending = task.pending /\ tk.waiting = task.waiting
  BY DEF Task
<1>7. TaskOK(tk)
  BY <1>2, <1>4 DEF TaskOK, Task
<1>8. ~ task.waiting
  BY <1>1 DEF Inv, Waits
<1> HIDE DEF tk
<1>9. Waits(tk, udp)
  <2>1. \A t \in Transports : Sends(udp[t].commands) = <<>>
    BY <1>8 DEF Inv, Waits
  <2> QED BY <1>6, <1>8, <2>1 DEF Waits
<1>10. Ordered(wire, produced, task.pending, ch, ep.outbox)
  BY <1>1, <1>2, <1>4, OrderedSwapped DEF Inv
<1>11. Bound(ch, tk, manager, count.transports)
  <2>1. Bound(chan, task, manager, count.transports)
    BY DEF Inv
  <2>2. h.transport <= count.transports
    <3>1. 1 \in 1 .. Len(chan)
      BY <1>3
    <3> QED BY <1>3, <2>1, <3>1 DEF Bound
  <2>3. \A i \in 1 .. Len(ch) : i + 1 \in 1 .. Len(chan)
    BY <1>3
  <2>4. \A i \in 1 .. Len(ch) : ch[i].kind = "Swap" => ch[i].transport <= count.transports
    BY <1>3, <2>1, <2>3 DEF Bound
  <2> HIDE DEF ch, h
  <2> QED BY <1>6, <2>1, <2>2, <2>4 DEF Bound
<1>12. Capped(ch, tk, udp)
  <2>1. ChanCap \in Nat
    BY TransportAssumption
  <2>2. Len(ch) <= ChanCap
    BY <1>3, <2>1 DEF Inv, Capped
  <2> HIDE DEF ch
  <2> QED BY <1>6, <2>2 DEF Inv, Capped
<1>13. Ordered(wire, produced, tk.pending, ch, ep.outbox)
  BY <1>6, <1>10
<1> HIDE DEF ch
<1> QED BY <1>1, <1>3, <1>5, <1>7, <1>9, <1>11, <1>12, <1>13, TaskStep

LEMMA DrainStep ==
  ASSUME Inv, TaskRecv, Head(chan).kind # "Swap"
  PROVE Inv'
<1> DEFINE got == Drained(chan).batches
           ch == Drained(chan).left
           tk == Task(task.transport, got, task.waiting)
<1>1. /\ task.pending = <<>> /\ chan # <<>> /\ chan' = ch
      /\ task' = [task EXCEPT !.pending = got]
      /\ UNCHANGED <<ep, manager, udp, kernel, wire, produced, delivered, count>>
  BY DEF TaskRecv
<1>2. chan \in Seq(ChanItem) /\ Sequence(chan) /\ task.transport \in Transports /\ task.waiting \in BOOLEAN
      /\ task = [transport |-> task.transport, pending |-> task.pending, waiting |-> task.waiting]
  BY InvIs
<1>3. Takes(chan, got, ch)
  BY <1>1, <1>2, DrainedIs
<1> HIDE DEF got, ch
<1>4. /\ got \in Seq(Batch) /\ Len(got) <= MaxDrain /\ ch \in Seq(ChanItem)
      /\ Len(ch) <= Len(chan) /\ Sends(chan) = Cat(got, Sends(ch))
      /\ \A i \in 1 .. Len(ch) : \E j \in 1 .. Len(chan) : ch[i] = chan[j]
  BY <1>3 DEF Takes
<1>5. task' = tk
  BY <1>1, <1>2 DEF Task
<1>6. tk.transport = task.transport /\ tk.pending = got /\ tk.waiting = task.waiting
  BY DEF Task
<1>7. TaskOK(tk)
  BY <1>2, <1>4 DEF TaskOK, Task
<1>8. ~ task.waiting
  BY <1>1 DEF Inv, Waits
<1> HIDE DEF tk
<1>9. Waits(tk, udp)
  <2>1. \A t \in Transports : Sends(udp[t].commands) = <<>>
    BY <1>8 DEF Inv, Waits
  <2> QED BY <1>6, <1>8, <2>1 DEF Waits
<1>10. Ordered(wire, produced, got, ch, ep.outbox)
  <2>1. Ordered(wire, produced, <<>>, chan, ep.outbox)
    BY <1>1 DEF Inv
  <2>2. Sequence(got)
    BY <1>4, SequenceIs
  <2>3. Sequence(ch)
    BY <1>4, SequenceIs
  <2> QED BY <1>2, <1>4, <2>1, <2>2, <2>3, OrderedTaken
<1>11. Bound(ch, tk, manager, count.transports)
  <2>1. Bound(chan, task, manager, count.transports)
    BY DEF Inv
  <2>2. \A i \in 1 .. Len(ch) : ch[i].kind = "Swap" => ch[i].transport <= count.transports
    BY <1>4, <2>1 DEF Bound
  <2> QED BY <1>6, <2>1, <2>2 DEF Bound
<1>12. Capped(ch, tk, udp)
  <2>1. ChanCap \in Nat
    BY TransportAssumption
  <2>2. Len(ch) <= ChanCap
    BY <1>2, <1>4, <2>1 DEF Inv, Capped
  <2> QED BY <1>4, <1>6, <2>2 DEF Inv, Capped
<1>13. Ordered(wire, produced, tk.pending, ch, ep.outbox)
  BY <1>6, <1>10
<1> QED BY <1>1, <1>4, <1>5, <1>7, <1>9, <1>11, <1>12, <1>13, TaskStep

LEMMA SendStep ==
  ASSUME Inv, TaskSend
  PROVE Inv'
<1> DEFINE t == task.transport
           b == Head(task.pending)
           x == [kind |-> "Send", batch |-> b]
           q == Append(udp[t].commands, x)
           v == Sock(udp[t].socket, udp[t].listening, udp[t].queue, q)
<1>1. /\ task.pending # <<>> /\ ~ task.waiting
      /\ task' = [task EXCEPT !.waiting = TRUE]
      /\ udp' = [udp EXCEPT ![t].commands = q]
      /\ UNCHANGED <<ep, chan, manager, kernel, wire, produced, delivered, count>>
  BY Zenon DEF TaskSend
<1>2. t \in Transports /\ task.pending \in Seq(Batch)
      /\ task = [transport |-> task.transport, pending |-> task.pending, waiting |-> task.waiting]
  BY InvIs
<1>3. task' \in [transport : Transports, pending : Seq(Batch), waiting : BOOLEAN]
      /\ task'.transport = t /\ task'.pending = task.pending /\ task'.waiting = TRUE
  BY <1>1, <1>2
<1>4. b \in Batch
  BY <1>1, <1>2
<1>5. x \in ActorItem /\ x.kind = "Send" /\ x.batch = b
  BY <1>4 DEF ActorItem
<1>6. udp[t].commands \in Seq(ActorItem) /\ udp[t].socket \in Places /\ udp[t].listening \in Places
      /\ udp[t].queue \in Seq(Received) /\ Len(udp[t].queue) <= QueueCap /\ Sequence(udp[t].commands)
      /\ udp[t] = [socket |-> udp[t].socket, listening |-> udp[t].listening,
                     queue |-> udp[t].queue, commands |-> udp[t].commands]
      /\ udp \in [Transports -> Udp]
  BY <1>2, UdpIs
<1> HIDE DEF t, x, b
<1>7. \A s \in Transports : Sends(udp[s].commands) = <<>>
  BY <1>1 DEF Inv, Waits
<1>8. q \in Seq(ActorItem)
  BY <1>5, <1>6
<1>9. Sends(q) = <<b>>
  <2>1. Sends(q) = Append(Sends(udp[t].commands), b)
    BY <1>5, <1>6, SendsAppend
  <2>2. Sends(udp[t].commands) = <<>>
    BY <1>2, <1>7
  <2>3. Append(<<>>, b) = <<b>>
    OBVIOUS
  <2> QED BY <2>1, <2>2, <2>3
<1> HIDE DEF q
<1>10. v \in Udp /\ v.queue = udp[t].queue /\ v.commands = q
  BY <1>6, <1>8, SockIs
<1>11. udp' = With(udp, t, v)
  <2>1. udp' = [udp EXCEPT ![t] = [udp[t] EXCEPT !.commands = q]]
    BY <1>1
  <2>2. [udp[t] EXCEPT !.commands = q] = v
    BY <1>6 DEF Sock
  <2> QED BY <2>1, <2>2 DEF With
<1> HIDE DEF v
<1>12. udp' \in [Transports -> Udp] /\ udp'[t] = v /\ \A s \in Transports : s # t => udp'[s] = udp[s]
  BY <1>2, <1>6, <1>10, <1>11, WithIs
<1>13. Waits(task, udp)'
  <2>1. \A s \in Transports : Sends(udp'[s].commands) = IF s = t THEN <<b>> ELSE <<>>
    BY <1>7, <1>9, <1>10, <1>12
  <2> QED BY <1>1, <1>3, <2>1 DEF Waits, b
<1>14. Capped(chan, task, udp)'
  <2>1. \A s \in Transports : Len(udp'[s].queue) <= QueueCap
    BY <1>6, <1>10, <1>12 DEF Inv, Capped
  <2> QED BY <1>1, <1>3, <2>1 DEF Inv, Capped
<1>15. Bound(chan, task, manager, count.transports)'
  BY <1>1, <1>3 DEF Inv, Bound, t
<1>16. TaskOK(task)' /\ UdpOK(udp)'
  BY <1>3, <1>12 DEF TaskOK, UdpOK
<1>17. Ordered(wire, produced, task.pending, chan, ep.outbox)'
  BY <1>1, <1>3 DEF Inv, Ordered
<1>18. EpOK(ep)' /\ ChanOK(chan)' /\ ManagerOK(manager)' /\ KernelOK(kernel)' /\ CountOK(count)'
       /\ HistoryOK(wire, produced, delivered)' /\ Calm(ep)'
  BY <1>1 DEF Inv, EpOK, ChanOK, ManagerOK, KernelOK, CountOK, HistoryOK, Calm
<1> QED BY <1>13, <1>14, <1>15, <1>16, <1>17, <1>18 DEF Inv

LEMMA HandleSendStep ==
  ASSUME Inv, NEW t \in Transports, NEW ok \in BOOLEAN, handle_send(t, ok)
  PROVE Inv'
<1> DEFINE q == udp[t].commands
           b == Head(q).batch
           h == Head(task.pending)
           y == [from |-> udp[t].socket, to |-> b.to, ok |-> ok, octets |-> serialize_frames(b.frames)]
           v == Sock(udp[t].socket, udp[t].listening, udp[t].queue, Tail(q))
<1>1. /\ q # <<>> /\ Head(q).kind = "Send" /\ wire' = Append(wire, y)
      /\ udp' = [udp EXCEPT ![t].commands = Tail(q)]
      /\ task' = [task EXCEPT !.pending = Tail(@), !.waiting = FALSE]
      /\ count' = [count EXCEPT !.events = IF ok THEN @ ELSE @ + 1]
      /\ UNCHANGED <<ep, chan, manager, kernel, produced, delivered>>
  BY Zenon DEF handle_send, Command, Answered
<1>2. task.transport \in Transports /\ task.pending \in Seq(Batch) /\ Sequence(task.pending)
      /\ task = [transport |-> task.transport, pending |-> task.pending, waiting |-> task.waiting]
      /\ Sequence(wire) /\ Sequence(produced) /\ Sequence(chan) /\ Sequence(ep.outbox)
      /\ wire \in Seq(Sent)
  BY InvIs
<1>3. q \in Seq(ActorItem) /\ udp[t].socket \in Places /\ udp[t].listening \in Places
      /\ udp[t].queue \in Seq(Received) /\ Len(udp[t].queue) <= QueueCap /\ Sequence(q)
      /\ udp[t] = [socket |-> udp[t].socket, listening |-> udp[t].listening,
                     queue |-> udp[t].queue, commands |-> udp[t].commands]
      /\ udp \in [Transports -> Udp]
  BY UdpIs
<1>4. Sends(q) = Cat(<<b>>, Sends(Tail(q))) /\ Sequence(Sends(Tail(q)))
  BY <1>1, <1>3, SendsFront
<1>5. Tail(q) \in Seq(ActorItem) /\ Head(q) \in ActorItem
  BY <1>1, <1>3
<1> HIDE DEF b
<1>6. task.waiting /\ t = task.transport /\ b = h /\ Sends(Tail(q)) = <<>>
  <2> DEFINE r == Sends(Tail(q))
  <2>1. r \in Seq(Range(r))
    BY <1>4 DEF Sequence
  <2> HIDE DEF r
  <2> DEFINE S == Range(r) \cup {b}
  <2>2. r \in Seq(S) /\ b \in S
    BY <2>1
  <2> HIDE DEF S
  <2>3. Head(<<b>> \o r) = b /\ Tail(<<b>> \o r) = r /\ <<b>> \o r # <<>>
    BY <2>2
  <2>4. Sends(q) = <<b>> \o r
    BY <1>4 DEF Cat, r
  <2>5. Sends(q) = IF task.waiting /\ t = task.transport THEN <<h>> ELSE <<>>
    BY DEF Inv, Waits
  <2>6. task.waiting /\ t = task.transport /\ Sends(q) = <<h>>
    BY <2>3, <2>4, <2>5
  <2>7. Head(<<h>>) = h /\ Tail(<<h>>) = <<>>
    OBVIOUS
  <2> QED BY <2>3, <2>4, <2>6, <2>7 DEF r
<1>7. task.pending # <<>>
  BY <1>6 DEF Inv, Waits
<1>8. h \in Batch /\ Tail(task.pending) \in Seq(Batch)
      /\ Len(Tail(task.pending)) = Len(task.pending) - 1 /\ Len(task.pending) \in Nat
  BY <1>2, <1>7
<1>9. task' = Task(task.transport, Tail(task.pending), FALSE)
  <2> DEFINE r == Tail(task.pending)
             no == FALSE
  <2>1. task' = [[task EXCEPT !.pending = r] EXCEPT !.waiting = no]
    BY <1>1
  <2> HIDE DEF r, no
  <2>2. [task EXCEPT !.pending = r] = Task(task.transport, r, task.waiting)
    BY <1>2 DEF Task
  <2>3. [Task(task.transport, r, task.waiting) EXCEPT !.waiting = no] = Task(task.transport, r, no)
    BY DEF Task
  <2> QED BY <2>1, <2>2, <2>3, Zenon DEF r, no
<1>10. task' \in [transport : Transports, pending : Seq(Batch), waiting : BOOLEAN]
      /\ task'.transport = task.transport /\ task'.pending = Tail(task.pending) /\ ~ task'.waiting
  BY <1>2, <1>8, <1>9 DEF Task
<1>11. h.to \in {"peer", "new"} /\ h.frames \in Packet
  BY <1>8 DEF Batch
<1>12. serialize_frames(h.frames) \in Seq(Nat)
  <2> DEFINE fs == h.frames
  <2>1. fs \in Seq(Frame)
    BY <1>11 DEF Packet
  <2> HIDE DEF fs
  <2>2. Sequence(fs) /\ \A i \in 1 .. Len(fs) : fs[i] \in Frame
    BY <2>1, SequenceIs
  <2>3. \A i \in 1 .. Len(fs) : Shaped(fs[i])
    BY <2>2, FrameIs
  <2>4. serialize_frames(fs) \in Seq(Nat)
    BY <2>2, <2>3, SerializedSize
  <2> QED BY <2>4 DEF fs
<1>13. y.to = h.to /\ y.octets = serialize_frames(h.frames)
  BY <1>6
<1>14. y \in Sent
  BY <1>3, <1>6, <1>11, <1>12 DEF Sent
<1> HIDE DEF y
<1>15. Ordered(Append(wire, y), produced, Tail(task.pending), chan, ep.outbox)
  <2>1. Ordered(wire, produced, task.pending, chan, ep.outbox)
    BY DEF Inv
  <2> QED BY <1>2, <1>7, <1>13, <2>1, OrderedSent
<1>16. Append(wire, y) \in Seq(Sent)
  BY <1>2, <1>14
<1>17. v \in Udp /\ v.queue = udp[t].queue /\ v.commands = Tail(q)
  <2> DEFINE r == Tail(q)
  <2>1. r \in Seq(ActorItem)
    BY <1>5
  <2> HIDE DEF r
  <2>2. Sock(udp[t].socket, udp[t].listening, udp[t].queue, r) \in Udp
        /\ Sock(udp[t].socket, udp[t].listening, udp[t].queue, r).queue = udp[t].queue
        /\ Sock(udp[t].socket, udp[t].listening, udp[t].queue, r).commands = r
    BY <1>3, <2>1, SockIs
  <2> QED BY <2>2 DEF r
<1>18. udp' = With(udp, t, v)
  <2> DEFINE r == Tail(q)
  <2>1. udp' = [udp EXCEPT ![t] = [udp[t] EXCEPT !.commands = r]]
    BY <1>1
  <2> HIDE DEF r
  <2>2. [udp[t] EXCEPT !.commands = r] = Sock(udp[t].socket, udp[t].listening, udp[t].queue, r)
    BY <1>3 DEF Sock
  <2> QED BY <2>1, <2>2 DEF With, r
<1> HIDE DEF v
<1>19. udp' \in [Transports -> Udp] /\ udp'[t] = v /\ \A s \in Transports : s # t => udp'[s] = udp[s]
  BY <1>3, <1>17, <1>18, WithIs
<1>20. Waits(task, udp)'
  <2>1. \A s \in Transports : s # t => Sends(udp[s].commands) = <<>>
    BY <1>6 DEF Inv, Waits
  <2>2. \A s \in Transports : Sends(udp'[s].commands) = <<>>
    BY <1>6, <1>17, <1>19, <2>1
  <2> QED BY <1>10, <2>2 DEF Waits
<1>21. Capped(chan, task, udp)'
  <2>1. \A s \in Transports : Len(udp'[s].queue) <= QueueCap
    BY <1>3, <1>17, <1>19 DEF Inv, Capped
  <2>2. Len(Tail(task.pending)) <= MaxDrain
    <3>1. MaxDrain \in Nat /\ Len(task.pending) <= MaxDrain
      BY TransportAssumption DEF Inv, Capped
    <3> QED BY <1>8, <3>1
  <2>3. Len(task'.pending) <= MaxDrain
    BY <1>10, <2>2
  <2> QED BY <1>1, <2>1, <2>3 DEF Inv, Capped
<1>22. CountOK(count') /\ count'.transports = count.transports
  <2>1. CASE ok
    <3>1. count' = count
      BY <1>1, <2>1, CountIs
    <3> QED BY <3>1, CountIs
  <2>2. CASE ~ ok
    <3>1. count' = [count EXCEPT !.events = @ + 1]
      BY <1>1, <2>2
    <3> QED BY <3>1, EventIs
  <2> QED BY <2>1, <2>2
<1>23. CountOK(count)' /\ Bound(chan, task, manager, count.transports)'
  BY <1>1, <1>10, <1>22 DEF Inv, CountOK, Bound
<1>24. TaskOK(task)' /\ UdpOK(udp)' /\ HistoryOK(wire, produced, delivered)'
  BY <1>1, <1>10, <1>16, <1>19 DEF Inv, TaskOK, UdpOK, HistoryOK
<1>25. Ordered(wire, produced, task.pending, chan, ep.outbox)'
  <2>1. Ordered(wire', produced', task'.pending, chan', ep'.outbox)
    BY <1>1, <1>10, <1>15
  <2> QED BY <2>1 DEF Ordered
<1>26. EpOK(ep)' /\ ChanOK(chan)' /\ ManagerOK(manager)' /\ KernelOK(kernel)' /\ Calm(ep)'
  BY <1>1 DEF Inv, EpOK, ChanOK, ManagerOK, KernelOK, Calm
<1> QED BY <1>20, <1>21, <1>23, <1>24, <1>25, <1>26 DEF Inv

----------------------------------------------------------------------------
(* The invariant.                                                          *)

LEMMA CeilingIs ==
  ASSUME NEW n \in Nat, NEW p \in Nat, p # 0
  PROVE /\ ((n + p) - 1) \div p \in Nat
        /\ \A j \in Nat : (j - 1) * p < n => j <= ((n + p) - 1) \div p
<1> DEFINE a == (n + p) - 1
           k == a \div p
<1>1. a \in Nat
  OBVIOUS
<1> HIDE DEF a
<1>2. k \in Nat /\ a % p \in 0 .. p - 1 /\ a = (k * p) + (a % p)
  BY <1>1
<1> HIDE DEF k
<1>3. ASSUME NEW j \in Nat, (j - 1) * p < n PROVE j <= k
  <2>1. SUFFICES ASSUME j > k PROVE FALSE
    BY <1>2
  <2>2. PICK d \in Nat : j = k + 1 + d
    <3>1. (j - k) - 1 \in Nat /\ j = k + 1 + ((j - k) - 1)
      BY <1>2, <2>1
    <3> QED BY <3>1
  <2>3. (j - 1) * p = (k * p) + (d * p) /\ d * p \in Nat /\ k * p \in Nat
    BY <1>2, <2>2
  <2> DEFINE x == k * p
             y == d * p
             z == (j - 1) * p
  <2>4. z = x + y /\ y \in Nat /\ x \in Nat /\ z < n /\ a = x + (a % p)
    BY <1>2, <1>3, <2>3
  <2> HIDE DEF x, y, z
  <2>5. x >= n
    BY <1>2, <2>4 DEF a
  <2> QED BY <2>4, <2>5
<1> QED BY <1>2, <1>3 DEF a, k

LEMMA InitialFitsSyn ==
  ASSUME NEW n \in Nat, n # 0, InitialDataFits(Bytes(0, n)), NEW m \in Nat, m <= n
  PROVE FitsSyn(m)
<1> DEFINE k == ((n + MaxPayload) - 1) \div MaxPayload
<1>1. MaxPayload \in Nat /\ MaxPayload # 0 /\ MaxPacket \in Nat
  BY PacketizerAssumption
<1>2. Bytes(0, n) \in Seq(Nat) /\ Len(Bytes(0, n)) = n
  BY BytesIs
<1>3. Bytes(0, n) # <<>>
  BY <1>2
<1>4. k \in Nat /\ \A j \in Nat : (j - 1) * MaxPayload < n => j <= k
  BY <1>1, CeilingIs
<1>5. 10 + (k * 21) + n <= MaxPacket
  <2> DEFINE len == Len(Bytes(0, n))
  <2>1. 1 + LongSize + ((((len + MaxPayload) - 1) \div MaxPayload) * (1 + ShortSize)) + len <= MaxPacket
    BY <1>1, <1>3 DEF InitialDataFits
  <2> HIDE DEF len
  <2>2. len = n
    BY <1>2 DEF len
  <2> QED BY <2>1, <2>2, HeaderSizes
<1> HIDE DEF k
<1>6. ASSUME NEW j \in Nat, (j - 1) * MaxPayload < m PROVE j <= k
  <2> DEFINE z == (j - 1) * MaxPayload
  <2>1. z \in Int /\ z < m
    BY <1>1, <1>6
  <2>3. z < n => j <= k
    BY <1>4
  <2> HIDE DEF z
  <2>2. z < n
    BY <2>1
  <2> QED BY <2>2, <2>3
<1>7. 10 + (21 * k) + m <= MaxPacket
  BY <1>1, <1>4, <1>5
<1> QED BY <1>4, <1>6, <1>7 DEF FitsSyn

LEMMA InitialBuffer ==
  ASSUME NEW n \in Nat, n # 0, InitialDataFits(Bytes(0, n))
  PROVE /\ write_to_stream(EmptySendBuffer, Bytes(0, n)) \in Buffer
        /\ \E m \in Nat : /\ OnePiece(write_to_stream(EmptySendBuffer, Bytes(0, n)), m)
                          /\ (m = 0 \/ FitsSyn(m))
<1> DEFINE d == Bytes(0, n)
           sb == write_to_stream(EmptySendBuffer, d)
           k == Least(n, StreamCap)
<1>1. d \in Seq(Nat) /\ Len(d) = n
  BY BytesIs
<1>2. StreamCap \in Nat
  BY PacketizerAssumption
<1>3. EmptySendBuffer \in Buffer /\ EmptySendBuffer.size = 0 /\ EmptySendBuffer.pieces = <<>>
  BY EmptyBuffer DEF EmptySendBuffer
<1>4. Permit(StreamCap, EmptySendBuffer.size) = StreamCap
  BY <1>2, <1>3 DEF Permit
<1> HIDE DEF d
<1>5. Grown(EmptySendBuffer, d, Least(Len(d), Permit(StreamCap, EmptySendBuffer.size)), sb)
  BY <1>1, <1>3, WriteIs
<1>6. sb \in Buffer
  BY <1>5 DEF Grown
<1>7. k \in Nat /\ k <= n /\ (StreamCap # 0 => k # 0)
  BY <1>2 DEF Least
<1>8. \E m \in Nat : OnePiece(sb, m) /\ (m = 0 \/ FitsSyn(m))
  <2>1. CASE StreamCap = 0
    <3>1. sb = EmptySendBuffer
      BY <1>4, <2>1 DEF write_to_stream
    <3>2. OnePiece(sb, 0)
      BY <1>3, <3>1 DEF OnePiece
    <3> QED BY <3>2
  <2>2. CASE StreamCap # 0
    <3> DEFINE p == SubSeq(d, 1, k)
    <3>1. sb = [pieces |-> Append(EmptySendBuffer.pieces, p), size |-> EmptySendBuffer.size + Len(p)]
      BY <1>1, <1>4, <2>2 DEF write_to_stream
    <3>2. p \in Seq(Nat) /\ Len(p) = k
      BY <1>1, <1>7
    <3> HIDE DEF p
    <3>3. sb.pieces = <<p>>
      BY <1>3, <3>1
    <3>4. k \in Nat \ {0}
      BY <1>7, <2>2
    <3> HIDE DEF k, sb
    <3>5. OnePiece(sb, k)
      BY <3>2, <3>3, <3>4 DEF OnePiece
    <3>6. FitsSyn(k)
      BY <1>7, InitialFitsSyn
    <3> QED BY <1>7, <3>5, <3>6
  <2> QED BY <2>1, <2>2
<1> QED BY <1>6, <1>8 DEF d

LEMMA InitEndpoint ==
  ASSUME Init
  PROVE ep \in Endpoint /\ ep.outbox = <<>> /\ Calm(ep)
<1>1. PICK n \in Writes \cup {0}, s \in {"client", "server"} :
        /\ InitialDataFits(Bytes(0, n))
        /\ ep = [stage |-> s, cid |-> IF s = "client" THEN 0 ELSE PeerCid,
                 rel |-> [buffer |-> IF s = "client" /\ n > 0
                                     THEN write_to_stream(EmptySendBuffer, Bytes(0, n))
                                     ELSE EmptySendBuffer,
                          seq |-> 0, tracked |-> <<>>],
                 written |-> IF s = "client" THEN Least(n, StreamCap) ELSE 0,
                 outbox |-> <<>>, panicked |-> FALSE]
  BY DEF Init
<1> DEFINE c == IF s = "client" THEN 0 ELSE PeerCid
           b == IF s = "client" /\ n > 0 THEN write_to_stream(EmptySendBuffer, Bytes(0, n))
                ELSE EmptySendBuffer
           r == [buffer |-> b, seq |-> 0, tracked |-> <<>>]
           w == IF s = "client" THEN Least(n, StreamCap) ELSE 0
<1>2. n \in Nat /\ s \in Stages /\ c \in {0, PeerCid}
  BY TransportAssumption DEF Stages
<1>3. w \in Nat
  BY <1>2, PacketizerAssumption DEF Least
<1>4. b \in Buffer /\ \E m \in Nat : OnePiece(b, m) /\ (m = 0 \/ FitsSyn(m))
  <2>1. CASE s = "client" /\ n > 0
    <3>1. n # 0
      BY <1>2, <2>1
    <3>2. b = write_to_stream(EmptySendBuffer, Bytes(0, n))
      BY <2>1
    <3> HIDE DEF b
    <3> QED BY <1>1, <1>2, <3>1, <3>2, InitialBuffer
  <2>2. CASE ~ (s = "client" /\ n > 0)
    <3>1. b = EmptySendBuffer
      BY <2>2
    <3> HIDE DEF b
    <3>2. OnePiece(b, 0)
      BY <3>1 DEF OnePiece, EmptySendBuffer
    <3> QED BY <3>1, <3>2, EmptyBuffer
  <2> QED BY <2>1, <2>2
<1>5. ep = Ep(s, c, r, w, <<>>, FALSE)
  BY <1>1 DEF Ep
<1> HIDE DEF b, c, w
<1>6. <<>> \in Tracked(0)
  <2>1. 0 .. 0 - 1 = {}
    OBVIOUS
  <2>2. <<>> \in [{} -> Info]
    OBVIOUS
  <2> QED BY <2>1, <2>2 DEF Tracked
<1>7. r \in Rel /\ r.buffer = b
  BY <1>4, <1>6, MakeRel
<1> HIDE DEF r
<1>8. <<>> \in Seq(Batch)
  OBVIOUS
<1>9. Ep(s, c, r, w, <<>>, FALSE) \in Endpoint
  BY <1>2, <1>3, <1>7, <1>8, EpIs
<1>10. ep.outbox = <<>> /\ ~ ep.panicked /\ ep.rel = r
  BY <1>5 DEF Ep
<1>11. Calm(ep)
  BY <1>4, <1>7, <1>10 DEF Calm
<1> QED BY <1>5, <1>9, <1>10, <1>11

LEMMA InitInv == Init => Inv
<1> SUFFICES ASSUME Init PROVE Inv
  OBVIOUS
<1>1. /\ chan = <<>> /\ task = [transport |-> 1, pending |-> <<>>, waiting |-> FALSE]
      /\ manager = [transport |-> 1, binding |-> 0]
      /\ udp = [t \in Transports |-> IF t = 1 THEN from_socket(1) ELSE Unbound]
      /\ kernel = [a \in Addresses |-> <<>>]
      /\ wire = <<>> /\ produced = <<>> /\ delivered = <<>>
      /\ count = [transports |-> 1, addresses |-> 1, events |-> 0]
  BY DEF Init
<1>2. MaxTransports \in Nat \ {0} /\ MaxRebinds \in Nat /\ QueueCap \in Nat /\ ChanCap \in Nat /\ MaxDrain \in Nat
  BY TransportAssumption
<1>3. 1 \in Transports /\ 1 \in Addresses /\ 1 \in Places /\ 0 \in Places /\ 0 \in 0 .. MaxTransports
  BY <1>2 DEF Transports, Addresses, Places
<1>4. EpOK(ep) /\ ep.outbox = <<>> /\ Calm(ep)
  BY InitEndpoint DEF EpOK
<1>5. ChanOK(chan) /\ HistoryOK(wire, produced, delivered)
  BY <1>1 DEF ChanOK, HistoryOK
<1>6. TaskOK(task) /\ task.transport = 1 /\ task.pending = <<>> /\ ~ task.waiting
  BY <1>1, <1>3 DEF TaskOK
<1>7. ManagerOK(manager) /\ manager.transport = 1 /\ manager.binding = 0
  BY <1>1, <1>3 DEF ManagerOK
<1>8. CountOK(count) /\ count.transports = 1
  BY <1>1, <1>3 DEF CountOK
<1>9. KernelOK(kernel)
  BY <1>1 DEF KernelOK
<1>10. /\ from_socket(1) \in Udp /\ Unbound \in Udp
       /\ from_socket(1).queue = <<>> /\ from_socket(1).commands = <<>>
       /\ Unbound.queue = <<>> /\ Unbound.commands = <<>>
  BY <1>3 DEF from_socket, Unbound, Udp
<1>11. UdpOK(udp) /\ \A t \in Transports : udp[t].queue = <<>> /\ udp[t].commands = <<>>
  BY <1>1, <1>10 DEF UdpOK
<1>12. Waits(task, udp)
  BY <1>6, <1>11, SendsEmpty DEF Waits
<1>13. Bound(chan, task, manager, count.transports)
  <2>1. Len(chan) = 0 /\ 1 <= 1 /\ 0 <= 1
    BY <1>1
  <2> QED BY <1>6, <1>7, <1>8, <2>1 DEF Bound
<1>14. Capped(chan, task, udp)
  BY <1>1, <1>2, <1>6, <1>11 DEF Capped
<1>15. Ordered(wire, produced, task.pending, chan, ep.outbox)
  <2>1. Cat(Cat(<<>>, <<>>), <<>>) = <<>> /\ Rest(<<>>, 0) = <<>> /\ Len(<<>>) = 0
    BY EmptySequence, CatSequence DEF Rest
  <2> QED BY <1>1, <1>4, <1>6, <2>1, SendsEmpty DEF Ordered
<1> QED BY <1>4, <1>5, <1>6, <1>7, <1>8, <1>9, <1>11, <1>12, <1>13, <1>14, <1>15 DEF Inv

LEMMA EndpointKeeps ==
  ASSUME Inv, EndpointStep
  PROVE Inv'
<1>1. CASE \E c, w \in Windows : send_initial_syn(c, w)
  BY <1>1, InitialStep
<1>2. CASE \E c, w \in Windows : packetize_and_send(c, w)
  BY <1>2, PacketizeStep
<1>3. CASE \E n \in Writes, c, w \in Windows : SendFirstData(n, c, w)
  BY <1>3, FirstDataStep
<1>4. CASE \E n \in Writes : Write(n)
  BY <1>4, WriteStep
<1>5. CASE \E r \in Sacks : send_standalone_ack(r)
  BY <1>5, AckStep
<1>6. CASE \E n \in 1 .. ep.rel.seq : Acknowledge(n)
  BY <1>6, AcknowledgeStep
<1>7. CASE Close \/ LearnCid
  BY <1>7, CloseStep
<1>8. CASE SendChallenge
  BY <1>8, ChallengeStep
<1>9. CASE Retransmit
  BY <1>9, RetransmitStep
<1>10. CASE send_raw_frames
  BY <1>10, HandStep
<1> QED BY <1>1, <1>2, <1>3, <1>4, <1>5, <1>6, <1>7, <1>8, <1>9, <1>10 DEF EndpointStep

LEMMA NextInv == Inv /\ [Next]_vars => Inv'
<1> SUFFICES ASSUME Inv, [Next]_vars PROVE Inv'
  OBVIOUS
<1>1. CASE EndpointStep
  BY <1>1, EndpointKeeps
<1>2. CASE SenderStep
  BY <1>2, SwappedStep, DrainStep, SendStep DEF SenderStep
<1>3. ASSUME NEW t \in Transports, ActorStep(t) PROVE Inv'
  <2>1. CASE \E ok \in BOOLEAN : handle_send(t, ok)
    BY <2>1, HandleSendStep
  <2>2. CASE handle_rebind(t)
    BY <2>2, HandleRebindStep
  <2> QED BY <1>3, <2>1, <2>2 DEF ActorStep
<1>4. ASSUME NEW t \in Transports, ReceiverStep(t) PROVE Inv'
  BY <1>4, ReceiveStep, ReloadStep DEF ReceiverStep
<1>5. ASSUME NEW t \in Transports, RebindInPlace(t) PROVE Inv'
  BY <1>5, InPlaceStep
<1>6. CASE recv_frames
  BY <1>6, RecvStep
<1>7. CASE rebind
  BY <1>7, BindStep, SwapStep DEF rebind
<1>8. ASSUME NEW a \in Addresses, NEW b \in DOMAIN PeerBatches, Arrive(a, b) PROVE Inv'
  BY <1>8, ArriveStep
<1>9. CASE UNCHANGED vars
  BY <1>9 DEF vars, Inv, EpOK, ChanOK, TaskOK, ManagerOK, UdpOK, KernelOK, HistoryOK, CountOK, Ordered,
              Waits, Bound, Capped, Calm
<1> QED BY <1>1, <1>2, <1>3, <1>4, <1>5, <1>6, <1>7, <1>8, <1>9 DEF Next

LEMMA SpecInv == Spec => []Inv
BY InitInv, NextInv, PTL DEF Spec

LEMMA InvOrdered == Inv => SentInOrder
<1> SUFFICES ASSUME Inv PROVE SentInOrder
  OBVIOUS
<1> DEFINE g == Cat(task.pending, Sends(chan))
           queued == Cat(g, ep.outbox)
           n == Len(wire)
<1>1. Sequence(chan) /\ Sequence(task.pending) /\ Sequence(wire) /\ Sequence(produced) /\ Sequence(ep.outbox)
      /\ produced \in Seq(Batch)
  BY InvIs
<1>2. /\ n <= Len(produced) /\ Rest(produced, n) = queued
      /\ \A i \in 1 .. n : wire[i].to = produced[i].to
                           /\ wire[i].octets = serialize_frames(produced[i].frames)
  BY DEF Inv, Ordered
<1>3. n \in Nat /\ Len(produced) \in Nat /\ DOMAIN wire = 1 .. n
  BY <1>1, SequenceFacts
<1>4. Len(Rest(produced, n)) = Len(produced) - n
  <2>1. n \in 0 .. Len(produced)
    BY <1>2, <1>3
  <2> HIDE DEF n
  <2> QED BY <1>1, <2>1, SequenceRest
<1>5. ASSUME NEW i \in 1 .. n, AllInRange(produced[i].frames)
      PROVE deserialize_frames(wire[i].octets) = produced[i].frames
  <2> DEFINE fs == produced[i].frames
             x == serialize_frames(fs)
  <2>1. produced[i] \in Batch
    BY <1>1, <1>2, <1>3
  <2>2. fs \in Seq(Frame)
    BY <2>1 DEF Batch, Packet
  <2>3. wire[i].octets = x
    BY <1>2
  <2>4. \A j \in DOMAIN fs : InRange(fs[j])
    BY <1>5 DEF AllInRange
  <2> HIDE DEF fs
  <2>5. Sequence(fs) /\ DOMAIN fs = 1 .. Len(fs) /\ \A j \in 1 .. Len(fs) : fs[j] \in Frame
    BY <2>2, SequenceIs
  <2>6. \A j \in 1 .. Len(fs) : Encodable(fs[j])
    BY <2>4, <2>5, FrameIs
  <2>7. x \in Seq(Nat)
    <3>1. \A j \in 1 .. Len(fs) : Shaped(fs[j])
      BY <2>5, FrameIs
    <3> QED BY <2>5, <3>1, SerializedSize
  <2>8. Begins(x, x)
    <3> HIDE DEF x
    <3> QED BY <2>7 DEF Begins
  <2>9. deserialize_frames(x) = fs
    BY <2>5, <2>6, <2>7, <2>8, ReadBack
  <2> QED BY <2>3, <2>9 DEF fs
<1>6. queued = (task.pending \o Sends(chan)) \o ep.outbox
  BY DEF Cat
<1>7. n + Len(queued) = Len(produced)
  BY <1>2, <1>3, <1>4
<1> DEFINE Q == (task.pending \o Sends(chan)) \o ep.outbox
<1>8. Len(wire) + Len(Q) = Len(produced) /\ Q = Rest(produced, Len(wire))
  BY <1>2, <1>6, <1>7
<1>9. \A i \in DOMAIN wire :
          /\ wire[i].to = produced[i].to
          /\ wire[i].octets = serialize_frames(produced[i].frames)
          /\ AllInRange(produced[i].frames)
               => deserialize_frames(wire[i].octets) = produced[i].frames
  BY <1>2, <1>3, <1>5
<1> HIDE DEF n, queued, g
<1> QED BY <1>8, <1>9, Zenon DEF SentInOrder

LEMMA InvTyped == Inv => TrTypeOK
<1> SUFFICES ASSUME Inv PROVE TrTypeOK
  OBVIOUS
<1>1. ep.stage \in Stages /\ ep.cid \in {0, PeerCid} /\ ep.rel \in Rel /\ ep.panicked \in BOOLEAN
  BY InvIs, EndpointIs
<1>2. ep.rel.buffer \in Buffer /\ ep.rel.seq \in Nat /\ ep.rel.tracked \in Tracked(ep.rel.seq)
  BY <1>1, RelIs
<1>3. ep.rel.buffer.size = Len(FlattenSeq(ep.rel.buffer.pieces)) /\ ep.rel.buffer.size \in 0 .. StreamCap
  BY <1>2 DEF Buffer, Content
<1>4. \A s \in DOMAIN ep.rel.tracked : s < ep.rel.seq
  <2>1. DOMAIN ep.rel.tracked \subseteq 0 .. ep.rel.seq - 1
    BY <1>2, TrackedIs
  <2>2. \A s \in 0 .. ep.rel.seq - 1 : s < ep.rel.seq
    BY <1>2
  <2> QED BY <2>1, <2>2
<1>5. Len(chan) <= ChanCap /\ Len(task.pending) <= MaxDrain /\ \A t \in Transports : Len(udp[t].queue) <= QueueCap
  BY DEF Inv, Capped
<1>6. task.transport \in Transports /\ manager.transport \in Transports /\ manager.binding \in 0 .. MaxTransports
  BY InvIs
<1>7. \A t \in Transports : udp[t].socket \in 0 .. (MaxTransports + MaxRebinds)
  BY UdpIs DEF Places
<1> QED BY <1>1, <1>3, <1>4, <1>5, <1>6, <1>7 DEF TrTypeOK, Stages

LEMMA InvFits == Inv => DatagramsFit
<1> SUFFICES ASSUME Inv, NEW i \in DOMAIN wire, Len(produced[i].frames) > 1
             PROVE Len(wire[i].octets) <= MaxPacket
  BY DEF DatagramsFit
<1> DEFINE fs == produced[i].frames
<1>1. Sequence(wire) /\ Sequence(produced) /\ produced \in Seq(Batch)
  BY InvIs
<1>2. Len(wire) <= Len(produced)
      /\ \A j \in 1 .. Len(wire) : wire[j].octets = serialize_frames(produced[j].frames)
  BY DEF Inv, Ordered
<1>3. DOMAIN wire = 1 .. Len(wire) /\ Len(wire) \in Nat /\ Len(produced) \in Nat
  BY <1>1, SequenceFacts
<1>4. i \in 1 .. Len(wire) /\ i \in 1 .. Len(produced)
  BY <1>2, <1>3
<1>5. produced[i] \in Batch
  BY <1>1, <1>4
<1>6. fs \in Packet /\ wire[i].octets = serialize_frames(fs)
  BY <1>2, <1>4, <1>5 DEF Batch
<1> HIDE DEF fs
<1>7. fs \in Seq(Frame) /\ (Len(fs) > 1 => PacketSize(fs) <= MaxPacket)
  BY <1>6 DEF Packet
<1>8. Len(serialize_frames(fs)) = PacketSize(fs)
  BY <1>7, FramesSized
<1> QED BY <1>6, <1>7, <1>8 DEF fs

LEMMA InvReceived == Inv => ReceivedAsSent
<1> SUFFICES ASSUME Inv,
                    NEW d \in ToSet(delivered) \cup UNION {ToSet(udp[t].queue) : t \in Transports}
             PROVE /\ IsPrefix(d.frames, PeerBatches[d.batch])
                   /\ Len(serialize_frames(PeerBatches[d.batch])) <= BufferSize
                        => d.frames = PeerBatches[d.batch]
  BY DEF ReceivedAsSent
<1>1. ASSUME NEW q \in Seq(Received), d \in ToSet(q) PROVE d \in Received
  <2>1. PICK i \in DOMAIN q : d = q[i]
    BY <1>1 DEF ToSet
  <2> QED BY <2>1
<1>2. d \in Received
  <2>1. CASE d \in ToSet(delivered)
    <3>1. delivered \in Seq(Received)
      BY InvIs
    <3> QED BY <1>1, <2>1, <3>1
  <2>2. CASE d \in UNION {ToSet(udp[t].queue) : t \in Transports}
    <3>1. PICK t \in Transports : d \in ToSet(udp[t].queue)
      BY <2>2
    <3>2. udp[t].queue \in Seq(Received)
      BY UdpIs
    <3> QED BY <1>1, <3>1, <3>2
  <2> QED BY <2>1, <2>2
<1> QED BY <1>2, ReceivedIs

LEMMA InvSafe == Inv => TrInv
<1> SUFFICES ASSUME Inv PROVE TrInv
  OBVIOUS
<1>1. InitialDataNeverPanics
  BY DEF Inv, Calm, InitialDataNeverPanics
<1>2. AnswerPending
  BY DEF Inv, Waits, AnswerPending
<1> QED BY <1>1, <1>2, InvTyped, InvFits, InvReceived DEF TrInv

(***************************************************************************)
(* The transport invariant holds always: whatever is written, closed,      *)
(* challenged, retransmitted, rebound or swapped, packet_builder never     *)
(* exceeds its limit but for a single frame, initial data always fits      *)
(* behind its SYN (sender.rs, packetizer.rs), recv_frames decodes a prefix *)
(* of what a peer sent even where the buffer cuts the datagram (udp.rs),   *)
(* and transport_sender_task waits for exactly the batch its transport has *)
(* (sender_task.rs).                                                       *)
(***************************************************************************)
THEOREM TransportSafe == Spec => []TrInv
BY SpecInv, InvSafe, PTL

(***************************************************************************)
(* Batches leave in the order in which the endpoint produced them, none    *)
(* lost, repeated or reordered by draining the channel or by swapping the  *)
(* transport (transport_sender_task), and each datagram decodes into the   *)
(* frames of its batch (Frame::encode, Frame::decode).                     *)
(***************************************************************************)
THEOREM TransportInOrder == Spec => []SentInOrder
BY SpecInv, InvOrdered, PTL

----------------------------------------------------------------------------
(* StreamIntact: the PUSH frames ever made carry the written bytes in the  *)
(* order of their numbers, each byte once.  SInv is its inductive          *)
(* invariant.                                                              *)

----------------------------------------------------------------------------
(* The frames of packets.                                                  *)

FramesIn(packets) == UNION {ToSet(packets[i]) : i \in DOMAIN packets}
FramesOf(batches) == UNION {ToSet(batches[i].frames) : i \in DOMAIN batches}

LEMMA SetAppend ==
  ASSUME NEW s, Sequence(s), NEW x
  PROVE ToSet(Append(s, x)) = ToSet(s) \cup {x}
<1> DEFINE q == Append(s, x)
<1>1. /\ Sequence(q) /\ Len(q) = Len(s) + 1 /\ q[Len(s) + 1] = x
      /\ \A i \in 1 .. Len(s) : q[i] = s[i]
  BY AppendSequence DEF Appends
<1> HIDE DEF q
<1>2. /\ DOMAIN q = 1 .. Len(q) /\ DOMAIN s = 1 .. Len(s) /\ Len(s) \in Nat
  BY <1>1, SequenceFacts
<1>3. 1 .. Len(q) = 1 .. Len(s) \cup {Len(s) + 1}
  BY <1>1, <1>2
<1> QED BY <1>1, <1>2, <1>3 DEF ToSet, q

LEMMA FramesAppend ==
  ASSUME NEW ps, Sequence(ps), NEW p
  PROVE FramesIn(Append(ps, p)) = FramesIn(ps) \cup ToSet(p)
<1> DEFINE q == Append(ps, p)
<1>1. /\ Sequence(q) /\ Len(q) = Len(ps) + 1 /\ q[Len(ps) + 1] = p
      /\ \A i \in 1 .. Len(ps) : q[i] = ps[i]
  BY AppendSequence DEF Appends
<1> HIDE DEF q
<1>2. /\ DOMAIN q = 1 .. Len(q) /\ DOMAIN ps = 1 .. Len(ps) /\ Len(ps) \in Nat
  BY <1>1, SequenceFacts
<1>3. 1 .. Len(q) = 1 .. Len(ps) \cup {Len(ps) + 1}
  BY <1>1, <1>2
<1>4. FramesIn(q) \subseteq FramesIn(ps) \cup ToSet(p)
  <2> SUFFICES ASSUME NEW i \in DOMAIN q, NEW f \in ToSet(q[i]) PROVE f \in FramesIn(ps) \cup ToSet(p)
    BY DEF FramesIn
  <2>1. CASE i \in 1 .. Len(ps)
    BY <1>1, <1>2, <2>1 DEF FramesIn
  <2>2. CASE i = Len(ps) + 1
    BY <1>1, <2>2
  <2> QED BY <1>2, <1>3, <2>1, <2>2
<1>5. FramesIn(ps) \cup ToSet(p) \subseteq FramesIn(q)
  <2>1. ToSet(p) \subseteq FramesIn(q)
    <3>1. Len(ps) + 1 \in DOMAIN q
      BY <1>2, <1>3
    <3> QED BY <1>1, <3>1 DEF FramesIn
  <2>2. ASSUME NEW i \in DOMAIN ps PROVE ToSet(ps[i]) \subseteq FramesIn(q)
    <3>1. i \in DOMAIN q /\ q[i] = ps[i]
      BY <1>1, <1>2, <1>3
    <3> QED BY <3>1 DEF FramesIn
  <2> QED BY <2>1, <2>2 DEF FramesIn
<1> QED BY <1>4, <1>5 DEF q

LEMMA NoFrames == FramesIn(<<>>) = {} /\ ToSet(<<>>) = {}
BY DEF FramesIn, ToSet

LEMMA OneFrame ==
  ASSUME NEW x
  PROVE ToSet(<<x>>) = {x} /\ FramesIn(<<x>>) = ToSet(x)
<1>1. DOMAIN <<x>> = {1} /\ <<x>>[1] = x
  OBVIOUS
<1> QED BY <1>1 DEF ToSet, FramesIn

LEMMA PacketSequence ==
  ASSUME NEW p \in Packet
  PROVE Sequence(p)
<1>1. p \in Seq(Frame)
  BY DEF Packet
<1> QED BY <1>1, SequenceIs

\* The frames a builder has: those sent and those in the datagram being filled.
Has(b) == FramesIn(b.sent) \cup ToSet(b.frames)

LEMMA FlushHas ==
  ASSUME NEW b \in Builder
  PROVE Has(flush(b)) = Has(b)
<1>1. b.frames \in Packet /\ b.sent \in Seq(Packet)
  BY DEF Builder
<1>2. CASE b.frames = <<>>
  BY <1>2 DEF flush
<1>3. CASE b.frames # <<>>
  <2>1. flush(b) = [frames |-> <<>>, size |-> 0, sent |-> Append(b.sent, b.frames)]
    BY <1>3 DEF flush
  <2>2. flush(b).frames = <<>> /\ flush(b).sent = Append(b.sent, b.frames)
    BY <2>1
  <2>3. Sequence(b.sent)
    BY <1>1, SequenceIs
  <2>4. FramesIn(Append(b.sent, b.frames)) = FramesIn(b.sent) \cup ToSet(b.frames)
    BY <2>3, FramesAppend
  <2> QED BY <2>2, <2>4, NoFrames DEF Has
<1> QED BY <1>2, <1>3

LEMMA AddHas ==
  ASSUME NEW b \in Builder, NEW f \in Frame
  PROVE Has(add_frame(b, f)) = Has(b) \cup {f}
<1> DEFINE c == IF b.frames # <<>> /\ b.size + encoded_size(f) > MaxPacket THEN flush(b) ELSE b
           g == Append(c.frames, f)
           n == c.size + encoded_size(f)
<1>1. c \in Builder
  BY FlushIs
<1>2. add_frame(b, f) = [c EXCEPT !.frames = g, !.size = n]
  BY DEF add_frame
<1>3. Has(c) = Has(b)
  <2>1. c = flush(b) \/ c = b
    OBVIOUS
  <2> HIDE DEF c
  <2> QED BY <2>1, FlushHas
<1> HIDE DEF c
<1>4. c = [frames |-> c.frames, size |-> c.size, sent |-> c.sent] /\ c.frames \in Packet
  BY <1>1 DEF Builder
<1>5. ToSet(g) = ToSet(c.frames) \cup {f}
  BY <1>4, PacketSequence, SetAppend
<1> HIDE DEF g, n
<1>6. add_frame(b, f) = [frames |-> g, size |-> n, sent |-> c.sent]
  BY <1>2, <1>4
<1>7. add_frame(b, f).frames = g /\ add_frame(b, f).sent = c.sent
  BY <1>6
<1> QED BY <1>3, <1>5, <1>7 DEF Has

\* The first n elements of a sequence.
Firsts(s, n) == {s[i] : i \in 1 .. n}

LEMMA FirstsIs ==
  ASSUME NEW s, NEW n \in Nat
  PROVE /\ Firsts(s, 0) = {} /\ (n # 0 => Firsts(s, n) = Firsts(s, n - 1) \cup {s[n]})
        /\ (Sequence(s) => Firsts(s, Len(s)) = ToSet(s))
<1>1. Firsts(s, 0) = {}
  BY DEF Firsts
<1>2. ASSUME n # 0 PROVE Firsts(s, n) = Firsts(s, n - 1) \cup {s[n]}
  <2>1. 1 .. n = 1 .. (n - 1) \cup {n}
    BY <1>2
  <2> QED BY <2>1 DEF Firsts
<1>3. ASSUME Sequence(s) PROVE Firsts(s, Len(s)) = ToSet(s)
  BY <1>3, SequenceFacts DEF Firsts, ToSet
<1> QED BY <1>1, <1>2, <1>3

LEMMA BuildFrames ==
  ASSUME NEW frames \in Seq(Frame)
  PROVE FramesIn(BuildPackets(frames)) = ToSet(frames)
<1> DEFINE all == Folded("frame", 0, NewBuilder, frames)
           A(i) == {b \in Builder : Has(b) = Firsts(frames, i)}
           S == [i \in 0 .. Len(frames) |-> A(i)]
<1>1. Sequence(frames) /\ Len(frames) \in Nat /\ DOMAIN frames = 1 .. Len(frames)
      /\ \A i \in 1 .. Len(frames) : frames[i] \in Frame
  BY SequenceIs
<1>2. NewBuilder \in S[0]
  <2>1. Filled(<<>>, 0) /\ <<>> \in Packet
    BY FillEmpty DEF Filled
  <2>2. NewBuilder \in Builder
    BY <2>1 DEF Builder, NewBuilder
  <2>3. NewBuilder.sent = <<>> /\ NewBuilder.frames = <<>>
    BY DEF NewBuilder
  <2>4. Has(NewBuilder) = {} /\ Firsts(frames, 0) = {}
    BY <2>3, NoFrames, FirstsIs DEF Has
  <2>5. NewBuilder \in A(0)
    BY <2>2, <2>4
  <2>6. S[0] = A(0)
    BY <1>1
  <2> HIDE DEF S, A
  <2> QED BY <2>5, <2>6
<1>3. ASSUME NEW i \in 1 .. Len(frames), NEW v \in S[i - 1]
      PROVE Step("frame", 0, v, frames[i]) \in S[i]
  <2>1. v \in Builder /\ Has(v) = Firsts(frames, i - 1) /\ S[i] = A(i) /\ i \in Nat /\ i # 0
    BY <1>1
  <2>2. Step("frame", 0, v, frames[i]) = add_frame(v, frames[i])
    BY DEF Step
  <2>3. add_frame(v, frames[i]) \in Builder /\ Has(add_frame(v, frames[i])) = Has(v) \cup {frames[i]}
    BY <1>1, <2>1, AddFrame, AddHas
  <2>4. Firsts(frames, i) = Firsts(frames, i - 1) \cup {frames[i]}
    BY <2>1, FirstsIs
  <2>5. add_frame(v, frames[i]) \in A(i)
    BY <2>1, <2>3, <2>4
  <2> QED BY <2>1, <2>2, <2>5
<1>4. S[Len(frames)] = A(Len(frames))
  BY <1>1
<1> HIDE DEF S
<1>5. all \in S[Len(frames)]
  BY <1>1, <1>2, <1>3, FoldedIn
<1>6. BuildPackets(frames) = flush(all).sent
  BY <1>1, FrameFolded DEF BuildPackets
<1> HIDE DEF all
<1>7. all \in Builder /\ Has(all) = Firsts(frames, Len(frames))
  BY <1>4, <1>5
<1>8. Has(flush(all)) = Has(all) /\ flush(all).frames = <<>>
  BY <1>7, FlushHas, FlushIs
<1>9. Has(flush(all)) = FramesIn(flush(all).sent)
  BY <1>8, NoFrames DEF Has
<1> QED BY <1>1, <1>6, <1>7, <1>8, <1>9, FirstsIs

\* The frames of the 0-RTT grouping.
Groups(a) == FramesIn(a.packets) \cup ToSet(a.current)

LEMMA ZeroGroups ==
  ASSUME NEW a \in Grouping, NEW f \in Frame
  PROVE Groups(ZeroRttFrame(a, f)) = Groups(a) \cup {f}
<1> DEFINE n == encoded_size(f)
           m == a.size + n
           g == Append(a.current, f)
           p == Append(a.packets, a.current)
<1>1. /\ a = [packets |-> a.packets, current |-> a.current, size |-> a.size]
      /\ a.packets \in Seq(Packet) /\ a.current \in Packet
  BY DEF Grouping
<1>2. CASE a.size + n <= MaxPacket
  <2>1. ToSet(g) = ToSet(a.current) \cup {f}
    BY <1>1, PacketSequence, SetAppend
  <2>2. ZeroRttFrame(a, f) = [a EXCEPT !.current = g, !.size = m]
    BY <1>2 DEF ZeroRttFrame
  <2> HIDE DEF g, m, n
  <2>3. ZeroRttFrame(a, f) = [packets |-> a.packets, current |-> g, size |-> m]
    BY <1>1, <2>2
  <2>4. ZeroRttFrame(a, f).packets = a.packets /\ ZeroRttFrame(a, f).current = g
    BY <2>3
  <2> QED BY <2>1, <2>4 DEF Groups
<1>3. CASE ~ (a.size + n <= MaxPacket)
  <2>1. ZeroRttFrame(a, f) = [packets |-> p, current |-> <<f>>, size |-> n]
    BY <1>3 DEF ZeroRttFrame
  <2>2. ZeroRttFrame(a, f).packets = p /\ ZeroRttFrame(a, f).current = <<f>>
    BY <2>1
  <2>3. Sequence(a.packets)
    BY <1>1, SequenceIs
  <2>4. FramesIn(p) = FramesIn(a.packets) \cup ToSet(a.current)
    BY <2>3, FramesAppend
  <2> QED BY <2>2, <2>4, OneFrame DEF Groups
<1> QED BY <1>2, <1>3

LEMMA ZeroFrames ==
  ASSUME NEW pushes \in Seq(Frame), NEW synAck \in Frame
  PROVE FramesIn(packetize_zero_rtt(pushes, synAck)) = {synAck} \cup ToSet(pushes)
<1> DEFINE b == [packets |-> <<>>, current |-> <<synAck>>, size |-> encoded_size(synAck)]
           all == Folded("zero", 0, b, pushes)
           A(i) == {a \in Grouping : Groups(a) = {synAck} \cup Firsts(pushes, i)}
           S == [i \in 0 .. Len(pushes) |-> A(i)]
<1>1. Sequence(pushes) /\ Len(pushes) \in Nat /\ DOMAIN pushes = 1 .. Len(pushes)
      /\ \A i \in 1 .. Len(pushes) : pushes[i] \in Frame
  BY SequenceIs
<1>2. b \in S[0]
  <2>1. Filled(<<synAck>>, encoded_size(synAck)) /\ <<synAck>> \in Packet /\ encoded_size(synAck) \in Nat
    BY FillOne DEF Filled
  <2>2. b \in Grouping
    BY <2>1 DEF Grouping
  <2>3. b.packets = <<>> /\ b.current = <<synAck>>
    OBVIOUS
  <2> HIDE DEF b
  <2>4. Groups(b) = {synAck} /\ Firsts(pushes, 0) = {}
    BY <2>3, NoFrames, OneFrame, FirstsIs DEF Groups
  <2>5. b \in A(0)
    BY <2>2, <2>4
  <2>6. S[0] = A(0)
    BY <1>1
  <2> HIDE DEF S, A
  <2> QED BY <2>5, <2>6
<1>3. ASSUME NEW i \in 1 .. Len(pushes), NEW v \in S[i - 1]
      PROVE Step("zero", 0, v, pushes[i]) \in S[i]
  <2>1. v \in Grouping /\ Groups(v) = {synAck} \cup Firsts(pushes, i - 1) /\ S[i] = A(i) /\ i \in Nat /\ i # 0
    BY <1>1
  <2>2. Step("zero", 0, v, pushes[i]) = ZeroRttFrame(v, pushes[i])
    BY DEF Step
  <2>3. /\ ZeroRttFrame(v, pushes[i]) \in Grouping
        /\ Groups(ZeroRttFrame(v, pushes[i])) = Groups(v) \cup {pushes[i]}
    BY <1>1, <2>1, ZeroRttFrameIs, ZeroGroups
  <2>4. Firsts(pushes, i) = Firsts(pushes, i - 1) \cup {pushes[i]}
    BY <2>1, FirstsIs
  <2>5. ZeroRttFrame(v, pushes[i]) \in A(i)
    BY <2>1, <2>3, <2>4
  <2> QED BY <2>1, <2>2, <2>5
<1>4. S[Len(pushes)] = A(Len(pushes))
  BY <1>1
<1> HIDE DEF S
<1>5. all \in S[Len(pushes)]
  <2> HIDE DEF b
  <2> QED BY <1>1, <1>2, <1>3, FoldedIn
<1>6. packetize_zero_rtt(pushes, synAck) = Append(all.packets, all.current)
  BY <1>1, ZeroFolded DEF packetize_zero_rtt
<1> HIDE DEF all
<1>7. all \in Grouping /\ Groups(all) = {synAck} \cup Firsts(pushes, Len(pushes))
  BY <1>4, <1>5
<1>8. Sequence(all.packets)
  <2>1. all.packets \in Seq(Packet)
    BY <1>7 DEF Grouping
  <2> QED BY <2>1, SequenceIs
<1>9. FramesIn(Append(all.packets, all.current)) = Groups(all)
  BY <1>8, FramesAppend DEF Groups
<1> QED BY <1>1, <1>6, <1>7, <1>9, FirstsIs

LEMMA BatchFrames ==
  ASSUME NEW to, NEW ps
  PROVE FramesOf(Batches(to, ps)) = FramesIn(ps)
<1> DEFINE b == Batches(to, ps)
<1>1. DOMAIN b = DOMAIN ps /\ \A i \in DOMAIN ps : b[i] = [to |-> to, frames |-> ps[i]]
  BY DEF Batches
<1> HIDE DEF b
<1>2. \A i \in DOMAIN ps : b[i].frames = ps[i]
  BY <1>1
<1> QED BY <1>1, <1>2 DEF FramesOf, FramesIn, b

LEMMA FramesJoin ==
  ASSUME NEW p, Sequence(p), NEW b, Sequence(b)
  PROVE FramesOf(Cat(p, b)) = FramesOf(p) \cup FramesOf(b)
<1> DEFINE q == Cat(p, b)
<1>1. Joins(q, p, b)
  BY JoinSequences DEF Cat
<1> HIDE DEF q
<1>2. Len(p) \in Nat /\ Len(b) \in Nat /\ DOMAIN p = 1 .. Len(p) /\ DOMAIN b = 1 .. Len(b)
  BY SequenceFacts
<1>3. /\ Sequence(q) /\ Len(q) = Len(p) + Len(b)
      /\ (\A i \in 1 .. Len(p) : q[i] = p[i]) /\ (\A j \in 1 .. Len(b) : q[Len(p) + j] = b[j])
  BY <1>1 DEF Joins
<1>4. DOMAIN q = 1 .. (Len(p) + Len(b))
  BY <1>3, SequenceFacts
<1>5. FramesOf(q) \subseteq FramesOf(p) \cup FramesOf(b)
  <2> SUFFICES ASSUME NEW i \in DOMAIN q, NEW f \in ToSet(q[i].frames) PROVE f \in FramesOf(p) \cup FramesOf(b)
    BY DEF FramesOf
  <2>1. CASE i <= Len(p)
    <3>1. i \in DOMAIN p /\ q[i] = p[i]
      BY <1>2, <1>3, <1>4, <2>1
    <3> QED BY <3>1 DEF FramesOf
  <2>2. CASE ~ (i <= Len(p))
    <3>1. i - Len(p) \in 1 .. Len(b) /\ Len(p) + (i - Len(p)) = i
      BY <1>2, <1>4, <2>2
    <3>2. q[i] = b[i - Len(p)]
      BY <1>3, <3>1
    <3> QED BY <1>2, <3>1, <3>2 DEF FramesOf
  <2> QED BY <2>1, <2>2
<1>6. ASSUME NEW i \in DOMAIN p PROVE ToSet(p[i].frames) \subseteq FramesOf(q)
  <2>1. i \in DOMAIN q /\ q[i] = p[i]
    BY <1>2, <1>3, <1>4
  <2> QED BY <2>1 DEF FramesOf
<1>7. ASSUME NEW j \in DOMAIN b PROVE ToSet(b[j].frames) \subseteq FramesOf(q)
  <2>1. Len(p) + j \in DOMAIN q /\ q[Len(p) + j] = b[j]
    BY <1>2, <1>3, <1>4
  <2> QED BY <2>1 DEF FramesOf
<1>8. FramesOf(p) \cup FramesOf(b) \subseteq FramesOf(q)
  BY <1>6, <1>7 DEF FramesOf
<1> QED BY <1>5, <1>8 DEF q

\* What a step that hands packets over leaves.
LEMMA ProducedIs ==
  ASSUME Inv, NEW e \in Endpoint, NEW to, NEW ps, Batches(to, ps) \in Seq(Batch),
         Produce(e, Batches(to, ps))
  PROVE /\ FramesOf(produced') = FramesOf(produced) \cup FramesIn(ps)
        /\ ep'.rel = e.rel /\ ep'.written = e.written /\ ep'.stage = e.stage
<1> DEFINE b == Batches(to, ps)
<1>1. ep' = [e EXCEPT !.outbox = b] /\ produced' = Cat(produced, b)
  BY DEF Produce, Cat
<1>2. FramesOf(b) = FramesIn(ps)
  BY BatchFrames
<1>3. b \in Seq(Batch)
  OBVIOUS
<1> HIDE DEF b
<1>4. Sequence(b) /\ Sequence(produced)
  BY <1>3, SequenceIs, InvIs
<1>5. FramesOf(produced') = FramesOf(produced) \cup FramesOf(b)
  BY <1>1, <1>4, FramesJoin
<1>6. e = [stage |-> e.stage, cid |-> e.cid, rel |-> e.rel, written |-> e.written,
           outbox |-> e.outbox, panicked |-> e.panicked]
  BY EndpointIs
<1>7. ep'.rel = e.rel /\ ep'.written = e.written /\ ep'.stage = e.stage
  BY <1>1, <1>6
<1> QED BY <1>2, <1>5, <1>7

----------------------------------------------------------------------------
(* The numbers taken so far and the bytes each carries: d[i] is what number *)
(* i - 1 carries, <<>> for a FIN or a PATH_CHALLENGE.                       *)

IsPush(f) == command(f) = "Push"

Carries(d, F) ==
  \A f \in F : IsPush(f) => f.header.seq \in 0 .. Len(d) - 1 /\ f.body = d[f.header.seq + 1]

Covers(d, F) ==
  \A i \in 1 .. Len(d) : d[i] # <<>> => \E f \in F : IsPush(f) /\ f.header.seq = i - 1

KeptAs(d, s, info) == info.type = "Push" => s \in 0 .. Len(d) - 1 /\ info.body = d[s + 1]

Kept(d) == {x \in AnyKept : KeptAs(d, x[1], x[2])}

Tells(d, rel, w, F) ==
  /\ d \in Seq(Seq(Nat)) /\ Len(d) = rel.seq
  /\ Cat(FlattenSeq(d), Content(rel.buffer)) = Bytes(0, w)
  /\ rel.tracked \in TrackedIn(rel.seq, Kept(d))
  /\ Carries(d, F) /\ Covers(d, F)

Told(rel, w, F) == \E d : Tells(d, rel, w, F)

LEMMA JoinIs ==
  ASSUME NEW d \in Seq(Seq(Nat)), NEW e \in Seq(Seq(Nat))
  PROVE /\ Cat(d, e) \in Seq(Seq(Nat)) /\ Len(Cat(d, e)) = Len(d) + Len(e)
        /\ Len(d) \in Nat /\ Len(e) \in Nat
        /\ \A i \in 1 .. Len(d) : Cat(d, e)[i] = d[i]
        /\ \A j \in 1 .. Len(e) : Cat(d, e)[Len(d) + j] = e[j]
BY DEF Cat

LEMMA CarriesMore ==
  ASSUME NEW d \in Seq(Seq(Nat)), NEW e \in Seq(Seq(Nat)), NEW F, Carries(d, F)
  PROVE Carries(Cat(d, e), F)
<1> DEFINE q == Cat(d, e)
<1>1. Len(q) = Len(d) + Len(e) /\ (\A i \in 1 .. Len(d) : q[i] = d[i]) /\ Len(d) \in Nat /\ Len(e) \in Nat
  BY JoinIs
<1> HIDE DEF q
<1>2. ASSUME NEW f \in F, IsPush(f) PROVE f.header.seq \in 0 .. Len(q) - 1 /\ f.body = q[f.header.seq + 1]
  <2> DEFINE s == f.header.seq
  <2>1. s \in 0 .. Len(d) - 1 /\ f.body = d[s + 1]
    BY <1>2 DEF Carries
  <2> HIDE DEF s
  <2>2. s \in 0 .. Len(q) - 1 /\ s + 1 \in 1 .. Len(d)
    BY <1>1, <2>1
  <2>3. f.body = q[s + 1]
    BY <1>1, <2>1, <2>2
  <2> QED BY <2>2, <2>3 DEF s
<1> QED BY <1>2 DEF Carries, q

LEMMA KeptMore ==
  ASSUME NEW d \in Seq(Seq(Nat)), NEW e \in Seq(Seq(Nat))
  PROVE Kept(d) \subseteq Kept(Cat(d, e))
<1> DEFINE q == Cat(d, e)
<1>1. Len(q) = Len(d) + Len(e) /\ (\A i \in 1 .. Len(d) : q[i] = d[i]) /\ Len(d) \in Nat /\ Len(e) \in Nat
  BY JoinIs
<1> HIDE DEF q
<1>2. ASSUME NEW s, NEW info, KeptAs(d, s, info) PROVE KeptAs(q, s, info)
  <2> SUFFICES ASSUME info.type = "Push" PROVE s \in 0 .. Len(q) - 1 /\ info.body = q[s + 1]
    BY DEF KeptAs
  <2>1. s \in 0 .. Len(d) - 1 /\ info.body = d[s + 1]
    BY <1>2 DEF KeptAs
  <2>2. s \in 0 .. Len(q) - 1 /\ s + 1 \in 1 .. Len(d)
    BY <1>1, <2>1
  <2> QED BY <1>1, <2>1, <2>2
<1> QED BY <1>2 DEF Kept, q

\* More frames that carry what was carried.
LEMMA TellsFrames ==
  ASSUME NEW d, NEW rel, NEW w, NEW F, Tells(d, rel, w, F), NEW G, Carries(d, G)
  PROVE Tells(d, rel, w, F \cup G)
<1>1. Carries(d, F \cup G)
  BY DEF Tells, Carries
<1>2. Covers(d, F \cup G)
  BY DEF Tells, Covers
<1> QED BY <1>1, <1>2 DEF Tells

\* Frames that carry nothing.
LEMMA NoPush ==
  ASSUME NEW d, NEW f, ~ IsPush(f)
  PROVE Carries(d, {f})
BY DEF Carries

\* The bytes e move from the buffer into frames with the next numbers.
Moves(rel, r, e) ==
  r.seq = rel.seq + Len(e) /\ Cat(FlattenSeq(e), Content(r.buffer)) = Content(rel.buffer)

Carried(n, e, G) == \A j \in 1 .. Len(e) : e[j] # <<>> => \E f \in G : IsPush(f) /\ f.header.seq = (n + j) - 1

LEMMA TellsMore ==
  ASSUME NEW d, NEW rel \in Rel, NEW w, NEW F, Tells(d, rel, w, F), NEW e \in Seq(Seq(Nat)),
         NEW r \in Rel, Moves(rel, r, e), r.tracked \in TrackedIn(r.seq, Kept(Cat(d, e))),
         NEW G, Carries(Cat(d, e), G), Carried(rel.seq, e, G)
  PROVE Tells(Cat(d, e), r, w, F \cup G)
<1> DEFINE q == Cat(d, e)
<1>1. /\ d \in Seq(Seq(Nat)) /\ Len(d) = rel.seq /\ Cat(FlattenSeq(d), Content(rel.buffer)) = Bytes(0, w)
      /\ Carries(d, F) /\ Covers(d, F)
  BY DEF Tells
<1>2. /\ q \in Seq(Seq(Nat)) /\ Len(q) = Len(d) + Len(e) /\ (\A i \in 1 .. Len(d) : q[i] = d[i])
      /\ (\A j \in 1 .. Len(e) : q[Len(d) + j] = e[j]) /\ Len(d) \in Nat /\ Len(e) \in Nat
  BY <1>1, JoinIs
<1>3. Carries(q, F)
  BY <1>1, CarriesMore
<1>4. FlattenSeq(q) = Cat(FlattenSeq(d), FlattenSeq(e))
  BY <1>1, FlatJoin
<1>5. Cat(FlattenSeq(q), Content(r.buffer)) = Bytes(0, w)
  <2>1. Sequence(FlattenSeq(d)) /\ Sequence(FlattenSeq(e))
    BY <1>1, FlatPieced
  <2>2. Sequence(Content(r.buffer))
    <3>1. Content(r.buffer) \in Seq(Nat)
      BY RelIs, BufferIs
    <3> QED BY <3>1, SequenceIs
  <2>3. Cat(Cat(FlattenSeq(d), FlattenSeq(e)), Content(r.buffer))
          = Cat(FlattenSeq(d), Cat(FlattenSeq(e), Content(r.buffer)))
    BY <2>1, <2>2, CatRegroup
  <2> QED BY <1>1, <1>4, <2>3 DEF Moves
<1>6. Carries(q, G) /\ r.tracked \in TrackedIn(r.seq, Kept(q))
  OBVIOUS
<1>7. Len(q) = r.seq
  BY <1>1, <1>2 DEF Moves
<1> HIDE DEF q
<1>8. Carries(q, F \cup G)
  BY <1>3, <1>6 DEF Carries
<1>9. Covers(q, F \cup G)
  <2> SUFFICES ASSUME NEW i \in 1 .. Len(q), q[i] # <<>>
               PROVE \E f \in F \cup G : IsPush(f) /\ f.header.seq = i - 1
    BY DEF Covers
  <2>1. CASE i <= Len(d)
    <3>1. i \in 1 .. Len(d) /\ q[i] = d[i]
      BY <1>2, <2>1
    <3> QED BY <1>1, <3>1 DEF Covers
  <2>2. CASE ~ (i <= Len(d))
    <3> DEFINE j == i - Len(d)
    <3>1. j \in 1 .. Len(e) /\ Len(d) + j = i
      BY <1>2, <2>2
    <3> HIDE DEF j
    <3>2. e[j] # <<>>
      BY <1>2, <3>1
    <3>3. PICK f \in G : IsPush(f) /\ f.header.seq = (rel.seq + j) - 1
      BY <3>1, <3>2 DEF Carried
    <3>4. (rel.seq + j) - 1 = i - 1
      BY <1>1, <3>1
    <3> QED BY <3>3, <3>4
  <2> QED BY <2>1, <2>2
<1>10. Tells(q, r, w, F \cup G)
  BY <1>2, <1>5, <1>6, <1>7, <1>8, <1>9 DEF Tells
<1> QED BY <1>10 DEF q

\* Frames that packetize makes: they carry their bodies under their numbers.
LEMMA NumberedCarry ==
  ASSUME NEW d \in Seq(Seq(Nat)), NEW fs, Numbered(fs, Len(d))
  PROVE /\ Carries(Cat(d, Bodies(fs)), ToSet(fs)) /\ Carried(Len(d), Bodies(fs), ToSet(fs))
        /\ Keeps(fs, Kept(Cat(d, Bodies(fs))))
<1> DEFINE e == Bodies(fs)
           q == Cat(d, e)
           n == Len(d)
<1>1. e \in Seq(Seq(Nat)) /\ Len(e) = Len(fs) /\ \A i \in 1 .. Len(fs) : e[i] = fs[i].body
  BY BodiesIs DEF Bodies
<1>2. /\ fs \in Seq(Frame) /\ Len(fs) \in Nat /\ DOMAIN fs = 1 .. Len(fs) /\ n \in Nat
      /\ \A i \in 1 .. Len(fs) : /\ IsPush(fs[i]) /\ fs[i].header.seq = (n + i) - 1
                               /\ fs[i] \in Frame /\ fs[i].body \in Seq(Nat)
  BY DEF Numbered, IsPush
<1> HIDE DEF e
<1>3. Len(q) = n + Len(e) /\ \A j \in 1 .. Len(e) : q[n + j] = e[j]
  BY <1>1, JoinIs
<1> HIDE DEF q, n
<1>4. ASSUME NEW i \in 1 .. Len(fs)
      PROVE fs[i].header.seq \in 0 .. Len(q) - 1 /\ fs[i].body = q[fs[i].header.seq + 1]
  <2>1. fs[i].header.seq = (n + i) - 1 /\ (n + i) - 1 \in 0 .. Len(q) - 1 /\ ((n + i) - 1) + 1 = n + i
    BY <1>1, <1>2, <1>3
  <2>2. q[n + i] = fs[i].body
    BY <1>1, <1>3
  <2> QED BY <2>1, <2>2
<1>5. Carries(q, ToSet(fs))
  BY <1>2, <1>4 DEF Carries, ToSet
<1>6. Carried(n, e, ToSet(fs))
  <2> SUFFICES ASSUME NEW j \in 1 .. Len(e) PROVE \E f \in ToSet(fs) : IsPush(f) /\ f.header.seq = (n + j) - 1
    BY DEF Carried
  <2>1. fs[j] \in ToSet(fs) /\ IsPush(fs[j]) /\ fs[j].header.seq = (n + j) - 1
    BY <1>1, <1>2 DEF ToSet
  <2> QED BY <2>1
<1>7. Keeps(fs, Kept(q))
  <2> SUFFICES ASSUME NEW i \in 1 .. Len(fs) PROVE <<fs[i].header.seq, from_frame(fs[i])>> \in Kept(q)
    BY DEF Keeps
  <2> DEFINE s == fs[i].header.seq
             x == from_frame(fs[i])
  <2>1. s = (n + i) - 1 /\ (n + i) - 1 \in Nat /\ fs[i] \in Frame /\ fs[i].body \in Seq(Nat) /\ IsPush(fs[i])
    BY <1>2
  <2>2. Makes(fs[i], "Push", s, fs[i].body) /\ s \in Nat /\ "Push" \in {"Push", "Fin"}
    BY <2>1 DEF Makes, IsPush
  <2>3. s \in 0 .. Len(q) - 1 /\ fs[i].body = q[s + 1]
    BY <1>4
  <2> HIDE DEF s
  <2>4. x \in Info /\ x.type = "Push" /\ x.body = fs[i].body
    BY <2>1, <2>2, FromFrameIs
  <2> HIDE DEF x
  <2>5. KeptAs(q, s, x)
    BY <2>3, <2>4 DEF KeptAs
  <2>6. <<s, x>> \in AnyKept /\ <<s, x>>[1] = s /\ <<s, x>>[2] = x
    BY <2>2, <2>4 DEF AnyKept
  <2>7. <<s, x>> \in Kept(q)
    BY <2>5, <2>6 DEF Kept
  <2> QED BY <2>7 DEF s, x
<1> QED BY <1>5, <1>6, <1>7 DEF e, q, n

\* packetize_stream_data moves bytes from the buffer into frames.
LEMMA TellsStreamed ==
  ASSUME NEW d, NEW rel \in Rel, NEW w, NEW F, Tells(d, rel, w, F), NEW ctx \in Contexts
  PROVE \E q : Tells(q, packetize_stream_data(rel, ctx).rel, w,
                     F \cup ToSet(packetize_stream_data(rel, ctx).frames))
<1> DEFINE p == packetize_stream_data(rel, ctx)
           fs == p.frames
           e == Bodies(fs)
           q == Cat(d, e)
<1>1. d \in Seq(Seq(Nat)) /\ Len(d) = rel.seq /\ rel.tracked \in TrackedIn(rel.seq, Kept(d))
  BY DEF Tells
<1>2. rel.seq \in Nat /\ Streamed(p, rel, rel.seq, AnyKept)
  BY RelIs, StreamData
<1>3. Numbered(fs, Len(d)) /\ p.rel \in Rel
  <2> HIDE DEF p
  <2> QED BY <1>1, <1>2, StreamedIs
<1>4. Carries(q, ToSet(fs)) /\ Carried(Len(d), e, ToSet(fs)) /\ Keeps(fs, Kept(q))
  <2> HIDE DEF p
  <2> QED BY <1>1, <1>3, NumberedCarry
<1>5. e \in Seq(Seq(Nat)) /\ Len(e) = Len(fs)
  <2> HIDE DEF p
  <2> QED BY <1>3, BodiesIs
<1>6. rel.tracked \in TrackedIn(rel.seq, Kept(q))
  <2> HIDE DEF p, e
  <2>1. Kept(d) \subseteq Kept(q)
    BY <1>1, <1>5, KeptMore
  <2> QED BY <1>1, <1>2, <2>1, TrackedGrows
<1>7. Streamed(p, rel, rel.seq, Kept(q))
  <2> DEFINE P == Kept(q)
  <2>1. Keeps(packetize_stream_data(rel, ctx).frames, P) /\ rel.tracked \in TrackedIn(rel.seq, P)
    BY <1>4, <1>6
  <2> HIDE DEF P
  <2> QED BY <2>1, StreamDataIs DEF P
<1> HIDE DEF p
<1>8. /\ p.rel.tracked \in TrackedIn(p.rel.seq, Kept(q))
      /\ Cuts(fs, rel.seq, p.rel.buffer, p.rel.seq, Content(rel.buffer))
  BY <1>7 DEF Streamed
<1>9. Moves(rel, p.rel, e)
  BY <1>5, <1>8 DEF Cuts, Moves
<1> HIDE DEF fs, e
<1>10. Tells(q, p.rel, w, F \cup ToSet(fs))
  BY <1>1, <1>3, <1>4, <1>5, <1>8, <1>9, TellsMore
<1> HIDE DEF q
<1>11. \E x : Tells(x, p.rel, w, F \cup ToSet(fs))
  BY <1>10
<1> QED BY <1>11 DEF p, fs

LEMMA BytesGrow ==
  ASSUME NEW w \in Nat, NEW n \in Nat, NEW k \in 0 .. n
  PROVE Cat(Bytes(0, w), SubSeq(Bytes(w, n), 1, k)) = Bytes(0, w + k)
<1> DEFINE a == Bytes(0, w)
           b == Bytes(w, n)
           s == SubSeq(b, 1, k)
           q == Cat(a, s)
           z == Bytes(0, w + k)
<1>1. a \in Seq(Nat) /\ Len(a) = w /\ \A i \in 1 .. w : a[i] = i
  BY BytesIs DEF Bytes
<1>2. b \in Seq(Nat) /\ Len(b) = n /\ \A i \in 1 .. n : b[i] = w + i
  BY BytesIs DEF Bytes
<1>3. z \in Seq(Nat) /\ Len(z) = w + k /\ \A i \in 1 .. w + k : z[i] = i
  <2>1. w + k \in Nat
    OBVIOUS
  <2>2. z \in Seq(Nat) /\ Len(z) = w + k
    BY <2>1, BytesIs
  <2>3. \A i \in 1 .. w + k : z[i] = 0 + i
    BY DEF Bytes
  <2> QED BY <2>2, <2>3
<1> HIDE DEF a, b, z
<1>4. s \in Seq(Nat) /\ Len(s) = k /\ \A i \in 1 .. k : s[i] = w + i
  BY <1>2
<1> HIDE DEF s
<1>5. q \in Seq(Nat) /\ Len(q) = w + k
  BY <1>1, <1>4 DEF Cat
<1>6. ASSUME NEW i \in 1 .. w + k PROVE q[i] = i
  BY <1>1, <1>4 DEF Cat
<1> HIDE DEF q
<1>7. q = z
  BY <1>3, <1>5, <1>6
<1> QED BY <1>7 DEF q, a, s, b, z

LEMMA TellsWrite ==
  ASSUME NEW d, NEW rel \in Rel, NEW w \in Nat, NEW F, Tells(d, rel, w, F), NEW n \in Nat, NEW k, NEW b,
         Grown(rel.buffer, Bytes(w, n), k, b),
         NEW r, r = [buffer |-> b, seq |-> rel.seq, tracked |-> rel.tracked]
  PROVE Tells(d, r, w + k, F)
<1>1. /\ d \in Seq(Seq(Nat)) /\ Len(d) = rel.seq /\ Cat(FlattenSeq(d), Content(rel.buffer)) = Bytes(0, w)
      /\ rel.tracked \in TrackedIn(rel.seq, Kept(d)) /\ Carries(d, F) /\ Covers(d, F)
  BY DEF Tells
<1> DEFINE x == SubSeq(Bytes(w, n), 1, k)
<1>2. k \in 0 .. n /\ Content(b) = Cat(Content(rel.buffer), x)
  BY BytesIs DEF Grown
<1>3. Sequence(x)
  <2>1. Bytes(w, n) \in Seq(Nat) /\ Len(Bytes(w, n)) = n /\ k \in Nat /\ k <= n
    BY <1>2, BytesIs
  <2>2. x \in Seq(Nat)
    BY <2>1, SplitAt
  <2> QED BY <2>2, SequenceIs
<1>4. Cat(Bytes(0, w), x) = Bytes(0, w + k)
  BY <1>2, BytesGrow
<1> HIDE DEF x
<1>5. Sequence(FlattenSeq(d)) /\ Sequence(Content(rel.buffer))
  <2>1. Content(rel.buffer) \in Seq(Nat)
    BY RelIs, BufferIs
  <2> QED BY <1>1, <2>1, FlatPieced, SequenceIs
<1>6. Cat(Cat(FlattenSeq(d), Content(rel.buffer)), x) = Cat(FlattenSeq(d), Cat(Content(rel.buffer), x))
  BY <1>3, <1>5, CatRegroup
<1>7. Cat(FlattenSeq(d), Content(b)) = Bytes(0, w + k)
  BY <1>1, <1>2, <1>4, <1>6
<1>8. r.buffer = b /\ r.seq = rel.seq /\ r.tracked = rel.tracked
  OBVIOUS
<1> QED BY <1>1, <1>7, <1>8 DEF Tells

\* A number taken by a frame that carries nothing.
LEMMA TellsSkip ==
  ASSUME NEW d, NEW rel \in Rel, NEW w, NEW F, Tells(d, rel, w, F),
         NEW r \in Rel, r.seq = rel.seq + 1, r.buffer = rel.buffer,
         r.tracked \in TrackedIn(r.seq, Kept(Cat(d, << <<>> >>))), NEW f, ~ IsPush(f)
  PROVE Tells(Cat(d, << <<>> >>), r, w, F \cup {f})
<1> DEFINE e == << <<>> >>
<1>1. e \in Seq(Seq(Nat)) /\ Len(e) = 1 /\ e[1] = <<>>
  OBVIOUS
<1>2. FlattenSeq(e) = <<>>
  <2>1. <<>> \in Seq(Nat)
    OBVIOUS
  <2> QED BY <2>1, FlatOne
<1>3. Sequence(Content(r.buffer))
  <2>1. Content(r.buffer) \in Seq(Nat)
    BY RelIs, BufferIs
  <2> QED BY <2>1, SequenceIs
<1>4. r.tracked \in TrackedIn(r.seq, Kept(Cat(d, e)))
  OBVIOUS
<1> HIDE DEF e
<1>5. Moves(rel, r, e)
  BY <1>1, <1>2, <1>3, CatSequence DEF Moves
<1>6. Carried(rel.seq, e, {f})
  BY <1>1 DEF Carried
<1>7. Carries(Cat(d, e), {f})
  BY NoPush
<1>8. Tells(Cat(d, e), r, w, F \cup {f})
  BY <1>1, <1>4, <1>5, <1>6, <1>7, TellsMore
<1> QED BY <1>8 DEF e

\* A FIN keeps the tracked frames what they were.
LEMMA KeptFin ==
  ASSUME NEW d \in Seq(Seq(Nat)), NEW T \in TrackedIn(Len(d), Kept(d)), NEW f, Makes(f, "Fin", Len(d), <<>>)
  PROVE TrackAll(T, <<f>>) \in TrackedIn(Len(d) + 1, Kept(Cat(d, << <<>> >>)))
<1> DEFINE n == Len(d)
           k == n + 1
           q == <<f>>
           e == << <<>> >>
           P == Kept(Cat(d, e))
<1>1. n \in Nat /\ k \in Nat /\ n <= k /\ n \in 0 .. k - 1
  OBVIOUS
<1>2. e \in Seq(Seq(Nat)) /\ <<>> \in Seq(Nat)
  OBVIOUS
<1>3. Kept(d) \subseteq P
  <2> HIDE DEF e
  <2> QED BY <1>2, KeptMore
<1>4. \A s, x : KeptAs(Cat(d, e), s, x) <=> (x.type = "Push" => s \in 0 .. Len(Cat(d, e)) - 1 /\ x.body = Cat(d, e)[s + 1])
  BY DEF KeptAs
<1>5. P = {x \in AnyKept : KeptAs(Cat(d, e), x[1], x[2])}
  BY DEF Kept
<1> HIDE DEF e, n
<1>6. T \in TrackedIn(k, P)
  <2>1. T \in TrackedIn(n, Kept(d))
    BY DEF n
  <2> HIDE DEF k, P
  <2> QED BY <1>1, <1>3, <2>1, TrackedGrows
<1>7. Keepable(f, k, P)
  <2> DEFINE x == from_frame(f)
  <2>1. Makes(f, "Fin", n, <<>>) /\ "Fin" \in {"Push", "Fin"}
    BY DEF n
  <2>2. f.header.seq = n /\ x \in Info /\ x.type = "Fin"
    BY <1>1, <1>2, <2>1, FromFrameIs DEF Makes
  <2> HIDE DEF x, P
  <2>3. KeptAs(Cat(d, e), n, x)
    BY <2>2 DEF KeptAs
  <2>4. <<n, x>> \in AnyKept /\ <<n, x>>[1] = n /\ <<n, x>>[2] = x
    BY <1>1, <2>2 DEF AnyKept
  <2>5. <<n, x>> \in P
    BY <1>5, <2>3, <2>4
  <2>6. <<f.header.seq, from_frame(f)>> \in P
    BY <2>2, <2>5 DEF x
  <2> HIDE DEF k
  <2> QED BY <1>1, <1>2, <2>1, <2>6 DEF Keepable
<1>8. Sequence(q) /\ Len(q) = 1 /\ q[1] = f
  BY OneIs
<1> HIDE DEF q, k, P
<1>9. \A i \in 1 .. Len(q) : Keepable(q[i], k, P)
  BY <1>7, <1>8
<1>10. TrackAll(T, q) \in TrackedIn(k, P)
  BY <1>1, <1>6, <1>8, <1>9, TrackAllIs
<1> QED BY <1>10 DEF k, q, P, e, n

LEMMA FewerKept ==
  ASSUME NEW m \in Nat, NEW P, NEW T \in TrackedIn(m, P), NEW n
  PROVE [s \in {s \in DOMAIN T : s >= n} |-> T[s]] \in TrackedIn(m, P)
<1> DEFINE D == {s \in DOMAIN T : s >= n}
           U == [s \in D |-> T[s]]
<1>1. T \in Tracked(m) /\ \A s \in DOMAIN T : <<s, T[s]>> \in P
  BY DEF TrackedIn
<1>2. U \in Tracked(m)
  BY <1>1, FewerTracked
<1>3. DOMAIN U = D /\ D \subseteq DOMAIN T /\ \A s \in D : U[s] = T[s]
  OBVIOUS
<1> HIDE DEF U, D
<1>4. \A s \in DOMAIN U : <<s, U[s]>> \in P
  BY <1>1, <1>3
<1>5. U \in TrackedIn(m, P)
  BY <1>2, <1>4 DEF TrackedIn
<1> QED BY <1>5 DEF U, D

----------------------------------------------------------------------------
(* The invariant, step by step.                                            *)

\* A server that has not answered has nothing in its buffer.
Streams(e, F) ==
  Told(e.rel, e.written, F) /\ (e.stage = "server" => e.rel.buffer.size = 0)

SInv == Inv /\ Streams(ep, FramesOf(produced))

LEMMA FreeStreams ==
  ASSUME SInv, IsFree
  PROVE /\ Inv /\ ep \in Endpoint /\ ep.rel \in Rel /\ ep.written \in Nat /\ ep.cid \in Word
        /\ ep.rel.seq \in Nat /\ ep.rel.buffer \in Buffer
        /\ \E d : Tells(d, ep.rel, ep.written, FramesOf(produced))
<1>1. Inv /\ \E d : Tells(d, ep.rel, ep.written, FramesOf(produced))
  BY DEF SInv, Streams, Told
<1> QED BY <1>1, FreeIs, InvIs

LEMMA WriteStreams ==
  ASSUME SInv, NEW n \in Writes, Write(n)
  PROVE Streams(ep', FramesOf(produced'))
<1> DEFINE x == Bytes(ep.written, n)
           b == write_to_stream(ep.rel.buffer, x)
           k == Least(Len(x), Permit(StreamCap, ep.rel.buffer.size))
           w == ep.written + (b.size - ep.rel.buffer.size)
           r == [buffer |-> b, seq |-> ep.rel.seq, tracked |-> ep.rel.tracked]
<1>1. IsFree /\ ep.stage = "open"
  BY DEF Write
<1>2. ep' = [ep EXCEPT !.rel.buffer = b, !.written = ep.written + (b.size - ep.rel.buffer.size)]
      /\ UNCHANGED <<chan, transportSide, produced>>
  BY Zenon DEF Write
<1>3. Inv /\ ep.rel \in Rel /\ ep.written \in Nat /\ ep.rel.buffer \in Buffer /\ n \in Nat
  BY <1>1, FreeStreams, TransportAssumption
<1>4. PICK d : Tells(d, ep.rel, ep.written, FramesOf(produced))
  BY <1>1, FreeStreams
<1>5. x \in Seq(Nat)
  BY <1>3, BytesIs
<1>6. Grown(ep.rel.buffer, x, k, b)
  <2> HIDE DEF x
  <2> QED BY <1>3, <1>5, WriteIs
<1> HIDE DEF b, k
<1>7. Tells(d, r, ep.written + k, FramesOf(produced))
  BY <1>3, <1>4, <1>6, TellsWrite
<1>8. w = ep.written + k
  <2>1. b.size = ep.rel.buffer.size + k /\ k \in 0 .. Len(x) /\ ep.rel.buffer.size \in Nat /\ Len(x) \in Nat
    BY <1>3, <1>5, <1>6, BufferIs DEF Grown
  <2> HIDE DEF x
  <2> QED BY <1>3, <2>1
<1>9. ep' = Ep("open", ep.cid, r, w, <<>>, FALSE)
  BY <1>1, <1>2, <1>3, FreeIs, Zenon DEF Ep
<1> HIDE DEF w, r
<1>10. ep'.rel = r /\ ep'.written = w /\ ep'.stage = "open"
  BY <1>9 DEF Ep
<1>11. produced' = produced
  BY <1>2
<1>12. Tells(d, ep'.rel, ep'.written, FramesOf(produced'))
  BY <1>7, <1>8, <1>10, <1>11
<1> QED BY <1>10, <1>12 DEF Streams, Told

LEMMA SameStreams ==
  ASSUME SInv, ep'.rel = ep.rel, ep'.written = ep.written, ep'.stage = "server" => ep.stage = "server",
         produced' = produced
  PROVE Streams(ep', FramesOf(produced'))
BY DEF SInv, Streams

LEMMA CloseStreams ==
  ASSUME SInv, Close \/ LearnCid
  PROVE Streams(ep', FramesOf(produced'))
<1>1. /\ IsFree /\ ep.stage = "open" /\ UNCHANGED <<chan, transportSide, produced>>
      /\ \/ ep' = [ep EXCEPT !.stage = "closing"]
         \/ ep' = [ep EXCEPT !.cid = PeerCid]
  BY Zenon DEF Close, LearnCid
<1>2. Inv
  BY DEF SInv
<1>3. PICK s \in {"open", "closing"}, c \in {0, PeerCid} :
        ep' = Ep(s, c, ep.rel, ep.written, <<>>, FALSE)
  BY <1>1, <1>2, FreeIs, Zenon DEF Ep
<1>4. ep'.rel = ep.rel /\ ep'.written = ep.written /\ ep'.stage = s
  BY <1>3 DEF Ep
<1>5. produced' = produced /\ s # "server"
  BY <1>1
<1> QED BY <1>4, <1>5, SameStreams

LEMMA AcknowledgeStreams ==
  ASSUME SInv, NEW n, Acknowledge(n)
  PROVE Streams(ep', FramesOf(produced'))
<1> DEFINE T == [s \in {s \in DOMAIN ep.rel.tracked : s >= n} |-> ep.rel.tracked[s]]
           r == [buffer |-> ep.rel.buffer, seq |-> ep.rel.seq, tracked |-> T]
<1>1. IsFree /\ UNCHANGED <<chan, transportSide, produced>>
      /\ ep' = [ep EXCEPT !.rel.tracked = T]
  BY Zenon DEF Acknowledge
<1>2. Inv /\ ep.rel.seq \in Nat
  BY <1>1, FreeStreams
<1>3. PICK d : Tells(d, ep.rel, ep.written, FramesOf(produced))
  BY <1>1, FreeStreams
<1>4. T \in TrackedIn(ep.rel.seq, Kept(d))
  <2>1. ep.rel.tracked \in TrackedIn(ep.rel.seq, Kept(d))
    BY <1>3 DEF Tells
  <2> QED BY <1>2, <2>1, FewerKept
<1> HIDE DEF T
<1>5. ep' = Ep(ep.stage, ep.cid, r, ep.written, <<>>, FALSE)
  BY <1>1, <1>2, FreeIs, Zenon DEF Ep
<1>6. r.buffer = ep.rel.buffer /\ r.seq = ep.rel.seq /\ r.tracked = T
  OBVIOUS
<1> HIDE DEF r
<1>7. Tells(d, r, ep.written, FramesOf(produced))
  BY <1>3, <1>4, <1>6 DEF Tells
<1>8. ep'.rel = r /\ ep'.written = ep.written /\ ep'.stage = ep.stage
  BY <1>5 DEF Ep
<1>9. produced' = produced
  BY <1>1
<1>10. Tells(d, ep'.rel, ep'.written, FramesOf(produced'))
  BY <1>7, <1>8, <1>9
<1>11. ep'.stage = "server" => ep'.rel.buffer.size = 0
  BY <1>6, <1>8 DEF SInv, Streams
<1> QED BY <1>10, <1>11 DEF Streams, Told

\* A step that hands packets over: what it makes of the endpoint is told.
LEMMA ProduceStreams ==
  ASSUME Inv, NEW e \in Endpoint, NEW to \in {"peer", "new"}, NEW ps \in Seq(Packet),
         Produce(e, Batches(to, ps)), NEW d, Tells(d, e.rel, e.written, FramesOf(produced) \cup FramesIn(ps)),
         e.stage = "server" => e.rel.buffer.size = 0
  PROVE Streams(ep', FramesOf(produced'))
<1>1. Batches(to, ps) \in Seq(Batch)
  BY BatchesIs
<1>2. /\ FramesOf(produced') = FramesOf(produced) \cup FramesIn(ps)
      /\ ep'.rel = e.rel /\ ep'.written = e.written /\ ep'.stage = e.stage
  BY <1>1, ProducedIs
<1>3. Tells(d, ep'.rel, ep'.written, FramesOf(produced'))
  BY <1>2
<1> QED BY <1>2, <1>3 DEF Streams, Told

LEMMA AckStreams ==
  ASSUME SInv, NEW ranges \in Sacks, send_standalone_ack(ranges)
  PROVE Streams(ep', FramesOf(produced'))
<1> DEFINE next == 513
           mine == 770
           now == 66051
           f == new_ack(ep.cid, next, mine, ranges, now)
           ps == << <<f>> >>
<1>1. IsFree /\ Produce(ep, Batches("peer", ps))
  BY DEF send_standalone_ack
<1>2. ranges \in Seq(Word \X Word)
  BY TransportAssumption
<1>3. next \in Word /\ mine \in Half /\ now \in Word
  BY SMT DEF Word, Half
<1> HIDE DEF next, mine, now
<1>4. Inv /\ ep \in Endpoint /\ ep.cid \in Word
  BY <1>1, FreeStreams
<1>5. f \in Frame /\ ~ IsPush(f)
  BY <1>2, <1>3, <1>4, AckIs DEF IsPush
<1> HIDE DEF f
<1>6. PICK d : Tells(d, ep.rel, ep.written, FramesOf(produced))
  BY <1>1, FreeStreams
<1>7. ps \in Seq(Packet) /\ FramesIn(ps) = {f}
  BY <1>5, OnePacket, OneFrame
<1>8. Tells(d, ep.rel, ep.written, FramesOf(produced) \cup {f})
  BY <1>5, <1>6, NoPush, TellsFrames
<1>9. ep.stage = "server" => ep.rel.buffer.size = 0
  BY DEF SInv, Streams
<1> HIDE DEF ps
<1> QED BY <1>1, <1>4, <1>7, <1>8, <1>9, ProduceStreams

LEMMA ChallengeStreams ==
  ASSUME SInv, SendChallenge
  PROVE Streams(ep', FramesOf(produced'))
<1> DEFINE now == 66051
           f == new_path_challenge(ep.cid, ep.rel.seq, now, Challenge)
           k == ep.rel.seq + 1
           r == [buffer |-> ep.rel.buffer, seq |-> k, tracked |-> ep.rel.tracked]
           e == [ep EXCEPT !.rel.seq = @ + 1]
           ps == << <<f>> >>
<1>1. IsFree /\ ep.stage = "open" /\ Produce(e, Batches("new", ps))
  BY DEF SendChallenge
<1>2. now \in Word /\ Challenge \in Word
  BY SMT DEF Word, Challenge
<1> HIDE DEF now
<1>3. Inv /\ ep \in Endpoint /\ ep.cid \in Word /\ ep.rel \in Rel /\ ep.rel.seq \in Nat /\ ep.rel.buffer \in Buffer
  BY <1>1, FreeStreams
<1>4. f \in Frame /\ ~ IsPush(f)
  BY <1>2, <1>3, ChallengeIs DEF IsPush
<1> HIDE DEF f
<1>5. PICK d : Tells(d, ep.rel, ep.written, FramesOf(produced))
  BY <1>1, FreeStreams
<1>6. ps \in Seq(Packet) /\ FramesIn(ps) = {f}
  BY <1>4, OnePacket, OneFrame
<1> HIDE DEF ps
<1>7. e = Ep("open", ep.cid, r, ep.written, <<>>, FALSE)
  <2>1. e = [ep EXCEPT !.rel.seq = k]
    OBVIOUS
  <2> HIDE DEF k, e, r
  <2>2. e = [ep EXCEPT !.rel = [ep.rel EXCEPT !.seq = k]]
    BY <2>1
  <2>3. [ep.rel EXCEPT !.seq = k] = r
    <3>1. ep.rel = [buffer |-> ep.rel.buffer, seq |-> ep.rel.seq, tracked |-> ep.rel.tracked]
      BY <1>1, <1>3, FreeIs
    <3> QED BY <3>1 DEF r
  <2>4. e = [ep EXCEPT !.rel = r]
    BY <2>2, <2>3
  <2> QED BY <1>1, <1>3, <2>4, FreeIs, Zenon DEF Ep
<1>8. r.buffer = ep.rel.buffer /\ r.seq = k /\ r.tracked = ep.rel.tracked
  OBVIOUS
<1> HIDE DEF e
<1> DEFINE q == Cat(d, << <<>> >>)
<1>9. ep.rel.tracked \in TrackedIn(k, Kept(q))
  <2>1. d \in Seq(Seq(Nat)) /\ ep.rel.tracked \in TrackedIn(ep.rel.seq, Kept(d))
    BY <1>5 DEF Tells
  <2> DEFINE o == << <<>> >>
  <2>2. o \in Seq(Seq(Nat))
    OBVIOUS
  <2> HIDE DEF o
  <2>3. Kept(d) \subseteq Kept(Cat(d, o))
    BY <2>1, <2>2, KeptMore
  <2>4. k \in Nat /\ ep.rel.seq <= k
    BY <1>3
  <2> HIDE DEF k
  <2>5. ep.rel.tracked \in TrackedIn(k, Kept(Cat(d, o)))
    BY <1>3, <2>1, <2>3, <2>4, TrackedGrows
  <2> QED BY <2>5 DEF o
<1>10. r \in Rel
  <2>1. ep.rel.tracked \in Tracked(k) /\ k \in Nat
    BY <1>3, <1>9 DEF TrackedIn
  <2> HIDE DEF k
  <2> QED BY <1>3, <2>1, MakeRel
<1>11. r.seq = ep.rel.seq + 1
  BY <1>8
<1> HIDE DEF r, k
<1>12. Tells(q, r, ep.written, FramesOf(produced) \cup {f})
  BY <1>3, <1>4, <1>5, <1>8, <1>9, <1>10, <1>11, TellsSkip
<1> HIDE DEF q
<1>13. e.rel = r /\ e.written = ep.written /\ e.stage = "open"
  BY <1>7 DEF Ep
<1>14. e \in Endpoint
  <2>1. "open" \in Stages
    BY DEF Stages
  <2> QED BY <1>1, <1>3, <1>7, <1>10, <2>1, FreeIs, EpIs
<1>15. Tells(q, e.rel, e.written, FramesOf(produced) \cup FramesIn(ps))
  BY <1>6, <1>12, <1>13
<1>16. e.stage # "server" /\ "new" \in {"peer", "new"}
  BY <1>13
<1> QED BY <1>1, <1>3, <1>6, <1>14, <1>15, <1>16, ProduceStreams

\* A frame made again carries what it carried.
LEMMA RemadeCarries ==
  ASSUME NEW d, NEW n \in Nat, NEW T \in TrackedIn(n, Kept(d)), NEW s \in DOMAIN T, NEW ctx \in Contexts,
         NEW f, f = reconstruct_frame(s, T[s], ctx)
  PROVE f \in Frame /\ Carries(d, {f})
<1> DEFINE x == T[s]
<1>1. T \in Tracked(n) /\ <<s, x>> \in Kept(d)
  BY DEF TrackedIn
<1>2. s \in Nat /\ x \in Info
  <2>1. DOMAIN T \in SUBSET (0 .. n - 1) /\ \A m \in DOMAIN T : T[m] \in Info
    BY <1>1, TrackedIs
  <2> QED BY <2>1
<1>3. f = reconstruct_frame(s, x, ctx)
  OBVIOUS
<1> HIDE DEF x
<1>4. KeptAs(d, s, x)
  <2>1. <<s, x>>[1] = s /\ <<s, x>>[2] = x
    OBVIOUS
  <2> QED BY <1>1, <2>1 DEF Kept
<1>5. Makes(f, x.type, s, Remade(x))
  BY <1>2, <1>3, ReconstructIs
<1>6. f \in Frame /\ command(f) = x.type /\ f.header.seq = s /\ f.body = Remade(x)
  BY <1>5 DEF Makes
<1>7. Carries(d, {f})
  <2> SUFFICES ASSUME IsPush(f) PROVE f.header.seq \in 0 .. Len(d) - 1 /\ f.body = d[f.header.seq + 1]
    BY DEF Carries
  <2>1. x.type = "Push"
    BY <1>6 DEF IsPush
  <2>2. f.body = x.body
    BY <1>6, <2>1 DEF Remade
  <2> QED BY <1>4, <1>6, <2>1, <2>2 DEF KeptAs
<1> QED BY <1>6, <1>7

LEMMA RetransmitStreams ==
  ASSUME SInv, Retransmit
  PROVE Streams(ep', FramesOf(produced'))
<1> DEFINE T == ep.rel.tracked
           due == InOrder(DOMAIN T)
           ctx == Ctx(ep.cid, 0, 0)
           fs == [i \in DOMAIN due |-> reconstruct_frame(due[i], T[due[i]], ctx)]
           ps == BuildPackets(fs)
<1>1. IsFree /\ Produce(ep, Batches("peer", ps))
  BY DEF Retransmit
<1>2. Inv /\ ep \in Endpoint /\ ep.rel.seq \in Nat /\ ep.cid \in Word
  BY <1>1, FreeStreams
<1>3. PICK d : Tells(d, ep.rel, ep.written, FramesOf(produced))
  BY <1>1, FreeStreams
<1>4. ctx \in Contexts
  BY <1>2, CtxIs
<1>5. due \in Seq(DOMAIN T)
  BY <1>2, InOrderIs
<1>6. T \in TrackedIn(ep.rel.seq, Kept(d))
  BY <1>3 DEF Tells
<1> HIDE DEF due, ctx, T
<1>7. Len(due) \in Nat /\ DOMAIN due = 1 .. Len(due) /\ \A i \in 1 .. Len(due) : due[i] \in DOMAIN T
  BY <1>5
<1>8. DOMAIN fs = 1 .. Len(due) /\ \A i \in 1 .. Len(due) : fs[i] = reconstruct_frame(due[i], T[due[i]], ctx)
  BY <1>7
<1>9. fs = [i \in 1 .. Len(due) |-> fs[i]]
  BY <1>7
<1> HIDE DEF fs
<1>10. ASSUME NEW i \in 1 .. Len(due) PROVE fs[i] \in Frame /\ Carries(d, {fs[i]})
  <2> DEFINE n == ep.rel.seq
             s == due[i]
             f == fs[i]
  <2>1. n \in Nat /\ s \in DOMAIN T /\ f = reconstruct_frame(s, T[s], ctx) /\ T \in TrackedIn(n, Kept(d))
    BY <1>2, <1>6, <1>7, <1>8
  <2> HIDE DEF n, s, f
  <2>2. f \in Frame /\ Carries(d, {f})
    BY <1>4, <2>1, RemadeCarries
  <2> QED BY <2>2 DEF f
<1>11. fs \in Seq(Frame)
  <2>1. fs \in [1 .. Len(due) -> Frame]
    BY <1>8, <1>9, <1>10
  <2> QED BY <1>7, <2>1
<1>12. Carries(d, ToSet(fs))
  <2> SUFFICES ASSUME NEW f \in ToSet(fs), IsPush(f)
               PROVE f.header.seq \in 0 .. Len(d) - 1 /\ f.body = d[f.header.seq + 1]
    BY DEF Carries
  <2>1. PICK i \in 1 .. Len(due) : f = fs[i]
    BY <1>8 DEF ToSet
  <2>2. Carries(d, {f})
    BY <1>10, <2>1
  <2> QED BY <2>2 DEF Carries
<1>13. ps \in Seq(Packet) /\ FramesIn(ps) = ToSet(fs)
  BY <1>11, BuildPacketsIs, BuildFrames
<1>14. Tells(d, ep.rel, ep.written, FramesOf(produced) \cup ToSet(fs))
  BY <1>3, <1>12, TellsFrames
<1>15. ep.stage = "server" => ep.rel.buffer.size = 0
  BY DEF SInv, Streams
<1> HIDE DEF ps
<1> QED BY <1>1, <1>2, <1>13, <1>14, <1>15, ProduceStreams

LEMMA SetFront ==
  ASSUME NEW x, NEW s, Sequence(s), NEW y, Sequence(y)
  PROVE ToSet(<<x>> \o s) = {x} \cup ToSet(s) /\ ToSet(s \o y) = ToSet(s) \cup ToSet(y)
<1>1. ASSUME NEW a, Sequence(a), NEW b, Sequence(b) PROVE ToSet(a \o b) = ToSet(a) \cup ToSet(b)
  <2> DEFINE q == a \o b
  <2>1. Joins(q, a, b)
    BY <1>1, JoinSequences
  <2> HIDE DEF q
  <2>2. Len(a) \in Nat /\ Len(b) \in Nat /\ DOMAIN a = 1 .. Len(a) /\ DOMAIN b = 1 .. Len(b)
    BY <1>1, SequenceFacts
  <2>3. /\ Sequence(q) /\ Len(q) = Len(a) + Len(b)
        /\ (\A i \in 1 .. Len(a) : q[i] = a[i]) /\ (\A j \in 1 .. Len(b) : q[Len(a) + j] = b[j])
    BY <2>1 DEF Joins
  <2>4. DOMAIN q = 1 .. (Len(a) + Len(b))
    BY <2>3, SequenceFacts
  <2>5. ASSUME NEW i \in DOMAIN q PROVE q[i] \in ToSet(a) \cup ToSet(b)
    <3>1. CASE i <= Len(a)
      <4>1. i \in DOMAIN a /\ q[i] = a[i]
        BY <2>2, <2>3, <2>4, <3>1
      <4> QED BY <4>1 DEF ToSet
    <3>2. CASE ~ (i <= Len(a))
      <4>1. i - Len(a) \in 1 .. Len(b) /\ Len(a) + (i - Len(a)) = i
        BY <2>2, <2>4, <3>2
      <4>2. q[i] = b[i - Len(a)]
        BY <2>3, <4>1
      <4> QED BY <2>2, <4>1, <4>2 DEF ToSet
    <3> QED BY <3>1, <3>2
  <2>6. ASSUME NEW i \in DOMAIN a PROVE a[i] \in ToSet(q)
    <3>1. i \in DOMAIN q /\ q[i] = a[i]
      BY <2>2, <2>3, <2>4
    <3> QED BY <3>1 DEF ToSet
  <2>7. ASSUME NEW j \in DOMAIN b PROVE b[j] \in ToSet(q)
    <3>1. Len(a) + j \in DOMAIN q /\ q[Len(a) + j] = b[j]
      BY <2>2, <2>3, <2>4
    <3> QED BY <3>1 DEF ToSet
  <2>8. ToSet(q) = ToSet(a) \cup ToSet(b)
    BY <2>5, <2>6, <2>7 DEF ToSet
  <2> QED BY <2>8 DEF q
<1>2. Sequence(<<x>>) /\ ToSet(<<x>>) = {x}
  BY OneIs, OneFrame
<1> QED BY <1>1, <1>2

LEMMA InitialStreams ==
  ASSUME SInv, NEW c \in Windows, NEW w \in Windows, send_initial_syn(c, w)
  PROVE Streams(ep', FramesOf(produced'))
<1> DEFINE ctx == Ctx(ep.cid, c, w)
           p == packetize_stream_data(ep.rel, ctx)
           syn == new_syn(Version, LocalCid, 0)
           fs == <<syn>> \o p.frames
           e == [ep EXCEPT !.stage = "open", !.rel = p.rel, !.panicked = PacketSize(fs) > MaxPacket]
           b == IF PacketSize(fs) > MaxPacket THEN <<>> ELSE Batches("peer", <<fs>>)
<1>1. IsFree /\ ep.stage = "client" /\ Produce(e, b)
  BY Zenon DEF send_initial_syn
<1>2. Inv /\ ep.rel \in Rel /\ ep.cid \in {0, PeerCid} /\ ep.cid \in Word /\ ep.written \in Nat
      /\ ep.outbox = <<>> /\ <<>> \in Seq(Batch) /\ c \in Nat /\ w \in Nat
  BY <1>1, FreeIs, TransportAssumption DEF SInv
<1>3. ctx \in Contexts
  BY <1>2, CtxIs
<1>4. PICK m \in Nat : OnePiece(ep.rel.buffer, m) /\ (m = 0 \/ FitsSyn(m))
  BY <1>1, <1>2 DEF Inv, Calm
<1> HIDE DEF ctx
<1>5. 10 + PacketSize(p.frames) <= MaxPacket
  BY <1>2, <1>3, <1>4, InitialFits
<1>6. Streamed(p, ep.rel, ep.rel.seq, AnyKept) /\ ep.rel.seq \in Nat
  BY <1>2, <1>3, StreamData, RelIs
<1>60. PICK q : Tells(q, p.rel, ep.written, FramesOf(produced) \cup ToSet(p.frames))
  <2>1. PICK d : Tells(d, ep.rel, ep.written, FramesOf(produced))
    BY <1>1, FreeStreams
  <2> QED BY <1>2, <1>3, <2>1, TellsStreamed
<1> HIDE DEF p
<1>7. p.rel \in Rel /\ p.frames \in Seq(Frame)
  BY <1>6, StreamedIs
<1>8. syn \in Frame /\ encoded_size(syn) = 10 /\ ~ IsPush(syn)
  <2>1. Version \in Octet /\ LocalCid \in Word /\ 0 \in Word
    BY SMT DEF Version, LocalCid, Octet, Word
  <2> QED BY <2>1, SynIs DEF IsPush
<1> HIDE DEF syn
<1>9. fs \in Seq(Frame) /\ PacketSize(fs) = encoded_size(syn) + PacketSize(p.frames)
  BY <1>7, <1>8, SizeFront DEF Cat
<1>10. PacketSize(p.frames) \in Nat
  BY <1>7, FramesSized
<1>11. PacketSize(fs) <= MaxPacket /\ ~ (PacketSize(fs) > MaxPacket)
  <2>1. MaxPacket \in Nat
    BY PacketizerAssumption
  <2> QED BY <1>5, <1>8, <1>9, <1>10, <2>1
<1>12. b = Batches("peer", <<fs>>)
  BY <1>11
<1>13. e = [ep EXCEPT !.stage = "open", !.rel = p.rel, !.panicked = FALSE]
  <2> DEFINE x == PacketSize(fs) > MaxPacket
  <2>1. x = FALSE
    BY <1>11
  <2>2. e = [ep EXCEPT !.stage = "open", !.rel = p.rel, !.panicked = x]
    OBVIOUS
  <2> HIDE DEF x, e
  <2> QED BY <2>1, <2>2, Zenon
<1>14. ToSet(fs) = {syn} \cup ToSet(p.frames)
  <2>1. Sequence(p.frames)
    BY <1>7, SequenceIs
  <2> QED BY <2>1, SetFront
<1> DEFINE ps == <<fs>>
<1> HIDE DEF fs, e, b
<1>15. ps \in Seq(Packet) /\ FramesIn(ps) = ToSet(fs)
  <2>1. fs \in Packet
    BY <1>9, <1>11 DEF Packet
  <2> QED BY <2>1, OneFrame
<1> HIDE DEF ps
<1>16. e = Ep("open", ep.cid, p.rel, ep.written, <<>>, FALSE)
  BY <1>1, <1>2, <1>13, FreeIs, Zenon DEF Ep
<1>17. "open" \in Stages /\ "open" # "client" /\ "peer" \in {"peer", "new"}
  BY DEF Stages
<1>18. e \in Endpoint
  BY <1>2, <1>7, <1>16, <1>17, EpIs
<1>19. e.rel = p.rel /\ e.written = ep.written /\ e.stage = "open"
  BY <1>16 DEF Ep
<1>20. Tells(q, p.rel, ep.written, (FramesOf(produced) \cup ToSet(p.frames)) \cup {syn})
  BY <1>8, <1>60, NoPush, TellsFrames
<1>21. (FramesOf(produced) \cup ToSet(p.frames)) \cup {syn} = FramesOf(produced) \cup FramesIn(ps)
  BY <1>14, <1>15
<1>22. Tells(q, e.rel, e.written, FramesOf(produced) \cup FramesIn(ps))
  BY <1>19, <1>20, <1>21
<1>23. Produce(e, Batches("peer", ps)) /\ e.stage # "server"
  BY <1>1, <1>12, <1>19 DEF ps
<1> QED BY <1>2, <1>15, <1>17, <1>18, <1>22, <1>23, ProduceStreams

LEMMA FirstDataStreams ==
  ASSUME SInv, NEW n \in Writes, NEW c \in Windows, NEW w \in Windows, SendFirstData(n, c, w)
  PROVE Streams(ep', FramesOf(produced'))
<1> DEFINE ctx == Ctx(ep.cid, c, w)
           x == Bytes(ep.written, n)
           sb == write_to_stream(ep.rel.buffer, x)
           k == Least(Len(x), Permit(StreamCap, ep.rel.buffer.size))
           r == [ep.rel EXCEPT !.buffer = sb]
           p == packetize_stream_data(r, ctx)
           syn == new_syn_ack(Version, LocalCid, ep.cid)
           m == ep.written + Least(n, StreamCap)
           e == [ep EXCEPT !.stage = "open", !.rel = p.rel, !.written = m]
           ps == packetize_zero_rtt(p.frames, syn)
<1>1. IsFree /\ ep.stage = "server" /\ Produce(e, Batches("peer", ps))
  BY Zenon DEF SendFirstData
<1>2. Inv /\ ep.rel \in Rel /\ ep.cid \in {0, PeerCid} /\ ep.cid \in Word /\ ep.written \in Nat
      /\ <<>> \in Seq(Batch) /\ c \in Nat /\ w \in Nat /\ n \in Nat /\ ep.outbox = <<>>
      /\ ep.rel.buffer \in Buffer /\ ep.rel.seq \in Nat /\ ep.rel.tracked \in Tracked(ep.rel.seq)
      /\ ep.rel = [buffer |-> ep.rel.buffer, seq |-> ep.rel.seq, tracked |-> ep.rel.tracked]
  BY <1>1, FreeIs, TransportAssumption DEF SInv
<1>3. ctx \in Contexts
  BY <1>2, CtxIs
<1>4. x \in Seq(Nat) /\ Len(x) = n
  BY <1>2, BytesIs
<1>5. Grown(ep.rel.buffer, x, k, sb)
  <2> HIDE DEF x
  <2> QED BY <1>2, <1>4, WriteIs
<1>50. m = ep.written + k
  <2>1. ep.rel.buffer.size = 0
    BY <1>1 DEF SInv, Streams
  <2>2. Permit(StreamCap, 0) = StreamCap
    BY PacketizerAssumption DEF Permit
  <2> HIDE DEF x
  <2> QED BY <1>4, <2>1, <2>2
<1>14. m \in Nat
  BY <1>2, PacketizerAssumption DEF Least
<1> HIDE DEF sb, ctx, k, m
<1>6. sb \in Buffer
  BY <1>5 DEF Grown
<1>7. r = [buffer |-> sb, seq |-> ep.rel.seq, tracked |-> ep.rel.tracked]
  BY <1>2
<1> HIDE DEF r
<1>8. r \in Rel
  BY <1>2, <1>6, <1>7, MakeRel
<1>9. Streamed(p, r, r.seq, AnyKept) /\ r.seq \in Nat
  BY <1>3, <1>8, StreamData, RelIs
<1>90. PICK q : Tells(q, p.rel, m, FramesOf(produced) \cup ToSet(p.frames))
  <2>1. PICK d : Tells(d, ep.rel, ep.written, FramesOf(produced))
    BY <1>1, FreeStreams
  <2>2. Tells(d, r, ep.written + k, FramesOf(produced))
    BY <1>2, <1>5, <1>7, <2>1, TellsWrite
  <2>3. Tells(d, r, m, FramesOf(produced))
    BY <1>50, <2>2
  <2> QED BY <1>3, <1>8, <2>3, TellsStreamed
<1> HIDE DEF p
<1>10. p.rel \in Rel /\ p.frames \in Seq(Frame)
  BY <1>9, StreamedIs
<1>11. syn \in Frame /\ ~ IsPush(syn)
  <2>1. Version \in Octet /\ LocalCid \in Word
    BY SMT DEF Version, LocalCid, Octet, Word
  <2> QED BY <1>2, <2>1, SynIs DEF IsPush
<1> HIDE DEF syn
<1>12. ps \in Seq(Packet) /\ FramesIn(ps) = {syn} \cup ToSet(p.frames)
  BY <1>10, <1>11, ZeroRttIs, ZeroFrames
<1> HIDE DEF ps
<1>15. e = Ep("open", ep.cid, p.rel, m, <<>>, FALSE)
  <2>1. ep = Ep(ep.stage, ep.cid, ep.rel, ep.written, ep.outbox, ep.panicked)
    BY <1>2, InvIs, EndpointIs DEF Ep
  <2>2. e = Opened(ep, "open", p.rel, m)
    BY DEF Opened
  <2> HIDE DEF e
  <2>3. e = Ep("open", ep.cid, p.rel, m, ep.outbox, ep.panicked)
    BY <2>1, <2>2, EpOpened
  <2>4. ep.outbox = <<>> /\ ep.panicked = FALSE
    BY <1>1, <1>2, FreeIs
  <2> QED BY <2>3, <2>4, Zenon
<1> HIDE DEF e
<1>16. "open" \in Stages /\ "open" # "client" /\ "peer" \in {"peer", "new"}
  BY DEF Stages
<1>17. e \in Endpoint
  BY <1>2, <1>10, <1>14, <1>15, <1>16, EpIs
<1>18. e.rel = p.rel /\ e.written = m /\ e.stage = "open"
  BY <1>15 DEF Ep
<1>19. Tells(q, p.rel, m, (FramesOf(produced) \cup ToSet(p.frames)) \cup {syn})
  BY <1>11, <1>90, NoPush, TellsFrames
<1>20. (FramesOf(produced) \cup ToSet(p.frames)) \cup {syn} = FramesOf(produced) \cup FramesIn(ps)
  BY <1>12
<1>21. Tells(q, e.rel, e.written, FramesOf(produced) \cup FramesIn(ps)) /\ e.stage # "server"
  BY <1>18, <1>19, <1>20
<1> QED BY <1>1, <1>2, <1>12, <1>16, <1>17, <1>21, ProduceStreams

\* A FIN, if packetize_and_send adds one, takes a number and carries nothing.
LEMMA TellsClosed ==
  ASSUME NEW d, NEW rel \in Rel, NEW w, NEW F, Tells(d, rel, w, F), NEW g, Makes(g, "Fin", rel.seq, <<>>),
         NEW fin, fin = <<g>> \/ fin = <<>>
  PROVE \E q : Tells(q, Closed(rel, fin), w, F \cup ToSet(fin))
<1> DEFINE n == rel.seq + Len(fin)
           T == TrackAll(rel.tracked, fin)
           r == Closed(rel, fin)
<1>1. /\ rel = [buffer |-> rel.buffer, seq |-> rel.seq, tracked |-> rel.tracked]
      /\ rel.buffer \in Buffer /\ rel.seq \in Nat /\ rel.tracked \in Tracked(rel.seq)
  BY RelIs
<1>2. Finished(fin, rel.seq, rel.tracked)
  BY <1>1, FinishedIs
<1>3. r \in Rel
  BY <1>2, ClosedIs
<1>4. r = [rel EXCEPT !.seq = n, !.tracked = T]
  BY DEF Closed
<1> HIDE DEF n, T, r
<1>5. r = [buffer |-> rel.buffer, seq |-> n, tracked |-> T]
  BY <1>1, <1>4
<1>6. r.buffer = rel.buffer /\ r.seq = n /\ r.tracked = T
  BY <1>5
<1>7. d \in Seq(Seq(Nat)) /\ Len(d) = rel.seq /\ rel.tracked \in TrackedIn(rel.seq, Kept(d))
  BY DEF Tells
<1>8. CASE fin = <<g>>
  <2>1. n = rel.seq + 1 /\ ToSet(fin) = {g}
    BY <1>8, OneIs, OneFrame DEF n
  <2>2. ~ IsPush(g)
    BY DEF Makes, IsPush
  <2>3. T \in TrackedIn(Len(d) + 1, Kept(Cat(d, << <<>> >>)))
    BY <1>7, <1>8, KeptFin DEF T
  <2>4. r.tracked \in TrackedIn(r.seq, Kept(Cat(d, << <<>> >>))) /\ r.seq = rel.seq + 1
    BY <1>6, <1>7, <2>1, <2>3
  <2>5. Tells(Cat(d, << <<>> >>), r, w, F \cup {g})
    BY <1>3, <1>6, <2>2, <2>4, TellsSkip
  <2>6. \E q : Tells(q, r, w, F \cup ToSet(fin))
    BY <2>1, <2>5
  <2> QED BY <2>6 DEF r
<1>9. CASE fin = <<>>
  <2>1. ToSet(fin) = {} /\ n = rel.seq
    BY <1>1, <1>9, NoFrames DEF n
  <2>2. T = rel.tracked
    BY <1>9, EmptySequence, TrackFolded, FoldedEmpty DEF T
  <2>3. Tells(d, r, w, F \cup ToSet(fin))
    BY <1>6, <2>1, <2>2 DEF Tells
  <2> QED BY <2>3 DEF r
<1> QED BY <1>8, <1>9

LEMMA PacketizeStreams ==
  ASSUME SInv, NEW c \in Windows, NEW w \in Windows, packetize_and_send(c, w)
  PROVE Streams(ep', FramesOf(produced'))
<1> DEFINE ctx == Ctx(ep.cid, c, w)
           p == packetize_stream_data(ep.rel, ctx)
           g == new_fin(ctx.cid, p.rel.seq, ctx.timestamp, ctx.next, ctx.mine)
           fin == IF ep.stage = "closing" /\ ~ has_fin_in_flight(p.rel) THEN <<g>> ELSE <<>>
           fs == p.frames \o fin
           r == Closed(p.rel, fin)
           e == [ep EXCEPT !.rel = r]
           ps == BuildPackets(fs)
<1>1. IsFree /\ ep.stage \in {"open", "closing"} /\ Produce(e, Batches("peer", ps))
  BY Zenon DEF packetize_and_send, Closed
<1>2. Inv /\ ep.rel \in Rel /\ ep.cid \in {0, PeerCid} /\ ep.cid \in Word /\ ep.written \in Nat
      /\ ep.outbox = <<>> /\ <<>> \in Seq(Batch) /\ c \in Nat /\ w \in Nat
  BY <1>1, FreeIs, TransportAssumption DEF SInv
<1>3. ctx \in Contexts
  BY <1>2, CtxIs
<1>4. ctx.cid \in Word /\ ctx.next \in Word /\ ctx.mine \in Half /\ ctx.timestamp \in Word
  BY <1>3 DEF Contexts
<1> HIDE DEF ctx
<1>5. Streamed(p, ep.rel, ep.rel.seq, AnyKept) /\ ep.rel.seq \in Nat
  BY <1>2, <1>3, StreamData, RelIs
<1>50. PICK d : Tells(d, p.rel, ep.written, FramesOf(produced) \cup ToSet(p.frames))
  <2>1. PICK d : Tells(d, ep.rel, ep.written, FramesOf(produced))
    BY <1>1, FreeStreams
  <2> QED BY <1>2, <1>3, <2>1, TellsStreamed
<1> HIDE DEF p
<1>6. p.rel \in Rel /\ p.frames \in Seq(Frame)
  BY <1>5, StreamedIs
<1>7. p.rel.seq \in Nat /\ p.rel.tracked \in Tracked(p.rel.seq)
  BY <1>6, RelIs
<1>8. Makes(g, "Fin", p.rel.seq, <<>>)
  BY <1>4, <1>7, FinIs
<1> HIDE DEF g
<1>9. Finished(fin, p.rel.seq, p.rel.tracked) /\ (fin = <<g>> \/ fin = <<>>)
  BY <1>7, <1>8, FinishedIs
<1> HIDE DEF fin
<1>10. r \in Rel
  BY <1>6, <1>9, ClosedIs
<1>100. PICK q : Tells(q, r, ep.written, (FramesOf(produced) \cup ToSet(p.frames)) \cup ToSet(fin))
  BY <1>6, <1>8, <1>9, <1>50, TellsClosed
<1>11. fs \in Seq(Frame) /\ fin \in Seq(Frame)
  BY <1>6, <1>9 DEF Finished
<1>110. ToSet(fs) = ToSet(p.frames) \cup ToSet(fin)
  <2>1. Sequence(p.frames)
    BY <1>6, SequenceIs
  <2>2. Sequence(fin)
    BY <1>11, SequenceIs
  <2> QED BY <2>1, <2>2, SetFront
<1> HIDE DEF fs
<1>12. ps \in Seq(Packet) /\ FramesIn(ps) = ToSet(fs)
  BY <1>11, BuildPacketsIs, BuildFrames
<1> HIDE DEF ps, r
<1>14. e = Ep(ep.stage, ep.cid, r, ep.written, <<>>, FALSE)
  <2>1. e = [ep EXCEPT !.rel = r]
    OBVIOUS
  <2> HIDE DEF e
  <2>2. ep = Ep(ep.stage, ep.cid, ep.rel, ep.written, ep.outbox, ep.panicked)
    BY <1>2, InvIs, EndpointIs DEF Ep
  <2>3. e = Ep(ep.stage, ep.cid, r, ep.written, ep.outbox, ep.panicked)
    BY <2>1, <2>2 DEF Ep
  <2>4. ep.outbox = <<>> /\ ep.panicked = FALSE
    BY <1>1, <1>2, FreeIs
  <2> QED BY <2>3, <2>4, Zenon
<1> HIDE DEF e
<1>15. ep.stage \in Stages /\ ep.stage # "server" /\ "peer" \in {"peer", "new"}
  BY <1>1 DEF Stages
<1>16. e \in Endpoint
  BY <1>2, <1>10, <1>14, <1>15, EpIs
<1>17. e.rel = r /\ e.written = ep.written /\ e.stage = ep.stage
  BY <1>14 DEF Ep
<1>18. (FramesOf(produced) \cup ToSet(p.frames)) \cup ToSet(fin) = FramesOf(produced) \cup FramesIn(ps)
  BY <1>12, <1>110
<1>19. Tells(q, e.rel, e.written, FramesOf(produced) \cup FramesIn(ps)) /\ e.stage # "server"
  BY <1>15, <1>17, <1>18, <1>100
<1> QED BY <1>1, <1>2, <1>12, <1>15, <1>16, <1>19, ProduceStreams

LEMMA HandStreams ==
  ASSUME SInv, send_raw_frames
  PROVE Streams(ep', FramesOf(produced'))
<1>1. ep' = [ep EXCEPT !.outbox = Tail(ep.outbox)] /\ produced' = produced
  BY DEF send_raw_frames
<1>2. ep = [stage |-> ep.stage, cid |-> ep.cid, rel |-> ep.rel, written |-> ep.written,
            outbox |-> ep.outbox, panicked |-> ep.panicked]
  BY InvIs, EndpointIs DEF SInv
<1>3. ep'.rel = ep.rel /\ ep'.written = ep.written /\ ep'.stage = ep.stage
  BY <1>1, <1>2
<1> QED BY <1>1, <1>3, SameStreams

LEMMA InitStreams ==
  ASSUME Init
  PROVE Streams(ep, FramesOf(produced))
<1>1. PICK n \in Writes \cup {0}, s \in {"client", "server"} :
        /\ InitialDataFits(Bytes(0, n))
        /\ ep = [stage |-> s, cid |-> IF s = "client" THEN 0 ELSE PeerCid,
                 rel |-> [buffer |-> IF s = "client" /\ n > 0
                                     THEN write_to_stream(EmptySendBuffer, Bytes(0, n))
                                     ELSE EmptySendBuffer,
                          seq |-> 0, tracked |-> <<>>],
                 written |-> IF s = "client" THEN Least(n, StreamCap) ELSE 0,
                 outbox |-> <<>>, panicked |-> FALSE]
  BY DEF Init
<1> DEFINE c == IF s = "client" THEN 0 ELSE PeerCid
           x == Bytes(0, n)
           b == IF s = "client" /\ n > 0 THEN write_to_stream(EmptySendBuffer, x) ELSE EmptySendBuffer
           r == [buffer |-> b, seq |-> 0, tracked |-> <<>>]
           w == IF s = "client" THEN Least(n, StreamCap) ELSE 0
<1>2. n \in Nat /\ StreamCap \in Nat
  BY TransportAssumption, PacketizerAssumption
<1>3. Bytes(0, 0) = <<>> /\ <<>> \in Seq(Nat) /\ Sequence(<<>>)
  BY EmptySequence DEF Bytes
<1>4. Content(b) = Bytes(0, w) /\ (s = "server" => b.size = 0)
  <2>1. CASE s = "client" /\ n > 0
    <3> DEFINE k == Least(Len(x), Permit(StreamCap, EmptySendBuffer.size))
               z == write_to_stream(EmptySendBuffer, x)
    <3>1. x \in Seq(Nat) /\ Len(x) = n
      BY <1>2, BytesIs
    <3>2. Grown(EmptySendBuffer, x, k, z)
      <4> HIDE DEF x
      <4> QED BY <3>1, EmptyBuffer, WriteIs
    <3>3. b = z /\ w = Least(n, StreamCap)
      BY <2>1
    <3>4. k = Least(n, StreamCap)
      <4>1. EmptySendBuffer.size = 0
        BY DEF EmptySendBuffer
      <4>2. Permit(StreamCap, 0) = StreamCap
        BY PacketizerAssumption DEF Permit
      <4> HIDE DEF x
      <4> QED BY <3>1, <4>1, <4>2
    <3> HIDE DEF k, z, b, w
    <3>5. k \in 0 .. n /\ Content(b) = Cat(<<>>, SubSeq(x, 1, k))
      BY <3>1, <3>2, <3>3, EmptyBuffer DEF Grown
    <3>6. 0 \in Nat /\ 0 + k = k
      BY <1>2, <3>5
    <3>7. Cat(Bytes(0, 0), SubSeq(Bytes(0, n), 1, k)) = Bytes(0, 0 + k)
      BY <1>2, <3>5, <3>6, BytesGrow
    <3>8. Content(b) = Bytes(0, k)
      BY <1>3, <3>5, <3>6, <3>7
    <3> QED BY <2>1, <3>3, <3>4, <3>8
  <2>2. CASE ~ (s = "client" /\ n > 0)
    <3>1. b = EmptySendBuffer /\ w = 0
      BY <1>2, <2>2 DEF Least
    <3>2. EmptySendBuffer.size = 0
      BY DEF EmptySendBuffer
    <3> HIDE DEF b, w
    <3> QED BY <1>3, <3>1, <3>2, EmptyBuffer
  <2> QED BY <2>1, <2>2
<1>5. ep = Ep(s, c, r, w, <<>>, FALSE)
  BY <1>1 DEF Ep
<1> HIDE DEF b, c, w
<1>6. ep.rel = r /\ ep.written = w /\ ep.stage = s
  <2> HIDE DEF r
  <2> QED BY <1>5 DEF Ep
<1>7. r.buffer = b /\ r.seq = 0 /\ r.tracked = <<>>
  OBVIOUS
<1> HIDE DEF r
<1>8. <<>> \in TrackedIn(0, Kept(<<>>))
  <2>1. 0 .. 0 - 1 = {}
    OBVIOUS
  <2>2. <<>> \in [{} -> Info] /\ DOMAIN <<>> = {}
    OBVIOUS
  <2>3. <<>> \in Tracked(0)
    BY <2>1, <2>2 DEF Tracked
  <2> QED BY <2>2, <2>3 DEF TrackedIn
<1>9. FramesOf(produced) = {}
  BY DEF Init, FramesOf
<1>10. Carries(<<>>, {}) /\ Covers(<<>>, {})
  BY DEF Carries, Covers
<1>11. Cat(FlattenSeq(<<>>), Content(b)) = Bytes(0, w)
  <2>1. Sequence(Content(b))
    <3>1. ep \in Endpoint
      BY InitEndpoint
    <3>2. b \in Buffer
      BY <1>6, <1>7, <3>1, EndpointIs, RelIs
    <3>3. Content(b) \in Seq(Nat)
      BY <3>2, BufferIs
    <3> QED BY <3>3, SequenceIs
  <2> QED BY <1>4, <2>1, FlatEmpty, CatSequence
<1>12. <<>> \in Seq(Seq(Nat)) /\ Len(<<>>) = 0
  OBVIOUS
<1>13. Tells(<<>>, r, w, {})
  BY <1>7, <1>8, <1>10, <1>11, <1>12 DEF Tells
<1>14. Told(ep.rel, ep.written, FramesOf(produced))
  BY <1>6, <1>9, <1>13 DEF Told
<1> QED BY <1>4, <1>6, <1>7, <1>14 DEF Streams

LEMMA InitStreamed == Init => SInv
BY InitInv, InitStreams DEF SInv

LEMMA EndpointStreams ==
  ASSUME SInv, EndpointStep
  PROVE Streams(ep', FramesOf(produced'))
<1>1. CASE \E c, w \in Windows : send_initial_syn(c, w)
  BY <1>1, InitialStreams
<1>2. CASE \E c, w \in Windows : packetize_and_send(c, w)
  BY <1>2, PacketizeStreams
<1>3. CASE \E n \in Writes, c, w \in Windows : SendFirstData(n, c, w)
  BY <1>3, FirstDataStreams
<1>4. CASE \E n \in Writes : Write(n)
  BY <1>4, WriteStreams
<1>5. CASE \E r \in Sacks : send_standalone_ack(r)
  BY <1>5, AckStreams
<1>6. CASE \E n \in 1 .. ep.rel.seq : Acknowledge(n)
  BY <1>6, AcknowledgeStreams
<1>7. CASE Close \/ LearnCid
  BY <1>7, CloseStreams
<1>8. CASE SendChallenge
  BY <1>8, ChallengeStreams
<1>9. CASE Retransmit
  BY <1>9, RetransmitStreams
<1>10. CASE send_raw_frames
  BY <1>10, HandStreams
<1> QED BY <1>1, <1>2, <1>3, <1>4, <1>5, <1>6, <1>7, <1>8, <1>9, <1>10 DEF EndpointStep

LEMMA NextStreamed == SInv /\ [Next]_vars => SInv'
<1> SUFFICES ASSUME SInv, [Next]_vars PROVE SInv'
  OBVIOUS
<1>1. Inv'
  BY NextInv DEF SInv
<1>0. SUFFICES Streams(ep', FramesOf(produced'))
  BY <1>1 DEF SInv
<1>2. CASE EndpointStep
  BY <1>2, EndpointStreams
<1>3. ASSUME ep' = ep, produced' = produced PROVE Streams(ep', FramesOf(produced'))
  BY <1>3 DEF SInv
<1>4. CASE SenderStep
  BY <1>3, <1>4 DEF SenderStep, TaskRecv, TaskSend
<1>5. ASSUME NEW t \in Transports, ActorStep(t) \/ ReceiverStep(t) \/ RebindInPlace(t)
      PROVE ep' = ep /\ produced' = produced
  BY <1>5 DEF ActorStep, ReceiverStep, RebindInPlace, handle_send, handle_rebind, receive, ReceiveError
<1>6. CASE recv_frames \/ rebind
  BY <1>3, <1>6 DEF recv_frames, rebind, RebindBind, RebindSwap
<1>7. ASSUME NEW a \in Addresses, NEW b \in DOMAIN PeerBatches, Arrive(a, b)
      PROVE ep' = ep /\ produced' = produced
  BY <1>7 DEF Arrive
<1>8. CASE UNCHANGED vars
  BY <1>3, <1>8 DEF vars
<1> QED BY <1>2, <1>3, <1>4, <1>5, <1>6, <1>7, <1>8 DEF Next

LEMMA SpecStreamed == Spec => []SInv
BY InitStreamed, NextStreamed, PTL DEF Spec

----------------------------------------------------------------------------
(* The payloads in the order of their numbers.                             *)

Image(d, order) == [j \in 1 .. Len(order) |-> d[order[j] + 1]]

LEMMA ImageIs ==
  ASSUME NEW d \in Seq(Seq(Nat)), NEW v \in Seq(0 .. Len(d) - 1)
  PROVE Image(d, v) \in Seq(Seq(Nat)) /\ Len(Image(d, v)) = Len(v)
<1>1. Len(v) \in Nat /\ Len(d) \in Nat /\ \A j \in 1 .. Len(v) : v[j] \in 0 .. Len(d) - 1
  OBVIOUS
<1>2. \A j \in 1 .. Len(v) : v[j] + 1 \in 1 .. Len(d)
  BY <1>1
<1>3. \A j \in 1 .. Len(v) : d[v[j] + 1] \in Seq(Nat)
  BY <1>2
<1>4. Image(d, v) \in [1 .. Len(v) -> Seq(Nat)]
  BY <1>3 DEF Image
<1> DEFINE n == Len(v)
           x == Image(d, v)
<1>5. x \in [1 .. n -> Seq(Nat)] /\ n \in Nat
  BY <1>1, <1>4
<1> HIDE DEF n, x
<1>6. x \in Seq(Seq(Nat)) /\ Len(x) = n
  BY <1>5
<1> QED BY <1>6 DEF n, x

LEMMA ImageAppend ==
  ASSUME NEW d \in Seq(Seq(Nat)), NEW v \in Seq(0 .. Len(d) - 1), NEW s \in 0 .. Len(d) - 1
  PROVE Image(d, Append(v, s)) = Append(Image(d, v), d[s + 1])
<1> DEFINE u == Append(v, s)
           a == Image(d, v)
           b == Image(d, u)
           z == Append(a, d[s + 1])
<1>1. u \in Seq(0 .. Len(d) - 1) /\ Len(u) = Len(v) + 1 /\ Len(v) \in Nat /\ u[Len(v) + 1] = s
      /\ \A j \in 1 .. Len(v) : u[j] = v[j]
  BY AppendSequence
<1> HIDE DEF u
<1>2. a \in Seq(Seq(Nat)) /\ Len(a) = Len(v) /\ \A j \in 1 .. Len(v) : a[j] = d[v[j] + 1]
  BY ImageIs DEF Image
<1>3. b \in Seq(Seq(Nat)) /\ Len(b) = Len(u) /\ \A j \in 1 .. Len(u) : b[j] = d[u[j] + 1]
  BY <1>1, ImageIs DEF Image
<1>4. d[s + 1] \in Seq(Nat)
  <2>1. s + 1 \in 1 .. Len(d)
    OBVIOUS
  <2> QED BY <2>1
<1> HIDE DEF a, b
<1>5. z \in Seq(Seq(Nat)) /\ Len(z) = Len(v) + 1 /\ z[Len(v) + 1] = d[s + 1]
      /\ \A j \in 1 .. Len(v) : z[j] = a[j]
  BY <1>2, <1>4
<1> HIDE DEF z
<1>6. Len(b) = Len(z)
  BY <1>1, <1>3, <1>5
<1>7. ASSUME NEW j \in 1 .. Len(b) PROVE b[j] = z[j]
  <2>1. CASE j = Len(v) + 1
    BY <1>1, <1>3, <1>5, <2>1
  <2>2. CASE j # Len(v) + 1
    <3>1. j \in 1 .. Len(v) /\ j \in 1 .. Len(u)
      BY <1>1, <1>3, <2>2
    <3> QED BY <1>1, <1>2, <1>3, <1>5, <3>1
  <2> QED BY <2>1, <2>2
<1>8. Sequence(b)
  BY <1>3, SequenceIs
<1>9. Sequence(z)
  BY <1>5, SequenceIs
<1>10. b = z
  BY <1>6, <1>7, <1>8, <1>9, SequencesEqual
<1> QED BY <1>10 DEF b, z, a, u

LEMMA FrontAppend ==
  ASSUME NEW d \in Seq(Seq(Nat)), NEW i \in 1 .. Len(d)
  PROVE /\ SubSeq(d, 1, i - 1) \in Seq(Seq(Nat)) /\ d[i] \in Seq(Nat)
        /\ SubSeq(d, 1, i) = Append(SubSeq(d, 1, i - 1), d[i])
<1> DEFINE a == SubSeq(d, 1, i - 1)
           b == SubSeq(d, 1, i)
           z == Append(a, d[i])
<1>1. a \in Seq(Seq(Nat)) /\ Len(a) = i - 1 /\ \A j \in 1 .. i - 1 : a[j] = d[j]
  OBVIOUS
<1>2. b \in Seq(Seq(Nat)) /\ Len(b) = i /\ \A j \in 1 .. i : b[j] = d[j]
  OBVIOUS
<1>3. d[i] \in Seq(Nat) /\ i \in Nat
  OBVIOUS
<1> HIDE DEF a, b
<1>4. z \in Seq(Seq(Nat)) /\ Len(z) = (i - 1) + 1 /\ z[(i - 1) + 1] = d[i] /\ \A j \in 1 .. i - 1 : z[j] = a[j]
  BY <1>1, <1>3
<1> HIDE DEF z
<1>5. Len(z) = Len(b) /\ z[i] = d[i]
  BY <1>2, <1>3, <1>4
<1>6. ASSUME NEW j \in 1 .. Len(b) PROVE b[j] = z[j]
  <2>1. CASE j = i
    BY <1>2, <1>5, <2>1
  <2>2. CASE j # i
    <3>1. j \in 1 .. i - 1 /\ j \in 1 .. i
      BY <1>2, <1>3, <2>2
    <3> QED BY <1>1, <1>2, <1>4, <3>1
  <2> QED BY <2>1, <2>2
<1>7. Sequence(b)
  BY <1>2, SequenceIs
<1>8. Sequence(z)
  BY <1>4, SequenceIs
<1>9. b = z
  BY <1>5, <1>6, <1>7, <1>8, SequencesEqual
<1> QED BY <1>1, <1>3, <1>9 DEF a, b, z

\* Numbers that are not used carry nothing: what the others carry is everything.
LEMMA OrderCarries ==
  ASSUME NEW d \in Seq(Seq(Nat)), Len(d) = ep.rel.seq, NEW numbers \in SUBSET (0 .. Len(d) - 1),
         \A i \in 1 .. Len(d) : d[i] # <<>> => i - 1 \in numbers
  PROVE FlattenSeq(Image(d, InOrder(numbers))) = FlattenSeq(d)
<1> DEFINE n == Len(d)
           q == [i \in 1 .. ep.rel.seq |-> i - 1]
           Flat(i) == FlattenSeq(SubSeq(d, 1, i))
           A(i) == {v \in Seq(numbers) : FlattenSeq(Image(d, v)) = Flat(i)}
           S == [i \in 0 .. n |-> A(i)]
           o == Folded("order", numbers, <<>>, q)
<1>1. n \in Nat /\ Len(q) = n /\ \A i \in 1 .. n : q[i] = i - 1
  OBVIOUS
<1>2. InOrder(numbers) = o
  <2>1. ep.rel.seq \in Nat
    BY <1>1
  <2> QED BY <2>1, OrderFolded
<1>3. Seq(numbers) \subseteq Seq(0 .. n - 1)
  <2> SUFFICES ASSUME NEW v \in Seq(numbers) PROVE v \in Seq(0 .. n - 1)
    OBVIOUS
  <2> DEFINE N == 0 .. n - 1
  <2>1. numbers \subseteq N
    OBVIOUS
  <2> HIDE DEF N
  <2> DEFINE m == Len(v)
  <2>2. m \in Nat /\ DOMAIN v = 1 .. m /\ v = [j \in 1 .. m |-> v[j]] /\ \A j \in 1 .. m : v[j] \in numbers
    OBVIOUS
  <2> HIDE DEF m
  <2>3. v \in [1 .. m -> N]
    BY <2>1, <2>2
  <2>4. v \in Seq(N)
    BY <2>2, <2>3
  <2> QED BY <2>4 DEF N
<1> HIDE DEF q
<1>4. <<>> \in S[0]
  <2>1. SubSeq(d, 1, 0) = <<>> /\ <<>> \in Seq(numbers)
    OBVIOUS
  <2>2. Image(d, <<>>) = <<>>
    BY DEF Image
  <2>3. <<>> \in A(0)
    BY <2>1, <2>2
  <2>4. S[0] = A(0)
    BY <1>1
  <2> HIDE DEF S, A
  <2> QED BY <2>3, <2>4
<1>5. ASSUME NEW i \in 1 .. Len(q), NEW v \in S[i - 1]
      PROVE Step("order", numbers, v, q[i]) \in S[i]
  <2> DEFINE a == SubSeq(d, 1, i - 1)
             x == d[i]
  <2>1. i \in 1 .. n /\ i - 1 \in 0 .. n /\ i \in 0 .. n /\ i \in Nat /\ q[i] = i - 1 /\ (i - 1) + 1 = i
        /\ i - 1 \in 0 .. n - 1
    BY <1>1
  <2>2. S[i] = A(i) /\ S[i - 1] = A(i - 1)
    BY <2>1
  <2>3. v \in Seq(numbers) /\ FlattenSeq(Image(d, v)) = FlattenSeq(a)
    BY <2>2
  <2>4. a \in Seq(Seq(Nat)) /\ x \in Seq(Nat) /\ SubSeq(d, 1, i) = Append(a, x)
    BY <2>1, FrontAppend
  <2> HIDE DEF a, x
  <2>5. Flat(i) = Cat(FlattenSeq(a), x)
    BY <2>4, FlatAppend
  <2>6. v \in Seq(0 .. n - 1)
    BY <1>3, <2>3
  <2>7. CASE i - 1 \in numbers
    <3> DEFINE u == Append(v, i - 1)
    <3>1. Step("order", numbers, v, q[i]) = u
      BY <2>1, <2>7 DEF Step
    <3>2. Image(d, u) = Append(Image(d, v), x)
      BY <2>1, <2>6, ImageAppend DEF x
    <3>3. Image(d, v) \in Seq(Seq(Nat))
      BY <2>6, ImageIs
    <3>4. FlattenSeq(Image(d, u)) = Cat(FlattenSeq(Image(d, v)), x)
      BY <2>4, <3>2, <3>3, FlatAppend
    <3>5. u \in Seq(numbers)
      BY <2>3, <2>7
    <3> HIDE DEF u
    <3>6. FlattenSeq(Image(d, u)) = Flat(i)
      BY <2>3, <2>5, <3>4
    <3> HIDE DEF Flat, S
    <3> QED BY <2>2, <3>1, <3>5, <3>6
  <2>8. CASE i - 1 \notin numbers
    <3>1. Step("order", numbers, v, q[i]) = v
      BY <2>1, <2>8 DEF Step
    <3>2. x = <<>>
      BY <2>1, <2>8 DEF x
    <3>3. Sequence(FlattenSeq(a))
      BY <2>4, FlatPieced
    <3>4. Flat(i) = FlattenSeq(a)
      BY <2>5, <3>2, <3>3, CatSequence
    <3> HIDE DEF Flat, S
    <3> QED BY <2>2, <2>3, <3>1, <3>4
  <2> QED BY <2>7, <2>8
<1>6. S[n] = A(n)
  BY <1>1
<1> HIDE DEF S
<1>7. o \in S[n]
  <2>1. Len(q) \in Nat /\ Len(q) = n
    BY <1>1
  <2>2. o \in S[Len(q)]
    BY <1>4, <1>5, <2>1, FoldedIn
  <2> QED BY <2>1, <2>2
<1>8. SubSeq(d, 1, n) = d
  OBVIOUS
<1>9. FlattenSeq(Image(d, o)) = Flat(n)
  <2> HIDE DEF o, Flat
  <2> QED BY <1>6, <1>7
<1> QED BY <1>2, <1>8, <1>9

LEMMA StreamedIntact == SInv => StreamIntact
<1> SUFFICES ASSUME SInv PROVE StreamIntact
  OBVIOUS
<1> DEFINE numbers == {f.header.seq : f \in Pushes}
           payload == [s \in numbers |-> (CHOOSE f \in Pushes : f.header.seq = s).body]
           order == InOrder(numbers)
           carried == [i \in DOMAIN order |-> payload[order[i]]]
<1>1. PICK d : Tells(d, ep.rel, ep.written, FramesOf(produced))
  BY DEF SInv, Streams, Told
<1>2. Frames = FramesOf(produced)
  BY DEF Frames, FramesOf
<1>3. \A f : f \in Pushes <=> f \in FramesOf(produced) /\ IsPush(f)
  BY <1>2 DEF Pushes, IsPush
<1>4. /\ d \in Seq(Seq(Nat)) /\ Len(d) = ep.rel.seq /\ Len(d) \in Nat
      /\ Cat(FlattenSeq(d), Content(ep.rel.buffer)) = Bytes(0, ep.written)
      /\ Carries(d, FramesOf(produced)) /\ Covers(d, FramesOf(produced))
  BY <1>1 DEF Tells
<1>5. \A f \in Pushes : f.header.seq \in 0 .. Len(d) - 1 /\ f.body = d[f.header.seq + 1]
  BY <1>3, <1>4 DEF Carries
<1>6. \A f, g \in Pushes : f.header.seq = g.header.seq => f.body = g.body
  BY <1>5
<1>7. numbers \in SUBSET (0 .. Len(d) - 1)
  BY <1>5
<1>8. \A i \in 1 .. Len(d) : d[i] # <<>> => i - 1 \in numbers
  <2> SUFFICES ASSUME NEW i \in 1 .. Len(d), d[i] # <<>> PROVE i - 1 \in numbers
    OBVIOUS
  <2>1. PICK f \in FramesOf(produced) : IsPush(f) /\ f.header.seq = i - 1
    BY <1>4 DEF Covers
  <2>2. f \in Pushes
    BY <1>3, <2>1
  <2> QED BY <2>1, <2>2
<1>9. ASSUME NEW s \in numbers PROVE payload[s] = d[s + 1]
  <2> DEFINE f == CHOOSE g \in Pushes : g.header.seq = s
  <2>1. f \in Pushes /\ f.header.seq = s
    <3>1. \E g \in Pushes : g.header.seq = s
      OBVIOUS
    <3> QED BY <3>1
  <2>2. payload[s] = f.body
    OBVIOUS
  <2> HIDE DEF f
  <2> QED BY <1>5, <2>1, <2>2
<1> HIDE DEF numbers, payload
<1>10. order \in Seq(numbers)
  BY <1>4, InOrderIs
<1>11. FlattenSeq(Image(d, order)) = FlattenSeq(d)
  BY <1>4, <1>7, <1>8, OrderCarries
<1> HIDE DEF order
<1>12. carried = Image(d, order)
  <2>1. DOMAIN order = 1 .. Len(order) /\ \A i \in 1 .. Len(order) : order[i] \in numbers
    BY <1>10
  <2>2. \A i \in 1 .. Len(order) : payload[order[i]] = d[order[i] + 1]
    BY <1>9, <2>1
  <2> QED BY <2>1, <2>2 DEF Image
<1> HIDE DEF carried
<1>13. FlattenSeq(carried) \o FlattenSeq(ep.rel.buffer.pieces) = Bytes(0, ep.written)
  BY <1>4, <1>11, <1>12 DEF Cat, Content
<1> QED BY <1>6, <1>13, Zenon DEF StreamIntact, carried, order, payload, numbers

(***************************************************************************)
(* No byte of a stream is lost, repeated, reordered or cut on its way from *)
(* a write to the frames: whatever is written, packetized under any        *)
(* windows, sent behind a SYN or a SYN-ACK, sent again, acknowledged or    *)
(* interleaved with FIN and PATH_CHALLENGE numbers, a number has one       *)
(* payload and the payloads in the order of their numbers, followed by     *)
(* what SendBuffer still holds, are the bytes write_to_stream accepted     *)
(* (send_buffer.rs, packetizer.rs, reliability.rs, sender.rs).             *)
(***************************************************************************)
THEOREM StreamNeverDamaged == Spec => []StreamIntact
BY SpecStreamed, StreamedIntact, PTL
=============================================================================
