--------------------------- MODULE DispatchProofs ---------------------------
(***************************************************************************)
(* Proofs about the dispatchers.                                           *)
(***************************************************************************)
EXTENDS EventDispatch, FiniteSetTheorems, TLAPS

(***************************************************************************)
(* The operators.                                                          *)
(***************************************************************************)

\* A slot number modulo the number of slots is one, and the slot after the last
\* is the first.
LEMMA SlotModulo ==
  /\ 0 \in Slot
  /\ \A x \in Nat : x % SlotCount \in Slot
  /\ \A s \in Slot : /\ After(s) \in Slot
                      /\ After(s) = IF s = SlotCount - 1 THEN 0 ELSE s + 1
<1> SlotCount \in Nat \ {0}
  BY DispatchAssumption
<1>1. \A x \in Nat : x % SlotCount \in 0..(SlotCount - 1)
  OBVIOUS
<1>2. ASSUME NEW s \in Slot, s # SlotCount - 1 PROVE (s + 1) % SlotCount = s + 1
  BY <1>2 DEF Slot
<1>3. SlotCount % SlotCount = 0
  OBVIOUS
<1>4. \A s \in Slot : s = SlotCount - 1 => s + 1 = SlotCount
  BY DEF Slot
<1>5. \A s \in Slot : s + 1 \in Nat
  BY DEF Slot
<1>6. \A s \in Slot : After(s) \in Slot
  BY <1>1, <1>5 DEF After, Slot
<1>7. \A s \in Slot : After(s) = IF s = SlotCount - 1 THEN 0 ELSE s + 1
  BY <1>2, <1>3, <1>4 DEF After
<1>8. 0 \in Slot
  BY DEF Slot
<1> QED BY <1>1, <1>6, <1>7, <1>8 DEF Slot

\* Keep and Without cut a sequence in two.
LEMMA Cut ==
  ASSUME NEW S, NEW q \in Seq(S), NEW n \in Nat
  PROVE  /\ Keep(q, n) \in Seq(S) /\ Without(q, n) \in Seq(S)
         /\ Len(Keep(q, n)) = Smaller(n, Len(q))
         /\ Len(Without(q, n)) = Len(q) - Smaller(n, Len(q))
         /\ \A i \in 1..Len(Keep(q, n)) : Keep(q, n)[i] = q[i]
         /\ \A i \in 1..Len(Without(q, n)) :
              Without(q, n)[i] = q[Smaller(n, Len(q)) + i]
<1> DEFINE m == Smaller(n, Len(q))
<1>1. m \in 0..Len(q)
  BY DEF Smaller
<1> HIDE DEF m
<1>2. /\ SubSeq(q, 1, m) \in Seq(S) /\ Len(SubSeq(q, 1, m)) = m
      /\ \A i \in 1..m : SubSeq(q, 1, m)[i] = q[i]
  BY <1>1
<1>3. /\ SubSeq(q, m + 1, Len(q)) \in Seq(S) /\ Len(SubSeq(q, m + 1, Len(q))) = Len(q) - m
      /\ \A i \in 1..(Len(q) - m) : SubSeq(q, m + 1, Len(q))[i] = q[m + i]
  BY <1>1
<1> QED BY <1>2, <1>3 DEF Keep, Without, m

\* The three loops of simd_update_and_create reach every element.
LEMMA CoversAll == \A n \in Nat : Covers(n) = 1..n
<1> SUFFICES ASSUME NEW n \in Nat PROVE Covers(n) = 1..n
  OBVIOUS
<1>1. Lanes \in Nat \ {0}
  BY DispatchAssumption
<1> DEFINE wide == n - (n % Lanes)
           half == IF Lanes >= 2 THEN Lanes \div 2 ELSE 1
           narrow == wide + ((n - wide) - ((n - wide) % half))
<1>2. wide \in 0..n
  BY <1>1
<1>3. half \in Nat \ {0}
  BY <1>1
<1> HIDE DEF wide, half
<1>4. narrow \in wide..n
  <2> DEFINE k == n - wide
  <2>1. k \in Nat
    BY <1>2
  <2> HIDE DEF k
  <2>2. k % half \in 0..k
    BY <2>1, <1>3
  <2> QED BY <2>1, <2>2, <1>2 DEF k
<1> HIDE DEF narrow
<1>5. 1..wide \cup (wide + 1)..narrow \cup (narrow + 1)..n = 1..n
  BY <1>2, <1>4
<1> QED BY <1>5 DEF Covers, wide, half, narrow

\* Whatever the objects from the pool stood for before, they now stand for the
\* requests.
LEMMA Overwritten ==
  ASSUME NEW S, NEW taken \in Seq(S), NEW requests \in Seq(Event)
  PROVE  simd_update_and_create(taken, requests) = requests
<1>1. \A i \in 1..Len(requests) :
        i <= Len(taken) => i \in Covers(Len(taken))
  BY CoversAll
<1>2. simd_update_and_create(taken, requests) = [i \in 1..Len(requests) |-> requests[i]]
  BY <1>1 DEF simd_update_and_create
<1> QED BY <1>2

\* Creating events gives the requested ones and does not enlarge the pool.
LEMMA Created ==
  ASSUME NEW p \in Seq(Event \cup {0}), NEW requests \in Seq(Event)
  PROVE  /\ CreateEvents(p, requests).events = requests
         /\ CreateEvents(p, requests).pool \in Seq(Event \cup {0})
         /\ Len(CreateEvents(p, requests).pool) <= Len(p)
<1> DEFINE n == Len(requests)
<1>1. n \in Nat
  OBVIOUS
<1> HIDE DEF n
<1>2. /\ Keep(p, n) \in Seq(Event \cup {0}) /\ Without(p, n) \in Seq(Event \cup {0})
      /\ Len(Without(p, n)) <= Len(p)
  <2>1. Smaller(n, Len(p)) \in 0..Len(p)
    BY <1>1 DEF Smaller
  <2> QED BY <1>1, <2>1, Cut
<1>3. simd_update_and_create(Keep(p, n), requests) = requests
  BY <1>2, Overwritten
<1> QED BY <1>2, <1>3 DEF CreateEvents, create_events_optimized, batch_acquire, AcquireEach, n

\* The chunks put together again are the list that was cut up.
LEMMA ChunksInOrder ==
  ASSUME NEW q \in Seq(Event)
  PROVE  parallel_process_with_simd_sync(q) = q
<1>1. ChunkSize \in Nat \ {0}
  BY DispatchAssumption
<1>2. ASSUME NEW i \in 1..Len(q)
      PROVE Chunk(q, (i - 1) \div ChunkSize)[((i - 1) % ChunkSize) + 1] = q[i]
  <2> DEFINE c == (i - 1) \div ChunkSize
             k == (i - 1) % ChunkSize
             low == c * ChunkSize
             high == Smaller((c + 1) * ChunkSize, Len(q))
  <2>1. c \in Nat /\ k \in 0..(ChunkSize - 1) /\ i - 1 = low + k
    BY <1>1
  <2>2. low \in Nat /\ (c + 1) * ChunkSize = low + ChunkSize
    BY <2>1, <1>1
  <2>3. high \in low + k + 1..Len(q)
    BY <2>1, <2>2, <1>1 DEF Smaller
  <2> HIDE DEF c, k, low, high
  <2>4. SubSeq(q, low + 1, high)[k + 1] = q[low + k + 1]
    BY <2>1, <2>2, <2>3, <1>1
  <2>5. low + k + 1 = i
    BY <2>1, <2>2, <1>1
  <2> QED BY <2>4, <2>5 DEF Chunk, process_batch, c, k, low, high
<1>3. parallel_process_with_simd_sync(q) = [i \in 1..Len(q) |-> q[i]]
  BY <1>2 DEF parallel_process_with_simd_sync
<1> QED BY <1>3

\* Processing changes neither the events nor their order.
LEMMA ProcessedIsSame == \A q \in Seq(Event) : Processed(q) = q
BY ChunksInOrder DEF Processed, process_batch

\* Joining sequences.
LEMMA Joining ==
  ASSUME NEW S, NEW p \in Seq(S), NEW q \in Seq(S)
  PROVE  /\ p \o q \in Seq(S) /\ Len(p \o q) = Len(p) + Len(q)
         /\ <<>> \o q = q /\ p \o <<>> = p
         /\ p # <<>> => /\ p \o q # <<>> /\ Head(p \o q) = p[1] /\ Head(p) = p[1] /\ p[1] \in S
                        /\ (p \o q)[1] = p[1] /\ Tail(p \o q) = Tail(p) \o q
                        /\ Tail(p) \in Seq(S) /\ Len(Tail(p)) = Len(p) - 1
<1>1. p \o q \in Seq(S) /\ Len(p \o q) = Len(p) + Len(q)
  OBVIOUS
<1>2. <<>> \o q = q
  OBVIOUS
<1>3. p \o <<>> = p
  OBVIOUS
<1>4. ASSUME p # <<>>
      PROVE /\ p \o q # <<>> /\ Head(p \o q) = p[1] /\ Head(p) = p[1] /\ p[1] \in S
            /\ (p \o q)[1] = p[1]
            /\ Tail(p \o q) = Tail(p) \o q /\ Tail(p) \in Seq(S) /\ Len(Tail(p)) = Len(p) - 1
  <2>1. Len(p) \in Nat \ {0}
    BY <1>4
  <2>2. /\ p \o q # <<>> /\ Head(p \o q) = p[1] /\ Head(p) = p[1] /\ p[1] \in S
        /\ (p \o q)[1] = p[1]
    BY <2>1, <1>1
  <2>3. Tail(p) \in Seq(S) /\ Len(Tail(p)) = Len(p) - 1
    BY <2>1
  <2>4. \A i \in 1..(Len(p) + Len(q) - 1) : Tail(p \o q)[i] = (Tail(p) \o q)[i]
    BY <2>1, <2>3
  <2>5. /\ Tail(p \o q) \in Seq(S) /\ Tail(p) \o q \in Seq(S)
        /\ Len(Tail(p \o q)) = Len(p) + Len(q) - 1 /\ Len(Tail(p) \o q) = Len(p) + Len(q) - 1
    BY <2>1, <2>3, <1>1
  <2> QED BY <2>2, <2>3, <2>4, <2>5
<1> QED BY <1>1, <1>2, <1>3, <1>4

\* The two parts of a sequence that was cut are the whole of it.
LEMMA Joined ==
  ASSUME NEW S, NEW q \in Seq(S), NEW n \in Nat
  PROVE  Keep(q, n) \o Without(q, n) = q
<1> DEFINE m == Smaller(n, Len(q))
           k == Keep(q, n)
           w == Without(q, n)
<1>1. m \in 0..Len(q) /\ Len(q) \in Nat
  BY DEF Smaller
<1>2. /\ k \in Seq(S) /\ w \in Seq(S) /\ Len(k) = m /\ Len(w) = Len(q) - m
      /\ \A i \in 1..Len(k) : k[i] = q[i]
      /\ \A i \in 1..Len(w) : w[i] = q[m + i]
  BY Cut
<1> HIDE DEF m, k, w
<1>3. k \o w \in Seq(S) /\ Len(k \o w) = Len(q)
  BY <1>1, <1>2
<1>4. ASSUME NEW i \in 1..Len(q) PROVE (k \o w)[i] = q[i]
  <2>0. i <= m \/ i > m
    BY <1>1
  <2>1. CASE i <= m
    BY <2>1, <1>1, <1>2
  <2>2. CASE i > m
    <3>1. i - m \in 1..Len(w) /\ (k \o w)[i] = w[i - m] /\ m + (i - m) = i
      BY <2>2, <1>1, <1>2
    <3> QED BY <3>1, <1>2
  <2> QED BY <2>0, <2>1, <2>2
<1>5. k \o w = q
  <2> DEFINE j == k \o w
  <2>1. j \in Seq(S) /\ Len(j) = Len(q) /\ \A i \in 1..Len(q) : j[i] = q[i]
    BY <1>3, <1>4
  <2> HIDE DEF j
  <2>2. j = q
    BY <2>1
  <2> QED BY <2>2 DEF j
<1> QED BY <1>5 DEF k, w

(***************************************************************************)
(* What a step does to the caller that takes it.                           *)
(***************************************************************************)

\* A step of t leaves the other callers alone.
Only(t) == thread' \in [Thread -> CallerType] /\ \A u \in Thread \ {t} : thread'[u] = thread[u]

\* The callers x and y differ at most in where they look.
Alike(x, y) ==
  /\ y.batch = x.batch /\ y.events = x.events /\ y.done = x.done /\ y.written = x.written
  /\ y.size = x.size /\ y.at = x.at /\ y.slot = x.slot /\ y.read = x.read
  /\ y.room = x.room

LEMMA ByOne ==
  ASSUME NEW t \in Thread, DTypeOK, NEW th \in CallerType,
         thread' = [thread EXCEPT ![t] = th]
  PROVE  Only(t) /\ thread'[t] = th
BY DEF Only, DTypeOK

LEMMA CallerFields ==
  ASSUME NEW th \in CallerType
  PROVE  /\ th.events \in Seq(Event) /\ th.batch \in Seq(Event) /\ th.got \in Seq(Event)
         /\ th.best \in Slot /\ th.at \in Slot /\ th.from \in Slot /\ th.slot \in Slot
         /\ th.seen \in Nat /\ th.least \in Nat /\ th.share \in Nat /\ th.done \in Nat
         /\ th.written \in Nat /\ th.size \in Nat /\ th.take \in Nat /\ th.read \in Nat
         /\ th.room \in Nat
BY DEF CallerType

LEMMA IdleType == Idle \in CallerType
BY SlotModulo DEF Idle, CallerType

LEMMA UtilizationDoes ==
  ASSUME NEW t \in Thread, DTypeOK, Utilization(t)
  PROVE  /\ Only(t) /\ thread[t].pc = "scan" /\ thread'[t].pc = "scan"
         /\ Alike(thread[t], thread'[t])
<1> DEFINE th == thread[t]
           k == th.seen + 1
           s == (th.from + th.seen) % SlotCount
           n == Len(slots[s])
           a == [th EXCEPT !.seen = k, !.best = s, !.least = n]
           b == [th EXCEPT !.seen = k]
<1>1. th \in CallerType
  BY DEF DTypeOK
<1>2. s \in Slot /\ k \in Nat
  <2> HIDE DEF th
  <2>1. th.from + th.seen \in Nat /\ th.seen \in Nat
    BY <1>1, CallerFields DEF Slot
  <2> QED BY <2>1, SlotModulo
<1>3. n \in Nat
  BY <1>2 DEF DTypeOK
<1>4. thread' = [thread EXCEPT ![t] = IF n < th.least THEN a ELSE b] /\ th.pc = "scan"
  BY DEF Utilization
<1> HIDE DEF th, s, n, k
<1>5. a \in CallerType /\ b \in CallerType
  BY <1>1, <1>2, <1>3 DEF CallerType
<1>6. a.pc = th.pc /\ Alike(th, a) /\ b.pc = th.pc /\ Alike(th, b)
  BY <1>1 DEF CallerType, Alike
<1> HIDE DEF a, b
<1>7. CASE n < th.least
  BY <1>4, <1>5, <1>6, <1>7, ByOne DEF th
<1>8. CASE ~(n < th.least)
  BY <1>4, <1>5, <1>6, <1>8, ByOne DEF th
<1> QED BY <1>7, <1>8

\* PlanBatch takes the events in hand, all of them and in their order.
LEMMA PlanBatchDoes ==
  ASSUME NEW t \in Thread, DTypeOK, CallersSound, PlanBatch(t)
  PROVE  LET th == thread[t]
             new == thread'[t]
         IN /\ Only(t) /\ th.pc = "scan" /\ new.pc \in {"batch", "single"}
            /\ new.batch \o new.events = th.batch \o th.events
            /\ Len(new.batch) + Len(new.events) = Len(th.batch) + Len(th.events)
            /\ new.pc = "single" => new.events = <<>>
            /\ new.at = new.from
            /\ new.done = 0 /\ new.written = 0 /\ th.written = 0 /\ th.done = 0
            /\ new.size = th.size /\ new.slot = th.slot /\ new.read = th.read
            /\ new.room = th.room
<1> DEFINE th == thread[t]
           q == th.events
           b == th.best
           base == [th EXCEPT !.seen = 0, !.least = 0, !.at = b, !.from = b]
           share == Len(q) \div SlotCount
           twice == 2 * share
           next == IF share = 0 THEN 1 ELSE share
           front == Keep(q, twice)
           rest == Without(q, twice)
           large == [base EXCEPT !.pc = "batch", !.batch = front, !.events = rest, !.share = next]
           p == IF kind = "optimized" THEN "batch" ELSE "single"
           small == [base EXCEPT !.pc = p, !.batch = q, !.events = <<>>, !.share = 1]
<1>1. th \in CallerType /\ q \in Seq(Event) /\ b \in Slot
  BY CallerFields DEF DTypeOK
<1>2. SlotCount \in Nat \ {0}
  BY DispatchAssumption
<1>3. share \in Nat
  <2> DEFINE n == Len(q)
  <2>1. n \in Nat
    BY <1>1
  <2> HIDE DEF n
  <2>2. n \div SlotCount \in Nat
    BY <2>1, <1>2
  <2> QED BY <2>2 DEF n
<1>0. base.events = q /\ base.pc = th.pc
  <2> HIDE DEF th, b
  <2> QED BY <1>1 DEF CallerType
<1>4. /\ th.pc = "scan"
      /\ thread' = [thread EXCEPT ![t] = large] \/ thread' = [thread EXCEPT ![t] = small]
  <2>1. /\ base.pc = "scan"
        /\ \/ thread' = [thread EXCEPT ![t] = StartLarge(base)]
           \/ thread' = [thread EXCEPT ![t] =
                [base EXCEPT !.pc = p, !.batch = base.events, !.events = <<>>, !.share = 1]]
    BY DEF PlanBatch
  <2>2. StartLarge(base) = large
    BY <1>0 DEF StartLarge
  <2> QED BY <2>1, <2>2, <1>0
<1>5. th.batch = <<>> /\ th.done = 0 /\ th.written = 0
  BY <1>4 DEF CallersSound
<1> HIDE DEF share
<1>6. twice \in Nat /\ next \in Nat
  BY <1>3
<1>7. /\ front \in Seq(Event) /\ rest \in Seq(Event) /\ front \o rest = q
      /\ Len(front) + Len(rest) = Len(q)
  <2>1. front \in Seq(Event) /\ rest \in Seq(Event) /\ front \o rest = q
    BY <1>1, <1>6, Cut, Joined
  <2> HIDE DEF front, rest
  <2>2. Len(front \o rest) = Len(front) + Len(rest)
    <3>1. front \in Seq(Event) /\ rest \in Seq(Event)
      BY <2>1
    <3> QED BY <3>1, Joining
  <2> QED BY <2>1, <2>2
<1>8. th.batch \o th.events = q /\ Len(th.batch) + Len(th.events) = Len(q)
  BY <1>1, <1>5, Joining
<1>9. p \in {"batch", "single"} /\ q \o <<>> = q /\ <<>> \in Seq(Event) /\ Len(q) + Len(<<>>) = Len(q)
  BY <1>1
<1> DEFINE z == <<>>
           i == 1
           o == 0
<1> HIDE DEF th, q, b, twice, next, front, rest, p
<1>a. base \in CallerType
  BY <1>1 DEF CallerType
<1>b. /\ base.done = th.done /\ base.written = th.written /\ base.size = th.size
      /\ base.slot = th.slot /\ base.read = th.read /\ base.room = th.room
      /\ base.at = base.from
  BY <1>1 DEF CallerType
<1> HIDE DEF base
<1>c. CASE thread' = [thread EXCEPT ![t] = large]
  <2>1. large \in CallerType
    BY <1>a, <1>6, <1>7 DEF CallerType
  <2>2. /\ large.pc = "batch" /\ large.batch = front /\ large.events = rest
        /\ large.at = base.at /\ large.from = base.from /\ large.done = base.done
        /\ large.written = base.written /\ large.size = base.size
        /\ large.slot = base.slot /\ large.read = base.read /\ large.room = base.room
    BY <1>a DEF CallerType
  <2> HIDE DEF large
  <2>3. Only(t) /\ thread'[t] = large
    BY <2>1, <1>c, ByOne
  <2> QED BY <2>2, <2>3, <1>4, <1>5, <1>7, <1>8, <1>b DEF th
<1>d. CASE thread' = [thread EXCEPT ![t] = small]
  <2> HIDE DEF z, i
  <2> DEFINE tiny == [base EXCEPT !.pc = p, !.batch = q, !.events = z, !.share = i]
  <2>0. z \in Seq(Event) /\ i \in Nat /\ tiny = small /\ z = <<>>
    BY <1>9 DEF z, i
  <2>1. tiny \in CallerType
    BY <1>a, <1>1, <1>9, <2>0 DEF CallerType
  <2>2. /\ tiny.pc = p /\ tiny.batch = q /\ tiny.events = z
        /\ tiny.at = base.at /\ tiny.from = base.from /\ tiny.done = base.done
        /\ tiny.written = base.written /\ tiny.size = base.size
        /\ tiny.slot = base.slot /\ tiny.read = base.read /\ tiny.room = base.room
    BY <1>a DEF CallerType
  <2> HIDE DEF tiny, small
  <2>3. Only(t) /\ thread'[t] = tiny
    BY <2>0, <2>1, <1>d, ByOne
  <2> QED BY <2>0, <2>2, <2>3, <1>4, <1>5, <1>8, <1>9, <1>b DEF th
<1> QED BY <1>4, <1>c, <1>d

\* The caller of a push: its first event leaves its hand for the slot it is at.
Pushes(t) ==
  LET th == thread[t]
      new == thread'[t]
  IN /\ Only(t) /\ th.batch # <<>> /\ new.pc = th.pc
     /\ Line(t)' = Tail(Line(t)) /\ Line(t) # <<>> /\ Line(t)[1] \in Event
     /\ slots' = [slots EXCEPT ![th.at] = Append(@, Line(t)[1])] /\ Len(slots[th.at]) < SlotCap
     /\ Len(new.batch) + 1 = Len(th.batch) /\ new.events = th.events
     /\ new.done + new.written = th.done + th.written + 1
     /\ new.size = th.size /\ new.slot = th.slot /\ new.read = th.read /\ new.room = th.room

LEMMA PushWhileRoom ==
  ASSUME NEW s \in Slot, DTypeOK
  PROVE  IsFull(s) <=> ~(Len(slots[s]) < SlotCap)
<1> DEFINE n == Len(slots[s])
<1>1. slots[s] \in Seq(Event)
  BY DEF DTypeOK
<1>2. n \in Nat /\ SlotCap \in Nat
  BY <1>1, DispatchAssumption
<1> HIDE DEF n
<1>3. n >= SlotCap <=> ~(n < SlotCap)
  BY <1>2
<1> QED BY <1>3 DEF IsFull, n

LEMMA BatchWriteDoes ==
  ASSUME NEW t \in Thread, DTypeOK, batch_write(t)
  PROVE  LET th == thread[t]
             new == thread'[t]
         IN /\ th.pc = "batch"
            /\ \/ /\ Pushes(t) /\ rings' = rings /\ rejected' = rejected
                  /\ new.at = th.at /\ new.done = th.done /\ new.written = th.written + 1
               \/ /\ Only(t) /\ new.pc = "batch" /\ slots' = slots
                  /\ new.batch \o new.events = th.events
                  /\ Len(new.batch) + Len(new.events) = Len(th.events)
                  /\ rejected' = rejected \cup ToSet(th.batch)
                  /\ rings' = [rings EXCEPT ![th.at].writes = @ + th.written,
                                            ![th.at].written = @ + th.written]
                  /\ new.done = th.done + th.written /\ new.written = 0
                  /\ new.size = th.size /\ new.slot = th.slot /\ new.read = th.read
                  /\ new.room = th.room
<1> DEFINE th == thread[t]
           q == th.batch
           e == th.events
           w == th.written
           d == th.done + w
<1>1. th \in CallerType
  BY DEF DTypeOK
<1>2. /\ q \in Seq(Event) /\ e \in Seq(Event) /\ w \in Nat /\ d \in Nat /\ th.done \in Nat
      /\ th.at \in Slot /\ th.share \in Nat
  BY <1>1, CallerFields
<1>3. CASE /\ th.batch # <<>> /\ ~IsFull(th.at) /\ Push(th.at, Head(th.batch))
           /\ thread' = [thread EXCEPT ![t].batch = Tail(@), ![t].written = @ + 1]
           /\ UNCHANGED <<rings, rejected>>
  <2> DEFINE tl == Tail(q)
             v == w + 1
             new == [th EXCEPT !.batch = tl, !.written = v]
  <2>1. thread' = [thread EXCEPT ![t] = new]
    BY <1>3, <1>1 DEF DTypeOK
  <2>2. tl \in Seq(Event) /\ v \in Nat /\ Len(tl) = Len(q) - 1 /\ Len(q) \in Nat
    BY <1>2, <1>3, Joining
  <2>3. new \in CallerType
    <3> HIDE DEF th, tl, v
    <3> QED BY <1>1, <2>2 DEF CallerType
  <2>4. /\ new.pc = th.pc /\ new.batch = tl /\ new.events = e /\ new.done = th.done
        /\ new.written = v /\ new.size = th.size /\ new.slot = th.slot /\ new.read = th.read
        /\ new.room = th.room /\ new.at = th.at
    <3> HIDE DEF th, tl, v
    <3> QED BY <1>1 DEF CallerType, e
  <2> HIDE DEF new
  <2>5. Only(t) /\ thread'[t] = new
    BY <2>1, <2>3, ByOne
  <2>6. Line(t) = q \o e /\ Line(t)' = tl \o e
    BY <2>4, <2>5 DEF Line
  <2>7. /\ Line(t)' = Tail(Line(t)) /\ Line(t) # <<>> /\ Line(t)[1] = Head(q)
        /\ Line(t)[1] \in Event
    <3>1. q # <<>>
      BY <1>3
    <3>2. q \in Seq(Event) /\ e \in Seq(Event)
      BY <1>2
    <3>3. tl = Tail(q)
      OBVIOUS
    <3> HIDE DEF q, e, tl
    <3>4. /\ Head(q) = q[1] /\ Tail(q \o e) = Tail(q) \o e
          /\ q \o e # <<>> /\ q[1] \in Event /\ (q \o e)[1] = q[1]
      BY <3>1, <3>2, Joining
    <3> QED BY <2>6, <3>3, <3>4
  <2>8. slots' = [slots EXCEPT ![th.at] = Append(@, Head(q))] /\ Len(slots[th.at]) < SlotCap
    BY <1>2, <1>3, PushWhileRoom DEF Push
  <2>9. Pushes(t)
    <3>1. Len(tl) + 1 = Len(q) /\ th.done + v = th.done + w + 1
      <4> DEFINE x == Len(tl)
                 y == Len(q)
                 z == th.done
      <4>1. x = y - 1 /\ y \in Nat /\ z \in Nat /\ w \in Nat
        BY <2>2, <1>2
      <4> HIDE DEF x, y, z, w
      <4>2. x + 1 = y /\ z + (w + 1) = z + w + 1
        BY <4>1
      <4> QED BY <4>2 DEF x, y, z
    <3> HIDE DEF tl, v
    <3> QED BY <3>1, <1>3, <2>4, <2>5, <2>7, <2>8 DEF Pushes
  <2> QED BY <2>9, <1>3, <2>4, <2>5 DEF batch_write
<1>4. CASE /\ rejected' = rejected \cup ToSet(th.batch)
           /\ rings' = [rings EXCEPT ![th.at].writes = @ + th.written,
                                     ![th.at].written = @ + th.written]
           /\ thread' = [thread EXCEPT ![t] =
                NextShare([th EXCEPT !.done = @ + th.written, !.written = 0])]
           /\ UNCHANGED slots
  <2> DEFINE n == th.share
             k == Keep(e, n)
             r == Without(e, n)
             a == After(th.at)
             o == 0
             mid == [th EXCEPT !.done = d, !.written = o]
             new == [mid EXCEPT !.batch = k, !.events = r, !.at = a]
  <2>1. /\ k \in Seq(Event) /\ r \in Seq(Event) /\ k \o r = e /\ a \in Slot /\ o \in Nat
        /\ Len(k) + Len(r) = Len(e)
    <3>1. k \in Seq(Event) /\ r \in Seq(Event) /\ k \o r = e
      BY <1>2, Cut, Joined
    <3>2. a \in Slot
      BY <1>2, SlotModulo
    <3> HIDE DEF k, r
    <3>4. k \in Seq(Event) /\ r \in Seq(Event)
      BY <3>1
    <3>3. Len(k \o r) = Len(k) + Len(r)
      BY <3>4, Joining
    <3> QED BY <3>1, <3>2, <3>3
  <2>2. mid \in CallerType
    <3> HIDE DEF th, d, o
    <3> QED BY <1>1, <1>2, <2>1 DEF CallerType
  <2>3. /\ mid.pc = th.pc /\ mid.events = e /\ mid.share = n /\ mid.at = th.at
        /\ mid.done = d /\ mid.written = o /\ mid.size = th.size /\ mid.slot = th.slot
        /\ mid.read = th.read /\ mid.room = th.room
    <3> HIDE DEF th, d, o
    <3> QED BY <1>1 DEF CallerType, e, n
  <2>4. thread' = [thread EXCEPT ![t] = new]
    <3>1. thread' = [thread EXCEPT ![t] = NextShare(mid)]
      BY <1>4
    <3> HIDE DEF mid
    <3>2. NextShare(mid) = new
      BY <2>3 DEF NextShare
    <3> QED BY <3>1, <3>2
  <2> HIDE DEF mid
  <2>5. new \in CallerType
    <3> HIDE DEF k, r, a
    <3> QED BY <2>1, <2>2 DEF CallerType
  <2>6. /\ new.pc = mid.pc /\ new.batch = k /\ new.events = r
        /\ new.done = mid.done /\ new.written = mid.written /\ new.size = mid.size
        /\ new.slot = mid.slot /\ new.read = mid.read /\ new.room = mid.room
    <3> HIDE DEF k, r, a
    <3> QED BY <2>2 DEF CallerType
  <2> HIDE DEF new
  <2>7. Only(t) /\ thread'[t] = new
    BY <2>4, <2>5, ByOne
  <2>8. th.pc = "batch"
    BY DEF batch_write
  <2> HIDE DEF k, r
  <2> QED BY <2>1, <2>3, <2>6, <2>7, <2>8, <1>4
<1> QED BY <1>3, <1>4 DEF batch_write

LEMMA TryWriteDoes ==
  ASSUME NEW t \in Thread, DTypeOK, CallersSound, try_write_event(t)
  PROVE  LET th == thread[t]
             new == thread'[t]
         IN /\ th.pc = "single" /\ th.events = <<>> /\ th.written = 0 /\ th.batch # <<>>
            /\ \/ /\ Pushes(t) /\ rejected' = rejected
                  /\ rings' = [rings EXCEPT ![th.at].writes = @ + 1, ![th.at].written = @ + 1]
                  /\ new.at = new.from /\ new.done = th.done + 1 /\ new.written = 0
               \/ /\ Only(t) /\ new.pc = "single" /\ IsFull(th.at)
                  /\ new.at = After(th.at) /\ new.from = th.from
                  /\ slots' = slots /\ rings' = rings
                  /\ new.events = <<>> /\ new.done = th.done /\ new.written = 0
                  /\ new.size = th.size /\ new.slot = th.slot /\ new.read = th.read
                  /\ new.room = th.room
                  /\ \/ new.batch = th.batch /\ rejected' = rejected /\ ~AllTried(th)
                     \/ /\ new.batch = <<>> /\ rejected' = rejected \cup ToSet(th.batch)
                        /\ AllTried(th)
<1> DEFINE th == thread[t]
           q == th.batch
           a == After(th.at)
<1>1. th \in CallerType
  BY DEF DTypeOK
<1>2. q \in Seq(Event) /\ th.done \in Nat /\ th.at \in Slot /\ a \in Slot
  BY <1>1, CallerFields, SlotModulo
<1>3. th.pc = "single" /\ q # <<>> /\ th.events = <<>> /\ th.written = 0
  BY DEF try_write_event, CallersSound
<1>4. CASE /\ ~IsFull(th.at) /\ Push(th.at, Head(q))
           /\ rings' = [rings EXCEPT ![th.at].writes = @ + 1, ![th.at].written = @ + 1]
           /\ thread' = [thread EXCEPT ![t].batch = Tail(@), ![t].at = a,
                                       ![t].from = a, ![t].done = @ + 1]
           /\ UNCHANGED rejected
  <2> DEFINE tl == Tail(q)
             d == th.done + 1
             new == [th EXCEPT !.batch = tl, !.at = a, !.from = a, !.done = d]
  <2>1. thread' = [thread EXCEPT ![t] = new]
    BY <1>4, <1>1 DEF DTypeOK
  <2>2. tl \in Seq(Event) /\ d \in Nat /\ Len(tl) = Len(q) - 1 /\ Len(q) \in Nat
    BY <1>2, <1>3, Joining
  <2>3. new \in CallerType
    <3> HIDE DEF th, tl, d, a
    <3> QED BY <1>1, <1>2, <2>2 DEF CallerType
  <2>4. /\ new.pc = th.pc /\ new.batch = tl /\ new.events = th.events /\ new.done = d
        /\ new.written = th.written /\ new.size = th.size /\ new.slot = th.slot
        /\ new.read = th.read /\ new.room = th.room /\ new.at = a /\ new.from = a
    <3> HIDE DEF th, tl, d, a
    <3> QED BY <1>1 DEF CallerType
  <2> HIDE DEF new
  <2>5. Only(t) /\ thread'[t] = new
    BY <2>1, <2>3, ByOne
  <2>6. Line(t) = q /\ Line(t)' = tl
    <3>1. Line(t) = q \o <<>> /\ Line(t)' = tl \o <<>>
      BY <1>3, <2>4, <2>5 DEF Line
    <3> HIDE DEF q, tl
    <3> QED BY <3>1, <1>2, <2>2, Joining
  <2>7. Line(t)[1] = Head(q) /\ Line(t)[1] \in Event
    BY <1>2, <1>3, <2>6
  <2>8. slots' = [slots EXCEPT ![th.at] = Append(@, Head(q))] /\ Len(slots[th.at]) < SlotCap
    BY <1>2, <1>4, PushWhileRoom DEF Push
  <2>9. Pushes(t)
    <3>1. Len(tl) + 1 = Len(q) /\ d + 0 = th.done + 0 + 1
      BY <2>2, <1>2
    <3>2. tl = Tail(q)
      OBVIOUS
    <3> HIDE DEF tl, d
    <3> QED BY <3>1, <3>2, <1>3, <2>4, <2>5, <2>6, <2>7, <2>8 DEF Pushes
  <2> QED BY <1>3, <1>4, <2>4, <2>5, <2>9
<1>5. ASSUME NEW z, z = q \/ z = <<>>, IsFull(th.at), UNCHANGED <<slots, rings>>,
             thread' = [thread EXCEPT ![t] = [th EXCEPT !.batch = z, !.at = a]],
             \/ z = q /\ rejected' = rejected /\ ~AllTried(th)
             \/ z = <<>> /\ rejected' = rejected \cup ToSet(q) /\ AllTried(th)
      PROVE LET new == thread'[t] IN
            /\ Only(t) /\ new.pc = "single" /\ IsFull(th.at)
            /\ new.at = a /\ new.from = th.from
            /\ slots' = slots /\ rings' = rings
            /\ new.events = <<>> /\ new.done = th.done /\ new.written = 0
            /\ new.size = th.size /\ new.slot = th.slot /\ new.read = th.read
            /\ new.room = th.room
            /\ \/ new.batch = q /\ rejected' = rejected /\ ~AllTried(th)
               \/ new.batch = <<>> /\ rejected' = rejected \cup ToSet(q) /\ AllTried(th)
  <2> DEFINE new == [th EXCEPT !.batch = z, !.at = a]
  <2>1. z \in Seq(Event)
    <3> HIDE DEF q
    <3>1. <<>> \in Seq(Event)
      OBVIOUS
    <3> QED BY <3>1, <1>2, <1>5
  <2>2. new \in CallerType
    <3> HIDE DEF th, a
    <3> QED BY <1>1, <1>2, <2>1 DEF CallerType
  <2>3. /\ new.pc = th.pc /\ new.batch = z /\ new.events = th.events /\ new.done = th.done
        /\ new.written = th.written /\ new.size = th.size /\ new.slot = th.slot
        /\ new.read = th.read /\ new.room = th.room /\ new.at = a /\ new.from = th.from
    <3> HIDE DEF th, a
    <3> QED BY <1>1 DEF CallerType
  <2> HIDE DEF new
  <2>4. Only(t) /\ thread'[t] = new
    BY <1>5, <2>2, ByOne DEF new
  <2> QED BY <1>3, <1>5, <2>3, <2>4
<1>6. CASE /\ IsFull(th.at) /\ ~AllTried(th) /\ thread' = [thread EXCEPT ![t].at = a]
           /\ UNCHANGED <<slots, rings, rejected>>
  <2>1. thread' = [thread EXCEPT ![t] = [th EXCEPT !.batch = q, !.at = a]]
    <3>1. [th EXCEPT !.batch = q, !.at = a] = [th EXCEPT !.at = a]
      <4> HIDE DEF th, a
      <4> QED BY <1>1 DEF CallerType, q
    <3>2. thread' = [thread EXCEPT ![t] = [th EXCEPT !.at = a]]
      BY <1>6, <1>1 DEF DTypeOK
    <3> QED BY <3>1, <3>2
  <2> HIDE DEF th, a
  <2> QED BY <2>1, <1>3, <1>5, <1>6 DEF th, a, q
<1>7. CASE /\ IsFull(th.at) /\ AllTried(th)
           /\ thread' = [thread EXCEPT ![t].batch = <<>>, ![t].at = a]
           /\ rejected' = rejected \cup ToSet(q) /\ UNCHANGED <<slots, rings>>
  <2>1. thread' = [thread EXCEPT ![t] = [th EXCEPT !.batch = <<>>, !.at = a]]
    BY <1>7, <1>1 DEF DTypeOK
  <2> QED BY <2>1, <1>3, <1>5, <1>7
<1> QED BY <1>4, <1>6, <1>7 DEF try_write_event

\* The events of a new batch are the numbers after the last one offered.
LEMMA NewBatch ==
  ASSUME NEW t \in Thread, NEW n \in Nat, DTypeOK, Offer(t, n)
  PROVE  /\ Batch(n) \in Seq(Event) /\ Len(Batch(n)) = n
         /\ \A i \in 1..n : Batch(n)[i] = offered + i
         /\ offered' = offered + n /\ offered' \in 0..MaxOffered
         /\ owner' \in [1..offered' -> Thread]
         /\ \A e \in 1..offered : owner'[e] = owner[e]
         /\ \A e \in (offered + 1)..offered' : owner'[e] = t
<1>1. /\ offered \in Nat /\ MaxOffered \in Nat /\ MaxShared \in Nat
      /\ MaxShared <= MaxOffered
  BY DispatchAssumption DEF DTypeOK
<1>2. offered + n <= MaxOffered
  BY <1>1 DEF Offer
<1>3. \A i \in 1..n : offered + i \in Event
  BY <1>1, <1>2 DEF Event
<1>4. Batch(n) \in Seq(Event) /\ Len(Batch(n)) = n /\ \A i \in 1..n : Batch(n)[i] = offered + i
  BY <1>3 DEF Batch
<1>5. offered' = offered + n /\ offered' \in 0..MaxOffered
  BY <1>1, <1>2 DEF Offer
<1>6. owner' = [e \in 1..(offered + n) |-> IF e <= offered THEN owner[e] ELSE t]
  BY DEF Offer
<1>7. \A e \in 1..offered : owner[e] \in Thread
  BY DEF DTypeOK
<1>8. owner' \in [1..offered' -> Thread]
  BY <1>1, <1>5, <1>6, <1>7
<1>9. /\ \A e \in 1..offered : owner'[e] = owner[e]
      /\ \A e \in (offered + 1)..offered' : owner'[e] = t
  BY <1>1, <1>5, <1>6
<1> QED BY <1>4, <1>5, <1>8, <1>9

\* A call that begins takes its batch in hand; the pool may shrink.
Begins(t, n) ==
  LET new == thread'[t] IN
  /\ Only(t) /\ n \in BatchSizes /\ Offer(t, n)
  /\ thread[t].pc = "idle" /\ new.pc = "scan"
  /\ new.batch = <<>> /\ new.events = Batch(n) /\ Len(new.events) = n
  /\ new.done = 0 /\ new.written = 0 /\ new.size = n /\ new.slot = thread[t].slot
  /\ new.read = 0 /\ new.room = 0
  /\ pool' \in Seq(Event \cup {0}) /\ Len(pool') <= Len(pool)
  /\ thread[t].batch = <<>> /\ thread[t].events = <<>> /\ thread[t].done = 0
  /\ thread[t].written = 0 /\ thread[t].size = 0 /\ thread[t].read = 0 /\ thread[t].room = 0

\* An idle caller has nothing in hand.
LEMMA IdleHasNothing ==
  ASSUME NEW t \in Thread, DTypeOK, CallersSound,
         thread[t].pc \notin {"scan", "batch", "single"}
  PROVE  /\ thread[t].batch = <<>> /\ thread[t].events = <<>> /\ thread[t].done = 0
         /\ thread[t].written = 0 /\ thread[t].size = 0
         /\ thread[t].pc # "consume" => thread[t].read = 0
         /\ thread[t].pc # "release" => thread[t].room = 0
<1> DEFINE th == thread[t]
           b == Len(th.batch)
           e == Len(th.events)
<1>1. th \in CallerType
  BY DEF DTypeOK
<1>2. /\ th.batch \in Seq(Event) /\ th.events \in Seq(Event)
      /\ th.done \in Nat /\ th.written \in Nat /\ th.size \in Nat
  BY <1>1, CallerFields
<1>3. b \in Nat /\ e \in Nat
  BY <1>2
<1>4. th.done + th.written + b + e <= th.size /\ th.size = 0
  BY DEF CallersSound
<1>5. b = 0 /\ e = 0 /\ th.done = 0 /\ th.written = 0
  <2> HIDE DEF b, e, th
  <2> QED BY <1>2, <1>3, <1>4
<1>6. th.batch = <<>> /\ th.events = <<>>
  BY <1>2, <1>5
<1> QED BY <1>4, <1>5, <1>6 DEF CallersSound

LEMMA BeginsDoes ==
  ASSUME NEW t \in Thread, DTypeOK, CallersSound, NEW n \in BatchSizes,
         Offer(t, n), thread[t].pc = "idle",
         pool' \in Seq(Event \cup {0}), Len(pool') <= Len(pool),
         thread' = [thread EXCEPT ![t] = StartDispatch(@, Batch(n))]
  PROVE  Begins(t, n)
<1> DEFINE th == thread[t]
           q == Batch(n)
           u == Unused
           new == [th EXCEPT !.pc = "scan", !.events = q, !.from = index, !.best = index,
                             !.least = u, !.size = n]
<1>1. th \in CallerType /\ index \in Slot /\ n \in Nat /\ u \in Nat
  <2>1. th \in CallerType /\ index \in Slot
    BY DEF DTypeOK
  <2>2. n \in Nat /\ SlotCap \in Nat
    BY DispatchAssumption
  <2> QED BY <2>1, <2>2 DEF Unused
<1>2. q \in Seq(Event) /\ Len(q) = n
  BY <1>1, NewBatch
<1>3. thread' = [thread EXCEPT ![t] = new]
  <2>1. StartDispatch(th, q) = new
    BY <1>2 DEF StartDispatch
  <2> HIDE DEF q
  <2>2. thread' = [thread EXCEPT ![t] = StartDispatch(th, q)]
    BY DEF q, DTypeOK
  <2> QED BY <2>1, <2>2
<1> HIDE DEF q, u
<1>4. new \in CallerType
  <2> HIDE DEF th
  <2> QED BY <1>1, <1>2 DEF CallerType
<1>5. /\ new.pc = "scan" /\ new.batch = th.batch /\ new.events = q /\ new.done = th.done
      /\ new.written = th.written /\ new.size = n /\ new.slot = th.slot /\ new.read = th.read
      /\ new.room = th.room
  <2> HIDE DEF th
  <2> QED BY <1>1 DEF CallerType
<1> HIDE DEF new
<1>6. Only(t) /\ thread'[t] = new
  BY <1>3, <1>4, ByOne
<1> QED BY <1>2, <1>5, <1>6, IdleHasNothing DEF Begins, q

LEMMA ProcessBatchDoes ==
  ASSUME NEW t \in Thread, DTypeOK, CallersSound, NEW n \in BatchSizes, ProcessBatch(t, n)
  PROVE  Begins(t, n) /\ kind = "hybrid"
<1> DEFINE q == Batch(n)
           made == CreateEvents(pool, q)
<1>1. n \in Nat /\ Offer(t, n) /\ pool \in Seq(Event \cup {0})
  BY DispatchAssumption DEF ProcessBatch, DTypeOK
<1>2. q \in Seq(Event)
  BY <1>1, NewBatch
<1>3. Processed(q) = q
  BY <1>2, ProcessedIsSame
<1>4. pool' = made.pool /\ thread' = [thread EXCEPT ![t] = StartDispatch(@, made.events)]
  BY <1>3 DEF ProcessBatch
<1>5. made.events = q /\ made.pool \in Seq(Event \cup {0}) /\ Len(made.pool) <= Len(pool)
  BY <1>1, <1>2, Created
<1> HIDE DEF made
<1>6. kind = "hybrid" /\ thread[t].pc = "idle"
  BY DEF ProcessBatch
<1> QED BY <1>1, <1>4, <1>5, <1>6, BeginsDoes

LEMMA DispatchBatchDoes ==
  ASSUME NEW t \in Thread, DTypeOK, CallersSound, NEW n \in BatchSizes, DispatchBatch(t, n)
  PROVE  Begins(t, n) /\ kind # "hybrid"
<1> DEFINE q == Batch(n)
           made == IF kind # "optimized" THEN CreateEvents(pool, q)
                   ELSE [events |-> q, pool |-> pool]
<1>1. n \in Nat /\ Offer(t, n) /\ pool \in Seq(Event \cup {0})
  BY DispatchAssumption DEF DispatchBatch, DTypeOK
<1>2. q \in Seq(Event)
  BY <1>1, NewBatch
<1>4. pool' = made.pool /\ thread' = [thread EXCEPT ![t] = StartDispatch(@, made.events)]
  BY DEF DispatchBatch
<1>5. made.events = q /\ made.pool \in Seq(Event \cup {0}) /\ Len(made.pool) <= Len(pool)
  <2>1. CASE kind # "optimized"
    <3> HIDE DEF q
    <3> QED BY <2>1, <1>1, <1>2, Created
  <2>2. CASE kind = "optimized"
    <3>1. made = [events |-> q, pool |-> pool]
      BY <2>2
    <3>2. Len(pool) <= Len(pool)
      BY <1>1
    <3> HIDE DEF q, made
    <3> QED BY <3>1, <3>2, <1>1
  <2> QED BY <2>1, <2>2
<1> HIDE DEF made
<1>6. kind # "hybrid" /\ thread[t].pc = "idle"
  BY DEF DispatchBatch
<1> QED BY <1>1, <1>4, <1>5, <1>6, BeginsDoes

\* The bypass hands the new events to the handler in their order; what the stack
\* buffer held before is not among them.
LEMMA BypassDoes ==
  ASSUME NEW t \in Thread, DTypeOK, NEW n \in BatchSizes, process_bypass_mode(t, n)
  PROVE  /\ n \in Nat /\ Offer(t, n) /\ kind = "hybrid"
         /\ handled' = handled \o Batch(n) /\ hybrid' \in
              [stack : [1..BypassMax -> Event \cup {0}], batches : Nat, operations : Nat,
               simd : Nat, full : Nat, fallback : Nat]
<1> DEFINE q == Batch(n)
           stack == process_small_batch(hybrid.stack, q)
<1>1. n \in Nat /\ Offer(t, n) /\ kind = "hybrid" /\ n <= BypassMax /\ BypassMax \in Nat
  BY DispatchAssumption DEF process_bypass_mode, should_bypass_async
<1>2. q \in Seq(Event) /\ Len(q) = n
  BY <1>1, NewBatch
<1>3. hybrid.stack \in [1..BypassMax -> Event \cup {0}]
  BY DEF DTypeOK
<1>4. /\ handled' = handled \o SubSeq(stack, 1, n)
      /\ hybrid' = update_stats([hybrid EXCEPT !.stack = stack], "SIMDOnly", n)
  BY DEF process_bypass_mode
<1> HIDE DEF q
<1>5. stack \in [1..BypassMax -> Event \cup {0}] /\ \A i \in 1..n : stack[i] = q[i]
  BY <1>1, <1>2, <1>3 DEF process_small_batch
<1> HIDE DEF stack
<1>6. SubSeq(stack, 1, n) = q
  <2>1. stack \in Seq(Event \cup {0}) /\ Len(stack) = BypassMax
    BY <1>1, <1>5
  <2> DEFINE w == SubSeq(stack, 1, n)
  <2>2. w \in Seq(Event \cup {0}) /\ Len(w) = n /\ \A i \in 1..n : w[i] = stack[i]
    BY <2>1, <1>1
  <2> HIDE DEF w
  <2>3. w = q
    BY <2>2, <1>2, <1>5
  <2> QED BY <2>3 DEF w
<1>7. hybrid' \in [stack : [1..BypassMax -> Event \cup {0}], batches : Nat, operations : Nat,
                   simd : Nat, full : Nat, fallback : Nat]
  <2> DEFINE F == [1..BypassMax -> Event \cup {0}]
             b == hybrid.batches + 1
             o == hybrid.operations + n
             m == hybrid.simd + 1
  <2>1. /\ hybrid \in [stack : F, batches : Nat, operations : Nat,
                       simd : Nat, full : Nat, fallback : Nat]
        /\ stack \in F
    BY <1>5 DEF DTypeOK
  <2>2. hybrid' = [hybrid EXCEPT !.stack = stack, !.batches = b, !.operations = o, !.simd = m]
    BY <1>4, <2>1 DEF update_stats
  <2> HIDE DEF F
  <2>3. b \in Nat /\ o \in Nat /\ m \in Nat
    BY <2>1, <1>1
  <2> HIDE DEF b, o, m
  <2>4. hybrid' \in [stack : F, batches : Nat, operations : Nat,
                       simd : Nat, full : Nat, fallback : Nat]
    BY <2>1, <2>2, <2>3
  <2> QED BY <2>4 DEF F
<1> QED BY <1>1, <1>4, <1>6, <1>7 DEF q

\* The caller has nothing in hand and nothing to count.
Empty(th) ==
  /\ th.batch = <<>> /\ th.events = <<>> /\ th.done = 0 /\ th.written = 0
  /\ th.size = 0 /\ th.read = 0 /\ th.room = 0

LEMMA IdleEmpty == Idle.pc = "idle" /\ Empty(Idle)
BY DEF Idle, Empty

LEMMA Consumer ==
  ASSUME NEW n \in Nat
  PROVE  LET c == [Idle EXCEPT !.pc = "consume", !.take = n] IN
         c \in CallerType /\ Empty(c) /\ c.pc = "consume"
<1> DEFINE i == Idle
           c == [i EXCEPT !.pc = "consume", !.take = n]
<1>1. i \in CallerType /\ Empty(i)
  BY IdleType, IdleEmpty
<1> HIDE DEF i
<1>2. c \in CallerType
  BY <1>1 DEF CallerType
<1>3. Empty(c) /\ c.pc = "consume"
  BY <1>1 DEF Empty, CallerType
<1> QED BY <1>2, <1>3 DEF i

LEMMA AccountDoes ==
  ASSUME NEW t \in Thread, DTypeOK, Account(t)
  PROVE  LET th == thread[t]
             new == thread'[t]
         IN /\ Only(t) /\ th.pc \in {"batch", "single"} /\ new.pc \in {"idle", "consume"}
            /\ th.batch = <<>> /\ th.events = <<>> /\ th.written = 0 /\ Empty(new)
            /\ totals' = [dispatched |-> totals.dispatched + th.done,
                          rejected |-> totals.rejected + (th.size - th.done)]
            /\ index' \in Slot
<1> DEFINE th == thread[t]
           d == th.done
           c == [Idle EXCEPT !.pc = "consume", !.take = d \div 2]
<1>1. th \in CallerType /\ th.best \in Slot /\ d \in Nat
  BY CallerFields DEF DTypeOK
<1>2. index' \in Slot
  BY <1>1, SlotModulo DEF Account
<1>3. thread' = [thread EXCEPT ![t] = c] \/ thread' = [thread EXCEPT ![t] = Idle]
  BY DEF Account, Recycle
<1> HIDE DEF d
<1>4. c \in CallerType /\ Empty(c) /\ c.pc = "consume"
  <2>1. d \div 2 \in Nat
    BY <1>1
  <2> QED BY <2>1, Consumer
<1> HIDE DEF c
<1>5. Only(t) /\ Empty(thread'[t]) /\ thread'[t].pc \in {"idle", "consume"}
  BY <1>3, <1>4, IdleType, IdleEmpty, ByOne
<1> QED BY <1>2, <1>5 DEF Account, Written, Counted

LEMMA StartConsumeDoes ==
  ASSUME NEW t \in Thread, DTypeOK, CallersSound, NEW n \in TakeSizes, StartConsume(t, n)
  PROVE  /\ Only(t) /\ thread[t].pc = "idle" /\ thread'[t].pc = "consume"
         /\ Empty(thread[t]) /\ Empty(thread'[t])
<1>1. n \in Nat /\ thread[t].pc = "idle"
  BY DispatchAssumption DEF StartConsume
<1>2. Empty(thread[t])
  BY <1>1, IdleHasNothing DEF Empty
<1> DEFINE c == [Idle EXCEPT !.pc = "consume", !.take = n]
<1>3. c \in CallerType /\ Empty(c) /\ c.pc = "consume"
  BY <1>1, Consumer
<1>4. thread' = [thread EXCEPT ![t] = c]
  BY DEF StartConsume
<1> HIDE DEF c
<1> QED BY <1>1, <1>2, <1>3, <1>4, ByOne

LEMMA BatchReadDoes ==
  ASSUME NEW t \in Thread, DTypeOK, CallersSound, batch_read(t)
  PROVE  LET th == thread[t]
             new == thread'[t]
         IN /\ th.pc = "consume" /\ Only(t) /\ th.slot \in Slot
            /\ new.batch = <<>> /\ new.events = <<>> /\ new.done = 0 /\ new.written = 0
            /\ new.size = 0 /\ new.room = 0 /\ th.room = 0
            /\ \/ /\ new.pc = "consume" /\ new.slot = th.slot /\ new.read = th.read + 1
                  /\ slots[th.slot] # <<>> /\ rings' = rings
                  /\ slots' = [slots EXCEPT ![th.slot] = Tail(@)]
                  /\ consumed' = Append(consumed, <<slots[th.slot][1], th.slot>>)
               \/ /\ new.pc \in {"consume", "measure", "idle"} /\ new.read = 0
                  /\ rings' = [rings EXCEPT ![th.slot].reads = @ + th.read]
                  /\ slots' = slots /\ consumed' = consumed
<1> DEFINE th == thread[t]
           s == th.slot
           q == slots[s]
<1>1. th \in CallerType
  BY DEF DTypeOK
<1>2. s \in Slot /\ th.got \in Seq(Event) /\ th.read \in Nat
  BY <1>1, CallerFields
<1>3. th.pc = "consume"
  BY DEF batch_read
<1>4. /\ th.batch = <<>> /\ th.events = <<>> /\ th.done = 0 /\ th.written = 0 /\ th.size = 0
      /\ th.room = 0
  BY <1>3, IdleHasNothing
<1>5. q \in Seq(Event)
  BY <1>2 DEF DTypeOK
<1>6. CASE /\ q # <<>> /\ slots' = [slots EXCEPT ![s] = Tail(@)]
           /\ consumed' = Append(consumed, <<Head(q), s>>)
           /\ thread' = [thread EXCEPT ![t].read = @ + 1, ![t].got = Append(@, Head(q))]
           /\ UNCHANGED rings
  <2> DEFINE r == th.read + 1
             g == Append(th.got, Head(q))
             new == [th EXCEPT !.read = r, !.got = g]
  <2>1. thread' = [thread EXCEPT ![t] = new]
    BY <1>6, <1>1 DEF DTypeOK
  <2>2. r \in Nat /\ Head(q) = q[1] /\ q[1] \in Event
    <3> HIDE DEF q
    <3> QED BY <1>2, <1>5, <1>6
  <2>3. g \in Seq(Event)
    <3> DEFINE h == Head(q)
    <3>1. h \in Event
      BY <2>2
    <3> HIDE DEF h
    <3> QED BY <3>1, <1>2 DEF h
  <2>4. new \in CallerType
    <3> HIDE DEF th, r, g
    <3> QED BY <1>1, <2>2, <2>3 DEF CallerType
  <2>5. /\ new.pc = th.pc /\ new.batch = th.batch /\ new.events = th.events
        /\ new.done = th.done /\ new.written = th.written /\ new.size = th.size
        /\ new.slot = th.slot /\ new.read = r /\ new.room = th.room
    <3> HIDE DEF th, r, g
    <3> QED BY <1>1 DEF CallerType
  <2> HIDE DEF new
  <2>6. Only(t) /\ thread'[t] = new
    BY <2>1, <2>4, ByOne
  <2> QED BY <1>2, <1>3, <1>4, <1>6, <2>2, <2>5, <2>6
<1>7. CASE /\ rings' = [rings EXCEPT ![s].reads = @ + th.read]
           /\ thread' = [thread EXCEPT ![t] =
                CASE s < SlotCount - 1 -> [th EXCEPT !.slot = @ + 1, !.read = 0]
                  [] s = SlotCount - 1 /\ th.got # <<>> /\ kind # "optimized" ->
                       [Idle EXCEPT !.pc = "measure", !.got = th.got]
                  [] OTHER -> Idle]
           /\ UNCHANGED <<slots, consumed>>
  <2> DEFINE k == s + 1
             o == 0
             g == th.got
             i == Idle
             a == [th EXCEPT !.slot = k, !.read = o]
             b == [i EXCEPT !.pc = "measure", !.got = g]
  <2>1. \/ s < SlotCount - 1 /\ thread' = [thread EXCEPT ![t] = a]
        \/ thread' = [thread EXCEPT ![t] = b]
        \/ thread' = [thread EXCEPT ![t] = Idle]
    <3> DEFINE m == s = SlotCount - 1 /\ g # <<>> /\ kind # "optimized"
               v == CASE s < SlotCount - 1 -> a [] m -> b [] OTHER -> Idle
    <3>1. thread' = [thread EXCEPT ![t] = v]
      BY <1>7
    <3> HIDE DEF s, a, b, m
    <3>2. (s < SlotCount - 1 /\ v = a) \/ v = b \/ v = Idle
      OBVIOUS
    <3> QED BY <3>1, <3>2
  <2>2. i \in CallerType /\ Empty(i) /\ o \in Nat
    BY IdleType, IdleEmpty
  <2> HIDE DEF g, i
  <2>3. b \in CallerType /\ Empty(b) /\ b.pc = "measure"
    BY <2>2, <1>2 DEF CallerType, Empty, g
  <2>4. ASSUME s < SlotCount - 1 PROVE a \in CallerType
    <3>1. k \in Slot
      <4>1. SlotCount \in Nat
        BY DispatchAssumption
      <4> HIDE DEF s
      <4> QED BY <4>1, <2>4, <1>2 DEF Slot
    <3> HIDE DEF th, k, o
    <3> QED BY <3>1, <2>2, <1>1 DEF CallerType
  <2>5. /\ a.pc = th.pc /\ a.batch = th.batch /\ a.events = th.events
        /\ a.done = th.done /\ a.written = th.written /\ a.size = th.size
        /\ a.read = o /\ a.room = th.room
    <3> HIDE DEF th, k, o
    <3> QED BY <1>1 DEF CallerType
  <2> HIDE DEF a, b
  <2>6. CASE s < SlotCount - 1 /\ thread' = [thread EXCEPT ![t] = a]
    <3>1. Only(t) /\ thread'[t] = a
      BY <2>4, <2>6, ByOne
    <3> QED BY <3>1, <2>5, <1>2, <1>3, <1>4, <1>7
  <2>7. CASE thread' = [thread EXCEPT ![t] = b]
    <3>1. Only(t) /\ thread'[t] = b
      BY <2>3, <2>7, ByOne
    <3> QED BY <3>1, <2>3, <1>2, <1>3, <1>4, <1>7 DEF Empty
  <2>8. CASE thread' = [thread EXCEPT ![t] = Idle]
    <3>1. Only(t) /\ thread'[t] = Idle
      BY <2>8, ByOne, IdleType
    <3> QED BY <3>1, <1>2, <1>3, <1>4, <1>7, IdleEmpty DEF Empty
  <2> QED BY <2>1, <2>6, <2>7, <2>8
<1> QED BY <1>6, <1>7 DEF batch_read

LEMMA MeasurePoolDoes ==
  ASSUME NEW t \in Thread, DTypeOK, CallersSound, MeasurePool(t)
  PROVE  LET th == thread[t]
             new == thread'[t]
         IN /\ Only(t) /\ th.pc = "measure" /\ new.pc = "release" /\ Empty(th)
            /\ new.batch = <<>> /\ new.events = <<>> /\ new.done = 0 /\ new.written = 0
            /\ new.size = 0 /\ new.read = 0
            /\ new.room = IF Len(pool) < PoolMax THEN PoolMax - Len(pool) ELSE 0
<1> DEFINE th == thread[t]
           n == Len(pool)
           r == IF n < PoolMax THEN PoolMax - n ELSE 0
           new == [th EXCEPT !.pc = "release", !.room = r]
<1>1. th \in CallerType /\ thread' = [thread EXCEPT ![t] = new] /\ th.pc = "measure"
  BY DEF DTypeOK, MeasurePool
<1>2. r \in Nat
  <2>1. n \in Nat /\ PoolMax \in Nat
    BY DispatchAssumption DEF DTypeOK
  <2> HIDE DEF n
  <2> QED BY <2>1
<1>3. Empty(th)
  BY <1>1, IdleHasNothing DEF Empty
<1>4. new \in CallerType
  <2> HIDE DEF th, r
  <2> QED BY <1>1, <1>2 DEF CallerType
<1>5. /\ new.pc = "release" /\ new.batch = th.batch /\ new.events = th.events
      /\ new.done = th.done /\ new.written = th.written /\ new.size = th.size
      /\ new.read = th.read /\ new.room = r
  <2> HIDE DEF th, r
  <2> QED BY <1>1 DEF CallerType
<1> HIDE DEF new
<1>6. Only(t) /\ thread'[t] = new
  BY <1>1, <1>4, ByOne
<1> QED BY <1>1, <1>3, <1>5, <1>6 DEF Empty

LEMMA BatchReleaseDoes ==
  ASSUME NEW t \in Thread, DTypeOK, CallersSound, batch_release(t)
  PROVE  /\ Only(t) /\ thread[t].pc = "release" /\ thread'[t].pc = "idle" /\ Empty(thread'[t])
         /\ thread[t].batch = <<>> /\ thread[t].events = <<>> /\ thread[t].done = 0
         /\ thread[t].written = 0 /\ thread[t].size = 0 /\ thread[t].read = 0
         /\ pool' \in Seq(Event \cup {0}) /\ Len(pool') <= Len(pool) + thread[t].room
<1> DEFINE th == thread[t]
           k == Keep(th.got, th.room)
<1>1. th \in CallerType /\ th.pc = "release" /\ thread' = [thread EXCEPT ![t] = Idle]
  BY DEF DTypeOK, batch_release
<1>2. pool' = pool \o k /\ th.got \in Seq(Event) /\ th.room \in Nat
  BY <1>1, CallerFields DEF batch_release
<1>3. k \in Seq(Event) /\ Len(k) <= th.room
  <2> DEFINE n == Len(th.got)
             m == th.room
  <2>1. n \in Nat /\ m \in Nat
    BY <1>2
  <2>2. k \in Seq(Event) /\ Len(k) = Smaller(m, n)
    BY <1>2, Cut
  <2> HIDE DEF n, k, m
  <2>3. Len(k) <= m
    BY <2>1, <2>2 DEF Smaller
  <2> QED BY <2>2, <2>3 DEF m
<1> HIDE DEF k
<1>4. pool \in Seq(Event \cup {0}) /\ k \in Seq(Event \cup {0})
  BY <1>3 DEF DTypeOK
<1>5. pool \o k \in Seq(Event \cup {0}) /\ Len(pool \o k) = Len(pool) + Len(k)
  BY <1>4, Joining
<1>6. Len(pool \o k) <= Len(pool) + th.room
  <2> DEFINE a == Len(pool)
             b == Len(k)
             c == th.room
  <2>1. a \in Nat /\ b \in Nat /\ c \in Nat /\ b <= c
    BY <1>2, <1>3, <1>4
  <2> HIDE DEF a, b, c
  <2>2. a + b <= a + c
    BY <2>1
  <2> QED BY <2>2, <1>5 DEF a, b, c
<1>7. Only(t) /\ thread'[t] = Idle
  BY <1>1, IdleType, ByOne
<1> QED BY <1>1, <1>2, <1>5, <1>6, <1>7, IdleEmpty, IdleHasNothing

(***************************************************************************)
(* Types.                                                                  *)
(***************************************************************************)
StepOf(t) ==
  \/ \E n \in BatchSizes :
       process_bypass_mode(t, n) \/ ProcessBatch(t, n) \/ DispatchBatch(t, n)
  \/ \E n \in TakeSizes : StartConsume(t, n)
  \/ Work(t)

LEMMA SlotWithOneMore ==
  ASSUME DTypeOK, NEW s \in Slot, NEW e \in Event, Len(slots[s]) < SlotCap,
         slots' = [slots EXCEPT ![s] = Append(@, e)]
  PROVE  /\ slots' \in [Slot -> Seq(Event)] /\ \A r \in Slot : Len(slots'[r]) <= SlotCap
         /\ Len(slots'[s]) = Len(slots[s]) + 1
<1> DEFINE q == slots[s]
           q2 == Append(q, e)
<1>1. q \in Seq(Event) /\ SlotCap \in Nat
  BY DispatchAssumption DEF DTypeOK
<1>2. q2 \in Seq(Event) /\ Len(q2) = Len(q) + 1 /\ Len(q) \in Nat
  <2> HIDE DEF q
  <2> QED BY <1>1
<1>3. Len(q2) <= SlotCap
  BY <1>1, <1>2
<1>4. slots' = [slots EXCEPT ![s] = q2]
  OBVIOUS
<1> HIDE DEF q2
<1>5. slots' \in [Slot -> Seq(Event)] /\ slots'[s] = q2 /\ \A r \in Slot \ {s} : slots'[r] = slots[r]
  BY <1>2, <1>4 DEF DTypeOK
<1> QED BY <1>2, <1>3, <1>5 DEF DTypeOK

LEMMA SlotWithOneLess ==
  ASSUME DTypeOK, NEW s \in Slot, slots[s] # <<>>,
         slots' = [slots EXCEPT ![s] = Tail(@)]
  PROVE  /\ slots' \in [Slot -> Seq(Event)] /\ \A r \in Slot : Len(slots'[r]) <= SlotCap
         /\ Len(slots'[s]) = Len(slots[s]) - 1 /\ slots[s][1] \in Event
<1> DEFINE q == slots[s]
           q2 == Tail(q)
<1>1. q \in Seq(Event) /\ SlotCap \in Nat /\ Len(q) <= SlotCap
  BY DispatchAssumption DEF DTypeOK
<1>2. q2 \in Seq(Event) /\ Len(q2) = Len(q) - 1 /\ Len(q) \in Nat /\ q[1] \in Event
  <2> HIDE DEF q
  <2>1. q # <<>>
    BY DEF q
  <2> QED BY <1>1, <2>1
<1>3. Len(q2) <= SlotCap
  BY <1>1, <1>2
<1>4. slots' = [slots EXCEPT ![s] = q2]
  OBVIOUS
<1> HIDE DEF q2
<1>5. slots' \in [Slot -> Seq(Event)] /\ slots'[s] = q2 /\ \A r \in Slot \ {s} : slots'[r] = slots[r]
  BY <1>2, <1>4 DEF DTypeOK
<1> QED BY <1>2, <1>3, <1>5 DEF DTypeOK

\* A counter of a ring that grows is still a counter.
LEMMA RingTypes ==
  ASSUME DTypeOK, NEW s \in Slot, NEW n \in Nat
  PROVE  /\ [rings EXCEPT ![s].writes = @ + n, ![s].written = @ + n]
              \in [Slot -> [writes : Nat, reads : Nat, written : Nat]]
         /\ [rings EXCEPT ![s].reads = @ + n]
              \in [Slot -> [writes : Nat, reads : Nat, written : Nat]]
<1> DEFINE r == rings[s]
           a == r.writes + n
           b == r.written + n
           c == r.reads + n
           x == [r EXCEPT !.writes = a, !.written = b]
           y == [r EXCEPT !.reads = c]
<1>1. r \in [writes : Nat, reads : Nat, written : Nat]
  BY DEF DTypeOK
<1>2. a \in Nat /\ b \in Nat /\ c \in Nat
  <2> HIDE DEF r
  <2> QED BY <1>1
<1>3. /\ x \in [writes : Nat, reads : Nat, written : Nat]
      /\ y \in [writes : Nat, reads : Nat, written : Nat]
  <2> HIDE DEF r, a, b, c
  <2> QED BY <1>1, <1>2
<1>4. /\ [rings EXCEPT ![s].writes = @ + n, ![s].written = @ + n] = [rings EXCEPT ![s] = x]
      /\ [rings EXCEPT ![s].reads = @ + n] = [rings EXCEPT ![s] = y]
  BY DEF DTypeOK
<1> HIDE DEF x, y
<1> QED BY <1>3, <1>4 DEF DTypeOK

LEMMA HybridTypes ==
  ASSUME NEW h \in [stack : [1..BypassMax -> Event \cup {0}], batches : Nat, operations : Nat,
                    simd : Nat, full : Nat, fallback : Nat], NEW n \in Nat, NEW strategy
  PROVE  /\ update_stats(h, strategy, n)
              \in [stack : [1..BypassMax -> Event \cup {0}], batches : Nat, operations : Nat,
                   simd : Nat, full : Nat, fallback : Nat]
         /\ [h EXCEPT !.fallback = @ + n]
              \in [stack : [1..BypassMax -> Event \cup {0}], batches : Nat, operations : Nat,
                   simd : Nat, full : Nat, fallback : Nat]
<1> DEFINE F == [1..BypassMax -> Event \cup {0}]
           a == h.batches + 1
           b == h.operations + n
           c == IF strategy = "SIMDOnly" THEN h.simd + 1 ELSE h.simd
           d == IF strategy = "FullHybrid" THEN h.full + 1 ELSE h.full
           e == h.fallback + n
<1> HIDE DEF F
<1>1. h \in [stack : F, batches : Nat, operations : Nat, simd : Nat, full : Nat, fallback : Nat]
  BY DEF F
<1>2. a \in Nat /\ b \in Nat /\ c \in Nat /\ d \in Nat /\ e \in Nat
  BY <1>1
<1>3. /\ update_stats(h, strategy, n)
           = [h EXCEPT !.batches = a, !.operations = b, !.simd = c, !.full = d]
      /\ [h EXCEPT !.fallback = @ + n] = [h EXCEPT !.fallback = e]
  BY DEF update_stats
<1> HIDE DEF a, b, c, d, e
<1>4. [h EXCEPT !.batches = a, !.operations = b, !.simd = c, !.full = d]
        \in [stack : F, batches : Nat, operations : Nat, simd : Nat, full : Nat, fallback : Nat]
  BY <1>1, <1>2
<1>5. [h EXCEPT !.fallback = e]
        \in [stack : F, batches : Nat, operations : Nat, simd : Nat, full : Nat, fallback : Nat]
  BY <1>1, <1>2
<1> QED BY <1>3, <1>4, <1>5 DEF F

LEMMA TypeStep ==
  ASSUME NEW t \in Thread, DTypeOK, CallersSound, StepOf(t)
  PROVE  DTypeOK'
<1>0. BatchSizes \subseteq Nat
  BY DispatchAssumption
<1>1. ASSUME NEW n \in BatchSizes, process_bypass_mode(t, n) PROVE DTypeOK'
  <2>1. /\ offered' \in 0..MaxOffered /\ owner' \in [1..offered' -> Thread]
        /\ Batch(n) \in Seq(Event)
    BY <1>0, <1>1, BypassDoes, NewBatch
  <2>2. handled' \in Seq(Event)
    <3>1. handled \in Seq(Event) /\ handled' = handled \o Batch(n)
      BY <1>1, BypassDoes DEF DTypeOK
    <3> QED BY <3>1, <2>1, Joining
  <2> QED BY <2>1, <2>2, <1>1, BypassDoes DEF DTypeOK, process_bypass_mode
<1>2. ASSUME NEW n \in BatchSizes, Begins(t, n),
             hybrid' = hybrid \/ \E z : hybrid' = update_stats(hybrid, z, n),
             UNCHANGED <<kind, slots, rings, index, totals, consumed, handled, rejected>>
      PROVE DTypeOK'
  <2>1. /\ offered' \in 0..MaxOffered /\ owner' \in [1..offered' -> Thread]
    BY <1>0, <1>2, NewBatch DEF Begins
  <2>2. hybrid' \in [stack : [1..BypassMax -> Event \cup {0}], batches : Nat, operations : Nat,
                      simd : Nat, full : Nat, fallback : Nat]
    <3>1. /\ hybrid \in [stack : [1..BypassMax -> Event \cup {0}], batches : Nat,
                          operations : Nat, simd : Nat, full : Nat, fallback : Nat]
          /\ n \in Nat
      BY <1>0 DEF DTypeOK
    <3>2. CASE hybrid' = hybrid
      BY <3>1, <3>2
    <3>3. ASSUME NEW z, hybrid' = update_stats(hybrid, z, n)
          PROVE  hybrid' \in [stack : [1..BypassMax -> Event \cup {0}], batches : Nat,
                              operations : Nat, simd : Nat, full : Nat, fallback : Nat]
      BY <3>1, <3>3, HybridTypes
    <3> QED BY <3>2, <3>3, <1>2
  <2> QED BY <2>1, <2>2, <1>2 DEF DTypeOK, Begins, Only
<1>3. ASSUME NEW n \in BatchSizes, ProcessBatch(t, n) PROVE DTypeOK'
  <2>1. hybrid' = update_stats(hybrid, choose_optimal_strategy(n), n)
    BY <1>3 DEF ProcessBatch
  <2> QED BY <2>1, <1>2, <1>3, ProcessBatchDoes DEF ProcessBatch
<1>4. ASSUME NEW n \in BatchSizes, DispatchBatch(t, n) PROVE DTypeOK'
  BY <1>2, <1>4, DispatchBatchDoes DEF DispatchBatch
<1>5. ASSUME Only(t), UNCHANGED <<kind, slots, rings, index, totals, pool, hybrid, offered,
                                  consumed, handled, rejected, owner>>
      PROVE DTypeOK'
  BY <1>5 DEF DTypeOK, Only
<1>6. ASSUME NEW n \in TakeSizes, StartConsume(t, n) PROVE DTypeOK'
  BY <1>5, <1>6, StartConsumeDoes DEF StartConsume
<1>7. CASE Utilization(t)
  BY <1>5, <1>7, UtilizationDoes DEF Utilization
<1>8. CASE PlanBatch(t)
  BY <1>5, <1>8, PlanBatchDoes DEF PlanBatch
<1>9. CASE MeasurePool(t)
  BY <1>5, <1>9, MeasurePoolDoes DEF MeasurePool
<1>f. /\ thread[t] \in CallerType /\ thread[t].at \in Slot /\ thread[t].written \in Nat
      /\ thread[t].batch \in Seq(Event) /\ thread[t].read \in Nat /\ thread[t].slot \in Slot
      /\ thread[t].done \in Nat /\ thread[t].size \in Nat
      /\ thread[t].done + thread[t].written + Len(thread[t].batch) + Len(thread[t].events)
           <= thread[t].size
  BY CallerFields DEF DTypeOK, CallersSound
<1>g. ToSet(thread[t].batch) \subseteq Event
  BY <1>f DEF ToSet
<1>h. rings \in [Slot -> [writes : Nat, reads : Nat, written : Nat]] /\ 1 \in Nat
  BY DEF DTypeOK
<1>a. CASE batch_write(t)
  <2>1. CASE Pushes(t) /\ rings' = rings /\ rejected' = rejected
    <3>1. slots' \in [Slot -> Seq(Event)] /\ \A s \in Slot : Len(slots'[s]) <= SlotCap
      BY <2>1, <1>f, SlotWithOneMore DEF Pushes
    <3> QED BY <3>1, <2>1, <1>a DEF DTypeOK, Pushes, Only, batch_write
  <2>2. CASE /\ Only(t) /\ slots' = slots
             /\ rejected' = rejected \cup ToSet(thread[t].batch)
             /\ rings' = [rings EXCEPT ![thread[t].at].writes = @ + thread[t].written,
                                       ![thread[t].at].written = @ + thread[t].written]
    <3>1. rings' \in [Slot -> [writes : Nat, reads : Nat, written : Nat]]
      BY <2>2, <1>f, RingTypes
    <3> QED BY <3>1, <2>2, <1>a, <1>g DEF DTypeOK, Only, batch_write
  <2> QED BY <2>1, <2>2, <1>a, BatchWriteDoes
<1>b. CASE try_write_event(t)
  <2>1. CASE /\ Pushes(t) /\ rejected' = rejected
             /\ rings' = [rings EXCEPT ![thread[t].at].writes = @ + 1,
                                       ![thread[t].at].written = @ + 1]
    <3>1. slots' \in [Slot -> Seq(Event)] /\ \A s \in Slot : Len(slots'[s]) <= SlotCap
      BY <2>1, <1>f, SlotWithOneMore DEF Pushes
    <3>2. rings' \in [Slot -> [writes : Nat, reads : Nat, written : Nat]]
      BY <2>1, <1>f, <1>h, RingTypes
    <3> QED BY <3>1, <3>2, <2>1, <1>b DEF DTypeOK, Pushes, Only, try_write_event
  <2>2. CASE /\ Only(t) /\ slots' = slots /\ rings' = rings
             /\ rejected' \subseteq rejected \cup ToSet(thread[t].batch)
    BY <2>2, <1>b, <1>g DEF DTypeOK, Only, try_write_event
  <2> QED BY <2>1, <2>2, <1>b, TryWriteDoes
<1>c. CASE Account(t)
  <2>1. totals' \in [dispatched : Nat, rejected : Nat] /\ index' \in Slot /\ Only(t)
    <3> DEFINE x == totals.dispatched + thread[t].done
               y == totals.rejected + (thread[t].size - thread[t].done)
    <3>0. thread[t].batch = <<>> /\ thread[t].events = <<>> /\ thread[t].written = 0
      BY <1>c, AccountDoes
    <3>1. x \in Nat /\ y \in Nat
      <4>1. totals.dispatched \in Nat /\ totals.rejected \in Nat
        BY DEF DTypeOK
      <4>2. thread[t].done <= thread[t].size
        BY <1>f, <3>0
      <4> DEFINE a == totals.dispatched
                 b == totals.rejected
                 c == thread[t].done
                 d == thread[t].size
      <4>3. a \in Nat /\ b \in Nat /\ c \in Nat /\ d \in Nat /\ c <= d
        BY <4>1, <4>2, <1>f
      <4> HIDE DEF a, b, c, d
      <4>4. a + c \in Nat /\ b + (d - c) \in Nat
        BY <4>3
      <4> QED BY <4>4 DEF a, b, c, d
    <3>2. totals' = [dispatched |-> x, rejected |-> y] /\ index' \in Slot /\ Only(t)
      BY <1>c, AccountDoes
    <3> HIDE DEF x, y
    <3> QED BY <3>1, <3>2
  <2>2. hybrid' \in [stack : [1..BypassMax -> Event \cup {0}], batches : Nat, operations : Nat,
                      simd : Nat, full : Nat, fallback : Nat]
    BY <1>c, <1>f, HybridTypes DEF Account, DTypeOK
  <2> QED BY <2>1, <2>2, <1>c DEF DTypeOK, Only, Account
<1>d. CASE batch_read(t)
  <2>1. CASE /\ Only(t) /\ slots[thread[t].slot] # <<>> /\ rings' = rings
             /\ slots' = [slots EXCEPT ![thread[t].slot] = Tail(@)]
             /\ consumed' = Append(consumed, <<slots[thread[t].slot][1], thread[t].slot>>)
    <3> DEFINE s == thread[t].slot
               c == <<slots[s][1], s>>
    <3>1. /\ slots' \in [Slot -> Seq(Event)] /\ \A r \in Slot : Len(slots'[r]) <= SlotCap
          /\ slots[s][1] \in Event
      BY <2>1, <1>f, SlotWithOneLess
    <3>2. c \in Event \X Slot /\ consumed \in Seq(Event \X Slot) /\ consumed' = Append(consumed, c)
      BY <3>1, <2>1, <1>f DEF DTypeOK
    <3> HIDE DEF c
    <3>3. consumed' \in Seq(Event \X Slot)
      BY <3>2
    <3> QED BY <3>1, <3>3, <2>1, <1>d DEF DTypeOK, Only, batch_read
  <2>2. CASE /\ Only(t) /\ slots' = slots /\ consumed' = consumed
             /\ rings' = [rings EXCEPT ![thread[t].slot].reads = @ + thread[t].read]
    <3>1. rings' \in [Slot -> [writes : Nat, reads : Nat, written : Nat]]
      BY <2>2, <1>f, RingTypes
    <3> QED BY <3>1, <2>2, <1>d DEF DTypeOK, Only, batch_read
  <2> QED BY <2>1, <2>2, <1>d, BatchReadDoes
<1>e. CASE batch_release(t)
  BY <1>e, BatchReleaseDoes DEF DTypeOK, Only, batch_release
<1> QED BY <1>1, <1>3, <1>4, <1>6, <1>7, <1>8, <1>9, <1>a, <1>b, <1>c, <1>d, <1>e DEF StepOf, Work

(***************************************************************************)
(* The callers' own books.                                                 *)
(***************************************************************************)
CallerSound(th) ==
  /\ th.done + th.written + Len(th.batch) + Len(th.events) <= th.size
  /\ th.pc \notin {"scan", "batch", "single"} => th.size = 0
  /\ th.pc = "scan" => /\ th.batch = <<>> /\ th.done = 0 /\ th.written = 0
                       /\ Len(th.events) = th.size
  /\ th.pc # "batch" => th.written = 0
  /\ th.pc = "single" => th.events = <<>>
  /\ th.pc # "consume" => th.read = 0
  /\ th.pc # "release" => th.room = 0

LEMMA SoundStep ==
  ASSUME NEW t \in Thread, DTypeOK, CallersSound, StepOf(t)
  PROVE  CallersSound'
<1> USE DEF CallerSound
<1>0. CallersSound <=> \A u \in Thread : CallerSound(thread[u])
  BY DEF CallersSound
<1>1. CallersSound' <=> \A u \in Thread : CallerSound(thread'[u])
  BY DEF CallersSound
<1>2. ASSUME Only(t), CallerSound(thread'[t]) PROVE CallersSound'
  <2> HIDE DEF CallerSound
  <2> QED BY <1>0, <1>1, <1>2 DEF Only
<1> DEFINE th == thread[t]
           new == thread'[t]
           nb == Len(th.batch)
           ne == Len(th.events)
<1>3. /\ th.batch \in Seq(Event) /\ th.events \in Seq(Event) /\ th.done \in Nat
      /\ th.written \in Nat /\ th.size \in Nat /\ nb \in Nat /\ ne \in Nat
  <2>1. th \in CallerType
    BY DEF DTypeOK
  <2>2. /\ th.batch \in Seq(Event) /\ th.events \in Seq(Event) /\ th.done \in Nat
        /\ th.written \in Nat /\ th.size \in Nat
    BY <2>1, CallerFields
  <2> QED BY <2>2
<1>4. CallerSound(th)
  BY <1>0
<1>5. Len(<<>>) = 0
  OBVIOUS
<1>6. ASSUME NEW n \in BatchSizes, process_bypass_mode(t, n) PROVE CallersSound'
  BY <1>6, <1>0, <1>1 DEF process_bypass_mode
<1>7. ASSUME NEW n \in BatchSizes, Begins(t, n) PROVE CallersSound'
  <2>1. n \in Nat
    BY DispatchAssumption
  <2>2. CallerSound(new)
    BY <2>1, <1>7, <1>5 DEF Begins
  <2> QED BY <2>2, <1>2, <1>7 DEF Begins
<1>8. ASSUME NEW n \in TakeSizes, StartConsume(t, n) PROVE CallersSound'
  BY <1>2, <1>5, <1>8, StartConsumeDoes DEF Empty
<1>9. CASE Utilization(t)
  BY <1>2, <1>4, <1>9, UtilizationDoes DEF Alike
<1>a. CASE PlanBatch(t)
  <2>1. CallerSound(new)
    <3> DEFINE x == Len(new.batch)
               y == Len(new.events)
    <3>1. /\ new.done = 0 /\ new.written = 0 /\ x + y = nb + ne
          /\ new.size = th.size /\ th.pc = "scan" /\ new.read = th.read /\ new.room = th.room
          /\ new.pc \in {"batch", "single"} /\ (new.pc = "single" => new.events = <<>>)
          /\ th.batch = <<>>
      BY <1>4, <1>a, PlanBatchDoes
    <3>2. new \in CallerType
      BY <1>a, PlanBatchDoes DEF Only
    <3>3. new.batch \in Seq(Event) /\ new.events \in Seq(Event)
      BY <3>2, CallerFields
    <3>4. x \in Nat /\ y \in Nat
      BY <3>3
    <3>5. 0 + 0 + x + y <= th.size
      <4>1. nb = 0 /\ ne = th.size
        BY <1>4, <1>5, <3>1
      <4> HIDE DEF x, y, nb, ne
      <4> QED BY <4>1, <3>1, <3>4, <1>3
    <3> QED BY <1>4, <3>1, <3>5
  <2> QED BY <2>1, <1>2, <1>a, PlanBatchDoes
<1>b. CASE batch_write(t)
  <2>0. th.pc = "batch"
    BY <1>b, BatchWriteDoes
  <2>1. CASE Pushes(t)
    <3> DEFINE x == Len(new.batch)
    <3>1. /\ x + 1 = nb /\ new.events = th.events /\ new.done + new.written = th.done + th.written + 1
          /\ new.size = th.size /\ new.read = th.read /\ new.room = th.room /\ new.pc = th.pc
          /\ Only(t)
      BY <2>1 DEF Pushes
    <3>2. new \in CallerType
      BY <3>1 DEF Only
    <3>3. new.batch \in Seq(Event) /\ new.done \in Nat /\ new.written \in Nat
      BY <3>2, CallerFields
    <3>4. x \in Nat
      BY <3>3
    <3>5. new.done + new.written + x + ne <= th.size
      <4> DEFINE a == new.done
                 b == new.written
                 c == th.done
                 d == th.written
                 m == th.size
      <4>1. /\ a + b = c + d + 1 /\ c + d + nb + ne <= m /\ x + 1 = nb /\ x \in Nat /\ ne \in Nat
            /\ a \in Nat /\ b \in Nat /\ c \in Nat /\ d \in Nat /\ m \in Nat /\ nb \in Nat
        BY <3>1, <3>3, <3>4, <1>3, <1>4
      <4> HIDE DEF a, b, c, d, x, ne, m, nb
      <4>2. a + b + x + ne <= m
        BY <4>1
      <4> QED BY <4>2 DEF a, b, m
    <3> QED BY <2>0, <1>2, <1>4, <3>1, <3>5
  <2>2. CASE /\ Only(t) /\ new.pc = "batch"
             /\ Len(new.batch) + Len(new.events) = ne
             /\ new.done = th.done + th.written /\ new.written = 0
             /\ new.size = th.size /\ new.read = th.read /\ new.room = th.room
    <3> DEFINE x == Len(new.batch)
               y == Len(new.events)
    <3>2. new \in CallerType
      BY <2>2 DEF Only
    <3>3. new.batch \in Seq(Event) /\ new.events \in Seq(Event)
      BY <3>2, CallerFields
    <3>4. x \in Nat /\ y \in Nat
      BY <3>3
    <3>5. new.done + new.written + x + y <= th.size
      <4> DEFINE a == new.done
                 b == new.written
                 c == th.done
                 d == th.written
                 m == th.size
      <4>1. /\ a = c + d /\ b = 0 /\ c + d + nb + ne <= m /\ x + y = ne
            /\ x \in Nat /\ y \in Nat /\ ne \in Nat /\ c \in Nat /\ d \in Nat /\ m \in Nat
            /\ nb \in Nat
        BY <2>2, <3>3, <3>4, <1>3, <1>4
      <4> HIDE DEF a, b, c, d, x, y, ne, m, nb
      <4>2. a + b + x + y <= m
        BY <4>1
      <4> QED BY <4>2 DEF a, b, m
    <3> QED BY <2>0, <1>2, <1>4, <2>2, <3>5
  <2> QED BY <2>1, <2>2, <1>b, BatchWriteDoes
<1>c. CASE try_write_event(t)
  <2>0. th.pc = "single" /\ th.events = <<>> /\ th.written = 0
    BY <1>c, TryWriteDoes
  <2>1. CASE Pushes(t) /\ new.done = th.done + 1 /\ new.written = 0
    <3> DEFINE x == Len(new.batch)
    <3>1. /\ x + 1 = nb /\ new.events = th.events
          /\ new.size = th.size /\ new.read = th.read /\ new.room = th.room /\ new.pc = th.pc
          /\ Only(t)
      BY <2>1 DEF Pushes
    <3>2. new \in CallerType
      BY <3>1 DEF Only
    <3>3. new.batch \in Seq(Event)
      BY <3>2, CallerFields
    <3>4. x \in Nat
      BY <3>3
    <3>5. new.done + new.written + x + ne <= th.size
      <4> DEFINE c == th.done
                 m == th.size
      <4>1. /\ c + 0 + nb + ne <= m /\ x + 1 = nb /\ x \in Nat /\ ne \in Nat
            /\ c \in Nat /\ m \in Nat /\ nb \in Nat
        BY <2>0, <3>1, <3>4, <1>3, <1>4
      <4> HIDE DEF c, x, ne, m, nb
      <4>2. (c + 1) + 0 + x + ne <= m
        BY <4>1
      <4> QED BY <4>2, <2>1 DEF c, m
    <3> QED BY <2>0, <2>1, <1>2, <1>4, <3>1, <3>5
  <2>2. CASE /\ Only(t) /\ new.pc = "single" /\ new.events = <<>> /\ new.done = th.done
             /\ new.written = 0 /\ new.size = th.size /\ new.read = th.read
             /\ new.room = th.room /\ (new.batch = th.batch \/ new.batch = <<>>)
    <3>1. new.done + new.written + Len(new.batch) + Len(new.events) <= th.size
      <4> DEFINE c == th.done
                 m == th.size
      <4>1. /\ c + 0 + nb + ne <= m /\ ne = 0 /\ c \in Nat /\ m \in Nat /\ nb \in Nat
        BY <1>3, <1>4, <2>0
      <4>2. c + 0 + nb + 0 <= m /\ c + 0 + 0 + 0 <= m
        <5> HIDE DEF c, ne, m, nb
        <5> QED BY <4>1
      <4> QED BY <4>2, <2>2, <1>5
    <3> QED BY <2>0, <2>2, <3>1, <1>2, <1>4
  <2> QED BY <2>1, <2>2, <1>c, TryWriteDoes
<1>d. CASE Account(t)
  BY <1>2, <1>5, <1>d, AccountDoes DEF Empty
<1>e. CASE batch_read(t)
  <2>1. /\ Only(t) /\ new.pc \in {"consume", "measure", "idle"}
        /\ (new.pc # "consume" => new.read = 0) /\ new.room = 0
        /\ new.batch = <<>> /\ new.events = <<>> /\ new.done = 0 /\ new.written = 0
        /\ new.size = 0
    BY <1>e, BatchReadDoes
  <2>2. CallerSound(new)
    BY <2>1, <1>5
  <2> QED BY <2>1, <2>2, <1>2
<1>f. CASE MeasurePool(t)
  <2>1. /\ Only(t) /\ new.pc = "release" /\ new.batch = <<>> /\ new.events = <<>>
        /\ new.done = 0 /\ new.written = 0 /\ new.size = 0 /\ new.read = 0
    BY <1>f, MeasurePoolDoes
  <2>2. CallerSound(new)
    BY <2>1, <1>5
  <2> QED BY <2>1, <2>2, <1>2
<1>g. CASE batch_release(t)
  BY <1>2, <1>5, <1>g, BatchReleaseDoes DEF Empty
<1> QED BY <1>6, <1>7, <1>8, <1>9, <1>a, <1>b, <1>c, <1>d, <1>e, <1>f, <1>g,
           ProcessBatchDoes, DispatchBatchDoes DEF StepOf, Work

(***************************************************************************)
(* How events move.                                                        *)
(***************************************************************************)
Rearranged(t) ==
  /\ Line(t)' = Line(t)
  /\ UNCHANGED <<slots, consumed, handled, rejected, offered, owner>>
TakenInHand(t) ==
  \E n \in Nat :
    /\ Line(t) = <<>> /\ Line(t)' = Batch(n) /\ Offer(t, n)
    /\ UNCHANGED <<slots, consumed, handled, rejected>>
PutInSlot(t) ==
  \E s \in Slot :
    /\ Line(t) # <<>> /\ Line(t)' = Tail(Line(t))
    /\ slots' = [slots EXCEPT ![s] = Append(@, Line(t)[1])]
    /\ UNCHANGED <<consumed, handled, rejected, offered, owner>>
DroppedSome(t) ==
  \E p, q \in Seq(Event) :
    /\ Line(t) = p \o q /\ Line(t)' = q /\ rejected' = rejected \cup ToSet(p)
    /\ UNCHANGED <<slots, consumed, handled, offered, owner>>
Consumed(t) ==
  \E s \in Slot :
    /\ Line(t)' = Line(t) /\ slots[s] # <<>>
    /\ slots' = [slots EXCEPT ![s] = Tail(@)]
    /\ consumed' = Append(consumed, <<slots[s][1], s>>)
    /\ UNCHANGED <<handled, rejected, offered, owner>>
Bypassed(t) ==
  \E n \in Nat :
    /\ Line(t)' = Line(t) /\ Offer(t, n) /\ handled' = handled \o Batch(n)
    /\ UNCHANGED <<slots, consumed, rejected>>

LEMMA LineType ==
  ASSUME NEW t \in Thread, DTypeOK
  PROVE  Line(t) \in Seq(Event)
<1>1. thread[t] \in CallerType
  BY DEF DTypeOK
<1>2. thread[t].batch \in Seq(Event) /\ thread[t].events \in Seq(Event)
  BY <1>1, CallerFields
<1> QED BY <1>2, Joining DEF Line

\* Every step moves events in one of six ways, or not at all, and touches the
\* line of one caller.
LEMMA Moves ==
  ASSUME NEW t \in Thread, DTypeOK, CallersSound, StepOf(t)
  PROVE  /\ \A u \in Thread \ {t} : Line(u)' = Line(u)
         /\ \/ Rearranged(t) \/ TakenInHand(t) \/ PutInSlot(t)
            \/ DroppedSome(t) \/ Consumed(t) \/ Bypassed(t)
<1> DEFINE th == thread[t]
           new == thread'[t]
           Moved == Rearranged(t) \/ TakenInHand(t) \/ PutInSlot(t)
                      \/ DroppedSome(t) \/ Consumed(t) \/ Bypassed(t)
<1>0. Line(t) = th.batch \o th.events /\ Line(t)' = new.batch \o new.events
  BY DEF Line
<1>1. ASSUME Only(t) PROVE \A u \in Thread \ {t} : Line(u)' = Line(u)
  BY <1>1 DEF Only, Line
<1>2. th \in CallerType /\ th.batch \in Seq(Event) /\ th.events \in Seq(Event) /\ th.at \in Slot
  BY CallerFields DEF DTypeOK
<1>3. <<>> \o <<>> = <<>>
  OBVIOUS
<1>4. BatchSizes \subseteq Nat
  BY DispatchAssumption
<1>6. ASSUME NEW n \in BatchSizes, process_bypass_mode(t, n)
      PROVE /\ \A u \in Thread \ {t} : Line(u)' = Line(u)
            /\ Moved
  <2>1. thread' = thread /\ UNCHANGED <<slots, consumed, rejected>>
    BY <1>6 DEF process_bypass_mode
  <2>2. \A u \in Thread : Line(u)' = Line(u)
    BY <2>1 DEF Line
  <2>3. Bypassed(t)
    BY <2>1, <2>2, <1>4, <1>6, BypassDoes DEF Bypassed
  <2> QED BY <2>2, <2>3
<1>7. ASSUME NEW n \in BatchSizes, Begins(t, n),
             UNCHANGED <<slots, consumed, handled, rejected>>
      PROVE Only(t) /\ TakenInHand(t)
  <2>1. n \in Nat
    BY <1>4
  <2>2. Batch(n) \in Seq(Event)
    BY <2>1, <1>7, NewBatch DEF Begins
  <2>3. Line(t) = <<>>
    BY <1>0, <1>3, <1>7 DEF Begins
  <2>4. Line(t)' = Batch(n)
    <3> DEFINE b == Batch(n)
    <3>1. Line(t)' = <<>> \o b
      BY <1>0, <1>7 DEF Begins
    <3> HIDE DEF b
    <3>2. b \in Seq(Event)
      BY <2>2 DEF b
    <3>3. <<>> \o b = b
      BY <3>2, Joining
    <3> QED BY <3>1, <3>3 DEF b
  <2> QED BY <2>1, <2>3, <2>4, <1>7 DEF Begins, TakenInHand
<1>8. ASSUME NEW n \in TakeSizes, StartConsume(t, n) PROVE Only(t) /\ Rearranged(t)
  BY <1>0, <1>8, StartConsumeDoes DEF Empty, Rearranged, StartConsume
<1>9. CASE Utilization(t)
  <2>1. Only(t) /\ Rearranged(t)
    BY <1>0, <1>9, UtilizationDoes DEF Alike, Rearranged, Utilization
  <2> QED BY <2>1, <1>1
<1>a. CASE PlanBatch(t)
  <2>1. Only(t) /\ Rearranged(t)
    BY <1>0, <1>a, PlanBatchDoes DEF Rearranged, PlanBatch
  <2> QED BY <2>1, <1>1
<1>b. ASSUME Pushes(t), rejected' = rejected, UNCHANGED <<consumed, handled, offered, owner>>
      PROVE Only(t) /\ PutInSlot(t)
  BY <1>b, <1>2 DEF Pushes, PutInSlot
<1>c. CASE batch_write(t)
  <2>0. UNCHANGED <<consumed, handled, offered, owner>>
    BY <1>c DEF batch_write
  <2>1. CASE Pushes(t) /\ rejected' = rejected
    BY <2>0, <2>1, <1>1, <1>b
  <2>2. CASE /\ Only(t) /\ slots' = slots
             /\ new.batch \o new.events = th.events
             /\ rejected' = rejected \cup ToSet(th.batch)
    <3>1. DroppedSome(t)
      BY <1>0, <1>2, <2>0, <2>2 DEF DroppedSome
    <3> QED BY <2>2, <3>1, <1>1
  <2> QED BY <2>1, <2>2, <1>c, BatchWriteDoes
<1>d. CASE try_write_event(t)
  <2>0. UNCHANGED <<consumed, handled, offered, owner>> /\ th.events = <<>>
    BY <1>d, TryWriteDoes DEF try_write_event
  <2>1. CASE Pushes(t) /\ rejected' = rejected
    BY <2>0, <2>1, <1>1, <1>b
  <2>2. CASE /\ Only(t) /\ slots' = slots /\ new.events = <<>>
             /\ new.batch = th.batch /\ rejected' = rejected
    <3>1. Rearranged(t)
      BY <1>0, <2>0, <2>2 DEF Rearranged
    <3> QED BY <2>2, <3>1, <1>1
  <2>3. CASE /\ Only(t) /\ slots' = slots /\ new.events = <<>>
             /\ new.batch = <<>> /\ rejected' = rejected \cup ToSet(th.batch)
    <3>1. th.events \in Seq(Event) /\ Line(t)' = th.events
      BY <1>0, <1>2, <1>3, <2>0, <2>3
    <3>2. DroppedSome(t)
      BY <1>0, <1>2, <2>0, <2>3, <3>1 DEF DroppedSome
    <3> QED BY <2>3, <3>2, <1>1
  <2> QED BY <2>1, <2>2, <2>3, <1>d, TryWriteDoes
<1>e. CASE Account(t)
  <2>1. Only(t) /\ Rearranged(t)
    BY <1>0, <1>e, AccountDoes DEF Empty, Rearranged, Account
  <2> QED BY <2>1, <1>1
<1>f. CASE batch_read(t)
  <2>0. /\ Only(t) /\ th.slot \in Slot /\ th.pc = "consume" /\ new.batch = <<>> /\ new.events = <<>>
        /\ UNCHANGED <<handled, rejected, offered, owner>>
    BY <1>f, BatchReadDoes DEF batch_read
  <2>1. Line(t)' = Line(t)
    <3>1. th.batch = <<>> /\ th.events = <<>>
      BY <2>0, IdleHasNothing
    <3> QED BY <3>1, <2>0, <1>0
  <2>2. Consumed(t) \/ Rearranged(t)
    BY <2>0, <2>1, <1>f, BatchReadDoes DEF Consumed, Rearranged
  <2> QED BY <2>0, <2>2, <1>1
<1>g. CASE MeasurePool(t)
  <2>1. Only(t) /\ Rearranged(t)
    <3>1. /\ Only(t) /\ th.batch = <<>> /\ th.events = <<>> /\ new.batch = <<>>
          /\ new.events = <<>>
      BY <1>g, MeasurePoolDoes DEF Empty
    <3> QED BY <3>1, <1>0, <1>g DEF Rearranged, MeasurePool
  <2> QED BY <2>1, <1>1
<1>h. CASE batch_release(t)
  <2>1. Only(t) /\ Rearranged(t)
    BY <1>0, <1>h, BatchReleaseDoes DEF Empty, Rearranged, batch_release
  <2> QED BY <2>1, <1>1
<1>i. ASSUME NEW n \in BatchSizes, ProcessBatch(t, n) PROVE Only(t) /\ TakenInHand(t)
  BY <1>7, <1>i, ProcessBatchDoes DEF ProcessBatch
<1>j. ASSUME NEW n \in BatchSizes, DispatchBatch(t, n) PROVE Only(t) /\ TakenInHand(t)
  BY <1>7, <1>j, DispatchBatchDoes DEF DispatchBatch
<1> HIDE DEF Moved
<1>k. CASE \E n \in BatchSizes : ProcessBatch(t, n) \/ DispatchBatch(t, n)
  BY <1>1, <1>i, <1>j, <1>k DEF Moved
<1>l. CASE \E n \in TakeSizes : StartConsume(t, n)
  BY <1>1, <1>8, <1>l DEF Moved
<1> QED BY <1>6, <1>9, <1>a, <1>c, <1>d, <1>e, <1>f, <1>g, <1>h, <1>k, <1>l
        DEF StepOf, Work, Moved

(***************************************************************************)
(* Every event is in one place.                                            *)
(***************************************************************************)
LEMMA Members ==
  ASSUME NEW S, NEW q \in Seq(S)
  PROVE  /\ DOMAIN q = 1..Len(q) /\ Len(q) \in Nat /\ ToSet(q) \subseteq S
         /\ \A x : x \in ToSet(q) <=> \E i \in 1..Len(q) : q[i] = x
BY DEF ToSet

LEMMA AppendSet ==
  ASSUME NEW S, NEW q \in Seq(S), NEW e \in S
  PROVE  /\ ToSet(Append(q, e)) = ToSet(q) \cup {e}
         /\ Append(q, e) \in Seq(S) /\ Len(Append(q, e)) = Len(q) + 1
         /\ \A i \in 1..Len(q) : Append(q, e)[i] = q[i]
         /\ Append(q, e)[Len(q) + 1] = e
<1> DEFINE a == Append(q, e)
<1>1. /\ a \in Seq(S) /\ Len(a) = Len(q) + 1 /\ Len(q) \in Nat
      /\ \A i \in 1..Len(q) : a[i] = q[i]
      /\ a[Len(q) + 1] = e
  OBVIOUS
<1> HIDE DEF a
<1>2. ASSUME NEW x \in ToSet(a) PROVE x \in ToSet(q) \cup {e}
  <2>1. PICK i \in 1..Len(a) : a[i] = x
    BY <1>1, Members
  <2>2. CASE i = Len(q) + 1
    BY <1>1, <2>1, <2>2
  <2>3. CASE i \in 1..Len(q)
    BY <1>1, <2>1, <2>3, Members
  <2> QED BY <1>1, <2>1, <2>2, <2>3
<1>3. ASSUME NEW x \in ToSet(q) PROVE x \in ToSet(a)
  <2>1. PICK i \in 1..Len(q) : q[i] = x
    BY Members
  <2>2. i \in 1..Len(a) /\ a[i] = x
    BY <1>1, <2>1
  <2> QED BY <1>1, <2>2, Members
<1>4. e \in ToSet(a)
  <2>1. Len(q) + 1 \in 1..Len(a)
    BY <1>1
  <2> QED BY <1>1, <2>1, Members
<1> QED BY <1>1, <1>2, <1>3, <1>4 DEF a

LEMMA TailSet ==
  ASSUME NEW S, NEW q \in Seq(S), q # <<>>
  PROVE  /\ q[1] \in ToSet(q) /\ ToSet(q) = ToSet(Tail(q)) \cup {q[1]}
         /\ Distinct(q) => q[1] \notin ToSet(Tail(q))
         /\ Tail(q) \in Seq(S) /\ Len(Tail(q)) = Len(q) - 1
         /\ \A i \in 1..Len(Tail(q)) : Tail(q)[i] = q[i + 1]
<1> DEFINE a == Tail(q)
<1>1. /\ a \in Seq(S) /\ Len(a) = Len(q) - 1 /\ Len(q) \in Nat \ {0}
      /\ \A i \in 1..Len(a) : a[i] = q[i + 1]
  OBVIOUS
<1> HIDE DEF a
<1>2. 1 \in 1..Len(q) /\ q[1] \in ToSet(q)
  <2>1. 1 \in 1..Len(q)
    BY <1>1
  <2> QED BY <2>1, Members
<1>3. ASSUME NEW x \in ToSet(a) PROVE \E i \in 2..Len(q) : q[i] = x
  <2>1. PICK i \in 1..Len(a) : a[i] = x
    BY <1>1, Members
  <2>2. i + 1 \in 2..Len(q) /\ q[i + 1] = x
    BY <1>1, <2>1
  <2> QED BY <2>2
<1>4. ASSUME NEW x \in ToSet(q), x # q[1] PROVE x \in ToSet(a)
  <2>1. PICK i \in 1..Len(q) : q[i] = x
    BY Members
  <2>2. i # 1
    BY <2>1, <1>4
  <2>3. i - 1 \in 1..Len(a) /\ a[i - 1] = q[(i - 1) + 1] /\ (i - 1) + 1 = i
    BY <1>1, <2>1, <2>2
  <2> QED BY <1>1, <2>1, <2>3, Members
<1>5. \A x \in ToSet(a) : x \in ToSet(q)
  <2> SUFFICES ASSUME NEW x \in ToSet(a) PROVE x \in ToSet(q)
    OBVIOUS
  <2>1. PICK i \in 2..Len(q) : q[i] = x
    BY <1>3
  <2>2. i \in 1..Len(q)
    BY <1>1, <2>1
  <2> QED BY <2>1, <2>2, Members
<1>6. ASSUME Distinct(q) PROVE q[1] \notin ToSet(a)
  <2> SUFFICES ASSUME q[1] \in ToSet(a) PROVE FALSE
    OBVIOUS
  <2>1. PICK i \in 2..Len(q) : q[i] = q[1]
    BY <1>3
  <2>2. i \in DOMAIN q /\ 1 \in DOMAIN q /\ i # 1
    BY <1>1, <1>2, <2>1, Members
  <2> QED BY <2>1, <2>2, <1>6 DEF Distinct
<1> QED BY <1>1, <1>2, <1>4, <1>5, <1>6 DEF a

LEMMA JoinSet ==
  ASSUME NEW S, NEW p \in Seq(S), NEW q \in Seq(S)
  PROVE  /\ ToSet(p \o q) = ToSet(p) \cup ToSet(q)
         /\ Distinct(p \o q) => ToSet(p) \cap ToSet(q) = {}
         /\ p \o q \in Seq(S) /\ Len(p \o q) = Len(p) + Len(q)
         /\ \A i \in 1..Len(p) : (p \o q)[i] = p[i]
         /\ \A i \in 1..Len(q) : (p \o q)[Len(p) + i] = q[i]
<1> DEFINE a == p \o q
<1>1. /\ a \in Seq(S) /\ Len(a) = Len(p) + Len(q) /\ Len(p) \in Nat /\ Len(q) \in Nat
      /\ \A i \in 1..Len(p) : a[i] = p[i]
      /\ \A i \in 1..Len(q) : a[Len(p) + i] = q[i]
  OBVIOUS
<1> HIDE DEF a
<1>2. ASSUME NEW x \in ToSet(p) PROVE \E i \in 1..Len(p) : i \in 1..Len(a) /\ a[i] = x
  <2>1. PICK i \in 1..Len(p) : p[i] = x
    BY Members
  <2> QED BY <1>1, <2>1
<1>3. ASSUME NEW x \in ToSet(q) PROVE \E i \in 1..Len(a) : i > Len(p) /\ a[i] = x
  <2>1. PICK i \in 1..Len(q) : q[i] = x
    BY Members
  <2>2. Len(p) + i \in 1..Len(a) /\ Len(p) + i > Len(p) /\ a[Len(p) + i] = x
    BY <1>1, <2>1
  <2> QED BY <2>2
<1>4. ASSUME NEW x \in ToSet(a) PROVE x \in ToSet(p) \cup ToSet(q)
  <2>1. PICK i \in 1..Len(a) : a[i] = x
    BY <1>1, Members
  <2>2. CASE i \in 1..Len(p)
    BY <1>1, <2>1, <2>2, Members
  <2>3. CASE i > Len(p)
    <3>1. i - Len(p) \in 1..Len(q) /\ a[Len(p) + (i - Len(p))] = q[i - Len(p)]
          /\ Len(p) + (i - Len(p)) = i
      BY <1>1, <2>1, <2>3
    <3> QED BY <2>1, <3>1, Members
  <2>4. i \in 1..Len(p) \/ i > Len(p)
    BY <1>1, <2>1
  <2> QED BY <2>2, <2>3, <2>4
<1>5. \A x : x \in ToSet(p) \/ x \in ToSet(q) => x \in ToSet(a)
  BY <1>1, <1>2, <1>3, Members
<1>6. ASSUME Distinct(a), NEW x, x \in ToSet(p), x \in ToSet(q) PROVE FALSE
  <2>1. PICK i \in 1..Len(p) : i \in 1..Len(a) /\ a[i] = x
    BY <1>2, <1>6
  <2>2. PICK j \in 1..Len(a) : j > Len(p) /\ a[j] = x
    BY <1>3, <1>6
  <2>3. i # j
    BY <1>1, <2>1, <2>2
  <2>4. i \in DOMAIN a /\ j \in DOMAIN a
    BY <1>1, <2>1, <2>2, Members
  <2> QED BY <2>1, <2>2, <2>3, <2>4, <1>6 DEF Distinct
<1> QED BY <1>1, <1>4, <1>5, <1>6 DEF a

Somewhere(e) ==
  \/ \E t \in Thread : e \in Hand(t)
  \/ \E s \in Slot : e \in Stored(s)
  \/ e \in Taken \/ e \in ToSet(handled) \/ e \in rejected

LEMMA AccountedElementwise == Accounted <=> \A e : e \in 1..offered <=> Somewhere(e)
<1> DEFINE A == UNION {Hand(t) : t \in Thread}
           B == UNION {Stored(s) : s \in Slot}
           U == A \cup B \cup Gone
<1>1. Accounted <=> 1..offered = U
  BY DEF Accounted
<1>2. \A e : e \in A <=> \E t \in Thread : e \in Hand(t)
  OBVIOUS
<1>3. \A e : e \in B <=> \E s \in Slot : e \in Stored(s)
  OBVIOUS
<1>4. \A e : e \in Gone <=> e \in Taken \/ e \in ToSet(handled) \/ e \in rejected
  BY DEF Gone
<1> HIDE DEF A, B
<1>5. \A e : e \in U <=> e \in A \/ e \in B \/ e \in Gone
  OBVIOUS
<1>6. \A e : e \in U <=> Somewhere(e)
  BY <1>2, <1>3, <1>4, <1>5 DEF Somewhere
<1> HIDE DEF U
<1>7. 1..offered = U <=> \A e : e \in 1..offered <=> e \in U
  OBVIOUS
<1> QED BY <1>1, <1>6, <1>7

LEMMA AccountedThen == Accounted' <=> \A e : e \in 1..offered' <=> Somewhere(e)'
<1> DEFINE A == UNION {Hand(t)' : t \in Thread}
           B == UNION {Stored(s)' : s \in Slot}
           U == A \cup B \cup Gone'
<1>1. Accounted' <=> 1..offered' = U
  BY DEF Accounted
<1>2. \A e : e \in A <=> \E t \in Thread : e \in Hand(t)'
  OBVIOUS
<1>3. \A e : e \in B <=> \E s \in Slot : e \in Stored(s)'
  OBVIOUS
<1>4. \A e : e \in Gone' <=> e \in Taken' \/ e \in ToSet(handled') \/ e \in rejected'
  BY DEF Gone
<1> HIDE DEF A, B
<1>5. \A e : e \in U <=> e \in A \/ e \in B \/ e \in Gone'
  OBVIOUS
<1>6. \A e : e \in U <=> Somewhere(e)'
  BY <1>2, <1>3, <1>4, <1>5 DEF Somewhere
<1> HIDE DEF U
<1>7. 1..offered' = U <=> \A e : e \in 1..offered' <=> e \in U
  OBVIOUS
<1> QED BY <1>1, <1>6, <1>7

\* What a move does to the sets of events.
SetsSame == Taken' = Taken /\ ToSet(handled)' = ToSet(handled) /\ rejected' = rejected

LEMMA MoveSets ==
  ASSUME NEW t \in Thread, DTypeOK, Once,
         \A u \in Thread \ {t} : Line(u)' = Line(u)
  PROVE  /\ \A u \in Thread \ {t} : Hand(u)' = Hand(u)
         /\ Rearranged(t) => /\ Hand(t)' = Hand(t) /\ \A s \in Slot : Stored(s)' = Stored(s)
                             /\ SetsSame /\ offered' = offered
         /\ TakenInHand(t) => /\ Hand(t) = {} /\ Hand(t)' = (offered + 1)..offered'
                              /\ \A s \in Slot : Stored(s)' = Stored(s)
                              /\ SetsSame /\ offered' \in Nat /\ offered <= offered'
         /\ PutInSlot(t) => \E e, s \in Nat :
              /\ s \in Slot /\ e \in Hand(t) /\ Hand(t)' = Hand(t) \ {e}
              /\ Stored(s)' = Stored(s) \cup {e} /\ SetsSame /\ offered' = offered
              /\ \A r \in Slot \ {s} : Stored(r)' = Stored(r)
         /\ DroppedSome(t) => \E D \in SUBSET Hand(t) :
              /\ Hand(t)' = Hand(t) \ D /\ rejected' = rejected \cup D
              /\ \A s \in Slot : Stored(s)' = Stored(s)
              /\ Taken' = Taken /\ ToSet(handled)' = ToSet(handled) /\ offered' = offered
         /\ Consumed(t) => \E e, s \in Nat :
              /\ s \in Slot /\ e \in Stored(s) /\ Hand(t)' = Hand(t)
              /\ Stored(s)' = Stored(s) \ {e} /\ Taken' = Taken \cup {e}
              /\ \A r \in Slot \ {s} : Stored(r)' = Stored(r)
              /\ ToSet(handled)' = ToSet(handled) /\ rejected' = rejected /\ offered' = offered
         /\ Bypassed(t) => /\ Hand(t)' = Hand(t) /\ \A s \in Slot : Stored(s)' = Stored(s)
                           /\ Taken' = Taken /\ rejected' = rejected
                           /\ ToSet(handled)' = ToSet(handled) \cup (offered + 1)..offered'
                           /\ offered' \in Nat /\ offered <= offered'
<1>1. \A u \in Thread \ {t} : Hand(u)' = Hand(u)
  BY DEF Hand
<1>2. ASSUME NEW u \in Thread, Line(u)' = Line(u) PROVE Hand(u)' = Hand(u)
  BY <1>2 DEF Hand
<1>3. /\ slots' = slots => \A s \in Slot : Stored(s)' = Stored(s)
      /\ consumed' = consumed => Taken' = Taken
      /\ handled' = handled => ToSet(handled)' = ToSet(handled)
  BY DEF Stored, Taken
<1>4. Line(t) \in Seq(Event) /\ Distinct(Line(t))
  BY LineType DEF Once
<1>5. offered \in Nat /\ Event \subseteq Nat /\ Slot \subseteq Nat
  <2>1. MaxOffered \in Nat /\ SlotCount \in Nat
    BY DispatchAssumption
  <2>2. Event \subseteq Nat /\ Slot \subseteq Nat
    BY <2>1 DEF Event, Slot
  <2> QED BY <2>1, <2>2 DEF DTypeOK
<1>6. ASSUME NEW n \in Nat, Offer(t, n)
      PROVE /\ ToSet(Batch(n)) = (offered + 1)..offered'
            /\ offered' = offered + n /\ offered' \in Nat /\ offered <= offered'
            /\ Batch(n) \in Seq(Event)
  <2>1. /\ Batch(n) \in Seq(Event) /\ Len(Batch(n)) = n
        /\ \A i \in 1..n : Batch(n)[i] = offered + i
        /\ offered' = offered + n
    BY <1>6, NewBatch
  <2> DEFINE b == Batch(n)
  <2> HIDE DEF b
  <2>2. \A x : x \in ToSet(b) <=> \E i \in 1..n : b[i] = x
    BY <2>1, Members DEF b
  <2>3. \A i \in 1..n : b[i] = offered + i
    BY <2>1 DEF b
  <2>4. ASSUME NEW x PROVE x \in ToSet(b) <=> x \in (offered + 1)..(offered + n)
    <3>1. ASSUME x \in ToSet(b) PROVE x \in (offered + 1)..(offered + n)
      <4>1. PICK i \in 1..n : x = offered + i
        BY <3>1, <2>2, <2>3
      <4> QED BY <4>1, <1>5
    <3>2. ASSUME x \in (offered + 1)..(offered + n) PROVE x \in ToSet(b)
      <4>1. x - offered \in 1..n /\ offered + (x - offered) = x
        BY <3>2, <1>5
      <4>2. b[x - offered] = x
        BY <4>1, <2>3
      <4> QED BY <4>1, <4>2, <2>2
    <3> QED BY <3>1, <3>2
  <2>5. offered' \in Nat /\ offered <= offered'
    BY <2>1, <1>5
  <2> QED BY <2>1, <2>4, <2>5 DEF b
<1>7. ASSUME Rearranged(t)
      PROVE /\ Hand(t)' = Hand(t) /\ \A s \in Slot : Stored(s)' = Stored(s)
            /\ SetsSame /\ offered' = offered
  BY <1>2, <1>3, <1>7 DEF Rearranged, SetsSame
<1>8. ASSUME TakenInHand(t)
      PROVE /\ Hand(t) = {} /\ Hand(t)' = (offered + 1)..offered'
            /\ \A s \in Slot : Stored(s)' = Stored(s)
            /\ SetsSame /\ offered' \in Nat /\ offered <= offered'
  <2>1. PICK n \in Nat : /\ Line(t) = <<>> /\ Line(t)' = Batch(n) /\ Offer(t, n)
                         /\ UNCHANGED <<slots, consumed, handled, rejected>>
    BY <1>8 DEF TakenInHand
  <2>2. Hand(t) = {}
    BY <2>1 DEF Hand, ToSet
  <2>3. Hand(t)' = ToSet(Batch(n))
    BY <2>1 DEF Hand
  <2> QED BY <2>1, <2>2, <2>3, <1>3, <1>6 DEF SetsSame
<1>9. ASSUME PutInSlot(t)
      PROVE \E e, s \in Nat :
              /\ s \in Slot /\ e \in Hand(t) /\ Hand(t)' = Hand(t) \ {e}
              /\ Stored(s)' = Stored(s) \cup {e} /\ SetsSame /\ offered' = offered
              /\ \A r \in Slot \ {s} : Stored(r)' = Stored(r)
  <2> DEFINE e == Line(t)[1]
  <2>1. PICK s \in Slot : /\ Line(t) # <<>> /\ Line(t)' = Tail(Line(t))
                          /\ slots' = [slots EXCEPT ![s] = Append(@, e)]
                          /\ UNCHANGED <<consumed, handled, rejected, offered, owner>>
    BY <1>9 DEF PutInSlot
  <2>2. /\ e \in ToSet(Line(t)) /\ ToSet(Line(t)) = ToSet(Tail(Line(t))) \cup {e}
        /\ e \notin ToSet(Tail(Line(t)))
    BY <1>4, <2>1, TailSet
  <2>3. e \in Hand(t) /\ Hand(t)' = Hand(t) \ {e}
    BY <2>1, <2>2 DEF Hand
  <2>4. e \in Event
    BY <1>4, <2>2, Members
  <2> HIDE DEF e
  <2>5. slots[s] \in Seq(Event) /\ slots'[s] = Append(slots[s], e)
        /\ \A r \in Slot \ {s} : slots'[r] = slots[r]
    BY <2>1 DEF DTypeOK
  <2>6. Stored(s)' = Stored(s) \cup {e} /\ \A r \in Slot \ {s} : Stored(r)' = Stored(r)
    BY <2>4, <2>5, AppendSet DEF Stored
  <2>7. s \in Nat /\ e \in Nat
    BY <1>5, <2>4
  <2> QED BY <2>1, <2>3, <2>6, <2>7, <1>3 DEF SetsSame
<1>a. ASSUME DroppedSome(t)
      PROVE \E D \in SUBSET Hand(t) :
              /\ Hand(t)' = Hand(t) \ D /\ rejected' = rejected \cup D
              /\ \A s \in Slot : Stored(s)' = Stored(s)
              /\ Taken' = Taken /\ ToSet(handled)' = ToSet(handled) /\ offered' = offered
  <2>1. PICK p, q \in Seq(Event) :
          /\ Line(t) = p \o q /\ Line(t)' = q /\ rejected' = rejected \cup ToSet(p)
          /\ UNCHANGED <<slots, consumed, handled, offered, owner>>
    BY <1>a DEF DroppedSome
  <2>2. Distinct(p \o q)
    BY <2>1, <1>4
  <2>3. ToSet(p \o q) = ToSet(p) \cup ToSet(q) /\ ToSet(p) \cap ToSet(q) = {}
    BY <2>2, JoinSet
  <2>4. Hand(t) = ToSet(p) \cup ToSet(q) /\ Hand(t)' = ToSet(q)
    BY <2>1, <2>3 DEF Hand
  <2>5. ToSet(p) \in SUBSET Hand(t) /\ Hand(t)' = Hand(t) \ ToSet(p)
    BY <2>3, <2>4
  <2> QED BY <2>1, <2>5, <1>3
<1>b. ASSUME Consumed(t)
      PROVE \E e, s \in Nat :
              /\ s \in Slot /\ e \in Stored(s) /\ Hand(t)' = Hand(t)
              /\ Stored(s)' = Stored(s) \ {e} /\ Taken' = Taken \cup {e}
              /\ \A r \in Slot \ {s} : Stored(r)' = Stored(r)
              /\ ToSet(handled)' = ToSet(handled) /\ rejected' = rejected /\ offered' = offered
  <2>1. PICK s \in Slot :
          /\ Line(t)' = Line(t) /\ slots[s] # <<>>
          /\ slots' = [slots EXCEPT ![s] = Tail(@)]
          /\ consumed' = Append(consumed, <<slots[s][1], s>>)
          /\ UNCHANGED <<handled, rejected, offered, owner>>
    BY <1>b DEF Consumed
  <2> DEFINE q == slots[s]
             e == q[1]
  <2>2. q \in Seq(Event) /\ Distinct(q) /\ q # <<>>
    BY <2>1 DEF DTypeOK, Once
  <2>3. /\ e \in ToSet(q) /\ ToSet(q) = ToSet(Tail(q)) \cup {e}
        /\ e \notin ToSet(Tail(q))
    <3> HIDE DEF q
    <3> QED BY <2>2, TailSet
  <2>4. slots'[s] = Tail(q) /\ \A r \in Slot \ {s} : slots'[r] = slots[r]
    BY <2>1 DEF DTypeOK
  <2>5. e \in Event
    BY <2>2, <2>3, Members
  <2>6. /\ e \in Stored(s) /\ Stored(s)' = Stored(s) \ {e}
        /\ \A r \in Slot \ {s} : Stored(r)' = Stored(r)
    <3>1. Stored(s)' = ToSet(Tail(q)) /\ Stored(s) = ToSet(q)
      BY <2>4 DEF Stored
    <3>2. \A r \in Slot \ {s} : Stored(r)' = Stored(r)
      BY <2>4 DEF Stored
    <3> HIDE DEF q, e
    <3> QED BY <2>3, <3>1, <3>2
  <2>7. Taken' = Taken \cup {e}
    <3> DEFINE c == <<e, s>>
    <3>1. c \in Event \X Slot /\ c[1] = e /\ consumed \in Seq(Event \X Slot)
      BY <2>5 DEF DTypeOK
    <3>2. consumed' = Append(consumed, c)
      BY <2>1
    <3> HIDE DEF c, e
    <3>3. ToSet(consumed') = ToSet(consumed) \cup {c}
      BY <3>1, <3>2, AppendSet
    <3>4. Taken = {x[1] : x \in ToSet(consumed)}
      BY DEF Taken, ToSet
    <3>5. Taken' = {x[1] : x \in ToSet(consumed')}
      BY DEF Taken, ToSet
    <3> QED BY <3>1, <3>3, <3>4, <3>5
  <2>8. e \in Nat /\ s \in Nat
    BY <1>5, <2>5
  <2> HIDE DEF e
  <2> QED BY <2>1, <2>6, <2>7, <2>8, <1>2, <1>3
<1>c. ASSUME Bypassed(t)
      PROVE /\ Hand(t)' = Hand(t) /\ \A s \in Slot : Stored(s)' = Stored(s)
            /\ Taken' = Taken /\ rejected' = rejected
            /\ ToSet(handled)' = ToSet(handled) \cup (offered + 1)..offered'
            /\ offered' \in Nat /\ offered <= offered'
  <2>1. PICK n \in Nat : /\ Line(t)' = Line(t) /\ Offer(t, n) /\ handled' = handled \o Batch(n)
                         /\ UNCHANGED <<slots, consumed, rejected>>
    BY <1>c DEF Bypassed
  <2>2. handled \in Seq(Event)
    BY DEF DTypeOK
  <2>3. ToSet(handled') = ToSet(handled) \cup ToSet(Batch(n))
    BY <2>1, <2>2, <1>6, JoinSet
  <2>4. ToSet(handled)' = ToSet(handled')
    OBVIOUS
  <2> QED BY <2>1, <2>3, <2>4, <1>2, <1>3, <1>6
<1> QED BY <1>1, <1>7, <1>8, <1>9, <1>a, <1>b, <1>c

\* Apart, element by element.
ApartAt(e) ==
  /\ \A t, u \in Thread : e \in Hand(t) /\ e \in Hand(u) => t = u
  /\ \A r, s \in Slot : e \in Stored(r) /\ e \in Stored(s) => r = s
  /\ \A t \in Thread : e \in Hand(t) =>
       /\ e \notin Taken /\ e \notin ToSet(handled) /\ e \notin rejected
       /\ \A s \in Slot : e \notin Stored(s)
  /\ \A s \in Slot : e \in Stored(s) =>
       e \notin Taken /\ e \notin ToSet(handled) /\ e \notin rejected
  /\ e \in Taken => e \notin ToSet(handled) /\ e \notin rejected
  /\ e \in rejected => e \notin ToSet(handled)

LEMMA ApartNow == ASSUME Apart, NEW e PROVE ApartAt(e)
BY DEF Apart, ApartAt, Gone

LEMMA ApartThen == ASSUME \A e : ApartAt(e)' PROVE Apart'
<1>1. \A t, u \in Thread : t # u => Hand(t)' \cap Hand(u)' = {}
  BY DEF ApartAt
<1>2. \A r, s \in Slot : r # s => Stored(r)' \cap Stored(s)' = {}
  BY DEF ApartAt
<1>3. \A t \in Thread : Hand(t)' \cap Gone' = {}
  BY DEF ApartAt, Gone
<1>4. \A t \in Thread, s \in Slot : Hand(t)' \cap Stored(s)' = {}
  BY DEF ApartAt
<1>5. \A s \in Slot : Stored(s)' \cap Gone' = {}
  BY DEF ApartAt, Gone
<1>6. /\ Taken' \cap ToSet(handled') = {} /\ Taken' \cap rejected' = {}
      /\ rejected' \cap ToSet(handled') = {}
  BY DEF ApartAt
<1> QED BY <1>1, <1>2, <1>3, <1>4, <1>5, <1>6 DEF Apart

LEMMA ConservedStep ==
  ASSUME NEW t \in Thread, DTypeOK, EventsConserved,
         \A u \in Thread \ {t} : Line(u)' = Line(u),
         \/ Rearranged(t) \/ TakenInHand(t) \/ PutInSlot(t)
         \/ DroppedSome(t) \/ Consumed(t) \/ Bypassed(t)
  PROVE  Accounted' /\ Apart'
<1>1. Once
  BY DEF EventsConserved
<1>2. \A e : (e \in 1..offered <=> Somewhere(e)) /\ ApartAt(e)
  BY AccountedElementwise, ApartNow DEF EventsConserved
<1>3. offered \in Nat
  BY DEF DTypeOK
<1>4. \A u \in Thread \ {t} : Hand(u)' = Hand(u)
  BY <1>1, MoveSets
<1>5. ToSet(handled') = ToSet(handled)'
  OBVIOUS
<1> DEFINE Good(e) == (e \in 1..offered' <=> Somewhere(e)') /\ ApartAt(e)'
<1> SUFFICES ASSUME NEW e PROVE Good(e)
  BY AccountedThen, ApartThen
<1>6. (e \in 1..offered <=> Somewhere(e)) /\ ApartAt(e)
  BY <1>2
<1>7. CASE Rearranged(t)
  <2>1. /\ Hand(t)' = Hand(t) /\ \A s \in Slot : Stored(s)' = Stored(s)
        /\ SetsSame /\ offered' = offered
    BY <1>1, <1>7, MoveSets
  <2>2. \A u \in Thread : Hand(u)' = Hand(u)
    BY <2>1, <1>4
  <2> QED BY <1>5, <1>6, <2>1, <2>2 DEF Somewhere, ApartAt, SetsSame
<1>8. CASE TakenInHand(t)
  <2>1. /\ Hand(t) = {} /\ Hand(t)' = (offered + 1)..offered'
        /\ \A s \in Slot : Stored(s)' = Stored(s)
        /\ SetsSame /\ offered' \in Nat /\ offered <= offered'
    BY <1>1, <1>8, MoveSets
  <2>2. e \in 1..offered' <=> e \in 1..offered \/ e \in Hand(t)'
    BY <1>3, <2>1
  <2>3. e \in Hand(t)' => e \notin 1..offered
    BY <1>3, <2>1
  <2>4. Somewhere(e)' <=> Somewhere(e) \/ e \in Hand(t)'
    BY <1>4, <1>5, <2>1 DEF Somewhere, SetsSame
  <2>5. CASE e \in Hand(t)'
    <3>1. ~Somewhere(e)
      BY <1>6, <2>3, <2>5
    <3>2. /\ \A u \in Thread \ {t} : e \notin Hand(u)'
          /\ \A s \in Slot : e \notin Stored(s)'
          /\ e \notin Taken' /\ e \notin ToSet(handled)' /\ e \notin rejected'
      BY <3>1, <1>4, <2>1 DEF Somewhere, SetsSame
    <3>3. ApartAt(e)'
      BY <3>2 DEF ApartAt
    <3> QED BY <3>3, <2>2, <2>4, <1>6
  <2>6. CASE e \notin Hand(t)'
    <3>1. \A u \in Thread : e \in Hand(u)' <=> e \in Hand(u)
      BY <1>4, <2>1, <2>6
    <3>2. ApartAt(e)'
      BY <3>1, <1>5, <1>6, <2>1 DEF ApartAt, SetsSame
    <3> QED BY <3>2, <2>2, <2>4, <2>6, <1>6
  <2> QED BY <2>5, <2>6
<1>9. CASE PutInSlot(t)
  <2>1. PICK x, s \in Nat :
          /\ s \in Slot /\ x \in Hand(t) /\ Hand(t)' = Hand(t) \ {x}
          /\ Stored(s)' = Stored(s) \cup {x} /\ SetsSame /\ offered' = offered
          /\ \A r \in Slot \ {s} : Stored(r)' = Stored(r)
    BY <1>1, <1>9, MoveSets
  <2>2. ApartAt(x)
    BY <1>2
  <2>3. CASE e = x
    <3>1. /\ \A u \in Thread : e \notin Hand(u)'
          /\ \A r \in Slot : e \in Stored(r)' <=> r = s
          /\ e \notin Taken' /\ e \notin ToSet(handled)' /\ e \notin rejected'
      BY <2>1, <2>2, <2>3, <1>4 DEF ApartAt, SetsSame
    <3>2. ApartAt(e)' /\ Somewhere(e)'
      BY <3>1, <2>1 DEF ApartAt, Somewhere
    <3>3. Somewhere(e)
      BY <2>1, <2>3 DEF Somewhere
    <3> QED BY <3>2, <3>3, <2>1, <1>6
  <2>4. CASE e # x
    <3>1. /\ \A u \in Thread : e \in Hand(u)' <=> e \in Hand(u)
          /\ \A r \in Slot : e \in Stored(r)' <=> e \in Stored(r)
      BY <2>1, <2>4, <1>4
    <3> QED BY <3>1, <1>5, <1>6, <2>1 DEF Somewhere, ApartAt, SetsSame
  <2> QED BY <2>3, <2>4
<1>a. CASE DroppedSome(t)
  <2>1. PICK D \in SUBSET Hand(t) :
          /\ Hand(t)' = Hand(t) \ D /\ rejected' = rejected \cup D
          /\ \A s \in Slot : Stored(s)' = Stored(s)
          /\ Taken' = Taken /\ ToSet(handled)' = ToSet(handled) /\ offered' = offered
    BY <1>1, <1>a, MoveSets
  <2>3. CASE e \in D
    <3>0. e \in Hand(t)
      BY <2>1, <2>3
    <3>1. /\ \A u \in Thread : e \notin Hand(u)'
          /\ \A r \in Slot : e \notin Stored(r)'
          /\ e \notin Taken' /\ e \notin ToSet(handled)' /\ e \in rejected'
      BY <2>1, <2>3, <3>0, <1>4, <1>6 DEF ApartAt
    <3>2. ApartAt(e)' /\ Somewhere(e)'
      BY <3>1, <2>1 DEF ApartAt, Somewhere
    <3>3. Somewhere(e)
      BY <3>0 DEF Somewhere
    <3> QED BY <3>2, <3>3, <2>1, <1>6
  <2>4. CASE e \notin D
    <3>1. /\ \A u \in Thread : e \in Hand(u)' <=> e \in Hand(u)
          /\ e \in rejected' <=> e \in rejected
      BY <2>1, <2>4, <1>4
    <3> QED BY <3>1, <1>5, <1>6, <2>1 DEF Somewhere, ApartAt
  <2> QED BY <2>3, <2>4
<1>b. CASE Consumed(t)
  <2>1. PICK x, s \in Nat :
          /\ s \in Slot /\ x \in Stored(s) /\ Hand(t)' = Hand(t)
          /\ Stored(s)' = Stored(s) \ {x} /\ Taken' = Taken \cup {x}
          /\ \A r \in Slot \ {s} : Stored(r)' = Stored(r)
          /\ ToSet(handled)' = ToSet(handled) /\ rejected' = rejected /\ offered' = offered
    BY <1>1, <1>b, MoveSets
  <2>2. ApartAt(x)
    BY <1>2
  <2>0. \A u \in Thread : Hand(u)' = Hand(u)
    BY <2>1, <1>4
  <2>3. CASE e = x
    <3>1. /\ \A u \in Thread : e \notin Hand(u)'
          /\ \A r \in Slot : e \notin Stored(r)'
          /\ e \in Taken' /\ e \notin ToSet(handled)' /\ e \notin rejected'
      BY <2>0, <2>1, <2>2, <2>3 DEF ApartAt
    <3>2. ApartAt(e)' /\ Somewhere(e)'
      BY <3>1 DEF ApartAt, Somewhere
    <3>3. Somewhere(e)
      BY <2>1, <2>3 DEF Somewhere
    <3> QED BY <3>2, <3>3, <2>1, <1>6
  <2>4. CASE e # x
    <3>1. /\ e \in Taken' <=> e \in Taken
          /\ \A r \in Slot : e \in Stored(r)' <=> e \in Stored(r)
      BY <2>1, <2>4
    <3> QED BY <3>1, <2>0, <1>5, <1>6, <2>1 DEF Somewhere, ApartAt
  <2> QED BY <2>3, <2>4
<1>c. CASE Bypassed(t)
  <2>1. /\ Hand(t)' = Hand(t) /\ \A s \in Slot : Stored(s)' = Stored(s)
        /\ Taken' = Taken /\ rejected' = rejected
        /\ ToSet(handled)' = ToSet(handled) \cup (offered + 1)..offered'
        /\ offered' \in Nat /\ offered <= offered'
    BY <1>1, <1>c, MoveSets
  <2>2. \A u \in Thread : Hand(u)' = Hand(u)
    BY <2>1, <1>4
  <2>3. CASE e \in (offered + 1)..offered'
    <3>1. ~Somewhere(e) /\ e \in 1..offered'
      BY <1>3, <1>6, <2>1, <2>3
    <3>2. /\ \A u \in Thread : e \notin Hand(u)'
          /\ \A r \in Slot : e \notin Stored(r)'
          /\ e \notin Taken' /\ e \in ToSet(handled)' /\ e \notin rejected'
      BY <2>1, <2>2, <2>3, <3>1 DEF Somewhere
    <3>3. ApartAt(e)' /\ Somewhere(e)'
      BY <3>2 DEF ApartAt, Somewhere
    <3> QED BY <3>1, <3>3
  <2>4. CASE e \notin (offered + 1)..offered'
    <3>1. /\ e \in ToSet(handled)' <=> e \in ToSet(handled)
          /\ e \in 1..offered' <=> e \in 1..offered
      BY <1>3, <2>1, <2>4
    <3> QED BY <3>1, <2>2, <1>5, <1>6, <2>1 DEF Somewhere, ApartAt
  <2> QED BY <2>3, <2>4
<1> QED BY <1>7, <1>8, <1>9, <1>a, <1>b, <1>c

(***************************************************************************)
(* Events of one caller stay in order.                                     *)
(***************************************************************************)
Rising(q) == \A i, j \in DOMAIN q : i < j => q[i] < q[j]

\* The parts of the order, by what they are about.
SlotRises(s) == \A i, j \in DOMAIN slots[s] :
  i < j /\ owner[slots[s][i]] = owner[slots[s][j]] => slots[s][i] < slots[s][j]
OlderLeft(i) == \A e \in Stored(consumed[i][2]) :
  owner[consumed[i][1]] = owner[e] => consumed[i][1] < e
LeftInOrder(i, j) ==
  /\ i < j /\ consumed[i][2] = consumed[j][2]
  /\ owner[consumed[i][1]] = owner[consumed[j][1]]
  => consumed[i][1] < consumed[j][1]
HandYounger(t) == \A e \in Hand(t) :
  /\ owner[e] = t
  /\ \A s \in Slot : \A d \in Stored(s) : owner[d] = t => d < e
  /\ \A d \in Taken : owner[d] = t => d < e

LEMMA OrderParts ==
  /\ SlotFifo <=> /\ \A i, j \in DOMAIN consumed : LeftInOrder(i, j)
                  /\ Rising(handled)
  /\ StillInOrder <=> /\ \A s \in Slot : SlotRises(s)
                      /\ \A i \in DOMAIN consumed : OlderLeft(i)
                      /\ \A t \in Thread : Rising(Line(t)) /\ HandYounger(t)
  /\ SlotFifo' <=> /\ \A i, j \in DOMAIN consumed' : LeftInOrder(i, j)'
                   /\ Rising(handled)'
  /\ StillInOrder' <=> /\ \A s \in Slot : SlotRises(s)'
                       /\ \A i \in DOMAIN consumed' : OlderLeft(i)'
                       /\ \A t \in Thread : Rising(Line(t))' /\ HandYounger(t)'
<1>1. SlotFifo <=> /\ \A i, j \in DOMAIN consumed : LeftInOrder(i, j)
                   /\ Rising(handled)
  BY DEF SlotFifo, LeftInOrder, Rising
<1>2. StillInOrder <=> /\ \A s \in Slot : SlotRises(s)
                       /\ \A i \in DOMAIN consumed : OlderLeft(i)
                       /\ \A t \in Thread : Rising(Line(t)) /\ HandYounger(t)
  BY DEF StillInOrder, SlotRises, OlderLeft, Rising, HandYounger
<1>3. SlotFifo' <=> /\ \A i, j \in DOMAIN consumed' : LeftInOrder(i, j)'
                    /\ Rising(handled)'
  BY DEF SlotFifo, LeftInOrder, Rising
<1>4. StillInOrder' <=> /\ \A s \in Slot : SlotRises(s)'
                        /\ \A i \in DOMAIN consumed' : OlderLeft(i)'
                        /\ \A t \in Thread : Rising(Line(t))' /\ HandYounger(t)'
  BY DEF StillInOrder, SlotRises, OlderLeft, Rising, HandYounger
<1> QED BY <1>1, <1>2, <1>3, <1>4

\* Where a step takes no event in, the owners of the old ones stay.
LEMMA OwnersStay ==
  ASSUME NEW t \in Thread, DTypeOK,
         \/ Rearranged(t) \/ TakenInHand(t) \/ PutInSlot(t)
         \/ DroppedSome(t) \/ Consumed(t) \/ Bypassed(t)
  PROVE  \A e \in 1..offered : owner'[e] = owner[e]
BY NewBatch DEF Rearranged, TakenInHand, PutInSlot, DroppedSome, Consumed, Bypassed

LEMMA RisingTail ==
  ASSUME NEW q \in Seq(Nat), q # <<>>, Rising(q)
  PROVE  Rising(Tail(q)) /\ \A x \in ToSet(Tail(q)) : q[1] < x
<1> DEFINE a == Tail(q)
<1>1. /\ a \in Seq(Nat) /\ Len(a) = Len(q) - 1 /\ Len(q) \in Nat
      /\ \A i \in 1..Len(a) : a[i] = q[i + 1]
  BY TailSet
<1> HIDE DEF a
<1>2. DOMAIN a = 1..Len(a) /\ DOMAIN q = 1..Len(q)
  BY <1>1
<1>3. ASSUME NEW i \in 1..Len(a) PROVE i + 1 \in 1..Len(q) /\ 1 \in 1..Len(q) /\ 1 < i + 1
  BY <1>1, <1>3
<1>4. \A x \in ToSet(a) : q[1] < x
  <2> SUFFICES ASSUME NEW x \in ToSet(a) PROVE q[1] < x
    OBVIOUS
  <2>1. PICK i \in 1..Len(a) : a[i] = x
    BY <1>1, Members
  <2> QED BY <2>1, <1>1, <1>2, <1>3 DEF Rising
<1>5. ASSUME NEW i \in 1..Len(a), NEW j \in 1..Len(a), i < j PROVE a[i] < a[j]
  <2>1. i + 1 < j + 1
    BY <1>5
  <2> QED BY <2>1, <1>1, <1>2, <1>3 DEF Rising
<1> QED BY <1>2, <1>4, <1>5 DEF a, Rising

LEMMA RisingJoin ==
  ASSUME NEW p \in Seq(Nat), NEW q \in Seq(Nat)
  PROVE  Rising(p \o q) <=>
           Rising(p) /\ Rising(q) /\ \A x \in ToSet(p), y \in ToSet(q) : x < y
<1> DEFINE a == p \o q
           n == Len(p)
<1>1. /\ a \in Seq(Nat) /\ Len(a) = n + Len(q) /\ n \in Nat /\ Len(q) \in Nat
      /\ \A i \in 1..n : a[i] = p[i]
      /\ \A i \in 1..Len(q) : a[n + i] = q[i]
      /\ DOMAIN p = 1..n /\ DOMAIN q = 1..Len(q)
  BY JoinSet
<1> HIDE DEF a, n
<1>2. DOMAIN a = 1..Len(a)
  BY <1>1
<1>3. ASSUME Rising(a) PROVE Rising(p)
  BY <1>1, <1>2, <1>3 DEF Rising
<1>4. ASSUME Rising(a) PROVE Rising(q)
  <2> SUFFICES ASSUME NEW i \in 1..Len(q), NEW j \in 1..Len(q), i < j PROVE q[i] < q[j]
    BY <1>1 DEF Rising
  <2>1. n + i \in 1..Len(a) /\ n + j \in 1..Len(a) /\ n + i < n + j
    BY <1>1
  <2> QED BY <2>1, <1>1, <1>2, <1>4 DEF Rising
<1>5. ASSUME Rising(a), NEW x \in ToSet(p), NEW y \in ToSet(q) PROVE x < y
  <2>1. PICK i \in 1..Len(p) : p[i] = x
    BY Members
  <2>2. PICK j \in 1..Len(q) : q[j] = y
    BY Members
  <2>3. i \in 1..Len(a) /\ n + j \in 1..Len(a) /\ i < n + j /\ i \in 1..n
    BY <2>1, <2>2, <1>1 DEF n
  <2> QED BY <2>1, <2>2, <2>3, <1>1, <1>2, <1>5 DEF Rising
<1>6. ASSUME Rising(p), Rising(q), \A x \in ToSet(p), y \in ToSet(q) : x < y
      PROVE Rising(a)
  <2> SUFFICES ASSUME NEW i \in 1..Len(a), NEW j \in 1..Len(a), i < j PROVE a[i] < a[j]
    BY <1>2 DEF Rising
  <2>1. CASE j \in 1..n
    <3>1. i \in 1..n
      BY <2>1, <1>1
    <3> QED BY <2>1, <3>1, <1>1, <1>6 DEF Rising
  <2>2. CASE j > n
    <3>1. /\ j - n \in 1..Len(q) /\ a[n + (j - n)] = q[j - n] /\ n + (j - n) = j
      BY <2>2, <1>1
    <3>2. CASE i \in 1..n
      <4>1. p[i] \in ToSet(p) /\ q[j - n] \in ToSet(q)
        BY <3>1, <3>2, Members DEF n
      <4> QED BY <4>1, <3>1, <3>2, <1>1, <1>6
    <3>3. CASE i > n
      <4>1. /\ i - n \in 1..Len(q) /\ a[n + (i - n)] = q[i - n] /\ n + (i - n) = i
            /\ i - n < j - n
        BY <3>3, <2>2, <1>1
      <4> QED BY <3>1, <4>1, <1>1, <1>6 DEF Rising
    <3> QED BY <3>2, <3>3, <1>1
  <2> QED BY <2>1, <2>2, <1>1
<1> QED BY <1>3, <1>4, <1>5, <1>6 DEF a

\* What is in a slot or consumed was offered, and so is what is in hand.
Placed(e) == e \in Taken \/ \E s \in Slot : e \in Stored(s)

LEMMA PlacedOffered ==
  ASSUME DTypeOK, Accounted
  PROVE  /\ \A e : Placed(e) => e \in 1..offered
         /\ \A t \in Thread : Hand(t) \subseteq 1..offered
         /\ ToSet(handled) \subseteq 1..offered
         /\ \A s \in Slot : \A i \in DOMAIN slots[s] : slots[s][i] \in Stored(s)
         /\ \A i \in DOMAIN consumed : consumed[i][1] \in Taken /\ consumed[i][2] \in Slot
<1>1. \A e : e \in 1..offered <=> Somewhere(e)
  BY AccountedElementwise
<1>2. \A s \in Slot : \A i \in DOMAIN slots[s] : slots[s][i] \in Stored(s)
  BY DEF Stored, ToSet
<1>3. \A i \in DOMAIN consumed : consumed[i][1] \in Taken /\ consumed[i][2] \in Slot
  <2>1. \A i \in DOMAIN consumed : consumed[i][1] \in Taken
    BY DEF Taken
  <2>2. \A i \in DOMAIN consumed : consumed[i] \in Event \X Slot
    BY DEF DTypeOK
  <2> QED BY <2>1, <2>2
<1> QED BY <1>1, <1>2, <1>3 DEF Somewhere, Placed

\* The events that left their callers' hands stay in order when no slot is read
\* or written.
LEMMA OrderOutside ==
  ASSUME NEW t \in Thread, DTypeOK, Accounted, SlotFifo, StillInOrder,
         slots' = slots, consumed' = consumed, \A e \in 1..offered : owner'[e] = owner[e]
  PROVE  /\ \A s \in Slot : SlotRises(s)'
         /\ \A i \in DOMAIN consumed' : OlderLeft(i)'
         /\ \A i, j \in DOMAIN consumed' : LeftInOrder(i, j)'
         /\ \A e : Placed(e)' <=> Placed(e)
<1>1. /\ \A s \in Slot : SlotRises(s)
      /\ \A i \in DOMAIN consumed : OlderLeft(i)
      /\ \A i, j \in DOMAIN consumed : LeftInOrder(i, j)
  BY OrderParts
<1>2. /\ \A s \in Slot : \A i \in DOMAIN slots[s] : owner'[slots[s][i]] = owner[slots[s][i]]
      /\ \A i \in DOMAIN consumed : owner'[consumed[i][1]] = owner[consumed[i][1]]
      /\ \A s \in Slot : \A e \in Stored(s) : owner'[e] = owner[e]
  BY PlacedOffered DEF Placed
<1>3. \A s \in Slot : Stored(s)' = Stored(s)
  BY DEF Stored
<1>4. Taken' = Taken
  BY DEF Taken
<1>5. \A s \in Slot : SlotRises(s)'
  BY <1>1, <1>2 DEF SlotRises
<1>6. ASSUME NEW i \in DOMAIN consumed PROVE OlderLeft(i)'
  <2>1. consumed[i][2] \in Slot /\ OlderLeft(i)
    BY <1>1, PlacedOffered
  <2>2. \A e \in Stored(consumed[i][2]) : owner'[e] = owner[e]
    BY <2>1, <1>2
  <2> QED BY <2>1, <2>2, <1>2 DEF OlderLeft, Stored
<1>7. \A i, j \in DOMAIN consumed : LeftInOrder(i, j)'
  BY <1>1, <1>2 DEF LeftInOrder
<1> QED BY <1>3, <1>4, <1>5, <1>6, <1>7 DEF Placed

\* What a caller still has in hand stays younger than what it placed.
LEMMA HandStaysYounger ==
  ASSUME NEW u \in Thread, DTypeOK, Accounted, HandYounger(u), Hand(u)' \subseteq Hand(u),
         \A e \in 1..offered : owner'[e] = owner[e],
         \A d : Placed(d)' => \/ Placed(d)
                              \/ owner'[d] = u => \A e \in Hand(u)' : d < e
  PROVE  HandYounger(u)'
<1>1. \A d : Placed(d) => d \in 1..offered
  BY PlacedOffered
<1>2. \A e \in Hand(u)' : e \in Hand(u) /\ owner'[e] = u
  BY PlacedOffered DEF HandYounger
<1>3. ASSUME NEW e \in Hand(u)', NEW d, Placed(d)', owner'[d] = u PROVE d < e
  <2>1. CASE Placed(d)
    <3>1. owner[d] = u /\ e \in Hand(u)
      BY <2>1, <1>1, <1>2, <1>3
    <3> QED BY <2>1, <3>1 DEF Placed, HandYounger
  <2> QED BY <2>1, <1>3
<1> QED BY <1>2, <1>3 DEF HandYounger, Placed

LEMMA EventsAreNumbers ==
  ASSUME NEW q \in Seq(Event)
  PROVE  q \in Seq(Nat)
<1>1. MaxOffered \in Nat
  BY DispatchAssumption
<1>2. \A x \in Event : x \in Nat
  BY <1>1 DEF Event
<1>3. Len(q) \in Nat /\ DOMAIN q = 1..Len(q) /\ \A i \in 1..Len(q) : q[i] \in Event
  OBVIOUS
<1>4. q \in [1..Len(q) -> Nat]
  BY <1>2, <1>3
<1> QED BY <1>3, <1>4

\* A step that neither reads nor writes a slot.
LEMMA OrderSameSlots ==
  ASSUME NEW t \in Thread, DTypeOK, Accounted, SlotFifo, StillInOrder,
         \A u \in Thread \ {t} : Line(u)' = Line(u),
         Rearranged(t) \/ TakenInHand(t) \/ DroppedSome(t) \/ Bypassed(t)
  PROVE  SlotFifo' /\ StillInOrder'
<1>1. slots' = slots /\ consumed' = consumed /\ \A e \in 1..offered : owner'[e] = owner[e]
  BY OwnersStay DEF Rearranged, TakenInHand, DroppedSome, Bypassed
<1>2. /\ \A s \in Slot : SlotRises(s)'
      /\ \A i \in DOMAIN consumed' : OlderLeft(i)'
      /\ \A i, j \in DOMAIN consumed' : LeftInOrder(i, j)'
      /\ \A e : Placed(e)' <=> Placed(e)
  BY <1>1, OrderOutside
<1>3. /\ \A u \in Thread : Rising(Line(u)) /\ HandYounger(u)
      /\ Rising(handled)
  BY OrderParts
<1>4. ASSUME NEW u \in Thread, Line(u)' = Line(u) PROVE Rising(Line(u))' /\ HandYounger(u)'
  <2>1. Hand(u)' = Hand(u)
    BY <1>4 DEF Hand
  <2> QED BY <2>1, <1>1, <1>2, <1>3, <1>4, HandStaysYounger DEF Rising
<1>5. offered \in Nat /\ Event \subseteq Nat /\ Line(t) \in Seq(Event)
  <2>1. MaxOffered \in Nat
    BY DispatchAssumption
  <2>2. offered \in Nat
    BY DEF DTypeOK
  <2>3. Event \subseteq Nat
    BY <2>1 DEF Event
  <2> QED BY <2>2, <2>3, LineType
<1>6. CASE Rearranged(t)
  <2>1. handled' = handled /\ Line(t)' = Line(t)
    BY <1>6 DEF Rearranged
  <2> QED BY <2>1, <1>2, <1>3, <1>4, OrderParts
<1>7. CASE TakenInHand(t)
  <2>1. PICK n \in Nat : Line(t)' = Batch(n) /\ Offer(t, n) /\ handled' = handled
    BY <1>7 DEF TakenInHand
  <2>2. /\ Batch(n) \in Seq(Event) /\ Len(Batch(n)) = n
        /\ \A i \in 1..n : Batch(n)[i] = offered + i
        /\ offered' = offered + n
        /\ \A e \in (offered + 1)..offered' : owner'[e] = t
    BY <2>1, NewBatch
  <2> DEFINE b == Batch(n)
  <2> HIDE DEF b
  <2>3. Line(t)' = b /\ DOMAIN b = 1..n /\ \A i \in 1..n : b[i] = offered + i
    BY <2>1, <2>2 DEF b
  <2>4. Rising(Line(t))'
    <3>1. Rising(b)
      BY <2>3, <1>5 DEF Rising
    <3> QED BY <2>3, <3>1 DEF Rising
  <2>5. HandYounger(t)'
    <3>1. \A e \in Hand(t)' : e \in (offered + 1)..offered'
      BY <2>2, <2>3, <1>5 DEF Hand, ToSet
    <3>2. \A d : Placed(d)' => d \in 1..offered
      BY <1>2, PlacedOffered
    <3>3. \A d, e : d \in 1..offered /\ e \in (offered + 1)..offered' => d < e
      BY <1>5, <2>2
    <3>4. \A e \in Hand(t)' : owner'[e] = t /\ \A d : Placed(d)' => d < e
      BY <3>1, <3>2, <3>3, <2>2
    <3> QED BY <3>4 DEF HandYounger, Placed
  <2> QED BY <2>1, <2>4, <2>5, <1>2, <1>3, <1>4, OrderParts
<1>8. CASE DroppedSome(t)
  <2>1. PICK p, q \in Seq(Event) : Line(t) = p \o q /\ Line(t)' = q /\ handled' = handled
    BY <1>8 DEF DroppedSome
  <2>2. p \in Seq(Nat) /\ q \in Seq(Nat)
    BY <2>1, EventsAreNumbers
  <2>3. Rising(p \o q)
    <3>1. Rising(Line(t)) <=> Rising(p \o q)
      BY <2>1
    <3> QED BY <3>1, <1>3
  <2>4. Rising(q)
    BY <2>2, <2>3, RisingJoin
  <2>5. Rising(Line(t))'
    BY <2>1, <2>4 DEF Rising
  <2>6. Hand(t)' \subseteq Hand(t)
    <3>1. ToSet(p \o q) = ToSet(p) \cup ToSet(q)
      BY <2>1, JoinSet
    <3> QED BY <3>1, <2>1 DEF Hand
  <2>7. HandYounger(t)'
    BY <2>6, <1>1, <1>2, <1>3, HandStaysYounger
  <2> QED BY <2>1, <2>5, <2>7, <1>2, <1>3, <1>4, OrderParts
<1>9. CASE Bypassed(t)
  <2>1. PICK n \in Nat : Line(t)' = Line(t) /\ Offer(t, n) /\ handled' = handled \o Batch(n)
    BY <1>9 DEF Bypassed
  <2>2. /\ Batch(n) \in Seq(Event) /\ Len(Batch(n)) = n
        /\ \A i \in 1..n : Batch(n)[i] = offered + i
    BY <2>1, NewBatch
  <2> DEFINE b == Batch(n)
  <2> HIDE DEF b
  <2>3. /\ b \in Seq(Nat) /\ DOMAIN b = 1..n /\ (\A i \in 1..n : b[i] = offered + i)
        /\ handled' = handled \o b /\ handled \in Seq(Nat)
    <3>1. b \in Seq(Event) /\ Len(b) = n /\ (\A i \in 1..n : b[i] = offered + i)
          /\ handled' = handled \o b
      BY <2>1, <2>2 DEF b
    <3>2. handled \in Seq(Event)
      BY DEF DTypeOK
    <3>3. DOMAIN b = 1..n
      BY <3>1
    <3>4. b \in Seq(Nat) /\ handled \in Seq(Nat)
      BY <3>1, <3>2, EventsAreNumbers
    <3> QED BY <3>1, <3>3, <3>4
  <2>4. Rising(b)
    BY <2>3, <1>5 DEF Rising
  <2>5. ASSUME NEW x \in ToSet(handled), NEW y \in ToSet(b) PROVE x < y
    <3>1. x \in 1..offered
      BY PlacedOffered
    <3>2. PICK i \in 1..n : y = offered + i
      BY <2>3 DEF ToSet
    <3> QED BY <3>1, <3>2, <1>5
  <2>6. Rising(handled \o b)
    BY <2>3, <2>4, <2>5, <1>3, RisingJoin
  <2>7. Rising(handled)'
    BY <2>3, <2>6 DEF Rising
  <2> QED BY <2>1, <2>7, <1>2, <1>4, OrderParts
<1> QED BY <1>6, <1>7, <1>8, <1>9

\* A push appends the oldest event of its caller's hand to a slot.
LEMMA OrderPush ==
  ASSUME NEW t \in Thread, DTypeOK, Accounted, SlotFifo, StillInOrder,
         \A u \in Thread \ {t} : Line(u)' = Line(u), PutInSlot(t)
  PROVE  SlotFifo' /\ StillInOrder'
<1>1. PICK s \in Slot :
        /\ Line(t) # <<>> /\ Line(t)' = Tail(Line(t))
        /\ slots' = [slots EXCEPT ![s] = Append(@, Line(t)[1])]
        /\ UNCHANGED <<consumed, handled, rejected, offered, owner>>
  BY DEF PutInSlot
<1> DEFINE x == Line(t)[1]
           q == slots[s]
           n == Len(q)
<1>2. Line(t) \in Seq(Event) /\ Line(t) \in Seq(Nat) /\ slots \in [Slot -> Seq(Event)]
      /\ q \in Seq(Event)
  BY LineType, EventsAreNumbers DEF DTypeOK
<1>3. x \in Event /\ x \in Hand(t) /\ Hand(t)' \subseteq Hand(t)
  <2>1. 1 \in DOMAIN Line(t) /\ x \in Event
    BY <1>1, <1>2
  <2>2. ToSet(Tail(Line(t))) \subseteq ToSet(Line(t))
    BY <1>1, <1>2, TailSet
  <2> QED BY <2>1, <2>2, <1>1 DEF Hand, ToSet
<1>4. /\ \A u \in Thread : Rising(Line(u)) /\ HandYounger(u)
      /\ Rising(handled)
      /\ \A r \in Slot : SlotRises(r)
      /\ \A i \in DOMAIN consumed : OlderLeft(i)
      /\ \A i, j \in DOMAIN consumed : LeftInOrder(i, j)
  BY OrderParts
<1>5. owner[x] = t /\ \A d : Placed(d) /\ owner[d] = t => d < x
  BY <1>3, <1>4 DEF HandYounger, Placed
<1>6. Rising(Line(t))' /\ \A e \in Hand(t)' : x < e
  <2>1. Rising(Line(t))
    BY <1>4
  <2>2. Rising(Tail(Line(t))) /\ \A e \in ToSet(Tail(Line(t))) : x < e
    BY <2>1, <1>1, <1>2, RisingTail
  <2> QED BY <2>2, <1>1 DEF Rising, Hand
<1>7. /\ slots'[s] = Append(q, x) /\ \A r \in Slot \ {s} : slots'[r] = slots[r]
  BY <1>1, <1>2
<1>8. /\ Len(Append(q, x)) = n + 1 /\ Append(q, x) \in Seq(Event)
      /\ \A i \in 1..n : Append(q, x)[i] = q[i]
      /\ Append(q, x)[n + 1] = x
      /\ ToSet(Append(q, x)) = ToSet(q) \cup {x}
  BY <1>2, <1>3, AppendSet
<1>9. /\ Stored(s)' = Stored(s) \cup {x}
      /\ \A r \in Slot \ {s} : Stored(r)' = Stored(r)
  BY <1>7, <1>8 DEF Stored
<1>a. Taken' = Taken
  BY <1>1 DEF Taken
<1>b. \A d : Placed(d)' => Placed(d) \/ d = x
  BY <1>9, <1>a DEF Placed
<1>c. /\ \A r \in Slot : \A i \in DOMAIN slots[r] : Placed(slots[r][i])
      /\ \A i \in DOMAIN consumed : Placed(consumed[i][1]) /\ consumed[i][2] \in Slot
  BY PlacedOffered DEF Placed
<1>d. SlotRises(s)'
  <2> DEFINE a == Append(q, x)
  <2> HIDE DEF a, x, n
  <2>1. n \in Nat /\ DOMAIN q = 1..n
    BY <1>2 DEF n
  <2>2. /\ DOMAIN a = 1..(n + 1) /\ a[n + 1] = x
        /\ \A i \in 1..n : a[i] = q[i]
    BY <1>8, <2>1 DEF a
  <2>3. ASSUME NEW i \in 1..(n + 1), NEW j \in 1..(n + 1), i < j, owner[a[i]] = owner[a[j]]
        PROVE a[i] < a[j]
    <3>0. i \in 1..n /\ a[i] = q[i]
      BY <2>1, <2>2, <2>3
    <3>1. CASE j \in 1..n
      BY <3>0, <3>1, <2>1, <2>2, <2>3, <1>4 DEF SlotRises, q
    <3>2. CASE j = n + 1
      <4>1. Placed(q[i])
        BY <3>0, <2>1, <1>c DEF q
      <4> QED BY <4>1, <3>0, <3>2, <2>2, <2>3, <1>5
    <3> QED BY <3>1, <3>2, <2>1
  <2>4. slots'[s] = a /\ owner' = owner
    BY <1>1, <1>7 DEF a, x
  <2> QED BY <2>2, <2>3, <2>4 DEF SlotRises
<1>e. \A r \in Slot : SlotRises(r)'
  BY <1>1, <1>4, <1>7, <1>d DEF SlotRises
<1>f. ASSUME NEW i \in DOMAIN consumed' PROVE OlderLeft(i)'
  <2>1. consumed' = consumed /\ owner' = owner
    BY <1>1
  <2> DEFINE r == consumed[i][2]
             c == consumed[i][1]
  <2>2. r \in Slot /\ Placed(c) /\ OlderLeft(i)
    BY <2>1, <1>4, <1>c
  <2>3. \A e \in Stored(r) : owner[c] = owner[e] => c < e
    BY <2>2 DEF OlderLeft
  <2>4. \A e \in ToSet(slots'[r]) : owner[c] = owner[e] => c < e
    <3>1. ToSet(slots'[r]) \subseteq Stored(r) \cup {x}
      BY <2>2, <1>7, <1>8 DEF Stored
    <3> QED BY <3>1, <2>2, <2>3, <1>5
  <2> QED BY <2>1, <2>4 DEF OlderLeft, Stored
<1>g. \A i, j \in DOMAIN consumed' : LeftInOrder(i, j)'
  BY <1>1, <1>4 DEF LeftInOrder
<1>h. ASSUME NEW u \in Thread PROVE Rising(Line(u))' /\ HandYounger(u)'
  <2>1. \A e \in 1..offered : owner'[e] = owner[e]
    BY <1>1
  <2>2. CASE u = t
    <3>1. \A d : Placed(d)' => Placed(d) \/ \A e \in Hand(t)' : d < e
      BY <1>6, <1>b
    <3>2. HandYounger(t)'
      BY <3>1, <2>1, <1>3, <1>4, HandStaysYounger
    <3> QED BY <3>2, <2>2, <1>6
  <2>3. CASE u # t
    <3>1. Line(u)' = Line(u)
      BY <2>3
    <3>2. Hand(u)' = Hand(u)
      BY <3>1 DEF Hand
    <3>3. \A d : Placed(d)' => Placed(d) \/ owner'[d] # u
      BY <1>1, <1>5, <1>b, <2>3
    <3>4. HandYounger(u)'
      BY <3>2, <3>3, <2>1, <1>4, HandStaysYounger
    <3> QED BY <3>1, <3>4, <1>4 DEF Rising
  <2> QED BY <2>2, <2>3
<1>i. Rising(handled)'
  BY <1>1, <1>4 DEF Rising
<1> QED BY <1>e, <1>f, <1>g, <1>h, <1>i, OrderParts

\* A pop takes the oldest event of a slot.
LEMMA OrderPop ==
  ASSUME NEW t \in Thread, DTypeOK, Accounted, SlotFifo, StillInOrder,
         \A u \in Thread \ {t} : Line(u)' = Line(u), Consumed(t)
  PROVE  SlotFifo' /\ StillInOrder'
<1>1. PICK s \in Slot :
        /\ Line(t)' = Line(t) /\ slots[s] # <<>>
        /\ slots' = [slots EXCEPT ![s] = Tail(@)]
        /\ consumed' = Append(consumed, <<slots[s][1], s>>)
        /\ UNCHANGED <<handled, rejected, offered, owner>>
  BY DEF Consumed
<1> DEFINE q == slots[s]
           x == q[1]
           m == Len(consumed)
<1>2. slots \in [Slot -> Seq(Event)] /\ q \in Seq(Event) /\ q # <<>>
  BY <1>1 DEF DTypeOK
<1>3. /\ x \in ToSet(q) /\ x \in Event /\ ToSet(q) = ToSet(Tail(q)) \cup {x}
      /\ Tail(q) \in Seq(Event) /\ Len(Tail(q)) = Len(q) - 1
      /\ \A i \in 1..Len(Tail(q)) : Tail(q)[i] = q[i + 1]
  BY <1>2, TailSet
<1>4. /\ \A u \in Thread : Rising(Line(u)) /\ HandYounger(u)
      /\ Rising(handled)
      /\ \A r \in Slot : SlotRises(r)
      /\ \A i \in DOMAIN consumed : OlderLeft(i)
      /\ \A i, j \in DOMAIN consumed : LeftInOrder(i, j)
  BY OrderParts
<1>5. slots'[s] = Tail(q) /\ \A r \in Slot \ {s} : slots'[r] = slots[r]
  BY <1>1, <1>2
<1>6. /\ m \in Nat /\ DOMAIN consumed = 1..m /\ DOMAIN consumed' = 1..(m + 1)
      /\ \A i \in 1..m : consumed'[i] = consumed[i]
      /\ consumed'[m + 1] = <<x, s>>
  <2> DEFINE y == <<x, s>>
  <2>1. y \in Event \X Slot /\ consumed \in Seq(Event \X Slot) /\ consumed' = Append(consumed, y)
    BY <1>1, <1>3 DEF DTypeOK
  <2> HIDE DEF y
  <2>2. /\ m \in Nat /\ DOMAIN consumed = 1..m /\ DOMAIN consumed' = 1..(m + 1)
        /\ \A i \in 1..m : consumed'[i] = consumed[i]
        /\ consumed'[m + 1] = y
    BY <2>1
  <2> QED BY <2>2 DEF y
<1> HIDE DEF m
<1>7. /\ Len(q) \in Nat /\ DOMAIN q = 1..Len(q) /\ 1 \in 1..Len(q)
      /\ DOMAIN Tail(q) = 1..Len(Tail(q))
      /\ \A i \in DOMAIN Tail(q) : i + 1 \in 1..Len(q) /\ 1 < i + 1
  BY <1>2, <1>3
<1>8. \A e \in ToSet(Tail(q)) : owner[e] = owner[x] => x < e
  <2> SUFFICES ASSUME NEW e \in ToSet(Tail(q)), owner[e] = owner[x] PROVE x < e
    OBVIOUS
  <2>1. PICK i \in DOMAIN Tail(q) : Tail(q)[i] = e
    BY DEF ToSet
  <2>2. q[i + 1] = e /\ SlotRises(s)
    BY <2>1, <1>3, <1>4, <1>7
  <2> QED BY <2>2, <1>7 DEF SlotRises
<1>9. SlotRises(s)'
  <2>1. ASSUME NEW i \in DOMAIN Tail(q), NEW j \in DOMAIN Tail(q), i < j,
               owner[Tail(q)[i]] = owner[Tail(q)[j]]
        PROVE Tail(q)[i] < Tail(q)[j]
    <3>1. /\ Tail(q)[i] = q[i + 1] /\ Tail(q)[j] = q[j + 1] /\ i + 1 < j + 1
          /\ i + 1 \in DOMAIN q /\ j + 1 \in DOMAIN q
      BY <2>1, <1>3, <1>7
    <3>2. SlotRises(s)
      BY <1>4
    <3> QED BY <3>1, <3>2, <2>1 DEF SlotRises
  <2>2. owner' = owner
    BY <1>1
  <2> QED BY <2>1, <2>2, <1>5 DEF SlotRises
<1>a. \A r \in Slot : SlotRises(r)'
  <2>1. ASSUME NEW r \in Slot \ {s} PROVE SlotRises(r)'
    <3>1. slots'[r] = slots[r] /\ owner' = owner /\ SlotRises(r)
      BY <1>1, <1>4, <1>5
    <3> QED BY <3>1 DEF SlotRises
  <2> QED BY <2>1, <1>9
<1>b. \A r \in Slot : ToSet(slots'[r]) \subseteq Stored(r)
  BY <1>3, <1>5 DEF Stored
<1>c. \A i \in DOMAIN consumed : consumed[i][1] \in Taken /\ consumed[i][2] \in Slot
  BY PlacedOffered
<1>d. ASSUME NEW i \in DOMAIN consumed' PROVE OlderLeft(i)'
  <2>0. owner' = owner
    BY <1>1
  <2>1. CASE i \in 1..m
    <3>1. /\ consumed'[i] = consumed[i] /\ OlderLeft(i) /\ consumed[i][2] \in Slot
      BY <2>1, <1>4, <1>6, <1>c
    <3>2. \A e \in ToSet(slots'[consumed[i][2]]) :
            owner[consumed[i][1]] = owner[e] => consumed[i][1] < e
      BY <3>1, <1>b DEF OlderLeft
    <3> QED BY <2>0, <3>1, <3>2 DEF OlderLeft, Stored
  <2>2. CASE i = m + 1
    <3>1. consumed'[i][1] = x /\ consumed'[i][2] = s
      BY <2>2, <1>6
    <3>2. \A e \in ToSet(slots'[s]) : owner[x] = owner[e] => x < e
      BY <1>5, <1>8
    <3> QED BY <2>0, <3>1, <3>2 DEF OlderLeft, Stored
  <2> QED BY <2>1, <2>2, <1>6
<1>e. ASSUME NEW i \in DOMAIN consumed', NEW j \in DOMAIN consumed' PROVE LeftInOrder(i, j)'
  <2>0. owner' = owner
    BY <1>1
  <2>1. CASE i \in 1..m /\ j \in 1..m
    <3>1. consumed'[i] = consumed[i] /\ consumed'[j] = consumed[j] /\ LeftInOrder(i, j)
      BY <2>1, <1>4, <1>6
    <3> QED BY <2>0, <3>1 DEF LeftInOrder
  <2>2. CASE i \in 1..m /\ j = m + 1
    <3>1. /\ consumed'[i] = consumed[i] /\ OlderLeft(i)
          /\ consumed'[j][1] = x /\ consumed'[j][2] = s
      BY <2>2, <1>4, <1>6
    <3>2. x \in Stored(s)
      BY <1>3 DEF Stored
    <3> QED BY <2>0, <3>1, <3>2 DEF LeftInOrder, OlderLeft
  <2>3. CASE i = m + 1
    <3>1. ~(i < j)
      BY <2>3, <1>6
    <3> QED BY <3>1 DEF LeftInOrder
  <2> QED BY <2>1, <2>2, <2>3, <1>6
<1>f. \A d : Placed(d)' => Placed(d)
  <2>1. \A r \in Slot : Stored(r)' \subseteq Stored(r)
    BY <1>b DEF Stored
  <2>2. Taken' \subseteq Taken \cup {x}
    <3> SUFFICES ASSUME NEW i \in DOMAIN consumed' PROVE consumed'[i][1] \in Taken \cup {x}
      BY DEF Taken
    <3>1. CASE i \in 1..m
      BY <3>1, <1>6, <1>c
    <3>2. CASE i = m + 1
      BY <3>2, <1>6
    <3> QED BY <3>1, <3>2, <1>6
  <2>3. x \in Stored(s)
    BY <1>3 DEF Stored
  <2> QED BY <2>1, <2>2, <2>3 DEF Placed
<1>g. ASSUME NEW u \in Thread PROVE Rising(Line(u))' /\ HandYounger(u)'
  <2>1. Line(u)' = Line(u) /\ \A e \in 1..offered : owner'[e] = owner[e]
    BY <1>1
  <2>2. Hand(u)' = Hand(u)
    BY <2>1 DEF Hand
  <2> QED BY <2>1, <2>2, <1>4, <1>f, HandStaysYounger DEF Rising
<1>h. Rising(handled)'
  BY <1>1, <1>4 DEF Rising
<1> QED BY <1>a, <1>d, <1>e, <1>g, <1>h, OrderParts

LEMMA OrderStep ==
  ASSUME NEW t \in Thread, DTypeOK, CallersSound, Accounted, SlotFifo, StillInOrder, StepOf(t)
  PROVE  SlotFifo' /\ StillInOrder'
BY Moves, OrderSameSlots, OrderPush, OrderPop

(***************************************************************************)
(* No event is twice in one place: within a hand, a slot and the handled   *)
(* events by their order, among the consumed ones because an event in a    *)
(* slot has not been consumed.                                             *)
(***************************************************************************)
LEMMA RisingIsDistinct ==
  ASSUME NEW q \in Seq(Nat), Rising(q)
  PROVE  Distinct(q)
<1>1. DOMAIN q = 1..Len(q) /\ Len(q) \in Nat /\ \A i \in 1..Len(q) : q[i] \in Nat
  OBVIOUS
<1> SUFFICES ASSUME NEW i \in 1..Len(q), NEW j \in 1..Len(q), i # j PROVE q[i] # q[j]
  BY <1>1 DEF Distinct
<1>2. i < j \/ j < i
  BY <1>1
<1>3. q[i] < q[j] \/ q[j] < q[i]
  BY <1>1, <1>2 DEF Rising
<1> QED BY <1>1, <1>3

LEMMA RisingByOwnerIsDistinct ==
  ASSUME NEW q \in Seq(Nat), NEW o,
         \A i, j \in DOMAIN q : i < j /\ o[q[i]] = o[q[j]] => q[i] < q[j]
  PROVE  Distinct(q)
<1>1. DOMAIN q = 1..Len(q) /\ Len(q) \in Nat /\ \A i \in 1..Len(q) : q[i] \in Nat
  OBVIOUS
<1> SUFFICES ASSUME NEW i \in 1..Len(q), NEW j \in 1..Len(q), i # j, q[i] = q[j] PROVE FALSE
  BY <1>1 DEF Distinct
<1>2. i < j \/ j < i
  BY <1>1
<1>3. o[q[i]] = o[q[j]]
  OBVIOUS
<1>4. q[i] < q[j] \/ q[j] < q[i]
  BY <1>1, <1>2, <1>3
<1>5. q[i] \in Nat /\ q[j] \in Nat
  BY <1>1
<1> QED BY <1>4, <1>5

LEMMA OnceStep ==
  ASSUME NEW t \in Thread, DTypeOK, CallersSound, EventsConserved, StepOf(t),
         DTypeOK', SlotFifo', StillInOrder'
  PROVE  Once'
<1>1. ASSUME NEW u \in Thread PROVE Distinct(Line(u))'
  <2>1. thread'[u] \in CallerType
    BY DEF DTypeOK
  <2>2. thread'[u].batch \in Seq(Event) /\ thread'[u].events \in Seq(Event)
    BY <2>1, CallerFields
  <2> DEFINE q == thread'[u].batch \o thread'[u].events
  <2>3. q \in Seq(Event)
    BY <2>2, Joining
  <2>4. q = Line(u)'
    BY DEF Line
  <2> HIDE DEF q
  <2>5. Rising(Line(u))' <=> Rising(q)
    BY <2>4 DEF Rising
  <2>6. Distinct(q)
    BY <2>3, <2>5, EventsAreNumbers, RisingIsDistinct, OrderParts
  <2> QED BY <2>4, <2>6 DEF Distinct
<1>2. ASSUME NEW s \in Slot PROVE Distinct(slots[s])'
  <2> DEFINE q == slots'[s]
  <2>1. q \in Seq(Event)
    BY DEF DTypeOK
  <2>2. SlotRises(s)'
    BY OrderParts
  <2>3. \A i, j \in DOMAIN q : i < j /\ owner'[q[i]] = owner'[q[j]] => q[i] < q[j]
    BY <2>2 DEF SlotRises
  <2> HIDE DEF q
  <2>4. q \in Seq(Nat)
    BY <2>1, EventsAreNumbers
  <2>5. Distinct(q)
    BY <2>3, <2>4, RisingByOwnerIsDistinct
  <2> QED BY <2>5 DEF q, Distinct
<1>3. Distinct(handled)'
  <2> DEFINE q == handled'
  <2>1. q \in Seq(Event) /\ Rising(q)
    BY OrderParts DEF DTypeOK, Rising
  <2> HIDE DEF q
  <2>2. Distinct(q)
    BY <2>1, EventsAreNumbers, RisingIsDistinct
  <2> QED BY <2>2 DEF q, Distinct
<1>4. \A i, j \in DOMAIN consumed' : i # j => consumed'[i][1] # consumed'[j][1]
  <2>0. /\ Accounted /\ Apart
        /\ \A i, j \in DOMAIN consumed : i # j => consumed[i][1] # consumed[j][1]
    BY DEF EventsConserved, Once
  <2>1. CASE consumed' = consumed
    BY <2>0, <2>1
  <2>2. CASE Consumed(t)
    <3>1. PICK s \in Slot : /\ slots[s] # <<>>
                            /\ consumed' = Append(consumed, <<slots[s][1], s>>)
      BY <2>2 DEF Consumed
    <3> DEFINE x == slots[s][1]
               y == <<x, s>>
               m == Len(consumed)
    <3>2. slots[s] \in Seq(Event) /\ x \in Stored(s) /\ x \in Event
      <4>1. slots[s] \in Seq(Event)
        BY DEF DTypeOK
      <4>2. x \in ToSet(slots[s]) /\ ToSet(slots[s]) \subseteq Event
        BY <4>1, <3>1, TailSet, Members
      <4> QED BY <4>1, <4>2 DEF Stored
    <3>3. \A i \in DOMAIN consumed : consumed[i][1] # x
      <4>1. ApartAt(x)
        BY <2>0, ApartNow
      <4>2. x \notin Taken
        BY <4>1, <3>2 DEF ApartAt
      <4> QED BY <4>2 DEF Taken
    <3>4. y \in Event \X Slot /\ consumed \in Seq(Event \X Slot)
      BY <3>2 DEF DTypeOK
    <3>5. /\ m \in Nat /\ DOMAIN consumed = 1..m /\ DOMAIN consumed' = 1..(m + 1)
          /\ \A i \in 1..m : consumed'[i] = consumed[i]
          /\ consumed'[m + 1] = y
      <4> HIDE DEF y
      <4>1. consumed' = Append(consumed, y)
        BY <3>1 DEF y
      <4> QED BY <4>1, <3>4
    <3>6. consumed'[m + 1][1] = x
      BY <3>5
    <3> HIDE DEF m, y, x
    <3>7. \A i \in 1..(m + 1) : i \in 1..m \/ i = m + 1
      BY <3>5
    <3> QED BY <3>3, <3>5, <3>6, <3>7, <2>0
  <2>3. consumed' = consumed \/ Consumed(t)
    BY Moves DEF Rearranged, TakenInHand, PutInSlot, DroppedSome, Bypassed
  <2> QED BY <2>1, <2>2, <2>3
<1> QED BY <1>1, <1>2, <1>3, <1>4 DEF Once

(***************************************************************************)
(* The first theorem.                                                      *)
(***************************************************************************)
LEMMA DispatchInit ==
  ASSUME Init
  PROVE  DTypeOK /\ CallersSound /\ EventsConserved /\ SlotFifo /\ StillInOrder
<1>1. DTypeOK
  <2>1. /\ PoolMax \in Nat /\ BypassMax \in Nat /\ MaxOffered \in Nat /\ SlotCap \in Nat
    BY DispatchAssumption
  <2>2. pool \in Seq(Event \cup {0})
    <3>1. PoolMax \div 4 \in Nat
      BY <2>1
    <3> DEFINE n == PoolMax \div 4
    <3>2. pool = [i \in 1..n |-> 0]
      BY DEF Init
    <3> HIDE DEF n
    <3>3. n \in Nat
      BY <3>1 DEF n
    <3> QED BY <3>2, <3>3
  <2>3. \A s \in Slot : slots[s] = <<>>
    BY DEF Init
  <2>4. slots \in [Slot -> Seq(Event)] /\ \A s \in Slot : Len(slots[s]) <= SlotCap
    <3>1. <<>> \in Seq(Event) /\ Len(<<>>) <= SlotCap
      BY <2>1
    <3> QED BY <2>3, <3>1 DEF Init
  <2>5. /\ rings \in [Slot -> [writes : Nat, reads : Nat, written : Nat]]
        /\ totals \in [dispatched : Nat, rejected : Nat]
    BY DEF Init
  <2>6. thread \in [Thread -> CallerType]
    BY IdleType DEF Init
  <2>7. hybrid \in [stack : [1..BypassMax -> Event \cup {0}], batches : Nat, operations : Nat,
                    simd : Nat, full : Nat, fallback : Nat]
    BY DEF Init
  <2>8. kind \in Kinds /\ index \in Slot
    BY SlotModulo DEF Init
  <2>9. /\ offered \in 0..MaxOffered /\ rejected \subseteq Event
        /\ consumed \in Seq(Event \X Slot) /\ handled \in Seq(Event)
    BY <2>1 DEF Init
  <2>a. owner \in [1..offered -> Thread]
    <3>1. owner = <<>> /\ offered = 0
      BY DEF Init
    <3>2. <<>> \in [1..0 -> Thread]
      OBVIOUS
    <3> QED BY <3>1, <3>2
  <2> QED BY <2>2, <2>4, <2>5, <2>6, <2>7, <2>8, <2>9, <2>a DEF DTypeOK
<1>2. \A t \in Thread : thread[t] = Idle
  BY DEF Init
<1>3. \A t \in Thread : thread[t].pc = "idle" /\ Empty(thread[t])
  BY <1>2, IdleEmpty
<1>4. CallersSound
  <2>1. Len(<<>>) = 0
    OBVIOUS
  <2>2. ASSUME NEW t \in Thread PROVE CallerSound(thread[t])
    BY <2>1, <1>3 DEF CallerSound, Empty
  <2> QED BY <2>2 DEF CallersSound, CallerSound
<1>5. ToSet(<<>>) = {} /\ <<>> \o <<>> = <<>> /\ DOMAIN <<>> = {}
  BY DEF ToSet
<1>6. /\ \A t \in Thread : Line(t) = <<>> /\ Hand(t) = {}
      /\ \A s \in Slot : slots[s] = <<>> /\ Stored(s) = {}
      /\ consumed = <<>> /\ handled = <<>> /\ rejected = {} /\ offered = 0
      /\ Taken = {} /\ ToSet(handled) = {}
  <2>1. \A t \in Thread : Line(t) = <<>>
    BY <1>3, <1>5 DEF Line, Empty
  <2>2. /\ \A s \in Slot : slots[s] = <<>>
        /\ consumed = <<>> /\ handled = <<>> /\ rejected = {} /\ offered = 0
    BY DEF Init
  <2>3. Taken = {}
    BY <2>2, <1>5 DEF Taken
  <2> QED BY <2>1, <2>2, <2>3, <1>5 DEF Hand, Stored
<1>7. Accounted
  <2>1. \A e : ~Somewhere(e)
    BY <1>6 DEF Somewhere
  <2>2. \A e : e \notin 1..offered
    BY <1>6
  <2> QED BY <2>1, <2>2, AccountedElementwise
<1>8. Apart
  BY <1>6 DEF Apart, Gone
<1>9. Once
  BY <1>5, <1>6 DEF Once, Distinct
<1>a. SlotFifo
  BY <1>5, <1>6 DEF SlotFifo
<1>b. StillInOrder
  BY <1>5, <1>6 DEF StillInOrder
<1> QED BY <1>1, <1>4, <1>7, <1>8, <1>9, <1>a, <1>b DEF EventsConserved

\* A step of the dispatchers is a step of one caller that may take it.
LEMMA NextIsStep ==
  ASSUME Next
  PROVE  \E t \in Thread : Caller(t) /\ StepOf(t)
BY DEF Next, StepOf

LEMMA PlacesStep ==
  ASSUME DTypeOK, CallersSound, EventsConserved, SlotFifo, StillInOrder, [Next]_vars
  PROVE  DTypeOK' /\ CallersSound' /\ EventsConserved' /\ SlotFifo' /\ StillInOrder'
<1>1. CASE Next
  <2>1. PICK t \in Thread : StepOf(t)
    BY <1>1, NextIsStep
  <2>2. DTypeOK' /\ CallersSound'
    BY <2>1, TypeStep, SoundStep
  <2>3. Accounted' /\ Apart'
    BY <2>1, Moves, ConservedStep
  <2>4. SlotFifo' /\ StillInOrder'
    BY <2>1, OrderStep DEF EventsConserved
  <2>5. Once'
    BY <2>1, <2>2, <2>4, OnceStep
  <2> QED BY <2>2, <2>3, <2>4, <2>5 DEF EventsConserved
<1>2. CASE UNCHANGED vars
  <2>1. UNCHANGED <<kind, slots, rings, index, totals, pool, thread, hybrid, offered,
                    consumed, handled, rejected, owner>>
    BY <1>2 DEF vars
  <2>2. DTypeOK' /\ CallersSound'
    BY <2>1 DEF DTypeOK, CallersSound
  <2>3. /\ \A t \in Thread : Line(t)' = Line(t) /\ Hand(t)' = Hand(t)
        /\ \A s \in Slot : Stored(s)' = Stored(s)
        /\ Taken' = Taken /\ Gone' = Gone
    BY <2>1 DEF Line, Hand, Stored, Taken, Gone
  <2>4. Accounted'
    BY <2>1, <2>3, AccountedElementwise, AccountedThen DEF EventsConserved, Somewhere
  <2>5. Apart' /\ Once'
    BY <2>1, <2>3 DEF EventsConserved, Apart, Once, Distinct
  <2>6. SlotFifo' /\ StillInOrder'
    <3>1. PICK t \in Thread : TRUE
      BY DispatchAssumption
    <3>2. Rearranged(t)
      BY <2>1, <2>3 DEF Rearranged
    <3> QED BY <3>2, <2>3, OrderSameSlots DEF EventsConserved
  <2> QED BY <2>2, <2>4, <2>5, <2>6 DEF EventsConserved
<1> QED BY <1>1, <1>2

\* Whatever the callers' steps are, every event offered to a dispatcher is in
\* exactly one place (batch_write, try_write_event, batch_read,
\* process_bypass_mode, batch_acquire).
THEOREM EventsAreConserved == Spec => []EventsConserved
<1> DEFINE I == DTypeOK /\ CallersSound /\ EventsConserved /\ SlotFifo /\ StillInOrder
<1>1. Init => I
  BY DispatchInit
<1>2. I /\ [Next]_vars => I'
  BY PlacesStep
<1>3. I => EventsConserved
  OBVIOUS
<1> QED BY <1>1, <1>2, <1>3, PTL DEF Spec

(***************************************************************************)
(* One caller at a time.                                                   *)
(***************************************************************************)

\* In a round, the slot after the last tried one is next; when the round is
\* back where it began every slot was tried.
LEMMA TriedNext ==
  ASSUME NEW th \in CallerType
  PROVE  /\ Tried(th) \subseteq Slot
         /\ th.at = th.from => Tried(th) = {}
         /\ AllTried(th) => Tried(th) \cup {th.at} = Slot
         /\ \A new \in CallerType : new.from = th.from /\ new.at = After(th.at) =>
              Tried(new) \subseteq Tried(th) \cup {th.at}
<1> DEFINE a == th.at
           f == th.from
           n == SlotCount
<1>1. a \in 0..(n - 1) /\ f \in 0..(n - 1) /\ n \in Nat
  <2>1. th.at \in Slot /\ th.from \in Slot
    BY CallerFields
  <2> QED BY <2>1, DispatchAssumption DEF Slot
<1>2. After(a) = IF a = n - 1 THEN 0 ELSE a + 1
  BY <1>1, SlotModulo DEF Slot
<1>3. Tried(th) = IF f <= a THEN f..(a - 1) ELSE f..(n - 1) \cup 0..(a - 1)
  BY DEF Tried
<1> HIDE DEF a, f, n
<1>4. Tried(th) \subseteq 0..(n - 1)
  BY <1>1, <1>3
<1>5. a = f => Tried(th) = {}
  BY <1>1, <1>3
<1>6. ASSUME After(a) = f PROVE Tried(th) \cup {a} = 0..(n - 1)
  <2>1. CASE a = n - 1
    BY <2>1, <1>1, <1>2, <1>3, <1>6
  <2>2. CASE a # n - 1
    BY <2>2, <1>1, <1>2, <1>3, <1>6
  <2> QED BY <2>1, <2>2
<1>7. ASSUME NEW new \in CallerType, new.from = f, new.at = After(a)
      PROVE  Tried(new) \subseteq Tried(th) \cup {a}
  <2>0. Tried(new) = IF f <= After(a) THEN f..(After(a) - 1)
                     ELSE f..(n - 1) \cup 0..(After(a) - 1)
    BY <1>7 DEF Tried, n
  <2>1. CASE a = n - 1
    BY <2>0, <2>1, <1>1, <1>2, <1>3
  <2>2. CASE a # n - 1
    BY <2>0, <2>2, <1>1, <1>2, <1>3
  <2> QED BY <2>1, <2>2
<1> QED BY <1>4, <1>5, <1>6, <1>7 DEF a, f, n, Slot, AllTried

\* Who else is touched, and how a caller comes to write one by one.
LEMMA OneMoves ==
  ASSUME NEW t \in Thread, DTypeOK, CallersSound, StepOf(t)
  PROVE  LET th == thread[t]
             new == thread'[t]
         IN /\ kind' = kind /\ \A u \in Thread \ {t} : thread'[u] = thread[u]
            /\ \/ new.pc # "single" \/ new.at = new.from
               \/ /\ th.pc = "single" /\ IsFull(th.at) /\ slots' = slots
                  /\ new.from = th.from /\ new.at = After(th.at)
               \/ thread' = thread /\ slots' = slots
<1>1. ASSUME NEW n \in BatchSizes, process_bypass_mode(t, n)
      PROVE  kind' = kind /\ thread' = thread /\ slots' = slots
  BY <1>1 DEF process_bypass_mode
<1>2. ASSUME NEW n \in BatchSizes, ProcessBatch(t, n) \/ DispatchBatch(t, n)
      PROVE  kind' = kind /\ Only(t) /\ thread'[t].pc # "single"
  BY <1>2, ProcessBatchDoes, DispatchBatchDoes DEF ProcessBatch, DispatchBatch, Begins
<1>3. ASSUME NEW n \in TakeSizes, StartConsume(t, n)
      PROVE  kind' = kind /\ Only(t) /\ thread'[t].pc # "single"
  BY <1>3, StartConsumeDoes DEF StartConsume
<1>4. CASE Utilization(t)
  BY <1>4, UtilizationDoes DEF Utilization, Only
<1>5. CASE PlanBatch(t)
  BY <1>5, PlanBatchDoes DEF PlanBatch, Only
<1>6. CASE batch_write(t)
  BY <1>6, BatchWriteDoes DEF batch_write, Only, Pushes
<1>7. CASE try_write_event(t)
  BY <1>7, TryWriteDoes DEF try_write_event, Only, Pushes
<1>8. CASE Account(t)
  BY <1>8, AccountDoes DEF Account, Only
<1>9. CASE batch_read(t)
  BY <1>9, BatchReadDoes DEF batch_read, Only
<1>a. CASE MeasurePool(t)
  BY <1>a, MeasurePoolDoes DEF MeasurePool, Only
<1>b. CASE batch_release(t)
  BY <1>b, BatchReleaseDoes DEF batch_release, Only
<1> QED BY <1>1, <1>2, <1>3, <1>4, <1>5, <1>6, <1>7, <1>8, <1>9, <1>a, <1>b DEF StepOf, Work, Only

LEMMA LoneStep ==
  ASSUME NEW t \in Thread, DTypeOK, CallersSound, LoneCaller, Caller(t), StepOf(t), DTypeOK'
  PROVE  LoneCaller'
<1> SUFFICES ASSUME ~Shared' PROVE
      /\ \A u, v \in Thread : u # v => thread'[u].pc = "idle" \/ thread'[v].pc = "idle"
      /\ \A u \in Thread : thread'[u].pc = "single" => \A s \in Tried(thread'[u]) : IsFull(s)'
  BY DEF LoneCaller
<1>1. kind' = kind /\ \A u \in Thread \ {t} : thread'[u] = thread[u]
  BY OneMoves
<1>2. ~Shared
  BY <1>1 DEF Shared
<1>3. \A u \in Thread \ {t} : thread'[u].pc = "idle"
  BY <1>1, <1>2 DEF Caller
<1>4. ASSUME thread'[t].pc = "single", NEW s \in Tried(thread'[t]) PROVE IsFull(s)'
  <2>1. thread[t] \in CallerType /\ thread'[t] \in CallerType
    BY DEF DTypeOK
  <2>2. CASE thread'[t].at = thread'[t].from
    BY <2>1, <2>2, <1>4, TriedNext
  <2>3. CASE /\ thread[t].pc = "single" /\ IsFull(thread[t].at) /\ slots' = slots
             /\ thread'[t].from = thread[t].from /\ thread'[t].at = After(thread[t].at)
    <3>1. s \in Tried(thread[t]) \cup {thread[t].at}
      BY <2>1, <2>3, <1>4, TriedNext
    <3>2. IsFull(s)
      BY <3>1, <2>3, <1>2 DEF LoneCaller
    <3> QED BY <3>2, <2>3 DEF IsFull
  <2>4. CASE thread' = thread /\ slots' = slots
    <3>1. IsFull(s)
      BY <2>4, <1>2, <1>4 DEF LoneCaller
    <3> QED BY <3>1, <2>4 DEF IsFull
  <2> QED BY <2>2, <2>3, <2>4, <1>4, OneMoves
<1> QED BY <1>3, <1>4

\* A drop out of a round.
LEMMA LoneDrop ==
  ASSUME NEW t \in Thread, DTypeOK, CallersSound, LoneCaller, Caller(t), StepOf(t),
         kind = "lone", rejected' # rejected, NEW u \in Thread, thread[u].pc = "single"
  PROVE  \A s \in Slot : IsFull(s)
<1>1. ~Shared
  BY DEF Shared
<1>2. u = t
  BY <1>1 DEF Caller
<1>3. try_write_event(t)
  <2>1. rejected' = rejected \/ batch_write(t) \/ try_write_event(t)
    BY DEF StepOf, Work, process_bypass_mode, ProcessBatch, DispatchBatch, StartConsume,
           Utilization, PlanBatch, Account, batch_read, MeasurePool, batch_release
  <2>2. ~batch_write(t)
    BY <1>2 DEF batch_write
  <2> QED BY <2>1, <2>2
<1>4. IsFull(thread[t].at) /\ AllTried(thread[t])
  BY <1>3, TryWriteDoes
<1>5. thread[t] \in CallerType
  BY DEF DTypeOK
<1>6. Tried(thread[t]) \cup {thread[t].at} = Slot
  BY <1>4, <1>5, TriedNext
<1> QED BY <1>1, <1>2, <1>4, <1>6 DEF LoneCaller

\* With one thread at a time a small batch loses events only when every slot is
\* full (dispatch_small_batch).
THEOREM DropsOnlyWhenFull == Spec => LoneDropsOnlyWhenFull
<1> DEFINE I == /\ DTypeOK /\ CallersSound /\ EventsConserved /\ SlotFifo /\ StillInOrder
                /\ LoneCaller
<1>1. Init => I
  <2> SUFFICES ASSUME Init PROVE LoneCaller
    BY DispatchInit
  <2>1. \A t \in Thread : thread[t].pc = "idle"
    BY IdleEmpty DEF Init
  <2> QED BY <2>1 DEF LoneCaller
<1>2. I /\ [Next]_vars => I'
  <2> SUFFICES ASSUME I, [Next]_vars PROVE LoneCaller'
    BY PlacesStep
  <2>1. DTypeOK'
    BY PlacesStep
  <2>2. CASE Next
    <3>1. PICK t \in Thread : Caller(t) /\ StepOf(t)
      BY <2>2, NextIsStep
    <3> QED BY <2>1, <3>1, LoneStep
  <2>3. CASE UNCHANGED vars
    BY <2>3 DEF vars, LoneCaller, Shared, IsFull
  <2> QED BY <2>2, <2>3
<1>3. I /\ [Next]_vars => [(/\ kind = "lone" /\ rejected' # rejected
                            /\ \E t \in Thread : thread[t].pc = "single")
                           => \A s \in Slot : IsFull(s)]_vars
  <2> SUFFICES ASSUME I, Next, kind = "lone", rejected' # rejected,
                      NEW u \in Thread, thread[u].pc = "single"
               PROVE  \A s \in Slot : IsFull(s)
    OBVIOUS
  <2>1. PICK t \in Thread : Caller(t) /\ StepOf(t)
    BY NextIsStep
  <2> QED BY <2>1, LoneDrop
<1> QED BY <1>1, <1>2, <1>3, PTL DEF Spec, LoneDropsOnlyWhenFull

(***************************************************************************)
(* Sums.                                                                   *)
(***************************************************************************)
Pairs(S, c) == UNION {{x} \X (1..c[x]) : x \in S}

LEMMA PairsFinite ==
  ASSUME NEW S, IsFiniteSet(S), NEW c, \A x \in S : c[x] \in Nat
  PROVE  IsFiniteSet(Pairs(S, c)) /\ Total(S, c) = Cardinality(Pairs(S, c)) /\ Total(S, c) \in Nat
<1> DEFINE T == {{x} \X (1..c[x]) : x \in S}
           f == [x \in S |-> {x} \X (1..c[x])]
<1>1. f \in Surjection(S, T)
  BY DEF Surjection
<1>2. IsFiniteSet(T)
  <2> HIDE DEF f, T
  <2> QED BY <1>1, FS_Surjection
<1>3. ASSUME NEW x \in S PROVE IsFiniteSet({x} \X (1..c[x]))
  <2>1. IsFiniteSet({x})
    BY FS_Singleton
  <2>2. IsFiniteSet(1..c[x])
    BY FS_Interval
  <2> QED BY <2>1, <2>2, FS_Product
<1>4. \A R \in T : IsFiniteSet(R)
  BY <1>3
<1>5. IsFiniteSet(UNION T)
  <2> HIDE DEF T
  <2> QED BY <1>2, <1>4, FS_UNION
<1>6. Pairs(S, c) = UNION T /\ Total(S, c) = Cardinality(UNION T)
  BY DEF Pairs, Total
<1> QED BY <1>5, <1>6, FS_CardinalityType

LEMMA PairsMembers ==
  ASSUME NEW S, NEW c, NEW p
  PROVE  p \in Pairs(S, c) <=> \E x \in S : p \in {x} \X (1..c[x])
BY DEF Pairs

LEMMA TotalSplit ==
  ASSUME NEW S, IsFiniteSet(S), NEW c, \A x \in S : c[x] \in Nat, NEW t \in S
  PROVE  Total(S, c) = Total(S \ {t}, c) + c[t]
<1> DEFINE R == S \ {t}
           A == Pairs(R, c)
           B == {t} \X (1..c[t])
           n == c[t]
<1>1. IsFiniteSet(R) /\ \A x \in R : c[x] \in Nat
  BY FS_RemoveElement
<1>2. /\ IsFiniteSet(A) /\ Total(R, c) = Cardinality(A)
      /\ Total(S, c) = Cardinality(Pairs(S, c))
  <2> HIDE DEF R
  <2> QED BY <1>1, PairsFinite
<1>3. IsFiniteSet(B) /\ Cardinality(B) = n
  <2>1. IsFiniteSet({t}) /\ Cardinality({t}) = 1
    BY FS_Singleton
  <2>2. n \in Nat /\ IsFiniteSet(1..n) /\ Cardinality(1..n) = n
    <3>1. n \in Nat
      OBVIOUS
    <3> HIDE DEF n
    <3>2. IsFiniteSet(1..n) /\ Cardinality(1..n) = IF 1 > n THEN 0 ELSE n - 1 + 1
      BY <3>1, FS_Interval
    <3> QED BY <3>1, <3>2
  <2>3. IsFiniteSet(B) /\ Cardinality(B) = 1 * n
    BY <2>1, <2>2, FS_Product
  <2> HIDE DEF n
  <2> QED BY <2>2, <2>3
<1>4. A \cap B = {}
  <2> SUFFICES ASSUME NEW p, p \in A, p \in B PROVE FALSE
    OBVIOUS
  <2>1. PICK x \in R : p \in {x} \X (1..c[x])
    BY PairsMembers
  <2>2. p[1] = x /\ p[1] = t
    BY <2>1
  <2> QED BY <2>2
<1>5. Pairs(S, c) = A \cup B
  <2>1. \A p : p \in Pairs(S, c) <=> p \in A \/ p \in B
    BY PairsMembers
  <2> HIDE DEF A, B
  <2> QED BY <2>1
<1>6. Cardinality(A \cup B) = Cardinality(A) + Cardinality(B)
  <2> HIDE DEF A, B
  <2>1. Cardinality(A \cup B) = Cardinality(A) + Cardinality(B) - Cardinality(A \cap B)
    BY <1>2, <1>3, FS_Union
  <2>2. Cardinality(A \cap B) = 0 /\ Cardinality(A) \in Nat /\ Cardinality(B) \in Nat
    BY <1>2, <1>3, <1>4, FS_EmptySet, FS_CardinalityType
  <2> QED BY <2>1, <2>2
<1> QED BY <1>2, <1>3, <1>5, <1>6

LEMMA TotalSame ==
  ASSUME NEW S, NEW c, NEW d, \A x \in S : c[x] = d[x]
  PROVE  Total(S, c) = Total(S, d)
<1>1. {{x} \X (1..c[x]) : x \in S} = {{x} \X (1..d[x]) : x \in S}
  OBVIOUS
<1> QED BY <1>1 DEF Total

\* A sum changes by what one of its terms does.
LEMMA TotalChange ==
  ASSUME NEW S, IsFiniteSet(S), NEW c, NEW d, NEW t \in S,
         \A x \in S : c[x] \in Nat /\ d[x] \in Nat,
         \A x \in S \ {t} : d[x] = c[x]
  PROVE  Total(S, d) + c[t] = Total(S, c) + d[t] /\ Total(S, c) \in Nat /\ Total(S, d) \in Nat
<1> DEFINE R == S \ {t}
<1>1. Total(R, c) = Total(R, d)
  BY TotalSame
<1>2. Total(S, c) = Total(R, c) + c[t] /\ Total(S, d) = Total(R, d) + d[t]
  BY TotalSplit
<1>3. Total(R, c) \in Nat /\ c[t] \in Nat /\ d[t] \in Nat
  <2>1. IsFiniteSet(R) /\ \A x \in R : c[x] \in Nat
    BY FS_RemoveElement
  <2> HIDE DEF R
  <2> QED BY <2>1, PairsFinite
<1> DEFINE r == Total(R, c)
           a == c[t]
           b == d[t]
<1>4. Total(S, c) = r + a /\ Total(S, d) = r + b /\ r \in Nat /\ a \in Nat /\ b \in Nat
  BY <1>1, <1>2, <1>3
<1> HIDE DEF r, a, b
<1>5. Total(S, d) + a = Total(S, c) + b /\ Total(S, c) \in Nat /\ Total(S, d) \in Nat
  BY <1>4
<1> QED BY <1>5 DEF a, b

LEMMA TotalZero ==
  ASSUME NEW S, NEW c, \A x \in S : c[x] = 0
  PROVE  Total(S, c) = 0
<1>1. \A p : p \notin Pairs(S, c)
  <2>1. 1..0 = {}
    OBVIOUS
  <2> QED BY <2>1, PairsMembers
<1>2. Pairs(S, c) = {}
  BY <1>1
<1> QED BY <1>2, FS_EmptySet DEF Pairs, Total

\* A sum of terms of at most m.
LEMMA TotalBound ==
  ASSUME NEW S, IsFiniteSet(S), NEW c, NEW m \in Nat, \A x \in S : c[x] \in 0..m
  PROVE  Total(S, c) <= Cardinality(S) * m
<1>1. \A x \in S : c[x] \in Nat
  OBVIOUS
<1>2. Total(S, c) = Cardinality(Pairs(S, c))
  BY <1>1, PairsFinite
<1>3. Pairs(S, c) \subseteq S \X (1..m)
  <2> SUFFICES ASSUME NEW p \in Pairs(S, c) PROVE p \in S \X (1..m)
    OBVIOUS
  <2>1. PICK x \in S : p \in {x} \X (1..c[x])
    BY PairsMembers
  <2>2. 1..c[x] \subseteq 1..m
    BY <1>1
  <2> QED BY <2>1, <2>2
<1>4. IsFiniteSet(1..m) /\ Cardinality(1..m) = m
  <2>1. IsFiniteSet(1..m) /\ Cardinality(1..m) = IF 1 > m THEN 0 ELSE m - 1 + 1
    BY FS_Interval
  <2> QED BY <2>1
<1>5. IsFiniteSet(S \X (1..m)) /\ Cardinality(S \X (1..m)) = Cardinality(S) * m
  BY <1>4, FS_Product
<1> QED BY <1>2, <1>3, <1>5, FS_Subset

(***************************************************************************)
(* The pool.                                                               *)
(***************************************************************************)

\* What a step does to the pool and to the room its caller saw.
LEMMA PoolMoves ==
  ASSUME NEW t \in Thread, DTypeOK, CallersSound, StepOf(t)
  PROVE  LET th == thread[t]
             new == thread'[t]
         IN \/ new.room = th.room /\ Len(pool') <= Len(pool)
            \/ /\ pool' = pool /\ th.room = 0
               /\ new.room = IF Len(pool) < PoolMax THEN PoolMax - Len(pool) ELSE 0
            \/ new.room = 0 /\ Len(pool') <= Len(pool) + th.room
<1>0. Len(pool) \in Nat
  BY DEF DTypeOK
<1>1. pool' = pool => Len(pool') <= Len(pool)
  BY <1>0
<1>2. thread[t].pc # "release" => thread[t].room = 0
  BY DEF CallersSound
<1>3. ASSUME NEW n \in BatchSizes, process_bypass_mode(t, n)
      PROVE  thread' = thread /\ pool' = pool
  BY <1>3 DEF process_bypass_mode
<1>4. ASSUME NEW n \in BatchSizes, ProcessBatch(t, n) \/ DispatchBatch(t, n)
      PROVE  thread'[t].room = thread[t].room /\ Len(pool') <= Len(pool)
  BY <1>4, ProcessBatchDoes, DispatchBatchDoes DEF Begins
<1>5. ASSUME NEW n \in TakeSizes, StartConsume(t, n)
      PROVE  thread'[t].room = thread[t].room /\ pool' = pool
  BY <1>5, StartConsumeDoes DEF StartConsume, Empty
<1>6. CASE Utilization(t)
  BY <1>1, <1>6, UtilizationDoes DEF Utilization, Alike
<1>7. CASE PlanBatch(t)
  BY <1>1, <1>7, PlanBatchDoes DEF PlanBatch
<1>8. CASE batch_write(t)
  BY <1>1, <1>8, BatchWriteDoes DEF batch_write, Pushes
<1>9. CASE try_write_event(t)
  BY <1>1, <1>9, TryWriteDoes DEF try_write_event, Pushes
<1>a. CASE Account(t)
  BY <1>1, <1>2, <1>a, AccountDoes DEF Account, Empty
<1>b. CASE batch_read(t)
  BY <1>1, <1>b, BatchReadDoes DEF batch_read
<1>c. CASE MeasurePool(t)
  BY <1>c, MeasurePoolDoes DEF MeasurePool, Empty
<1>d. CASE batch_release(t)
  BY <1>d, BatchReleaseDoes DEF Empty
<1> QED BY <1>1, <1>3, <1>4, <1>5, <1>6, <1>7, <1>8, <1>9, <1>a, <1>b, <1>c, <1>d DEF StepOf, Work

\* The pool and the room its callers saw stay within max_size, once for each of
\* the callers that may overlap: a caller that measures sees at most what is
\* missing to max_size, and the others at most max_size each.
LEMMA PoolStep ==
  ASSUME NEW t \in Thread, DTypeOK, CallersSound, DTypeOK', CallersSound', LoneCaller,
         Caller(t), StepOf(t), PoolWithRoom
  PROVE  PoolWithRoom'
<1> DEFINE N == IF Shared THEN Cardinality(Thread) ELSE 1
           R == Total(Thread, Room)
           Rn == Total(Thread, Room)'
           old == thread[t].room
           new == thread'[t].room
           p == Len(pool)
           pn == Len(pool')
<1>1. kind' = kind /\ \A u \in Thread \ {t} : thread'[u] = thread[u]
  BY OneMoves
<1>2. \A u \in Thread : thread[u].room \in Nat /\ thread'[u].room \in Nat
  <2>1. \A u \in Thread : thread[u] \in CallerType /\ thread'[u] \in CallerType
    BY DEF DTypeOK
  <2> QED BY <2>1, CallerFields
<1>3. /\ \A u \in Thread : Room[u] = thread[u].room /\ Room'[u] = thread'[u].room
      /\ IsFiniteSet(Thread) /\ PoolMax \in Nat
  BY DispatchAssumption DEF Room
<1>4. Rn + old = R + new /\ R \in Nat /\ Rn \in Nat
  <2>1. Rn = Total(Thread, Room')
    OBVIOUS
  <2> DEFINE c == Room
             d == Room'
  <2>2. /\ \A x \in Thread : c[x] \in Nat /\ d[x] \in Nat
        /\ \A x \in Thread \ {t} : d[x] = c[x]
        /\ c[t] = old /\ d[t] = new
    BY <1>1, <1>2, <1>3
  <2> HIDE DEF c, d
  <2>3. /\ Total(Thread, d) + c[t] = Total(Thread, c) + d[t]
        /\ Total(Thread, c) \in Nat /\ Total(Thread, d) \in Nat
    <3>1. IsFiniteSet(Thread)
      BY <1>3
    <3>2. /\ \A x \in Thread : c[x] \in Nat /\ d[x] \in Nat
          /\ \A x \in Thread \ {t} : d[x] = c[x]
      BY <2>2
    <3> QED BY <3>1, <3>2, TotalChange
  <2> QED BY <2>1, <2>2, <2>3 DEF c, d
<1>5. p \in Nat /\ pn \in Nat /\ old \in Nat /\ new \in Nat
  <2>1. pool \in Seq(Event \cup {0}) /\ pool' \in Seq(Event \cup {0})
    BY DEF DTypeOK
  <2>2. p \in Nat /\ pn \in Nat
    BY <2>1
  <2> QED BY <1>2, <2>2
<1>6. p + R <= N * PoolMax /\ old <= PoolMax
  BY DEF PoolWithRoom
<1>7. N \in Nat \ {0}
  <2>1. Cardinality(Thread) \in Nat /\ (Cardinality(Thread) = 0 <=> Thread = {})
    BY <1>3, FS_EmptySet, FS_CardinalityType
  <2> QED BY <2>1
<1>8. \/ new = old /\ pn <= p
      \/ pn = p /\ old = 0 /\ new = IF p < PoolMax THEN PoolMax - p ELSE 0
      \/ new = 0 /\ pn <= p + old
  BY PoolMoves
<1>9. new <= PoolMax
  <2> HIDE DEF new, old, p, pn
  <2> QED BY <1>3, <1>5, <1>6, <1>8
<1>a. \A u \in Thread : thread'[u].room <= PoolMax
  BY <1>1, <1>9 DEF PoolWithRoom
<1>b. R <= (N - 1) * PoolMax + old
  <2> DEFINE O == Thread \ {t}
             T == Total(O, Room)
  <2>1. R = T + old
    BY <1>2, <1>3, TotalSplit
  <2>2. IsFiniteSet(O) /\ Cardinality(O) = Cardinality(Thread) - 1
    BY <1>3, FS_RemoveElement
  <2>3. CASE Shared
    <3>1. \A u \in O : Room[u] \in 0..PoolMax
      BY <1>2, <1>3 DEF PoolWithRoom
    <3>2. T <= Cardinality(O) * PoolMax
      <4> HIDE DEF O
      <4> QED BY <2>2, <3>1, <1>3, TotalBound
    <3>3. T \in Nat
      <4>1. \A u \in O : Room[u] \in Nat
        BY <1>2, <1>3
      <4> HIDE DEF O
      <4> QED BY <2>2, <4>1, PairsFinite
    <3>4. N - 1 = Cardinality(O)
      BY <2>2, <2>3
    <3> DEFINE k == (N - 1) * PoolMax
    <3>5. T <= k /\ k \in Int
      BY <3>2, <3>4, <1>3, <1>7
    <3> HIDE DEF k, T, R, old
    <3>6. R <= k + old
      BY <2>1, <3>3, <3>5, <1>4, <1>5
    <3> QED BY <3>6 DEF k
  <2>4. CASE ~Shared
    <3>1. \A u \in O : thread[u].pc = "idle"
      BY <2>4 DEF Caller
    <3>2. \A u \in O : Room[u] = 0
      BY <3>1, <1>3 DEF CallersSound
    <3>3. T = 0
      BY <3>2, TotalZero
    <3>4. (N - 1) * PoolMax = 0
      BY <2>4, <1>3
    <3> HIDE DEF T, R, old
    <3>5. R <= 0 + old
      BY <2>1, <3>3, <1>4, <1>5
    <3> QED BY <3>4, <3>5
  <2> QED BY <2>3, <2>4
<1>c. N * PoolMax = (N - 1) * PoolMax + PoolMax
  <2> HIDE DEF N
  <2> QED BY <1>3, <1>7
<1>d. pn + Rn <= N * PoolMax
  <2> DEFINE k == (N - 1) * PoolMax
             z == N * PoolMax
  <2>1. k \in Int /\ z \in Int
    <3> HIDE DEF N
    <3> QED BY <1>3, <1>7
  <2>2. z = k + PoolMax /\ R <= k + old /\ p + R <= z
    BY <1>6, <1>b, <1>c
  <2> HIDE DEF k, z, R, Rn, old, new, p, pn
  <2>3. pn + Rn <= z
    BY <2>1, <2>2, <1>3, <1>4, <1>5, <1>8
  <2> QED BY <2>3 DEF z
<1>e. N = IF Shared' THEN Cardinality(Thread) ELSE 1
  BY <1>1 DEF Shared
<1> QED BY <1>a, <1>d, <1>e DEF PoolWithRoom

LEMMA PoolIsBounded ==
  ASSUME DTypeOK, PoolWithRoom
  PROVE  PoolBounded
<1> DEFINE z == (IF Shared THEN Cardinality(Thread) ELSE 1) * PoolMax
           p == Len(pool)
           R == Total(Thread, Room)
<1>1. \A t \in Thread : Room[t] \in Nat
  <2>1. \A t \in Thread : thread[t] \in CallerType
    BY DEF DTypeOK
  <2> QED BY <2>1, CallerFields DEF Room
<1>2. R \in Nat /\ p \in Nat /\ p + R <= z
  <2>1. IsFiniteSet(Thread)
    BY DispatchAssumption
  <2>2. R \in Nat
    BY <1>1, <2>1, PairsFinite
  <2>3. p \in Nat
    BY DEF DTypeOK
  <2> QED BY <2>2, <2>3 DEF PoolWithRoom
<1>3. z \in Nat
  <2>1. Cardinality(Thread) \in Nat /\ PoolMax \in Nat
    BY DispatchAssumption, FS_CardinalityType
  <2> QED BY <2>1
<1> HIDE DEF z, p, R
<1>4. p <= z
  BY <1>2, <1>3
<1> QED BY <1>4 DEF z, p, PoolBounded

(***************************************************************************)
(* The counters.                                                           *)
(***************************************************************************)

\* What one caller has written and not counted, dropped and not counted, and
\* has not yet added to the counters of a slot.
UncountedBy(th) == th.done + th.written
DroppedBy(th) == th.size - (th.done + th.written + Len(th.batch) + Len(th.events))
WritingTo(th, s) == IF th.at = s THEN th.written ELSE 0
ReadingFrom(th, s) == IF th.slot = s THEN th.read ELSE 0
Lens == [s \in Slot |-> Len(slots[s])]

LEMMA BooksType ==
  ASSUME NEW th \in CallerType, CallerSound(th)
  PROVE  /\ UncountedBy(th) \in Nat /\ DroppedBy(th) \in Nat
         /\ \A s : WritingTo(th, s) \in Nat /\ ReadingFrom(th, s) \in Nat
<1> DEFINE b == Len(th.batch)
           e == Len(th.events)
<1>1. /\ th.done \in Nat /\ th.written \in Nat /\ th.size \in Nat /\ th.read \in Nat
      /\ th.batch \in Seq(Event) /\ th.events \in Seq(Event)
  BY CallerFields
<1>2. b \in Nat /\ e \in Nat
  BY <1>1
<1>3. th.done + th.written + b + e <= th.size
  BY DEF CallerSound
<1>4. \A s : WritingTo(th, s) \in Nat /\ ReadingFrom(th, s) \in Nat
  BY <1>1 DEF WritingTo, ReadingFrom
<1> HIDE DEF b, e
<1>5. UncountedBy(th) \in Nat
  BY <1>1 DEF UncountedBy
<1>6. th.size - (th.done + th.written + b + e) \in Nat
  BY <1>1, <1>2, <1>3
<1> QED BY <1>4, <1>5, <1>6 DEF DroppedBy, b, e

\* How the sums over the callers change with one of them.
LEMMA ThreadTotals ==
  ASSUME NEW t \in Thread, DTypeOK, DTypeOK', CallersSound, CallersSound',
         \A u \in Thread \ {t} : thread'[u] = thread[u]
  PROVE  LET th == thread[t]
             new == thread'[t]
         IN /\ Total(Thread, Uncounted)' + UncountedBy(th) = Total(Thread, Uncounted) + UncountedBy(new)
            /\ Total(Thread, Dropped)' + DroppedBy(th) = Total(Thread, Dropped) + DroppedBy(new)
            /\ \A s \in Slot :
                 /\ Total(Thread, Writing(s))' + WritingTo(th, s)
                      = Total(Thread, Writing(s)) + WritingTo(new, s)
                 /\ Total(Thread, Reading(s))' + ReadingFrom(th, s)
                      = Total(Thread, Reading(s)) + ReadingFrom(new, s)
                 /\ Total(Thread, Writing(s)) \in Nat /\ Total(Thread, Writing(s))' \in Nat
                 /\ Total(Thread, Reading(s)) \in Nat /\ Total(Thread, Reading(s))' \in Nat
            /\ Total(Thread, Uncounted) \in Nat /\ Total(Thread, Uncounted)' \in Nat
            /\ Total(Thread, Dropped) \in Nat /\ Total(Thread, Dropped)' \in Nat
<1>0. IsFiniteSet(Thread)
  BY DispatchAssumption
<1>1. ASSUME NEW u \in Thread
      PROVE /\ UncountedBy(thread[u]) \in Nat /\ UncountedBy(thread'[u]) \in Nat
            /\ DroppedBy(thread[u]) \in Nat /\ DroppedBy(thread'[u]) \in Nat
            /\ \A s : /\ WritingTo(thread[u], s) \in Nat /\ WritingTo(thread'[u], s) \in Nat
                      /\ ReadingFrom(thread[u], s) \in Nat /\ ReadingFrom(thread'[u], s) \in Nat
  <2>1. thread[u] \in CallerType /\ thread'[u] \in CallerType
    BY DEF DTypeOK
  <2>2. CallerSound(thread[u])
    BY DEF CallersSound, CallerSound
  <2>3. CallerSound(thread'[u])
    BY DEF CallersSound, CallerSound
  <2> QED BY <2>1, <2>2, <2>3, BooksType
<1>2. ASSUME NEW c, NEW d,
             \A u \in Thread : c[u] \in Nat /\ d[u] \in Nat,
             \A u \in Thread \ {t} : d[u] = c[u]
      PROVE  /\ Total(Thread, d) + c[t] = Total(Thread, c) + d[t]
             /\ Total(Thread, c) \in Nat /\ Total(Thread, d) \in Nat
  BY <1>0, <1>2, TotalChange
<1>3. /\ Total(Thread, Uncounted)' + UncountedBy(thread[t])
           = Total(Thread, Uncounted) + UncountedBy(thread'[t])
      /\ Total(Thread, Uncounted) \in Nat /\ Total(Thread, Uncounted)' \in Nat
  <2> DEFINE c == Uncounted
             d == Uncounted'
  <2>1. \A u \in Thread : c[u] = UncountedBy(thread[u]) /\ d[u] = UncountedBy(thread'[u])
    BY DEF Uncounted, UncountedBy
  <2>2. Total(Thread, Uncounted) = Total(Thread, c) /\ Total(Thread, Uncounted)' = Total(Thread, d)
    OBVIOUS
  <2> HIDE DEF c, d
  <2> QED BY <2>1, <2>2, <1>1, <1>2
<1>4. /\ Total(Thread, Dropped)' + DroppedBy(thread[t])
           = Total(Thread, Dropped) + DroppedBy(thread'[t])
      /\ Total(Thread, Dropped) \in Nat /\ Total(Thread, Dropped)' \in Nat
  <2> DEFINE c == Dropped
             d == Dropped'
  <2>1. \A u \in Thread : c[u] = DroppedBy(thread[u]) /\ d[u] = DroppedBy(thread'[u])
    BY DEF Dropped, DroppedBy
  <2>2. Total(Thread, Dropped) = Total(Thread, c) /\ Total(Thread, Dropped)' = Total(Thread, d)
    OBVIOUS
  <2> HIDE DEF c, d
  <2> QED BY <2>1, <2>2, <1>1, <1>2
<1>5. ASSUME NEW s \in Slot
      PROVE /\ Total(Thread, Writing(s))' + WritingTo(thread[t], s)
                 = Total(Thread, Writing(s)) + WritingTo(thread'[t], s)
            /\ Total(Thread, Writing(s)) \in Nat /\ Total(Thread, Writing(s))' \in Nat
  <2> DEFINE c == Writing(s)
             d == Writing(s)'
  <2>1. \A u \in Thread : c[u] = WritingTo(thread[u], s) /\ d[u] = WritingTo(thread'[u], s)
    BY DEF Writing, WritingTo
  <2>2. Total(Thread, Writing(s)) = Total(Thread, c) /\ Total(Thread, Writing(s))' = Total(Thread, d)
    OBVIOUS
  <2> HIDE DEF c, d
  <2> QED BY <2>1, <2>2, <1>1, <1>2
<1>6. ASSUME NEW s \in Slot
      PROVE /\ Total(Thread, Reading(s))' + ReadingFrom(thread[t], s)
                 = Total(Thread, Reading(s)) + ReadingFrom(thread'[t], s)
            /\ Total(Thread, Reading(s)) \in Nat /\ Total(Thread, Reading(s))' \in Nat
  <2> DEFINE c == Reading(s)
             d == Reading(s)'
  <2>1. \A u \in Thread : c[u] = ReadingFrom(thread[u], s) /\ d[u] = ReadingFrom(thread'[u], s)
    BY DEF Reading, ReadingFrom
  <2>2. Total(Thread, Reading(s)) = Total(Thread, c) /\ Total(Thread, Reading(s))' = Total(Thread, d)
    OBVIOUS
  <2> HIDE DEF c, d
  <2> QED BY <2>1, <2>2, <1>1, <1>2
<1> QED BY <1>3, <1>4, <1>5, <1>6

LEMMA SlotTotals ==
  ASSUME DTypeOK, DTypeOK', NEW s \in Slot, \A r \in Slot \ {s} : slots'[r] = slots[r]
  PROVE  /\ Total(Slot, Lens)' + Len(slots[s]) = Total(Slot, Lens) + Len(slots'[s])
         /\ Total(Slot, Lens) \in Nat /\ Total(Slot, Lens)' \in Nat
<1>1. IsFiniteSet(Slot)
  BY DispatchAssumption, FS_Interval DEF Slot
<1> DEFINE c == Lens
           d == Lens'
<1>2. \A r \in Slot : c[r] = Len(slots[r]) /\ d[r] = Len(slots'[r])
  BY DEF Lens
<1>3. \A r \in Slot : c[r] \in Nat /\ d[r] \in Nat
  <2>1. \A r \in Slot : slots[r] \in Seq(Event) /\ slots'[r] \in Seq(Event)
    BY DEF DTypeOK
  <2>2. \A r \in Slot : Len(slots[r]) \in Nat /\ Len(slots'[r]) \in Nat
    BY <2>1
  <2> HIDE DEF c, d
  <2> QED BY <1>2, <2>2
<1>4. Total(Slot, Lens) = Total(Slot, c) /\ Total(Slot, Lens)' = Total(Slot, d)
  OBVIOUS
<1> HIDE DEF c, d
<1>5. \A r \in Slot \ {s} : d[r] = c[r]
  BY <1>2
<1>6. /\ Total(Slot, d) + c[s] = Total(Slot, c) + d[s]
      /\ Total(Slot, c) \in Nat /\ Total(Slot, d) \in Nat
  BY <1>1, <1>3, <1>5, TotalChange
<1> QED BY <1>2, <1>4, <1>6

LEMMA UpTo == \A n \in Nat : IsFiniteSet(1..n) /\ Cardinality(1..n) = n
<1> SUFFICES ASSUME NEW n \in Nat PROVE IsFiniteSet(1..n) /\ Cardinality(1..n) = n
  OBVIOUS
<1>1. IsFiniteSet(1..n) /\ Cardinality(1..n) = IF 1 > n THEN 0 ELSE n - 1 + 1
  BY FS_Interval
<1> QED BY <1>1

LEMMA RejectedFinite ==
  ASSUME NEW R, R \subseteq Event
  PROVE  IsFiniteSet(R) /\ Cardinality(R) \in Nat
<1>1. MaxOffered \in Nat
  BY DispatchAssumption
<1>2. IsFiniteSet(Event)
  BY <1>1, UpTo DEF Event
<1>3. IsFiniteSet(R)
  BY <1>2, FS_Subset
<1> QED BY <1>3, FS_CardinalityType

\* The dropped part of a hand is new among the dropped events.
LEMMA RejectedGrows ==
  ASSUME NEW t \in Thread, DTypeOK, EventsConserved, NEW q \in Seq(Event), NEW r \in Seq(Event),
         Line(t) = q \o r
  PROVE  /\ Cardinality(rejected \cup ToSet(q)) = Cardinality(rejected) + Len(q)
         /\ Cardinality(rejected) \in Nat
<1>1. IsFiniteSet(rejected) /\ Cardinality(rejected) \in Nat
  BY RejectedFinite DEF DTypeOK
<1>2. Distinct(q)
  <2>1. Distinct(q \o r)
    <3>1. Distinct(Line(t)) <=> Distinct(q \o r)
      OBVIOUS
    <3> QED BY <3>1 DEF EventsConserved, Once
  <2>2. /\ q \o r \in Seq(Event) /\ Len(q \o r) = Len(q) + Len(r)
        /\ \A i \in 1..Len(q) : (q \o r)[i] = q[i]
    BY JoinSet
  <2>3. Len(q) \in Nat /\ Len(r) \in Nat /\ DOMAIN q = 1..Len(q)
    OBVIOUS
  <2> DEFINE j == q \o r
  <2> HIDE DEF j
  <2>4. j \in Seq(Event) /\ Len(j) = Len(q) + Len(r) /\ Distinct(j)
        /\ \A i \in 1..Len(q) : j[i] = q[i]
    BY <2>1, <2>2 DEF j
  <2>5. \A i \in 1..Len(q) : i \in DOMAIN j
    BY <2>3, <2>4
  <2> QED BY <2>3, <2>4, <2>5 DEF Distinct
<1>3. IsFiniteSet(ToSet(q)) /\ Cardinality(ToSet(q)) = Len(q)
  <2>1. Len(q) \in Nat /\ DOMAIN q = 1..Len(q) /\ ToSet(q) = {q[i] : i \in DOMAIN q}
    BY DEF ToSet
  <2>2. q \in [1..Len(q) -> ToSet(q)]
    BY <2>1
  <2>3. q \in Surjection(1..Len(q), ToSet(q))
    BY <2>1, <2>2 DEF Surjection
  <2>4. q \in Injection(1..Len(q), ToSet(q))
    BY <2>1, <2>2, <1>2 DEF Injection, IsInjective, Distinct
  <2>5. IsFiniteSet(1..Len(q)) /\ Cardinality(1..Len(q)) = Len(q)
    BY <2>1, UpTo
  <2> QED BY <2>3, <2>4, <2>5, FS_Surjection
<1>4. rejected \cap ToSet(q) = {}
  <2>1. ToSet(q \o r) = ToSet(q) \cup ToSet(r)
    BY JoinSet
  <2>2. ToSet(q) \subseteq Hand(t)
    BY <2>1 DEF Hand
  <2> QED BY <2>2 DEF EventsConserved, Apart, Gone
<1>5. Cardinality(rejected \cup ToSet(q))
        = Cardinality(rejected) + Cardinality(ToSet(q)) - Cardinality(rejected \cap ToSet(q))
  BY <1>1, <1>3, FS_Union
<1>6. Cardinality(rejected \cap ToSet(q)) = 0
  BY <1>4, FS_EmptySet
<1>7. Len(q) \in Nat
  OBVIOUS
<1> QED BY <1>1, <1>3, <1>5, <1>6, <1>7

\* The counters go on agreeing when what is counted and what is not change alike.
LEMMA Balance ==
  ASSUME NEW t \in Thread, DTypeOK, DTypeOK', CallersSound, CallersSound', CountsWithin,
         \A u \in Thread \ {t} : thread'[u] = thread[u],
         totals'.dispatched + UncountedBy(thread'[t]) + Len(consumed) + Total(Slot, Lens)
           = totals.dispatched + UncountedBy(thread[t]) + Len(consumed') + Total(Slot, Lens)',
         totals'.rejected + DroppedBy(thread'[t]) + Cardinality(rejected)
           = totals.rejected + DroppedBy(thread[t]) + Cardinality(rejected'),
         \A s \in Slot :
           /\ rings'[s].writes + WritingTo(thread'[t], s)
                + rings[s].reads + ReadingFrom(thread[t], s) + Len(slots[s])
                = rings[s].writes + WritingTo(thread[t], s)
                    + rings'[s].reads + ReadingFrom(thread'[t], s) + Len(slots'[s])
           /\ rings'[s].written = rings'[s].writes
  PROVE  CountsWithin'
<1> DEFINE th == thread[t]
           new == thread'[t]
<1>1. /\ Total(Thread, Uncounted)' + UncountedBy(th) = Total(Thread, Uncounted) + UncountedBy(new)
      /\ Total(Thread, Dropped)' + DroppedBy(th) = Total(Thread, Dropped) + DroppedBy(new)
      /\ \A s \in Slot :
           /\ Total(Thread, Writing(s))' + WritingTo(th, s)
                = Total(Thread, Writing(s)) + WritingTo(new, s)
           /\ Total(Thread, Reading(s))' + ReadingFrom(th, s)
                = Total(Thread, Reading(s)) + ReadingFrom(new, s)
           /\ Total(Thread, Writing(s)) \in Nat /\ Total(Thread, Writing(s))' \in Nat
           /\ Total(Thread, Reading(s)) \in Nat /\ Total(Thread, Reading(s))' \in Nat
      /\ Total(Thread, Uncounted) \in Nat /\ Total(Thread, Uncounted)' \in Nat
      /\ Total(Thread, Dropped) \in Nat /\ Total(Thread, Dropped)' \in Nat
  BY ThreadTotals
<1>2. /\ UncountedBy(th) \in Nat /\ DroppedBy(th) \in Nat
      /\ UncountedBy(new) \in Nat /\ DroppedBy(new) \in Nat
      /\ \A s : /\ WritingTo(th, s) \in Nat /\ ReadingFrom(th, s) \in Nat
                /\ WritingTo(new, s) \in Nat /\ ReadingFrom(new, s) \in Nat
  <2>1. th \in CallerType /\ new \in CallerType
    BY DEF DTypeOK
  <2>2. CallerSound(th)
    BY DEF CallersSound, CallerSound
  <2>3. CallerSound(new)
    BY DEF CallersSound, CallerSound
  <2> HIDE DEF th, new
  <2> QED BY <2>1, <2>2, <2>3, BooksType
<1>3. totals \in [dispatched : Nat, rejected : Nat] /\ totals' \in [dispatched : Nat, rejected : Nat]
  BY DEF DTypeOK
<1>4. totals'.dispatched + Total(Thread, Uncounted)' = Len(consumed') + Total(Slot, Lens)'
  <2> DEFINE a == totals.dispatched
             an == totals'.dispatched
             b == Total(Thread, Uncounted)
             bn == Total(Thread, Uncounted)'
             u == UncountedBy(th)
             un == UncountedBy(new)
             c == Len(consumed)
             cn == Len(consumed')
             l == Total(Slot, Lens)
             ln == Total(Slot, Lens)'
  <2>1. a + b = c + l
    BY DEF CountsWithin, Lens
  <2>2. an + un + c + l = a + u + cn + ln
    OBVIOUS
  <2>3. /\ a \in Nat /\ an \in Nat /\ b \in Nat /\ bn \in Nat /\ u \in Nat /\ un \in Nat
        /\ bn + u = b + un
    BY <1>1, <1>2, <1>3
  <2>4. c \in Nat /\ cn \in Nat
    <3>1. consumed \in Seq(Event \X Slot) /\ consumed' \in Seq(Event \X Slot)
      BY DEF DTypeOK
    <3> QED BY <3>1
  <2>5. l \in Nat /\ ln \in Nat
    <3>1. IsFiniteSet(Slot)
      BY DispatchAssumption, FS_Interval DEF Slot
    <3> DEFINE x == Lens
               y == Lens'
    <3>2. \A r \in Slot : x[r] \in Nat /\ y[r] \in Nat
      <4>1. \A r \in Slot : slots[r] \in Seq(Event) /\ slots'[r] \in Seq(Event)
        BY DEF DTypeOK
      <4>2. \A r \in Slot : Len(slots[r]) \in Nat /\ Len(slots'[r]) \in Nat
        BY <4>1
      <4> QED BY <4>2 DEF Lens
    <3>3. l = Total(Slot, x) /\ ln = Total(Slot, y)
      OBVIOUS
    <3> HIDE DEF x, y
    <3> QED BY <3>1, <3>2, <3>3, PairsFinite
  <2> HIDE DEF a, an, b, bn, u, un, c, cn, l, ln
  <2>6. an + bn = cn + ln
    BY <2>1, <2>2, <2>3, <2>4, <2>5
  <2> QED BY <2>6 DEF an, bn, cn, ln
<1>5. totals'.rejected + Total(Thread, Dropped)' = Cardinality(rejected')
  <2> DEFINE a == totals.rejected
             an == totals'.rejected
             b == Total(Thread, Dropped)
             bn == Total(Thread, Dropped)'
             u == DroppedBy(th)
             un == DroppedBy(new)
             c == Cardinality(rejected)
             cn == Cardinality(rejected')
  <2>1. a + b = c
    BY DEF CountsWithin
  <2>2. an + un + c = a + u + cn
    OBVIOUS
  <2>3. /\ a \in Nat /\ an \in Nat /\ b \in Nat /\ bn \in Nat /\ u \in Nat /\ un \in Nat
        /\ bn + u = b + un
    BY <1>1, <1>2, <1>3
  <2>4. c \in Nat /\ cn \in Nat
    BY RejectedFinite DEF DTypeOK
  <2> HIDE DEF a, an, b, bn, u, un, c, cn
  <2>5. an + bn = cn
    BY <2>1, <2>2, <2>3, <2>4
  <2> QED BY <2>5 DEF an, bn, cn
<1>6. ASSUME NEW s \in Slot
      PROVE  rings'[s].writes + Total(Thread, Writing(s))'
               = rings'[s].reads + Total(Thread, Reading(s))' + Len(slots'[s])
  <2> DEFINE a == rings[s].writes
             an == rings'[s].writes
             w == Total(Thread, Writing(s))
             wn == Total(Thread, Writing(s))'
             x == WritingTo(th, s)
             xn == WritingTo(new, s)
             b == rings[s].reads
             bn == rings'[s].reads
             r == Total(Thread, Reading(s))
             rn == Total(Thread, Reading(s))'
             y == ReadingFrom(th, s)
             yn == ReadingFrom(new, s)
             l == Len(slots[s])
             ln == Len(slots'[s])
  <2>1. a + w = b + r + l
    BY DEF CountsWithin
  <2>2. an + xn + b + y + l = a + x + bn + yn + ln
    OBVIOUS
  <2>3. a \in Nat /\ an \in Nat /\ b \in Nat /\ bn \in Nat
    <3>1. /\ rings[s] \in [writes : Nat, reads : Nat, written : Nat]
          /\ rings'[s] \in [writes : Nat, reads : Nat, written : Nat]
      BY DEF DTypeOK
    <3> QED BY <3>1
  <2>4. l \in Nat /\ ln \in Nat
    <3>1. slots[s] \in Seq(Event) /\ slots'[s] \in Seq(Event)
      BY DEF DTypeOK
    <3> QED BY <3>1
  <2>5. /\ w \in Nat /\ wn \in Nat /\ r \in Nat /\ rn \in Nat
        /\ wn + x = w + xn /\ rn + y = r + yn
    BY <1>1
  <2>6. x \in Nat /\ xn \in Nat /\ y \in Nat /\ yn \in Nat
    BY <1>2
  <2> HIDE DEF a, an, w, wn, x, xn, b, bn, r, rn, y, yn, l, ln
  <2>7. an + wn = bn + rn + ln
    BY <2>1, <2>2, <2>3, <2>4, <2>5, <2>6
  <2> QED BY <2>7 DEF an, wn, bn, rn, ln
<1> QED BY <1>4, <1>5, <1>6 DEF CountsWithin, Lens

RingWrites(s, n) == [rings EXCEPT ![s].writes = @ + n, ![s].written = @ + n]
RingReads(s, n) == [rings EXCEPT ![s].reads = @ + n]

LEMMA RingAdds ==
  ASSUME DTypeOK, NEW s \in Slot, NEW n \in Nat
  PROVE  /\ rings' = RingWrites(s, n) =>
              \A r \in Slot : /\ rings'[r].reads = rings[r].reads
                              /\ rings'[r].writes = rings[r].writes + (IF r = s THEN n ELSE 0)
                              /\ rings'[r].written = rings[r].written + (IF r = s THEN n ELSE 0)
         /\ rings' = RingReads(s, n) =>
              \A r \in Slot : /\ rings'[r].reads = rings[r].reads + (IF r = s THEN n ELSE 0)
                              /\ rings'[r].writes = rings[r].writes
                              /\ rings'[r].written = rings[r].written
         /\ \A r \in Slot : rings[r].writes \in Nat /\ rings[r].reads \in Nat
                            /\ rings[r].written \in Nat
<1>1. rings \in [Slot -> [writes : Nat, reads : Nat, written : Nat]]
  BY DEF DTypeOK
<1>2. \A r \in Slot : rings[r] \in [writes : Nat, reads : Nat, written : Nat]
  BY <1>1
<1>3. \A r \in Slot : rings[r].writes \in Nat /\ rings[r].reads \in Nat /\ rings[r].written \in Nat
  BY <1>2
<1> USE DEF RingWrites, RingReads
<1>4. ASSUME rings' = RingWrites(s, n), NEW r \in Slot
      PROVE  /\ rings'[r].reads = rings[r].reads
             /\ rings'[r].writes = rings[r].writes + (IF r = s THEN n ELSE 0)
             /\ rings'[r].written = rings[r].written + (IF r = s THEN n ELSE 0)
  <2>1. CASE r = s
    BY <1>1, <1>2, <1>3, <1>4, <2>1
  <2>2. CASE r # s
    <3>1. rings'[r] = rings[r]
      BY <1>1, <1>4, <2>2
    <3> QED BY <1>3, <2>2, <3>1
  <2> QED BY <2>1, <2>2
<1>5. ASSUME rings' = RingReads(s, n), NEW r \in Slot
      PROVE  /\ rings'[r].reads = rings[r].reads + (IF r = s THEN n ELSE 0)
             /\ rings'[r].writes = rings[r].writes
             /\ rings'[r].written = rings[r].written
  <2>1. CASE r = s
    BY <1>1, <1>2, <1>3, <1>5, <2>1
  <2>2. CASE r # s
    <3>1. rings'[r] = rings[r]
      BY <1>1, <1>5, <2>2
    <3> QED BY <1>3, <2>2, <3>1
  <2> QED BY <2>1, <2>2
<1> HIDE DEF RingWrites, RingReads
<1> QED BY <1>3, <1>4, <1>5

\* A step that counts nothing and has nothing new to count.
LEMMA QuietBooks ==
  ASSUME NEW t \in Thread, DTypeOK, DTypeOK', CallersSound, CallersSound', CountsWithin,
         \A u \in Thread \ {t} : thread'[u] = thread[u],
         UNCHANGED <<totals, consumed, slots, rejected, rings>>,
         UncountedBy(thread'[t]) = UncountedBy(thread[t]),
         DroppedBy(thread'[t]) = DroppedBy(thread[t]),
         \A s \in Slot : /\ WritingTo(thread'[t], s) = WritingTo(thread[t], s)
                         /\ ReadingFrom(thread'[t], s) = ReadingFrom(thread[t], s)
  PROVE  CountsWithin'
<1>1. Total(Slot, Lens)' = Total(Slot, Lens)
  BY DEF Lens
<1>2. \A s \in Slot : rings'[s].written = rings'[s].writes
  BY DEF CountsWithin
<1>3. \A s \in Slot : slots'[s] = slots[s] /\ rings'[s] = rings[s]
  OBVIOUS
<1>4. \A s \in Slot : rings'[s].writes + WritingTo(thread'[t], s)
                + rings[s].reads + ReadingFrom(thread[t], s) + Len(slots[s])
                = rings[s].writes + WritingTo(thread[t], s)
                    + rings'[s].reads + ReadingFrom(thread'[t], s) + Len(slots'[s])
  BY <1>3
<1> QED BY <1>1, <1>2, <1>4, Balance

\* What is on a caller's books when it has nothing in hand.
LEMMA EmptyBooks ==
  ASSUME NEW th, Empty(th)
  PROVE  /\ UncountedBy(th) = 0 /\ DroppedBy(th) = 0
         /\ \A s : WritingTo(th, s) = 0 /\ ReadingFrom(th, s) = 0
<1>1. Len(<<>>) = 0
  OBVIOUS
<1>2. DroppedBy(th) = 0 - (0 + 0 + 0 + 0)
  BY <1>1 DEF Empty, DroppedBy
<1>3. UncountedBy(th) = 0
  BY DEF Empty, UncountedBy
<1>4. \A s : WritingTo(th, s) = 0 /\ ReadingFrom(th, s) = 0
  BY DEF Empty, WritingTo, ReadingFrom
<1> QED BY <1>2, <1>3, <1>4

\* A push of a batch: counted when the batch ends.
LEMMA PushBooks ==
  ASSUME NEW t \in Thread, DTypeOK, DTypeOK', CallersSound, CallersSound', CountsWithin,
         Pushes(t), UNCHANGED <<totals, consumed, rejected>>,
         \/ /\ rings' = rings /\ thread'[t].at = thread[t].at
            /\ thread'[t].written = thread[t].written + 1
         \/ /\ rings' = [rings EXCEPT ![thread[t].at].writes = @ + 1,
                                      ![thread[t].at].written = @ + 1]
            /\ thread[t].written = 0 /\ thread'[t].written = 0
  PROVE  CountsWithin'
<1> DEFINE th == thread[t]
           new == thread'[t]
           a == th.at
<1>1. th \in CallerType /\ new \in CallerType
  BY DEF DTypeOK
<1>2. /\ a \in Slot /\ th.written \in Nat /\ th.done \in Nat /\ th.size \in Nat
      /\ th.batch \in Seq(Event) /\ th.events \in Seq(Event) /\ th.read \in Nat
      /\ new.batch \in Seq(Event) /\ new.done \in Nat /\ new.written \in Nat
  BY <1>1, CallerFields
<1>3. /\ \A u \in Thread \ {t} : thread'[u] = thread[u]
      /\ slots' = [slots EXCEPT ![a] = Append(@, Line(t)[1])] /\ Len(slots[a]) < SlotCap
      /\ Line(t)[1] \in Event
  BY DEF Pushes, Only
<1>4. /\ Len(slots'[a]) = Len(slots[a]) + 1
      /\ \A r \in Slot \ {a} : slots'[r] = slots[r]
  <2>1. Len(slots'[a]) = Len(slots[a]) + 1
    BY <1>2, <1>3, SlotWithOneMore
  <2> QED BY <2>1, <1>2, <1>3 DEF DTypeOK
<1>5. UncountedBy(new) = UncountedBy(th) + 1 /\ UncountedBy(th) \in Nat
  BY <1>2 DEF Pushes, UncountedBy
<1>6. DroppedBy(new) = DroppedBy(th)
  <2> DEFINE b == Len(th.batch)
             bn == Len(new.batch)
             e == Len(th.events)
             d == th.done + th.written
             dn == new.done + new.written
  <2>1. b \in Nat /\ bn \in Nat /\ e \in Nat /\ d \in Nat /\ dn \in Nat
    <3> HIDE DEF th, new
    <3>1. b \in Nat /\ bn \in Nat /\ e \in Nat
      BY <1>2
    <3>2. d \in Nat /\ dn \in Nat
      BY <1>2
    <3> QED BY <3>1, <3>2
  <2>2. bn + 1 = b /\ dn = d + 1 /\ new.size = th.size /\ Len(new.events) = e
    BY DEF Pushes
  <2>3. DroppedBy(new) = th.size - (dn + bn + e) /\ DroppedBy(th) = th.size - (d + b + e)
    BY <2>2 DEF DroppedBy
  <2> HIDE DEF b, bn, e, d, dn
  <2>4. th.size - (dn + bn + e) = th.size - (d + b + e)
    BY <2>1, <2>2, <1>2
  <2> QED BY <2>3, <2>4
<1>7. /\ Total(Slot, Lens)' = Total(Slot, Lens) + 1 /\ Total(Slot, Lens) \in Nat
      /\ Total(Slot, Lens)' \in Nat
  <2>1. /\ Total(Slot, Lens)' + Len(slots[a]) = Total(Slot, Lens) + Len(slots'[a])
        /\ Total(Slot, Lens) \in Nat /\ Total(Slot, Lens)' \in Nat
    BY <1>2, <1>4, SlotTotals
  <2>2. slots[a] \in Seq(Event)
    BY <1>2 DEF DTypeOK
  <2>3. Len(slots[a]) \in Nat
    BY <2>2
  <2> DEFINE l == Total(Slot, Lens)
             ln == Total(Slot, Lens)'
             n == Len(slots[a])
  <2>4. ln + n = l + (n + 1) /\ n \in Nat /\ l \in Nat /\ ln \in Nat
    BY <2>1, <2>3, <1>4
  <2> HIDE DEF l, ln, n
  <2>5. ln = l + 1
    BY <2>4
  <2> QED BY <2>1, <2>5 DEF l, ln
<1>8. totals'.dispatched + UncountedBy(new) + Len(consumed) + Total(Slot, Lens)
        = totals.dispatched + UncountedBy(th) + Len(consumed') + Total(Slot, Lens)'
  <2> DEFINE x == totals.dispatched
             u == UncountedBy(th)
             c == Len(consumed)
             l == Total(Slot, Lens)
  <2>1. x \in Nat /\ c \in Nat /\ u \in Nat /\ l \in Nat
    BY <1>5, <1>7 DEF DTypeOK
  <2> HIDE DEF x, u, c, l
  <2>2. x + (u + 1) + c + l = x + u + c + (l + 1)
    BY <2>1
  <2> QED BY <2>2, <1>5, <1>7 DEF x, u, c, l
<1>9. \A s \in Slot : rings[s].written = rings[s].writes
  BY DEF CountsWithin
<1>a. ASSUME NEW s \in Slot
      PROVE  /\ rings'[s].writes + WritingTo(new, s)
                  + rings[s].reads + ReadingFrom(th, s) + Len(slots[s])
                  = rings[s].writes + WritingTo(th, s)
                      + rings'[s].reads + ReadingFrom(new, s) + Len(slots'[s])
             /\ rings'[s].written = rings'[s].writes
  <2> DEFINE one == IF s = a THEN 1 ELSE 0
  <2>1. Len(slots'[s]) = Len(slots[s]) + one /\ Len(slots[s]) \in Nat
    <3>1. slots[s] \in Seq(Event)
      BY DEF DTypeOK
    <3>2. Len(slots[s]) \in Nat
      BY <3>1
    <3>3. CASE s = a
      BY <3>3, <3>2, <1>4
    <3>4. CASE s # a
      <4>1. slots'[s] = slots[s] /\ one = 0
        BY <3>4, <1>4
      <4> HIDE DEF one
      <4> DEFINE l == Len(slots[s])
      <4>2. Len(slots'[s]) = l /\ l \in Nat
        BY <4>1, <3>2
      <4> HIDE DEF l
      <4>3. Len(slots'[s]) = l + one
        BY <4>1, <4>2
      <4> QED BY <4>2, <4>3 DEF l
    <3> QED BY <3>3, <3>4
  <2>2. ReadingFrom(new, s) = ReadingFrom(th, s) /\ ReadingFrom(th, s) \in Nat
    BY <1>2 DEF Pushes, ReadingFrom
  <2>3. rings[s].writes \in Nat /\ rings[s].reads \in Nat
    BY <1>2, RingAdds
  <2>4. /\ rings'[s].reads = rings[s].reads /\ rings'[s].written = rings'[s].writes
        /\ WritingTo(th, s) \in Nat
        /\ \/ rings'[s].writes = rings[s].writes /\ WritingTo(new, s) = WritingTo(th, s) + one
           \/ rings'[s].writes = rings[s].writes + one /\ WritingTo(new, s) = WritingTo(th, s)
    <3>1. CASE /\ rings' = rings /\ new.at = a /\ new.written = th.written + 1
      BY <3>1, <1>2, <1>9 DEF WritingTo
    <3>2. CASE /\ rings' = [rings EXCEPT ![a].writes = @ + 1, ![a].written = @ + 1]
               /\ th.written = 0 /\ new.written = 0
      <4>1. /\ rings'[s].reads = rings[s].reads
            /\ rings'[s].writes = rings[s].writes + one
            /\ rings'[s].written = rings[s].written + one
        <5> DEFINE n == 1
        <5>1. n \in Nat /\ rings' = RingWrites(a, n)
          BY <3>2 DEF RingWrites
        <5>2. one = IF s = a THEN n ELSE 0
          OBVIOUS
        <5>3. a \in Slot
          BY <1>2
        <5> HIDE DEF n, one, a
        <5>4. \A r \in Slot :
                /\ rings'[r].reads = rings[r].reads
                /\ rings'[r].writes = rings[r].writes + (IF r = a THEN n ELSE 0)
                /\ rings'[r].written = rings[r].written + (IF r = a THEN n ELSE 0)
          BY <5>1, <5>3, RingAdds
        <5> QED BY <5>2, <5>4
      <4>2. WritingTo(th, s) = 0 /\ WritingTo(new, s) = 0
        BY <3>2 DEF WritingTo
      <4> QED BY <4>1, <4>2, <1>9
    <3> QED BY <3>1, <3>2
  <2> DEFINE l == Len(slots[s])
             r == ReadingFrom(th, s)
             p == rings[s].writes
             q == rings[s].reads
             w == WritingTo(th, s)
             pn == rings'[s].writes
             wn == WritingTo(new, s)
  <2>5. /\ l \in Nat /\ r \in Nat /\ p \in Nat /\ q \in Nat /\ w \in Nat /\ one \in Nat
        /\ \/ pn = p /\ wn = w + one
           \/ pn = p + one /\ wn = w
    BY <2>1, <2>2, <2>3, <2>4
  <2> HIDE DEF l, r, p, q, w, pn, wn, one
  <2>6. pn + wn + q + r + l = p + w + q + r + (l + one)
    BY <2>5
  <2> QED BY <2>1, <2>2, <2>4, <2>6 DEF l, r, p, q, w, pn, wn
<1>b. totals' = totals /\ rejected' = rejected
  OBVIOUS
<1> QED BY <1>3, <1>6, <1>8, <1>a, <1>b, Balance

\* The end of a batch: the writes are added to the counters of the slot, and what
\* is left of the batch is dropped.
LEMMA BatchEndBooks ==
  ASSUME NEW t \in Thread, DTypeOK, DTypeOK', CallersSound, CallersSound', CountsWithin,
         EventsConserved, Only(t), slots' = slots, UNCHANGED <<totals, consumed>>,
         Len(thread'[t].batch) + Len(thread'[t].events) = Len(thread[t].events),
         rejected' = rejected \cup ToSet(thread[t].batch),
         rings' = RingWrites(thread[t].at, thread[t].written),
         thread'[t].done = thread[t].done + thread[t].written, thread'[t].written = 0,
         thread'[t].size = thread[t].size, thread'[t].slot = thread[t].slot,
         thread'[t].read = thread[t].read
  PROVE  CountsWithin'
<1> DEFINE th == thread[t]
           new == thread'[t]
           a == th.at
           w == th.written
<1>1. th \in CallerType /\ new \in CallerType
  BY DEF DTypeOK
<1>2. /\ a \in Slot /\ w \in Nat /\ th.done \in Nat /\ th.size \in Nat
      /\ th.batch \in Seq(Event) /\ th.events \in Seq(Event) /\ th.read \in Nat
      /\ new.batch \in Seq(Event) /\ new.events \in Seq(Event)
  BY <1>1, CallerFields
<1>3. \A u \in Thread \ {t} : thread'[u] = thread[u]
  BY DEF Only
<1>4. UncountedBy(new) = UncountedBy(th)
  <2> HIDE DEF th, new
  <2>1. new.done = th.done + th.written /\ new.written = 0
    BY DEF th, new
  <2> QED BY <2>1, <1>2 DEF UncountedBy
<1>5. Total(Slot, Lens)' = Total(Slot, Lens)
  BY DEF Lens
<1>6. totals'.rejected + DroppedBy(new) + Cardinality(rejected)
        = totals.rejected + DroppedBy(th) + Cardinality(rejected')
  <2> DEFINE b == Len(th.batch)
             e == Len(th.events)
             d == th.done + w
             n == th.size
             c == Cardinality(rejected)
             x == totals.rejected
             bn == Len(new.batch)
             en == Len(new.events)
  <2>1. b \in Nat /\ e \in Nat /\ bn \in Nat /\ en \in Nat
    <3> HIDE DEF th, new
    <3> QED BY <1>2
  <2>2. d \in Nat /\ n \in Nat /\ x \in Nat
    <3>1. x \in Nat
      BY DEF DTypeOK
    <3> HIDE DEF th, x
    <3> QED BY <1>2, <3>1
  <2>3. c \in Nat /\ Cardinality(rejected') = c + b
    BY <1>2, RejectedGrows DEF Line
  <2>4. DroppedBy(th) = n - (d + b + e)
    BY DEF DroppedBy
  <2>5. DroppedBy(new) = n - (d + 0 + bn + en) /\ bn + en = e
    BY DEF DroppedBy
  <2>6. totals' = totals
    OBVIOUS
  <2> HIDE DEF b, e, d, n, c, x, bn, en
  <2>7. x + (n - (d + 0 + bn + en)) + c = x + (n - (d + b + e)) + (c + b)
    BY <2>1, <2>2, <2>3, <2>5
  <2> QED BY <2>3, <2>4, <2>5, <2>6, <2>7 DEF x, c
<1>7. \A s \in Slot : rings[s].written = rings[s].writes
  BY DEF CountsWithin
<1>8. ASSUME NEW s \in Slot
      PROVE  /\ rings'[s].writes + WritingTo(new, s)
                  + rings[s].reads + ReadingFrom(th, s) + Len(slots[s])
                  = rings[s].writes + WritingTo(th, s)
                      + rings'[s].reads + ReadingFrom(new, s) + Len(slots'[s])
             /\ rings'[s].written = rings'[s].writes
  <2> DEFINE z == IF s = a THEN w ELSE 0
             p == rings[s].writes
             q == rings[s].reads
             r == ReadingFrom(th, s)
             l == Len(slots[s])
  <2>1. /\ rings'[s].reads = q /\ rings'[s].writes = p + z
        /\ rings'[s].written = rings[s].written + z /\ p \in Nat /\ q \in Nat
    <3> HIDE DEF a, w, th, new
    <3>1. rings' = RingWrites(a, w)
      BY DEF a, w, th
    <3> QED BY <3>1, <1>2, RingAdds
  <2>2. WritingTo(th, s) = z /\ WritingTo(new, s) = 0 /\ z \in Nat
    BY <1>2 DEF WritingTo
  <2>3. ReadingFrom(new, s) = r /\ r \in Nat
    BY <1>2 DEF ReadingFrom
  <2>4. l \in Nat /\ Len(slots'[s]) = l
    BY DEF DTypeOK
  <2> HIDE DEF z, p, q, r, l
  <2>5. (p + z) + 0 + q + r + l = p + z + q + r + l
    BY <2>1, <2>2, <2>3, <2>4
  <2> QED BY <2>1, <2>2, <2>3, <2>4, <2>5, <1>7 DEF p, q, r, l
<1>9. totals'.dispatched + UncountedBy(new) + Len(consumed) + Total(Slot, Lens)
        = totals.dispatched + UncountedBy(th) + Len(consumed') + Total(Slot, Lens)'
  BY <1>4, <1>5
<1> QED BY <1>3, <1>6, <1>8, <1>9, Balance

\* A pop, and the end of the reading of a slot.
LEMMA ReadBooks ==
  ASSUME NEW t \in Thread, DTypeOK, DTypeOK', CallersSound, CallersSound', CountsWithin,
         batch_read(t)
  PROVE  CountsWithin'
<1> DEFINE th == thread[t]
           new == thread'[t]
           a == th.slot
<1>1. th \in CallerType /\ new \in CallerType
  BY DEF DTypeOK
<1>2. a \in Slot /\ th.read \in Nat /\ new.read \in Nat
  BY <1>1, CallerFields
<1>3. th.pc = "consume" /\ Only(t) /\ UNCHANGED <<totals, rejected>>
  BY BatchReadDoes DEF batch_read
<1>4. /\ th.batch = <<>> /\ th.events = <<>> /\ th.done = 0 /\ th.written = 0 /\ th.size = 0
      /\ new.batch = <<>> /\ new.events = <<>> /\ new.done = 0 /\ new.written = 0
      /\ new.size = 0
  BY <1>3, IdleHasNothing, BatchReadDoes
<1>5. /\ UncountedBy(new) = UncountedBy(th) /\ DroppedBy(new) = DroppedBy(th)
      /\ UncountedBy(th) = 0
      /\ \A s : WritingTo(new, s) = 0 /\ WritingTo(th, s) = 0
  BY <1>4 DEF UncountedBy, DroppedBy, WritingTo
<1>6. \A u \in Thread \ {t} : thread'[u] = thread[u]
  BY <1>3 DEF Only
<1>7. \A s \in Slot : /\ rings[s].written = rings[s].writes /\ rings[s].writes \in Nat
                      /\ rings[s].reads \in Nat
  <2>1. 0 \in Slot /\ 0 \in Nat
    BY SlotModulo
  <2> QED BY <2>1, RingAdds DEF CountsWithin
<1>8. \A s \in Slot : slots[s] \in Seq(Event) /\ Len(slots[s]) \in Nat
  <2>1. \A s \in Slot : slots[s] \in Seq(Event)
    BY DEF DTypeOK
  <2> QED BY <2>1
<1>9. CASE /\ new.slot = a /\ new.read = th.read + 1 /\ slots[a] # <<>> /\ rings' = rings
           /\ slots' = [slots EXCEPT ![a] = Tail(@)]
           /\ consumed' = Append(consumed, <<slots[a][1], a>>)
  <2>1. Len(consumed') = Len(consumed) + 1 /\ Len(consumed) \in Nat
    <3> DEFINE y == <<slots[a][1], a>>
    <3>1. y \in Event \X Slot /\ consumed \in Seq(Event \X Slot)
      <4>1. slots[a][1] \in Event
        BY <1>2, <1>8, <1>9
      <4> QED BY <4>1, <1>2 DEF DTypeOK
    <3>2. consumed' = Append(consumed, y)
      BY <1>9
    <3> HIDE DEF y
    <3> QED BY <3>1, <3>2
  <2>2. slots'[a] = Tail(slots[a]) /\ \A r \in Slot \ {a} : slots'[r] = slots[r]
    BY <1>2, <1>9 DEF DTypeOK
  <2>3. Len(slots'[a]) + 1 = Len(slots[a]) /\ Len(slots'[a]) \in Nat
    <3> DEFINE q == slots[a]
    <3>1. q \in Seq(Event) /\ q # <<>>
      BY <1>2, <1>8, <1>9
    <3> HIDE DEF q
    <3>2. Len(Tail(q)) = Len(q) - 1 /\ Len(q) \in Nat \ {0}
      BY <3>1
    <3>3. Len(Tail(q)) + 1 = Len(q) /\ Len(Tail(q)) \in Nat
      BY <3>2
    <3> QED BY <3>3, <2>2 DEF q
  <2>4. /\ Total(Slot, Lens) = Total(Slot, Lens)' + 1 /\ Total(Slot, Lens)' \in Nat
        /\ Total(Slot, Lens) \in Nat
    <3>1. /\ Total(Slot, Lens)' + Len(slots[a]) = Total(Slot, Lens) + Len(slots'[a])
          /\ Total(Slot, Lens) \in Nat /\ Total(Slot, Lens)' \in Nat
      BY <1>2, <2>2, SlotTotals
    <3> DEFINE l == Total(Slot, Lens)
               ln == Total(Slot, Lens)'
               n == Len(slots'[a])
    <3>2. ln + (n + 1) = l + n /\ n \in Nat /\ l \in Nat /\ ln \in Nat
      BY <3>1, <2>3
    <3> HIDE DEF l, ln, n
    <3>3. l = ln + 1
      BY <3>2
    <3> QED BY <3>1, <3>3 DEF l, ln
  <2>5. totals'.dispatched + UncountedBy(new) + Len(consumed) + Total(Slot, Lens)
          = totals.dispatched + UncountedBy(th) + Len(consumed') + Total(Slot, Lens)'
    <3> DEFINE x == totals.dispatched
               c == Len(consumed)
               ln == Total(Slot, Lens)'
    <3>1. x \in Nat /\ c \in Nat /\ ln \in Nat
      BY <2>1, <2>4 DEF DTypeOK
    <3> HIDE DEF x, c, ln
    <3>2. x + 0 + c + (ln + 1) = x + 0 + (c + 1) + ln
      BY <3>1
    <3> QED BY <3>2, <2>1, <2>4, <1>3, <1>5 DEF x, c, ln
  <2>6. totals'.rejected + DroppedBy(new) + Cardinality(rejected)
          = totals.rejected + DroppedBy(th) + Cardinality(rejected')
    BY <1>3, <1>5
  <2>7. ASSUME NEW s \in Slot
        PROVE  /\ rings'[s].writes + WritingTo(new, s)
                    + rings[s].reads + ReadingFrom(th, s) + Len(slots[s])
                    = rings[s].writes + WritingTo(th, s)
                        + rings'[s].reads + ReadingFrom(new, s) + Len(slots'[s])
               /\ rings'[s].written = rings'[s].writes
    <3> DEFINE p == rings[s].writes
               q == rings[s].reads
               r == ReadingFrom(th, s)
               rn == ReadingFrom(new, s)
               l == Len(slots[s])
               ln == Len(slots'[s])
    <3>1. p \in Nat /\ q \in Nat /\ l \in Nat /\ r \in Nat /\ rn \in Nat
      BY <1>2, <1>7, <1>8 DEF ReadingFrom
    <3>2. \/ r = rn /\ l = ln
          \/ rn = r + 1 /\ l = ln + 1 /\ ln \in Nat
      <4>1. CASE s = a
        <5>1. r = th.read /\ rn = th.read + 1
          BY <4>1, <1>9 DEF ReadingFrom
        <5> QED BY <4>1, <5>1, <2>3
      <4>2. CASE s # a
        <5>1. r = 0 /\ rn = 0
          BY <4>2, <1>9 DEF ReadingFrom
        <5> QED BY <4>2, <5>1, <2>2
      <4> QED BY <4>1, <4>2
    <3> HIDE DEF p, q, r, rn, l, ln
    <3>3. p + 0 + q + r + l = p + 0 + q + rn + ln
      <4>1. CASE r = rn /\ l = ln
        BY <4>1
      <4>2. CASE rn = r + 1 /\ l = ln + 1 /\ ln \in Nat
        BY <4>2, <3>1
      <4> QED BY <4>1, <4>2, <3>2
    <3> QED BY <3>3, <1>5, <1>7, <1>9 DEF p, q, r, rn, l, ln
  <2> QED BY <2>5, <2>6, <2>7, <1>6, Balance
<1>a. CASE /\ new.read = 0 /\ rings' = [rings EXCEPT ![a].reads = @ + th.read]
           /\ slots' = slots /\ consumed' = consumed
  <2>1. Total(Slot, Lens)' = Total(Slot, Lens)
    BY <1>a DEF Lens
  <2>2. totals'.dispatched + UncountedBy(new) + Len(consumed) + Total(Slot, Lens)
          = totals.dispatched + UncountedBy(th) + Len(consumed') + Total(Slot, Lens)'
    BY <2>1, <1>3, <1>5, <1>a
  <2>3. totals'.rejected + DroppedBy(new) + Cardinality(rejected)
          = totals.rejected + DroppedBy(th) + Cardinality(rejected')
    BY <1>3, <1>5
  <2>4. rings' = RingReads(a, th.read)
    BY <1>a DEF RingReads
  <2>5. ASSUME NEW s \in Slot
        PROVE  /\ rings'[s].writes + WritingTo(new, s)
                    + rings[s].reads + ReadingFrom(th, s) + Len(slots[s])
                    = rings[s].writes + WritingTo(th, s)
                        + rings'[s].reads + ReadingFrom(new, s) + Len(slots'[s])
               /\ rings'[s].written = rings'[s].writes
    <3> DEFINE p == rings[s].writes
               q == rings[s].reads
               k == th.read
               z == IF s = a THEN k ELSE 0
               l == Len(slots[s])
    <3>1. p \in Nat /\ q \in Nat /\ l \in Nat /\ z \in Nat
      <4>1. z \in Nat
        BY <1>2
      <4>2. p \in Nat /\ q \in Nat
        BY <1>7
      <4>3. l \in Nat
        BY <1>8
      <4> QED BY <4>1, <4>2, <4>3
    <3>2. /\ rings'[s].reads = q + z /\ rings'[s].writes = p
          /\ rings'[s].written = rings[s].written
      <4> HIDE DEF a, k, th, new
      <4>1. k \in Nat /\ a \in Slot /\ rings' = RingReads(a, k)
        BY <1>2, <2>4 DEF k
      <4> QED BY <4>1, RingAdds
    <3>3. ReadingFrom(th, s) = z /\ ReadingFrom(new, s) = 0
      BY <1>a DEF ReadingFrom
    <3> HIDE DEF p, q, z, l
    <3>4. p + 0 + q + z + l = p + 0 + (q + z) + 0 + l
      BY <3>1
    <3> QED BY <3>2, <3>3, <3>4, <1>5, <1>7, <1>a DEF p, q, l
  <2> QED BY <2>2, <2>3, <2>5, <1>6, Balance
<1> QED BY <1>9, <1>a, BatchReadDoes

\* The end of a dispatch: the caller's own count moves to the totals.
LEMMA AccountBooks ==
  ASSUME NEW t \in Thread, DTypeOK, DTypeOK', CallersSound, CallersSound', CountsWithin,
         Account(t)
  PROVE  CountsWithin'
<1> DEFINE th == thread[t]
           new == thread'[t]
           d == th.done
           n == th.size
<1>1. /\ Only(t) /\ th.pc \in {"batch", "single"} /\ th.batch = <<>> /\ th.events = <<>>
      /\ th.written = 0 /\ Empty(new)
      /\ totals' = [dispatched |-> totals.dispatched + d, rejected |-> totals.rejected + (n - d)]
  BY AccountDoes
<1>2. UNCHANGED <<slots, rings, consumed, rejected>>
  BY DEF Account
<1>3. th \in CallerType
  BY DEF DTypeOK
<1>4. d \in Nat /\ n \in Nat
  BY <1>3, CallerFields
<1>5. th.read = 0
  BY <1>1 DEF CallersSound
<1>6. /\ UncountedBy(th) = d + 0 /\ \A s : WritingTo(th, s) = 0 /\ ReadingFrom(th, s) = 0
  BY <1>1, <1>5 DEF UncountedBy, WritingTo, ReadingFrom
<1>7. DroppedBy(th) = n - (d + 0 + 0 + 0)
  <2>1. Len(<<>>) = 0
    OBVIOUS
  <2> QED BY <2>1, <1>1 DEF DroppedBy
<1>8. /\ UncountedBy(new) = 0 /\ DroppedBy(new) = 0
      /\ \A s : WritingTo(new, s) = 0 /\ ReadingFrom(new, s) = 0
  BY <1>1, EmptyBooks
<1>9. Total(Slot, Lens)' = Total(Slot, Lens)
  BY <1>2 DEF Lens
<1> DEFINE x == totals.dispatched
           y == totals.rejected
<1>a. x \in Nat /\ y \in Nat /\ totals'.dispatched = x + d /\ totals'.rejected = y + (n - d)
  BY <1>1 DEF DTypeOK
<1>b. totals'.dispatched + UncountedBy(new) = x + UncountedBy(th)
  <2> HIDE DEF d, x, n, y
  <2>1. (x + d) + 0 = x + (d + 0)
    BY <1>4, <1>a
  <2> QED BY <2>1, <1>6, <1>8, <1>a
<1>c. totals'.rejected + DroppedBy(new) = y + DroppedBy(th)
  <2> HIDE DEF d, x, n, y
  <2>1. (y + (n - d)) + 0 = y + (n - (d + 0 + 0 + 0))
    BY <1>4, <1>a
  <2> QED BY <2>1, <1>7, <1>8, <1>a
<1>d. /\ totals'.dispatched + UncountedBy(new) + Len(consumed) + Total(Slot, Lens)
           = totals.dispatched + UncountedBy(th) + Len(consumed') + Total(Slot, Lens)'
      /\ totals'.rejected + DroppedBy(new) + Cardinality(rejected)
           = totals.rejected + DroppedBy(th) + Cardinality(rejected')
  BY <1>2, <1>9, <1>b, <1>c
<1>e. ASSUME NEW s \in Slot
      PROVE  /\ rings'[s].writes + WritingTo(new, s)
                  + rings[s].reads + ReadingFrom(th, s) + Len(slots[s])
                  = rings[s].writes + WritingTo(th, s)
                      + rings'[s].reads + ReadingFrom(new, s) + Len(slots'[s])
             /\ rings'[s].written = rings'[s].writes
  <2>1. rings' = rings /\ slots' = slots
    BY <1>2
  <2>2. rings[s].written = rings[s].writes
    BY DEF CountsWithin
  <2> QED BY <2>1, <2>2, <1>6, <1>8
<1>f. \A u \in Thread \ {t} : thread'[u] = thread[u]
  BY <1>1 DEF Only
<1> QED BY <1>d, <1>e, <1>f, Balance

\* The books of two callers that differ in nothing counted.
LEMMA SameBooks ==
  ASSUME NEW th \in CallerType, NEW new \in CallerType,
         new.done = th.done, new.written = th.written, new.size = th.size,
         Len(new.batch) + Len(new.events) = Len(th.batch) + Len(th.events),
         new.at = th.at \/ th.written = 0, new.slot = th.slot, new.read = th.read
  PROVE  /\ UncountedBy(new) = UncountedBy(th) /\ DroppedBy(new) = DroppedBy(th)
         /\ \A s : WritingTo(new, s) = WritingTo(th, s) /\ ReadingFrom(new, s) = ReadingFrom(th, s)
<1> DEFINE b == Len(th.batch)
           e == Len(th.events)
           bn == Len(new.batch)
           en == Len(new.events)
           d == th.done + th.written
<1>1. /\ th.batch \in Seq(Event) /\ th.events \in Seq(Event) /\ new.batch \in Seq(Event)
      /\ new.events \in Seq(Event) /\ th.done \in Nat /\ th.written \in Nat /\ th.size \in Nat
  BY CallerFields
<1>2. b \in Nat /\ e \in Nat /\ bn \in Nat /\ en \in Nat /\ d \in Nat
  <2>1. b \in Nat /\ e \in Nat /\ bn \in Nat /\ en \in Nat
    BY <1>1
  <2>2. d \in Nat
    BY <1>1
  <2> QED BY <2>1, <2>2
<1>3. DroppedBy(new) = th.size - (d + bn + en) /\ DroppedBy(th) = th.size - (d + b + e)
      /\ bn + en = b + e
  BY DEF DroppedBy
<1>4. UncountedBy(new) = UncountedBy(th)
  BY DEF UncountedBy
<1>5. \A s : WritingTo(new, s) = WritingTo(th, s) /\ ReadingFrom(new, s) = ReadingFrom(th, s)
  BY DEF WritingTo, ReadingFrom
<1> HIDE DEF b, e, bn, en, d
<1>6. th.size - (d + bn + en) = th.size - (d + b + e)
  BY <1>1, <1>2, <1>3
<1> QED BY <1>3, <1>4, <1>5, <1>6

LEMMA CountStep ==
  ASSUME NEW t \in Thread, DTypeOK, DTypeOK', CallersSound, CallersSound', CountsWithin,
         EventsConserved, StepOf(t)
  PROVE  CountsWithin'
<1> DEFINE th == thread[t]
           new == thread'[t]
<1>1. th \in CallerType /\ new \in CallerType
  BY DEF DTypeOK
<1>2. \A u \in Thread \ {t} : thread'[u] = thread[u]
  BY OneMoves
<1>3. ASSUME UNCHANGED <<totals, consumed, slots, rejected, rings>>,
             new.done = th.done, new.written = th.written, new.size = th.size,
             Len(new.batch) + Len(new.events) = Len(th.batch) + Len(th.events),
             new.at = th.at \/ th.written = 0, new.slot = th.slot, new.read = th.read
      PROVE  CountsWithin'
  <2>1. /\ UncountedBy(new) = UncountedBy(th) /\ DroppedBy(new) = DroppedBy(th)
        /\ \A s : WritingTo(new, s) = WritingTo(th, s) /\ ReadingFrom(new, s) = ReadingFrom(th, s)
    <3> HIDE DEF th, new
    <3> QED BY <1>1, <1>3, SameBooks
  <2> QED BY <2>1, <1>2, <1>3, QuietBooks
<1>4. ASSUME UNCHANGED <<totals, consumed, slots, rejected, rings>>, Empty(th), Empty(new)
      PROVE  CountsWithin'
  <2>1. /\ UncountedBy(th) = 0 /\ DroppedBy(th) = 0
        /\ UncountedBy(new) = 0 /\ DroppedBy(new) = 0
        /\ \A s : /\ WritingTo(th, s) = 0 /\ ReadingFrom(th, s) = 0
                  /\ WritingTo(new, s) = 0 /\ ReadingFrom(new, s) = 0
    BY <1>4, EmptyBooks
  <2> QED BY <2>1, <1>2, <1>4, QuietBooks
<1>5. ASSUME NEW n \in BatchSizes, process_bypass_mode(t, n) PROVE CountsWithin'
  <2>1. thread' = thread /\ UNCHANGED <<totals, consumed, slots, rejected, rings>>
    BY <1>5 DEF process_bypass_mode
  <2> QED BY <2>1, <1>3
<1>6. ASSUME NEW n \in BatchSizes, Begins(t, n),
             UNCHANGED <<totals, consumed, slots, rejected, rings>>
      PROVE  CountsWithin'
  <2>1. Empty(th)
    BY <1>6 DEF Begins, Empty
  <2>2. n \in Nat /\ Len(<<>>) = 0
    BY DispatchAssumption
  <2>3. /\ UncountedBy(th) = 0 /\ DroppedBy(th) = 0
        /\ \A s : WritingTo(th, s) = 0 /\ ReadingFrom(th, s) = 0
    BY <2>1, EmptyBooks
  <2>4. /\ new.batch = <<>> /\ Len(new.events) = n /\ new.done = 0 /\ new.written = 0
        /\ new.size = n /\ new.read = 0
    BY <1>6 DEF Begins
  <2>5. DroppedBy(new) = n - (0 + 0 + 0 + n)
    BY <2>2, <2>4 DEF DroppedBy
  <2>6. DroppedBy(new) = 0
    BY <2>2, <2>5
  <2>7. UncountedBy(new) = 0 /\ \A s : WritingTo(new, s) = 0 /\ ReadingFrom(new, s) = 0
    BY <2>4 DEF UncountedBy, WritingTo, ReadingFrom
  <2> QED BY <2>3, <2>6, <2>7, <1>2, <1>6, QuietBooks
<1>7. ASSUME NEW n \in BatchSizes, ProcessBatch(t, n) \/ DispatchBatch(t, n)
      PROVE  CountsWithin'
  BY <1>6, <1>7, ProcessBatchDoes, DispatchBatchDoes DEF ProcessBatch, DispatchBatch
<1>8. ASSUME NEW n \in TakeSizes, StartConsume(t, n) PROVE CountsWithin'
  BY <1>4, <1>8, StartConsumeDoes DEF StartConsume
<1>9. CASE Utilization(t)
  <2>1. Alike(th, new) /\ UNCHANGED <<totals, consumed, slots, rejected, rings>>
    BY <1>9, UtilizationDoes DEF Utilization
  <2> QED BY <2>1, <1>3 DEF Alike
<1>a. CASE PlanBatch(t)
  <2>1. UNCHANGED <<totals, consumed, slots, rejected, rings>>
    BY <1>a DEF PlanBatch
  <2> QED BY <2>1, <1>3, <1>a, PlanBatchDoes
<1>b. CASE batch_write(t)
  <2>1. UNCHANGED <<totals, consumed>>
    BY <1>b DEF batch_write
  <2>2. CASE /\ Pushes(t) /\ rings' = rings /\ rejected' = rejected
             /\ new.at = th.at /\ new.done = th.done /\ new.written = th.written + 1
    BY <2>1, <2>2, PushBooks
  <2>3. CASE /\ Only(t) /\ slots' = slots
             /\ Len(new.batch) + Len(new.events) = Len(th.events)
             /\ rejected' = rejected \cup ToSet(th.batch)
             /\ rings' = [rings EXCEPT ![th.at].writes = @ + th.written,
                                       ![th.at].written = @ + th.written]
             /\ new.done = th.done + th.written /\ new.written = 0
             /\ new.size = th.size /\ new.slot = th.slot /\ new.read = th.read
    <3>1. rings' = RingWrites(th.at, th.written)
      BY <2>3 DEF RingWrites
    <3> QED BY <2>1, <2>3, <3>1, BatchEndBooks
  <2> QED BY <2>2, <2>3, <1>b, BatchWriteDoes
<1>c. CASE try_write_event(t)
  <2>1. UNCHANGED <<totals, consumed>> /\ th.events = <<>> /\ th.written = 0
    BY <1>c, TryWriteDoes DEF try_write_event
  <2>2. CASE /\ Pushes(t) /\ rejected' = rejected
             /\ rings' = [rings EXCEPT ![th.at].writes = @ + 1, ![th.at].written = @ + 1]
             /\ new.written = 0
    BY <2>1, <2>2, PushBooks
  <2>3. CASE /\ slots' = slots /\ rings' = rings
             /\ new.events = <<>> /\ new.done = th.done /\ new.written = 0
             /\ new.size = th.size /\ new.slot = th.slot /\ new.read = th.read
             /\ new.batch = th.batch /\ rejected' = rejected
    BY <2>1, <2>3, <1>3
  <2>4. CASE /\ Only(t) /\ slots' = slots /\ rings' = rings
             /\ new.events = <<>> /\ new.done = th.done /\ new.written = 0
             /\ new.size = th.size /\ new.slot = th.slot /\ new.read = th.read
             /\ new.batch = <<>> /\ rejected' = rejected \cup ToSet(th.batch)
    <3>1. th.done \in Nat /\ th.at \in Slot
      BY <1>1, CallerFields
    <3>2. rings' = RingWrites(th.at, 0)
      <4> DEFINE a == th.at
                 r == rings[a]
                 z == [r EXCEPT !.writes = r.writes + 0, !.written = r.written + 0]
      <4>1. r \in [writes : Nat, reads : Nat, written : Nat]
        BY <3>1 DEF DTypeOK
      <4>2. r.writes + 0 = r.writes /\ r.written + 0 = r.written
        <5> HIDE DEF r
        <5> QED BY <4>1
      <4>3. [r EXCEPT !.writes = r.writes, !.written = r.written] = r
        <5> HIDE DEF r
        <5> QED BY <4>1
      <4>4. RingWrites(a, 0) = [rings EXCEPT ![a] = z]
        BY <3>1 DEF RingWrites, DTypeOK
      <4>5. z = r
        BY <4>2, <4>3
      <4>6. [rings EXCEPT ![a] = r] = rings
        BY DEF DTypeOK
      <4> QED BY <4>4, <4>5, <4>6, <2>4
    <3>3. /\ new.done = th.done + th.written /\ rings' = RingWrites(th.at, th.written)
          /\ Len(new.batch) + Len(new.events) = Len(th.events)
      BY <2>1, <2>4, <3>1, <3>2
    <3> QED BY <2>1, <2>4, <3>3, BatchEndBooks
  <2> QED BY <2>2, <2>3, <2>4, <1>c, TryWriteDoes
<1>d. CASE Account(t)
  BY <1>d, AccountBooks
<1>e. CASE batch_read(t)
  BY <1>e, ReadBooks
<1>f. CASE MeasurePool(t)
  <2>1. UNCHANGED <<totals, consumed, slots, rejected, rings>>
    BY <1>f DEF MeasurePool
  <2>2. /\ Empty(th) /\ new.batch = <<>> /\ new.events = <<>> /\ new.done = 0
        /\ new.written = 0 /\ new.size = 0 /\ new.read = 0
    BY <1>f, MeasurePoolDoes
  <2>3. /\ UncountedBy(th) = 0 /\ DroppedBy(th) = 0
        /\ \A s : WritingTo(th, s) = 0 /\ ReadingFrom(th, s) = 0
    BY <2>2, EmptyBooks
  <2>4. /\ UncountedBy(new) = 0
        /\ \A s : WritingTo(new, s) = 0 /\ ReadingFrom(new, s) = 0
    BY <2>2 DEF UncountedBy, WritingTo, ReadingFrom
  <2>5. DroppedBy(new) = 0
    <3>1. Len(<<>>) = 0
      OBVIOUS
    <3>2. DroppedBy(new) = 0 - (0 + 0 + 0 + 0)
      BY <2>2, <3>1 DEF DroppedBy
    <3> QED BY <3>2
  <2> QED BY <2>1, <2>3, <2>4, <2>5, <1>2, QuietBooks
<1>g. CASE batch_release(t)
  <2>1. UNCHANGED <<totals, consumed, slots, rejected, rings>>
    BY <1>g DEF batch_release
  <2>2. /\ Empty(new) /\ th.batch = <<>> /\ th.events = <<>> /\ th.done = 0
        /\ th.written = 0 /\ th.size = 0 /\ th.read = 0
    BY <1>g, BatchReleaseDoes
  <2>3. /\ UncountedBy(new) = 0 /\ DroppedBy(new) = 0
        /\ \A s : WritingTo(new, s) = 0 /\ ReadingFrom(new, s) = 0
    BY <2>2, EmptyBooks
  <2>4. /\ UncountedBy(th) = 0
        /\ \A s : WritingTo(th, s) = 0 /\ ReadingFrom(th, s) = 0
    BY <2>2 DEF UncountedBy, WritingTo, ReadingFrom
  <2>5. DroppedBy(th) = 0
    <3>1. Len(<<>>) = 0
      OBVIOUS
    <3>2. DroppedBy(th) = 0 - (0 + 0 + 0 + 0)
      BY <2>2, <3>1 DEF DroppedBy
    <3> QED BY <3>2
  <2> QED BY <2>1, <2>3, <2>4, <2>5, <1>2, QuietBooks
<1> QED BY <1>5, <1>7, <1>8, <1>9, <1>a, <1>b, <1>c, <1>d, <1>e, <1>f, <1>g DEF StepOf, Work

\* Between the calls nothing is left to count.
LEMMA CountsBetweenCalls ==
  ASSUME DTypeOK, CallersSound, CountsWithin
  PROVE  CountsAgree
<1> SUFFICES ASSUME \A t \in Thread : thread[t].pc = "idle" PROVE
      /\ totals.dispatched = Len(consumed) + Total(Slot, Lens)
      /\ totals.rejected = Cardinality(rejected)
      /\ \A s \in Slot : /\ rings[s].writes - rings[s].reads = Len(slots[s])
                         /\ rings[s].written = rings[s].writes
  BY DEF CountsAgree, Lens
<1>1. ASSUME NEW t \in Thread PROVE Empty(thread[t])
  BY <1>1, IdleHasNothing DEF Empty
<1>2. \A t \in Thread : /\ UncountedBy(thread[t]) = 0 /\ DroppedBy(thread[t]) = 0
                        /\ \A s : WritingTo(thread[t], s) = 0 /\ ReadingFrom(thread[t], s) = 0
  BY <1>1, EmptyBooks
<1>3. \A t \in Thread : Uncounted[t] = 0 /\ Dropped[t] = 0
  BY <1>2 DEF Uncounted, UncountedBy, Dropped, DroppedBy
<1>4. \A s \in Slot : \A t \in Thread : Writing(s)[t] = 0 /\ Reading(s)[t] = 0
  BY <1>2 DEF Writing, WritingTo, Reading, ReadingFrom
<1>5. /\ Total(Thread, Uncounted) = 0 /\ Total(Thread, Dropped) = 0
      /\ \A s \in Slot : Total(Thread, Writing(s)) = 0 /\ Total(Thread, Reading(s)) = 0
  BY <1>3, <1>4, TotalZero
<1>6. totals.dispatched \in Nat /\ totals.rejected \in Nat
  BY DEF DTypeOK
<1>7. totals.dispatched = Len(consumed) + Total(Slot, Lens)
  BY <1>5, <1>6 DEF CountsWithin, Lens
<1>8. totals.rejected = Cardinality(rejected)
  BY <1>5, <1>6 DEF CountsWithin
<1>9. ASSUME NEW s \in Slot
      PROVE  /\ rings[s].writes - rings[s].reads = Len(slots[s])
             /\ rings[s].written = rings[s].writes
  <2> DEFINE p == rings[s].writes
             q == rings[s].reads
             l == Len(slots[s])
  <2>1. p + 0 = q + 0 + l /\ rings[s].written = p
    BY <1>5 DEF CountsWithin
  <2>2. p \in Nat /\ q \in Nat
    <3>1. 0 \in Nat
      OBVIOUS
    <3> QED BY <3>1, RingAdds
  <2>3. l \in Nat
    <3>1. slots[s] \in Seq(Event)
      BY DEF DTypeOK
    <3> QED BY <3>1
  <2> HIDE DEF p, q, l
  <2>4. p - q = l
    BY <2>1, <2>2, <2>3
  <2> QED BY <2>1, <2>4 DEF p, q, l
<1> QED BY <1>7, <1>8, <1>9

LEMMA CountsInit ==
  ASSUME Init, DTypeOK
  PROVE  CountsWithin /\ PoolWithRoom
<1>1. \A t \in Thread : Empty(thread[t])
  BY IdleEmpty DEF Init
<1>2. \A t \in Thread : /\ UncountedBy(thread[t]) = 0 /\ DroppedBy(thread[t]) = 0
                        /\ \A s : WritingTo(thread[t], s) = 0 /\ ReadingFrom(thread[t], s) = 0
  BY <1>1, EmptyBooks
<1>3. /\ \A t \in Thread : Uncounted[t] = 0 /\ Dropped[t] = 0 /\ Room[t] = 0
      /\ \A s \in Slot : \A t \in Thread : Writing(s)[t] = 0 /\ Reading(s)[t] = 0
  <2>1. \A t \in Thread : Uncounted[t] = 0 /\ Dropped[t] = 0
    BY <1>2 DEF Uncounted, UncountedBy, Dropped, DroppedBy
  <2>2. \A t \in Thread : Room[t] = 0
    BY <1>1 DEF Room, Empty
  <2>3. \A s \in Slot : \A t \in Thread : Writing(s)[t] = 0 /\ Reading(s)[t] = 0
    BY <1>2 DEF Writing, WritingTo, Reading, ReadingFrom
  <2> QED BY <2>1, <2>2, <2>3
<1>4. /\ Total(Thread, Uncounted) = 0 /\ Total(Thread, Dropped) = 0 /\ Total(Thread, Room) = 0
      /\ \A s \in Slot : Total(Thread, Writing(s)) = 0 /\ Total(Thread, Reading(s)) = 0
  BY <1>3, TotalZero
<1>5. Total(Slot, Lens) = 0 /\ \A s \in Slot : Len(slots[s]) = 0
  <2>1. \A s \in Slot : slots[s] = <<>>
    BY DEF Init
  <2>2. \A s \in Slot : Len(slots[s]) = 0
    BY <2>1
  <2>3. \A s \in Slot : Lens[s] = 0
    BY <2>2 DEF Lens
  <2> QED BY <2>2, <2>3, TotalZero
<1>6. /\ Len(consumed) = 0 /\ Cardinality(rejected) = 0
      /\ totals.dispatched = 0 /\ totals.rejected = 0
      /\ \A s \in Slot : rings[s].writes = 0 /\ rings[s].reads = 0 /\ rings[s].written = 0
  BY FS_EmptySet DEF Init
<1>7. CountsWithin
  BY <1>4, <1>5, <1>6 DEF CountsWithin, Lens
<1>8. PoolWithRoom
  <2> DEFINE n == PoolMax \div 4
             k == IF Shared THEN Cardinality(Thread) ELSE 1
  <2>1. PoolMax \in Nat /\ k \in Nat \ {0}
    <3>1. Cardinality(Thread) \in Nat /\ Cardinality(Thread) # 0 /\ PoolMax \in Nat
      BY DispatchAssumption, FS_EmptySet, FS_CardinalityType
    <3> QED BY <3>1
  <2>2. Len(pool) = n /\ n \in 0..PoolMax
    <3>1. n \in 0..PoolMax
      BY <2>1
    <3>2. pool = [i \in 1..n |-> 0]
      BY DEF Init
    <3> HIDE DEF n
    <3> QED BY <3>1, <3>2, <2>1
  <2> HIDE DEF k, n
  <2>3. PoolMax <= k * PoolMax
    <3>1. k - 1 \in Nat /\ k * PoolMax = (k - 1) * PoolMax + PoolMax
      BY <2>1
    <3>2. (k - 1) * PoolMax \in Nat
      <4> DEFINE j == k - 1
      <4>1. j \in Nat
        BY <3>1
      <4> HIDE DEF j
      <4>2. j * PoolMax \in Nat
        BY <4>1, <2>1
      <4> QED BY <4>2 DEF j
    <3> QED BY <3>1, <3>2, <2>1
  <2>4. k * PoolMax \in Nat
    BY <2>1
  <2>5. Len(pool) + Total(Thread, Room) <= k * PoolMax
    BY <2>1, <2>2, <2>3, <2>4, <1>4
  <2>6. \A t \in Thread : thread[t].room <= PoolMax
    BY <1>1, <2>1 DEF Empty
  <2> QED BY <2>5, <2>6 DEF PoolWithRoom, k
<1> QED BY <1>7, <1>8

\* The state of the dispatchers between and within the calls: types, the callers'
\* books, order, counters and the size of the pool.
THEOREM DispatchInvariant == Spec => []DInv
<1> DEFINE I == /\ DTypeOK /\ CallersSound /\ EventsConserved /\ SlotFifo /\ StillInOrder
                /\ LoneCaller /\ CountsWithin /\ PoolWithRoom
<1>1. Init => I
  <2> SUFFICES ASSUME Init PROVE LoneCaller
    BY DispatchInit, CountsInit
  <2>1. \A t \in Thread : thread[t].pc = "idle"
    BY IdleEmpty DEF Init
  <2> QED BY <2>1 DEF LoneCaller
<1>2. I /\ [Next]_vars => I'
  <2> SUFFICES ASSUME I, [Next]_vars PROVE LoneCaller' /\ CountsWithin' /\ PoolWithRoom'
    BY PlacesStep
  <2>1. DTypeOK' /\ CallersSound'
    BY PlacesStep
  <2>2. CASE Next
    <3>1. PICK t \in Thread : Caller(t) /\ StepOf(t)
      BY <2>2, NextIsStep
    <3>2. LoneCaller'
      BY <2>1, <3>1, LoneStep
    <3>3. CountsWithin'
      BY <2>1, <3>1, CountStep
    <3>4. PoolWithRoom'
      BY <2>1, <3>1, PoolStep
    <3> QED BY <3>2, <3>3, <3>4
  <2>3. CASE UNCHANGED vars
    <3>1. LoneCaller'
      BY <2>3 DEF vars, LoneCaller, Shared, IsFull
    <3>2. UNCHANGED <<kind, pool, thread, totals, consumed, slots, rejected, rings>>
      BY <2>3 DEF vars
    <3>3. CountsWithin'
      BY <3>2 DEF CountsWithin, Uncounted, Dropped, Writing, Reading
    <3>4. PoolWithRoom'
      BY <3>2 DEF PoolWithRoom, Shared, Room
    <3> QED BY <3>1, <3>3, <3>4
  <2> QED BY <2>2, <2>3
<1>3. I => DInv
  BY CountsBetweenCalls, PoolIsBounded DEF DInv
<1> QED BY <1>1, <1>2, <1>3, PTL DEF Spec

=============================================================================
