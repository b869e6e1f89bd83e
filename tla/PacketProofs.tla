---------------------------- MODULE PacketProofs ----------------------------
(***************************************************************************)
(* Proofs about the codec, the send buffer, the packetizer and the         *)
(* PacketBuilder, for every frame, every size and every limit.  What a     *)
(* fold computes is proved by the least-number principle.                  *)
(***************************************************************************)
EXTENDS Transport, FiniteSetTheorems, WellFoundedInduction, TLAPS

----------------------------------------------------------------------------
(* Least and greatest numbers.                                             *)

LEMMA LeastNumber ==
  ASSUME NEW T \in SUBSET Nat, T # {}
  PROVE \E n \in T : \A m \in T : n <= m
<1> DEFINE Down == {1..n : n \in T}
           R == StrictSubsetOrdering(Nat)
<1>1. ASSUME NEW n \in T PROVE 1..n \in FiniteSubsetsOf(Nat)
  BY FS_Interval DEF FiniteSubsetsOf
<1>2. Down \subseteq FiniteSubsetsOf(Nat) /\ Down # {}
  BY <1>1
<1>3. IsWellFoundedOn(R, FiniteSubsetsOf(Nat))
  BY FS_StrictSubsetOrderingWellFounded
<1>4. PICK x \in Down : \A y \in Down : ~ (<<y, x>> \in R)
  <2> HIDE DEF Down, R
  <2> QED BY <1>2, <1>3, WFMin
<1>5. PICK n \in T : x = 1..n
  BY <1>4
<1>6. ASSUME NEW m \in T, m < n PROVE FALSE
  <2>1. 1..m \in Down
    OBVIOUS
  <2>2. 1..m \in SUBSET Nat /\ 1..n \in SUBSET Nat /\ 1..m \subseteq 1..n
    BY <1>6
  <2>3. n \in 1..n /\ n \notin 1..m
    BY <1>6
  <2>4. <<1..m, x>> \in R
    BY <1>5, <2>2, <2>3 DEF StrictSubsetOrdering
  <2> QED BY <1>4, <2>1, <2>4
<1>7. \A m \in T : n <= m
  BY <1>6
<1> QED BY <1>7

LEMMA MaxIsGreatest ==
  ASSUME NEW b \in Nat, NEW S \in SUBSET (1 .. b), S # {}
  PROVE Max(S) \in S /\ \A x \in S : Max(S) >= x
<1> DEFINE U == {u \in Nat : \A x \in S : x <= u}
<1>1. b \in U /\ U \in SUBSET Nat
  OBVIOUS
<1>2. PICK u \in U : \A v \in U : u <= v
  <2> HIDE DEF U
  <2> QED BY <1>1, LeastNumber
<1>3. u \in S
  <2>1. SUFFICES ASSUME u \notin S PROVE FALSE
    OBVIOUS
  <2>2. \A x \in S : x \in Nat /\ x < u
    BY <2>1, <1>2
  <2> u \in Nat /\ \E y \in S : TRUE
    OBVIOUS
  <2> HIDE DEF U
  <2>3. u - 1 \in Nat /\ \A x \in S : x <= u - 1
    BY <2>2
  <2>4. u - 1 \in U
    BY <2>3 DEF U
  <2>5. u \in Nat
    OBVIOUS
  <2> QED BY <2>4, <2>5, <1>2
<1>4. \E n \in S : \A m \in S : n >= m
  BY <1>2, <1>3
<1> QED BY <1>4 DEF Max

----------------------------------------------------------------------------
(* Folds.  FoldLeft is a function on the sets of positions, defined by its *)
(* own values.  Step names the operators that are folded, so that the facts*)
(* about such a function are proved once for all of them.                  *)

Step(k, c, v, x) ==
  CASE k = "sends"  -> IF x.kind = "Send" THEN Append(v, x.batch) ELSE v
    [] k = "order"  -> IF x \in c THEN Append(v, x) ELSE v
    [] k = "track"  -> add_in_flight_packet(v, x)
    [] k = "frame"  -> add_frame(v, x)
    [] k = "zero"   -> ZeroRttFrame(v, x)
    [] k = "packet" -> PacketizeOne(c, v)
    [] k = "size"   -> v + encoded_size(x)
    [] k = "ranges" -> v \o put(x[1], 4) \o put(x[2], 4)
    [] k = "octets" -> v \o encode(x)
    [] k = "flat"   -> v \o x
    [] OTHER        -> v * 256 + x

\* f folds Step over the sets of the first n positions of s.
Folds(f, k, c, b, s, n) ==
  f = [T \in SUBSET (1 .. n) |->
         IF T = {} THEN b ELSE Step(k, c, f[T \ {Max(T)}], s[Max(T)])]

LEMMA FoldExists ==
  ASSUME NEW k, NEW c, NEW b, NEW s, NEW n \in Nat
  PROVE \E f : Folds(f, k, c, b, s, n)
<1> DEFINE N == {m \in Nat : ~ \E f : Folds(f, k, c, b, s, m)}
<1>1. SUFFICES ASSUME N # {} PROVE FALSE
  OBVIOUS
<1>2. PICK m \in N : \A j \in N : m <= j
  <2>1. N \in SUBSET Nat
    OBVIOUS
  <2> HIDE DEF N
  <2> QED BY <1>1, <2>1, LeastNumber
<1>3. m # 0
  <2>1. SUBSET (1 .. 0) = {{}}
    OBVIOUS
  <2> DEFINE e == [T \in SUBSET (1 .. 0) |-> b]
  <2>3. e = [T \in SUBSET (1 .. 0) |->
               IF T = {} THEN b ELSE Step(k, c, e[T \ {Max(T)}], s[Max(T)])]
    BY <2>1, Zenon
  <2>2. Folds(e, k, c, b, s, 0)
    BY <2>3, Zenon DEF Folds
  <2> QED BY <2>2
<1>4. m \in Nat /\ m - 1 \in Nat /\ m - 1 \notin N
  BY <1>2, <1>3
<1>5. PICK f : Folds(f, k, c, b, s, m - 1)
  BY <1>4
<1> DEFINE g == [T \in SUBSET (1 .. m) |->
                   IF T = {} THEN b ELSE Step(k, c, f[T \ {Max(T)}], s[Max(T)])]
<1>6. \A T \in SUBSET (1 .. m - 1) : T \in SUBSET (1 .. m)
  BY <1>4
<1>7. \A T \in SUBSET (1 .. m - 1) :
        f[T] = IF T = {} THEN b ELSE Step(k, c, f[T \ {Max(T)}], s[Max(T)])
  BY <1>5, Zenon DEF Folds
<1>8. \A T \in SUBSET (1 .. m - 1) : g[T] = f[T]
  BY <1>6, <1>7, Zenon
<1>9. ASSUME NEW T \in SUBSET (1 .. m), T # {}
      PROVE T \ {Max(T)} \in SUBSET (1 .. m - 1)
  <2>1. Max(T) \in T /\ \A x \in T : Max(T) >= x
    BY <1>4, <1>9, MaxIsGreatest
  <2> DEFINE x == Max(T)
  <2>3. x \in T /\ \A y \in T : x >= y /\ y \in 1 .. m
    BY <2>1
  <2> HIDE DEF x
  <2>2. \A y \in T \ {x} : y \in 1 .. m - 1
    BY <2>3, <1>4
  <2> QED BY <2>2 DEF x
<1>10. \A T \in SUBSET (1 .. m) :
         g[T] = IF T = {} THEN b ELSE Step(k, c, g[T \ {Max(T)}], s[Max(T)])
  <2> SUFFICES ASSUME NEW T \in SUBSET (1 .. m)
               PROVE g[T] = IF T = {} THEN b ELSE Step(k, c, g[T \ {Max(T)}], s[Max(T)])
    OBVIOUS
  <2>1. g[T] = IF T = {} THEN b ELSE Step(k, c, f[T \ {Max(T)}], s[Max(T)])
    OBVIOUS
  <2>2. T # {} => g[T \ {Max(T)}] = f[T \ {Max(T)}]
    BY <1>8, <1>9, Zenon
  <2> HIDE DEF g
  <2> QED BY <2>1, <2>2, Zenon
<1>11. DOMAIN g = SUBSET (1 .. m) /\ g = [T \in SUBSET (1 .. m) |-> g[T]]
  OBVIOUS
<1> HIDE DEF g
<1>12. Folds(g, k, c, b, s, m)
  BY <1>10, <1>11 DEF Folds
<1> QED BY <1>2, <1>12 DEF N

\* h has, for every n, the fold of the first n elements of s.
Walk(h, k, c, b, s) ==
  /\ h[0] = b
  /\ \A i \in 1 .. Len(s) : h[i] = Step(k, c, h[i - 1], s[i])

LEMMA FoldWalks ==
  ASSUME NEW k, NEW c, NEW b, NEW s, NEW f, Len(s) \in Nat, Folds(f, k, c, b, s, Len(s))
  PROVE \E h : Walk(h, k, c, b, s) /\ h[Len(s)] = f[1 .. Len(s)]
<1> DEFINE h == [i \in 0 .. Len(s) |-> f[1 .. i]]
           n == Len(s)
<1>1. \A T \in SUBSET (1 .. n) :
        f[T] = IF T = {} THEN b ELSE Step(k, c, f[T \ {Max(T)}], s[Max(T)])
  BY Zenon DEF Folds
<1> n \in Nat
  OBVIOUS
<1> HIDE DEF n
<1>2. h[0] = b
  <2>1. 1 .. 0 = {} /\ {} \in SUBSET (1 .. n) /\ 0 \in 0 .. n
    BY DEF n
  <2>2. f[{}] = b
    BY <1>1, <2>1
  <2> QED BY <2>1, <2>2 DEF n
<1>3. ASSUME NEW i \in 1 .. n PROVE h[i] = Step(k, c, h[i - 1], s[i])
  <2>1. 1 .. i \in SUBSET (1 .. n) /\ i \in 1 .. i
    OBVIOUS
  <2>2. Max(1 .. i) \in 1 .. i /\ \A x \in 1 .. i : Max(1 .. i) >= x
    BY <2>1, MaxIsGreatest
  <2>3. Max(1 .. i) = i
    BY <2>2
  <2>4. (1 .. i) \ {i} = 1 .. i - 1
    OBVIOUS
  <2>5. f[1 .. i] = Step(k, c, f[1 .. i - 1], s[i])
    BY <1>1, <2>1, <2>3, <2>4
  <2>6. i \in 0 .. n /\ i - 1 \in 0 .. n
    OBVIOUS
  <2> QED BY <2>5, <2>6 DEF n
<1>4. h[n] = f[1 .. n]
  BY DEF n
<1> HIDE DEF h
<1> QED BY <1>2, <1>3, <1>4 DEF Walk, n

LEMMA WalksAgree ==
  ASSUME NEW k, NEW c, NEW b, NEW s, NEW t, NEW h, NEW g,
         Len(s) \in Nat, Len(t) \in Nat,
         Walk(h, k, c, b, s), Walk(g, k, c, b, t),
         NEW n \in Nat, n <= Len(s), n <= Len(t), \A i \in 1 .. n : s[i] = t[i]
  PROVE h[n] = g[n]
<1> DEFINE N == {m \in 0 .. n : h[m] # g[m]}
<1>1. SUFFICES ASSUME N # {} PROVE FALSE
  OBVIOUS
<1>2. PICK m \in N : \A j \in N : m <= j
  <2>1. N \in SUBSET Nat
    OBVIOUS
  <2> HIDE DEF N
  <2> QED BY <1>1, <2>1, LeastNumber
<1>3. m # 0
  BY DEF Walk
<1>4. m \in 1 .. n /\ m - 1 \in 0 .. n /\ m - 1 \notin N
  BY <1>2, <1>3
<1>5. h[m - 1] = g[m - 1]
  BY <1>4
<1>6. m \in 1 .. Len(s) /\ m \in 1 .. Len(t) /\ s[m] = t[m]
  BY <1>4
<1>7. h[m] = Step(k, c, h[m - 1], s[m]) /\ g[m] = Step(k, c, g[m - 1], t[m])
  BY <1>6 DEF Walk
<1> QED BY <1>5, <1>6, <1>7

\* The fold of a whole sequence.
Folded(k, c, b, s) == CHOOSE v : \E h : Walk(h, k, c, b, s) /\ v = h[Len(s)]

LEMMA FoldedIs ==
  ASSUME NEW k, NEW c, NEW b, NEW s, Len(s) \in Nat, NEW h, Walk(h, k, c, b, s)
  PROVE Folded(k, c, b, s) = h[Len(s)]
<1>1. \E g : Walk(g, k, c, b, s) /\ Folded(k, c, b, s) = g[Len(s)]
  BY Zenon DEF Folded
<1>2. PICK g : Walk(g, k, c, b, s) /\ Folded(k, c, b, s) = g[Len(s)]
  BY <1>1
<1> QED BY <1>2, WalksAgree

LEMMA FoldedWalks ==
  ASSUME NEW k, NEW c, NEW b, NEW s, Len(s) \in Nat
  PROVE \E h : Walk(h, k, c, b, s) /\ Folded(k, c, b, s) = h[Len(s)]
<1>1. PICK f : Folds(f, k, c, b, s, Len(s))
  BY FoldExists
<1>2. PICK h : Walk(h, k, c, b, s)
  BY <1>1, FoldWalks
<1> QED BY <1>2, FoldedIs

\* What FoldLeft computes, once its function is known to be of the kind above.
LEMMA FoldIsFolded ==
  ASSUME NEW k, NEW c, NEW b, NEW s, NEW f, NEW v, Len(s) \in Nat,
         Folds(f, k, c, b, s, Len(s)), v = f[1 .. Len(s)]
  PROVE Folded(k, c, b, s) = v
<1>1. PICK h : Walk(h, k, c, b, s) /\ h[Len(s)] = f[1 .. Len(s)]
  BY FoldWalks
<1> QED BY <1>1, FoldedIs

LEMMA SendsFolded ==
  ASSUME NEW s,
         Len(s) \in Nat, DOMAIN s = 1 .. Len(s)
  PROVE Sends(s) = Folded("sends", 0, <<>>, s)
<1> DEFINE F(f) == f = [T \in SUBSET DOMAIN s |->
                          IF T = {} THEN <<>> ELSE
                            IF s[Max(T)].kind = "Send" THEN Append(f[T \ {Max(T)}], s[Max(T)].batch) ELSE f[T \ {Max(T)}]]
           g == CHOOSE f : F(f)
<1>1. \A v, x : Step("sends", 0, v, x) = IF x.kind = "Send" THEN Append(v, x.batch) ELSE v
  BY DEF Step
<1>2. ASSUME NEW f PROVE F(f) <=> Folds(f, "sends", 0, <<>>, s, Len(s))
  <2> DEFINE A == [T \in SUBSET DOMAIN s |-> IF T = {} THEN <<>> ELSE
                     IF s[Max(T)].kind = "Send" THEN Append(f[T \ {Max(T)}], s[Max(T)].batch) ELSE f[T \ {Max(T)}]]
             B == [T \in SUBSET (1 .. Len(s)) |-> IF T = {} THEN <<>> ELSE
                     Step("sends", 0, f[T \ {Max(T)}], s[Max(T)])]
  <2>1. \A T \in SUBSET DOMAIN s : A[T] = B[T]
    BY <1>1, Zenon
  <2>2. A = B
    BY <2>1, Zenon
  <2> QED BY <2>2 DEF Folds
<1>3. \E f : F(f)
  BY <1>2, FoldExists
<1>4. F(g)
  BY <1>3, Zenon
<1>5. Sends(s) = g[DOMAIN s]
  BY DEF Sends, FoldLeft, MapThenFoldSet
<1> HIDE DEF F, g
<1>6. Folded("sends", 0, <<>>, s) = g[1 .. Len(s)]
  BY <1>2, <1>4, FoldIsFolded
<1> QED BY <1>5, <1>6

LEMMA OrderFolded ==
  ASSUME NEW numbers, ep.rel.seq \in Nat
  PROVE InOrder(numbers) = Folded("order", numbers, <<>>, [i \in 1 .. ep.rel.seq |-> i - 1])
<1> DEFINE q == [i \in 1 .. ep.rel.seq |-> i - 1]
<1> Len(q) \in Nat /\ DOMAIN q = 1 .. Len(q)
  OBVIOUS
<1> DEFINE F(f) == f = [T \in SUBSET DOMAIN q |->
                          IF T = {} THEN <<>> ELSE
                            IF q[Max(T)] \in numbers THEN Append(f[T \ {Max(T)}], q[Max(T)]) ELSE f[T \ {Max(T)}]]
           g == CHOOSE f : F(f)
<1>5. InOrder(numbers) = g[DOMAIN q]
  BY DEF InOrder, FoldLeft, MapThenFoldSet
<1> HIDE DEF q
<1>1. \A v, x : Step("order", numbers, v, x) = IF x \in numbers THEN Append(v, x) ELSE v
  BY DEF Step
<1>2. ASSUME NEW f PROVE F(f) <=> Folds(f, "order", numbers, <<>>, q, Len(q))
  <2> DEFINE A == [T \in SUBSET DOMAIN q |-> IF T = {} THEN <<>> ELSE
                     IF q[Max(T)] \in numbers THEN Append(f[T \ {Max(T)}], q[Max(T)]) ELSE f[T \ {Max(T)}]]
             B == [T \in SUBSET (1 .. Len(q)) |-> IF T = {} THEN <<>> ELSE
                     Step("order", numbers, f[T \ {Max(T)}], q[Max(T)])]
  <2>1. \A T \in SUBSET DOMAIN q : A[T] = B[T]
    BY <1>1, Zenon
  <2>2. A = B
    BY <2>1, Zenon
  <2> QED BY <2>2 DEF Folds
<1>3. \E f : F(f)
  BY <1>2, FoldExists
<1>4. F(g)
  BY <1>3, Zenon
<1> HIDE DEF F, g
<1>6. Folded("order", numbers, <<>>, q) = g[1 .. Len(q)]
  BY <1>2, <1>4, FoldIsFolded
<1> QED BY <1>5, <1>6 DEF q

LEMMA TrackFolded ==
  ASSUME NEW tracked, NEW s,
         Len(s) \in Nat, DOMAIN s = 1 .. Len(s)
  PROVE TrackAll(tracked, s) = Folded("track", 0, tracked, s)
<1> DEFINE F(f) == f = [T \in SUBSET DOMAIN s |->
                          IF T = {} THEN tracked ELSE
                            add_in_flight_packet(f[T \ {Max(T)}], s[Max(T)])]
           g == CHOOSE f : F(f)
<1>1. \A v, x : Step("track", 0, v, x) = add_in_flight_packet(v, x)
  BY DEF Step
<1>2. ASSUME NEW f PROVE F(f) <=> Folds(f, "track", 0, tracked, s, Len(s))
  BY <1>1 DEF Folds
<1>3. \E f : F(f)
  BY <1>2, FoldExists
<1>4. F(g)
  BY <1>3, Zenon
<1>5. TrackAll(tracked, s) = g[DOMAIN s]
  BY DEF TrackAll, FoldLeft, MapThenFoldSet
<1> HIDE DEF F, g
<1>6. Folded("track", 0, tracked, s) = g[1 .. Len(s)]
  BY <1>2, <1>4, FoldIsFolded
<1> QED BY <1>5, <1>6

LEMMA FrameFolded ==
  ASSUME NEW s,
         Len(s) \in Nat, DOMAIN s = 1 .. Len(s)
  PROVE BuildPackets(s) = flush(Folded("frame", 0, NewBuilder, s)).sent
<1> DEFINE F(f) == f = [T \in SUBSET DOMAIN s |->
                          IF T = {} THEN NewBuilder ELSE
                            add_frame(f[T \ {Max(T)}], s[Max(T)])]
           g == CHOOSE f : F(f)
<1>1. \A v, x : Step("frame", 0, v, x) = add_frame(v, x)
  BY DEF Step
<1>2. ASSUME NEW f PROVE F(f) <=> Folds(f, "frame", 0, NewBuilder, s, Len(s))
  BY <1>1 DEF Folds
<1>3. \E f : F(f)
  BY <1>2, FoldExists
<1>4. F(g)
  BY <1>3, Zenon
<1>5. BuildPackets(s) = flush(g[DOMAIN s]).sent
  BY DEF BuildPackets, FoldLeft, MapThenFoldSet
<1> HIDE DEF F, g
<1>6. Folded("frame", 0, NewBuilder, s) = g[1 .. Len(s)]
  BY <1>2, <1>4, FoldIsFolded
<1> QED BY <1>5, <1>6

LEMMA SizeFolded ==
  ASSUME NEW s,
         Len(s) \in Nat, DOMAIN s = 1 .. Len(s)
  PROVE PacketSize(s) = Folded("size", 0, 0, s)
<1> DEFINE F(f) == f = [T \in SUBSET DOMAIN s |->
                          IF T = {} THEN 0 ELSE
                            f[T \ {Max(T)}] + encoded_size(s[Max(T)])]
           g == CHOOSE f : F(f)
<1>1. \A v, x : Step("size", 0, v, x) = v + encoded_size(x)
  BY DEF Step
<1>2. ASSUME NEW f PROVE F(f) <=> Folds(f, "size", 0, 0, s, Len(s))
  BY <1>1 DEF Folds
<1>3. \E f : F(f)
  BY <1>2, FoldExists
<1>4. F(g)
  BY <1>3, Zenon
<1>5. PacketSize(s) = g[DOMAIN s]
  BY DEF PacketSize, FoldLeft, MapThenFoldSet
<1> HIDE DEF F, g
<1>6. Folded("size", 0, 0, s) = g[1 .. Len(s)]
  BY <1>2, <1>4, FoldIsFolded
<1> QED BY <1>5, <1>6

LEMMA RangesFolded ==
  ASSUME NEW s,
         Len(s) \in Nat, DOMAIN s = 1 .. Len(s)
  PROVE encode_sack_ranges(s) = Folded("ranges", 0, <<>>, s)
<1> DEFINE F(f) == f = [T \in SUBSET DOMAIN s |->
                          IF T = {} THEN <<>> ELSE
                            f[T \ {Max(T)}] \o put(s[Max(T)][1], 4) \o put(s[Max(T)][2], 4)]
           g == CHOOSE f : F(f)
<1>1. \A v, x : Step("ranges", 0, v, x) = v \o put(x[1], 4) \o put(x[2], 4)
  BY DEF Step
<1>2. ASSUME NEW f PROVE F(f) <=> Folds(f, "ranges", 0, <<>>, s, Len(s))
  BY <1>1 DEF Folds
<1>3. \E f : F(f)
  BY <1>2, FoldExists
<1>4. F(g)
  BY <1>3, Zenon
<1>5. encode_sack_ranges(s) = g[DOMAIN s]
  BY DEF encode_sack_ranges, FoldLeft, MapThenFoldSet
<1> HIDE DEF F, g
<1>6. Folded("ranges", 0, <<>>, s) = g[1 .. Len(s)]
  BY <1>2, <1>4, FoldIsFolded
<1> QED BY <1>5, <1>6

LEMMA OctetsFolded ==
  ASSUME NEW s,
         Len(s) \in Nat, DOMAIN s = 1 .. Len(s)
  PROVE serialize_frames(s) = Folded("octets", 0, <<>>, s)
<1> DEFINE F(f) == f = [T \in SUBSET DOMAIN s |->
                          IF T = {} THEN <<>> ELSE
                            f[T \ {Max(T)}] \o encode(s[Max(T)])]
           g == CHOOSE f : F(f)
<1>1. \A v, x : Step("octets", 0, v, x) = v \o encode(x)
  BY DEF Step
<1>2. ASSUME NEW f PROVE F(f) <=> Folds(f, "octets", 0, <<>>, s, Len(s))
  BY <1>1 DEF Folds
<1>3. \E f : F(f)
  BY <1>2, FoldExists
<1>4. F(g)
  BY <1>3, Zenon
<1>5. serialize_frames(s) = g[DOMAIN s]
  BY DEF serialize_frames, FoldLeft, MapThenFoldSet
<1> HIDE DEF F, g
<1>6. Folded("octets", 0, <<>>, s) = g[1 .. Len(s)]
  BY <1>2, <1>4, FoldIsFolded
<1> QED BY <1>5, <1>6

LEMMA ZeroFolded ==
  ASSUME NEW s, NEW y, NEW b, b = [packets |-> <<>>, current |-> <<y>>, size |-> encoded_size(y)],
         Len(s) \in Nat, DOMAIN s = 1 .. Len(s)
  PROVE packetize_zero_rtt(s, y) = Append(Folded("zero", 0, b, s).packets, Folded("zero", 0, b, s).current)
<1> DEFINE F(f) == f = [T \in SUBSET DOMAIN s |->
                          IF T = {} THEN b ELSE
                            ZeroRttFrame(f[T \ {Max(T)}], s[Max(T)])]
           g == CHOOSE f : F(f)
<1>1. \A v, x : Step("zero", 0, v, x) = ZeroRttFrame(v, x)
  BY DEF Step
<1>2. ASSUME NEW f PROVE F(f) <=> Folds(f, "zero", 0, b, s, Len(s))
  BY <1>1 DEF Folds
<1>3. \E f : F(f)
  BY <1>2, FoldExists
<1>4. F(g)
  BY <1>3, Zenon
<1>5. packetize_zero_rtt(s, y) = Append(g[DOMAIN s].packets, g[DOMAIN s].current)
  BY DEF packetize_zero_rtt, FoldLeft, MapThenFoldSet
<1> HIDE DEF F, g
<1>6. Folded("zero", 0, b, s) = g[1 .. Len(s)]
  BY <1>2, <1>4, FoldIsFolded
<1> QED BY <1>5, <1>6

\* How many chunks the windows leave room for.
Permitted(ctx, rel) ==
  Least(Permit(ctx.cwnd, sack_in_flight_count(rel)), Permit(ctx.window, sack_in_flight_count(rel)))

LEMMA PacketFolded ==
  ASSUME NEW ctx, NEW rel, Permitted(ctx, rel) \in Nat
  PROVE packetize(ctx, rel) =
          Folded("packet", ctx, [buffer |-> rel.buffer, seq |-> rel.seq, frames |-> <<>>],
                 [i \in 1 .. Permitted(ctx, rel) |-> i])
<1> DEFINE q == [i \in 1 .. Permitted(ctx, rel) |-> i]
           b == [buffer |-> rel.buffer, seq |-> rel.seq, frames |-> <<>>]
<1> Len(q) \in Nat /\ DOMAIN q = 1 .. Len(q)
  OBVIOUS
<1> DEFINE F(f) == f = [T \in SUBSET DOMAIN q |->
                          IF T = {} THEN b ELSE PacketizeOne(ctx, f[T \ {Max(T)}])]
           g == CHOOSE f : F(f)
<1>5. packetize(ctx, rel) = g[DOMAIN q]
  BY DEF packetize, FoldLeft, MapThenFoldSet, Permitted
<1> HIDE DEF q, b
<1>1. \A v, x : Step("packet", ctx, v, x) = PacketizeOne(ctx, v)
  BY DEF Step
<1>2. ASSUME NEW f PROVE F(f) <=> Folds(f, "packet", ctx, b, q, Len(q))
  BY <1>1 DEF Folds
<1>3. \E f : F(f)
  BY <1>2, FoldExists
<1>4. F(g)
  BY <1>3, Zenon
<1> HIDE DEF F, g
<1>6. Folded("packet", ctx, b, q) = g[1 .. Len(q)]
  BY <1>2, <1>4, FoldIsFolded
<1> QED BY <1>5, <1>6 DEF q, b

----------------------------------------------------------------------------
(* Sequences of any elements.                                              *)

Sequence(s) == s \in Seq(Range(s))

LEMMA SequenceIs ==
  ASSUME NEW S, NEW s \in Seq(S)
  PROVE Sequence(s)
<1>1. \A i \in 1 .. Len(s) : s[i] \in Range(s)
  BY DEF Range
<1> QED BY <1>1 DEF Sequence

LEMMA SequenceFacts ==
  ASSUME NEW s, Sequence(s)
  PROVE /\ Len(s) \in Nat /\ DOMAIN s = 1 .. Len(s)
        /\ s = [i \in 1 .. Len(s) |-> s[i]]
BY DEF Sequence

LEMMA SequenceOf ==
  ASSUME NEW n \in Nat, NEW s, DOMAIN s = 1 .. n, s = [i \in 1 .. n |-> s[i]]
  PROVE Sequence(s) /\ Len(s) = n
<1>1. s \in [1 .. n -> Range(s)]
  BY DEF Range
<1> QED BY <1>1 DEF Sequence

LEMMA SequenceOps ==
  ASSUME NEW s, Sequence(s), NEW t, Sequence(t), NEW x
  PROVE /\ Sequence(<<>>) /\ Sequence(<<x>>)
        /\ Sequence(Append(s, x)) /\ Len(Append(s, x)) = Len(s) + 1
        /\ Append(s, x)[Len(s) + 1] = x /\ \A i \in 1 .. Len(s) : Append(s, x)[i] = s[i]
        /\ Sequence(s \o t) /\ Len(s \o t) = Len(s) + Len(t)
        /\ \A i \in 1 .. Len(s) : (s \o t)[i] = s[i]
        /\ \A i \in 1 .. Len(t) : (s \o t)[Len(s) + i] = t[i]
<1> DEFINE S == Range(s) \cup Range(t) \cup {x}
<1>1. s \in Seq(S) /\ t \in Seq(S) /\ x \in S
  BY DEF Sequence
<1> HIDE DEF S
<1>2. <<>> \in Seq(S) /\ <<x>> \in Seq(S)
  BY <1>1
<1>3. Append(s, x) \in Seq(S) /\ Len(Append(s, x)) = Len(s) + 1
  BY <1>1
<1>4. s \o t \in Seq(S) /\ Len(s \o t) = Len(s) + Len(t)
  BY <1>1
<1>5. Append(s, x)[Len(s) + 1] = x /\ \A i \in 1 .. Len(s) : Append(s, x)[i] = s[i]
  BY <1>1
<1>6. /\ \A i \in 1 .. Len(s) : (s \o t)[i] = s[i]
      /\ \A i \in 1 .. Len(t) : (s \o t)[Len(s) + i] = t[i]
  BY <1>1
<1> QED BY <1>2, <1>3, <1>4, <1>5, <1>6, SequenceIs

LEMMA SequenceTail ==
  ASSUME NEW s, Sequence(s), s # <<>>
  PROVE /\ Sequence(Tail(s)) /\ Len(Tail(s)) = Len(s) - 1 /\ Len(s) >= 1
        /\ \A i \in 1 .. Len(s) - 1 : Tail(s)[i] = s[i + 1]
        /\ Head(s) = s[1] /\ s = <<Head(s)>> \o Tail(s)
<1>1. Tail(s) \in Seq(Range(s)) /\ Len(Tail(s)) = Len(s) - 1 /\ Len(s) >= 1
  BY DEF Sequence
<1>2. \A i \in 1 .. Len(s) - 1 : Tail(s)[i] = s[i + 1]
  BY DEF Sequence
<1>3. Head(s) = s[1] /\ s = <<Head(s)>> \o Tail(s)
  BY DEF Sequence
<1> QED BY <1>1, <1>2, <1>3, SequenceIs

LEMMA SequenceRest ==
  ASSUME NEW s, Sequence(s), NEW n \in 0 .. Len(s)
  PROVE /\ Sequence(Rest(s, n)) /\ Len(Rest(s, n)) = Len(s) - n
        /\ \A i \in 1 .. Len(s) - n : Rest(s, n)[i] = s[n + i]
<1>1. Len(s) \in Nat /\ s \in Seq(Range(s))
  BY DEF Sequence
<1>2. Rest(s, n) \in Seq(Range(s)) /\ Len(Rest(s, n)) = Len(s) - n
  BY <1>1 DEF Rest
<1>3. \A i \in 1 .. Len(s) - n : Rest(s, n)[i] = s[n + i]
  BY <1>1 DEF Rest
<1> QED BY <1>2, <1>3, SequenceIs

LEMMA SequencesEqual ==
  ASSUME NEW s, Sequence(s), NEW t, Sequence(t), Len(s) = Len(t),
         \A i \in 1 .. Len(s) : s[i] = t[i]
  PROVE s = t
BY SequenceFacts

LEMMA GetFolded ==
  ASSUME NEW octets, NEW from, NEW width, Sequence(SubSeq(octets, from, from + width - 1))
  PROVE get(octets, from, width) = Folded("get", 0, 0, SubSeq(octets, from, from + width - 1))
<1> DEFINE p == SubSeq(octets, from, from + width - 1)
           F(f) == f = [T \in SUBSET DOMAIN p |->
                          IF T = {} THEN 0 ELSE f[T \ {Max(T)}] * 256 + p[Max(T)]]
           g == CHOOSE f : F(f)
<1>5. get(octets, from, width) = g[DOMAIN p]
  BY DEF get, FoldLeft, MapThenFoldSet
<1>8. Sequence(p)
  OBVIOUS
<1> HIDE DEF p
<1>7. Len(p) \in Nat /\ DOMAIN p = 1 .. Len(p)
  BY <1>8, SequenceFacts
<1>1. \A v, x : Step("get", 0, v, x) = v * 256 + x
  BY DEF Step
<1>2. ASSUME NEW f PROVE F(f) <=> Folds(f, "get", 0, 0, p, Len(p))
  <2> DEFINE A == [T \in SUBSET DOMAIN p |->
                     IF T = {} THEN 0 ELSE f[T \ {Max(T)}] * 256 + p[Max(T)]]
             B == [T \in SUBSET (1 .. Len(p)) |->
                     IF T = {} THEN 0 ELSE Step("get", 0, f[T \ {Max(T)}], p[Max(T)])]
  <2>1. \A T \in SUBSET DOMAIN p : A[T] = B[T]
    BY <1>1, <1>7, Zenon
  <2>2. A = B
    BY <2>1, <1>7, Zenon
  <2> QED BY <2>2, Zenon DEF Folds
<1>3. \E f : F(f)
  <2> HIDE DEF F
  <2> QED BY <1>2, <1>7, FoldExists
<1>4. F(g)
  BY <1>3, Zenon
<1> HIDE DEF F, g
<1>6. Folded("get", 0, 0, p) = g[1 .. Len(p)]
  BY <1>2, <1>4, <1>7, FoldIsFolded
<1> QED BY <1>5, <1>6, <1>7 DEF p

----------------------------------------------------------------------------
(* Integers as octets.                                                     *)

LEMMA Powers ==
  256^0 = 1 /\ 256^1 = 256 /\ 256^2 = 65536 /\ 256^3 = 16777216
BY SMT

LEMMA Remainder ==
  ASSUME NEW v \in Nat
  PROVE v \div 256 \in Nat /\ v % 256 \in 0 .. 255 /\ v = 256 * (v \div 256) + (v % 256)
BY SMT

LEMMA Nested ==
  ASSUME NEW v \in Nat
  PROVE /\ v \div 1 = v /\ v \div 65536 = (v \div 256) \div 256
        /\ v \div 16777216 = ((v \div 256) \div 256) \div 256
BY SMT

\* The octets of a number, the lowest last.
Digit(v, j) == (v \div 256^j) % 256

LEMMA Digits ==
  ASSUME NEW v \in Word
  PROVE /\ v \in Nat
        /\ (((((Digit(v, 3) * 256) + Digit(v, 2)) * 256) + Digit(v, 1)) * 256) + Digit(v, 0) = v
        /\ v \in Half => (Digit(v, 1) * 256) + Digit(v, 0) = v
        /\ v \in Octet => Digit(v, 0) = v
<1> DEFINE a == v \div 256
           b == a \div 256
           c == b \div 256
<1>1. v \in Nat /\ v <= 2147483647
  BY SMT DEF Word
<1>2. a \in Nat /\ v % 256 \in 0 .. 255 /\ v = 256 * a + (v % 256)
  BY <1>1, Remainder, SMT
<1>3. b \in Nat /\ a % 256 \in 0 .. 255 /\ a = 256 * b + (a % 256)
  <2> HIDE DEF a
  <2> QED BY <1>2, Remainder
<1>4. c \in Nat /\ b % 256 \in 0 .. 255 /\ b = 256 * c + (b % 256)
  <2> HIDE DEF b
  <2> QED BY <1>3, Remainder
<1>5. /\ v \div 256^3 = c /\ v \div 256^2 = b /\ v \div 256^1 = a /\ v \div 256^0 = v
  <2>1. v \div 1 = v /\ v \div 65536 = b /\ v \div 16777216 = c
    BY <1>1, Nested, SMT
  <2> QED BY <2>1, Powers, SMT
<1> HIDE DEF a, b, c
<1>6. c < 256
  BY <1>1, <1>2, <1>3, <1>4, SMT
<1>7. c % 256 = c
  BY <1>6, <1>4, SMT
<1>8. ((((c * 256) + (b % 256)) * 256 + (a % 256)) * 256) + (v % 256) = v
  BY <1>2, <1>3, <1>4, SMT
<1>9. v \in Half => (a % 256) * 256 + (v % 256) = v
  <2> SUFFICES ASSUME v \in Half PROVE (a % 256) * 256 + (v % 256) = v
    OBVIOUS
  <2>2. v <= 65535
    BY SMT DEF Half
  <2>3. a <= 255
    BY <2>2, <1>1, <1>2, SMT
  <2>1. b = 0
    BY <2>3, <1>2, <1>3, SMT
  <2> QED BY <2>1, <1>2, <1>3, SMT
<1>10. v \in Octet => v % 256 = v
  BY SMT DEF Octet
<1>11. Digit(v, 3) = c % 256 /\ Digit(v, 2) = b % 256 /\ Digit(v, 1) = a % 256 /\ Digit(v, 0) = v % 256
  BY <1>5 DEF Digit
<1> QED BY <1>1, <1>11, <1>7, <1>8, <1>9, <1>10, SMT

Width == {1, 2, 4, 8}

LEMMA PutIs ==
  ASSUME NEW v \in Nat, NEW w \in Width
  PROVE /\ put(v, w) \in Seq(Nat) /\ Len(put(v, w)) = w
        /\ \A i \in 1 .. w : put(v, w)[i] =
             IF w - i > 3 THEN 0 ELSE Digit(v, w - i)
<1> DEFINE d(i) == IF w - i > 3 THEN 0 ELSE Digit(v, w - i)
<1>1. w \in Nat
  BY DEF Width
<1>2. ASSUME NEW i \in 1 .. w PROVE d(i) \in Nat
  <2>1. CASE w - i > 3
    BY <2>1, SMT
  <2>2. CASE ~ (w - i > 3)
    <3>1. w - i \in {0, 1, 2, 3}
      BY <1>1, <2>2, SMT
    <3> DEFINE j == w - i
               p == 256^j
    <3>2. j = 0 \/ j = 1 \/ j = 2 \/ j = 3
      BY <3>1, SMT
    <3> HIDE DEF j
    <3>3. p \in {1, 256, 65536, 16777216}
      <4>1. CASE j = 0
        BY <4>1, Powers, SMT
      <4>2. CASE j = 1
        BY <4>2, Powers, SMT
      <4>3. CASE j = 2
        BY <4>3, Powers, SMT
      <4>4. CASE j = 3
        BY <4>4, Powers, SMT
      <4> QED BY <3>2, <4>1, <4>2, <4>3, <4>4
    <3> HIDE DEF p
    <3>4. (v \div p) % 256 \in Nat
      BY <3>3, SMT
    <3> QED BY <3>4, <2>2, SMT DEF p, j, Digit
  <2> QED BY <2>1, <2>2
<1>3. put(v, w) = [i \in 1 .. w |-> d(i)]
  BY Zenon DEF put, Digit
<1> HIDE DEF d
<1>4. put(v, w) \in [1 .. w -> Nat]
  BY <1>2, <1>3
<1>5. put(v, w) \in Seq(Nat) /\ Len(put(v, w)) = w
  BY <1>1, <1>4
<1>6. \A i \in 1 .. w : put(v, w)[i] = d(i)
  BY <1>3
<1> QED BY <1>5, <1>6 DEF d

\* The number that is read from the octets of q.
LEMMA GetWalk ==
  ASSUME NEW q \in Seq(Nat)
  PROVE \E h : /\ Folded("get", 0, 0, q) = h[Len(q)] /\ h[0] = 0
               /\ \A i \in 1 .. Len(q) : h[i] = h[i - 1] * 256 + q[i]
<1>1. PICK h : Walk(h, "get", 0, 0, q) /\ Folded("get", 0, 0, q) = h[Len(q)]
  BY FoldedWalks
<1>2. \A v, x : Step("get", 0, v, x) = v * 256 + x
  BY DEF Step
<1>3. h[0] = 0 /\ \A i \in 1 .. Len(q) : h[i] = Step("get", 0, h[i - 1], q[i])
  BY <1>1 DEF Walk
<1>4. \A i \in 1 .. Len(q) : h[i] = h[i - 1] * 256 + q[i]
  <2> SUFFICES ASSUME NEW i \in 1 .. Len(q) PROVE h[i] = h[i - 1] * 256 + q[i]
    OBVIOUS
  <2>1. h[i] = Step("get", 0, h[i - 1], q[i])
    BY <1>3
  <2> QED BY <1>2, <2>1, Zenon
<1> QED BY <1>1, <1>3, <1>4, Zenon

LEMMA GetPut ==
  ASSUME NEW octets, NEW from, NEW w \in Width, NEW v \in Word,
         w = 1 => v \in Octet, w = 2 => v \in Half,
         SubSeq(octets, from, from + w - 1) = put(v, w)
  PROVE get(octets, from, w) = v
<1> DEFINE q == put(v, w)
<1>1. v \in Nat
  BY Digits, SMT
<1>2. /\ q \in Seq(Nat) /\ Len(q) = w
      /\ \A i \in 1 .. w : q[i] = IF w - i > 3 THEN 0 ELSE Digit(v, w - i)
  BY <1>1, PutIs
<1>3. get(octets, from, w) = Folded("get", 0, 0, q)
  <2>1. Sequence(SubSeq(octets, from, from + w - 1))
    BY <1>2, SequenceIs
  <2> QED BY <2>1, GetFolded
<1>11. /\ (((((Digit(v, 3) * 256) + Digit(v, 2)) * 256) + Digit(v, 1)) * 256) + Digit(v, 0) = v
       /\ v \in Half => (Digit(v, 1) * 256) + Digit(v, 0) = v
       /\ v \in Octet => Digit(v, 0) = v
  BY Digits, SMT
<1> HIDE DEF q
<1>9. \A i \in 1 .. w : q[i] \in Nat
  <2>1. \A i \in 1 .. Len(q) : q[i] \in Nat
    BY <1>2
  <2> QED BY <2>1, <1>2
<1>4. PICK h : /\ Folded("get", 0, 0, q) = h[Len(q)] /\ h[0] = 0
               /\ \A i \in 1 .. Len(q) : h[i] = h[i - 1] * 256 + q[i]
  BY <1>2, GetWalk
<1>12. \A i \in 1 .. w : h[i] = h[i - 1] * 256 + q[i]
  BY <1>2, <1>4
<1>5. CASE w = 1
  <2>1. q[1] = Digit(v, 0) /\ Digit(v, 0) \in Nat
    BY <1>5, <1>2, <1>9, SMT
  <2>2. h[1] = h[0] * 256 + q[1]
    BY <1>5, <1>12, SMT
  <2> QED BY <1>2, <1>3, <1>4, <1>5, <1>11, <2>1, <2>2, SMT
<1>6. CASE w = 2
  <2>1. q[1] = Digit(v, 1) /\ Digit(v, 1) \in Nat /\ q[2] = Digit(v, 0) /\ Digit(v, 0) \in Nat
    BY <1>6, <1>2, <1>9, SMT
  <2>2. h[1] = h[0] * 256 + q[1] /\ h[2] = h[1] * 256 + q[2]
    BY <1>6, <1>12, SMT
  <2> QED BY <1>2, <1>3, <1>4, <1>6, <1>11, <2>1, <2>2, SMT
<1>7. CASE w = 4
  <2>1. /\ q[1] = Digit(v, 3) /\ Digit(v, 3) \in Nat /\ q[2] = Digit(v, 2) /\ Digit(v, 2) \in Nat
        /\ q[3] = Digit(v, 1) /\ Digit(v, 1) \in Nat /\ q[4] = Digit(v, 0) /\ Digit(v, 0) \in Nat
    BY <1>7, <1>2, <1>9, SMT
  <2>2. /\ h[1] = h[0] * 256 + q[1] /\ h[2] = h[1] * 256 + q[2]
        /\ h[3] = h[2] * 256 + q[3] /\ h[4] = h[3] * 256 + q[4]
    BY <1>7, <1>12, SMT
  <2> QED BY <1>2, <1>3, <1>4, <1>7, <1>11, <2>1, <2>2, SMT
<1>8. CASE w = 8
  <2>1. /\ q[5] = Digit(v, 3) /\ Digit(v, 3) \in Nat /\ q[6] = Digit(v, 2) /\ Digit(v, 2) \in Nat
        /\ q[7] = Digit(v, 1) /\ Digit(v, 1) \in Nat /\ q[8] = Digit(v, 0) /\ Digit(v, 0) \in Nat
        /\ q[1] = 0 /\ q[2] = 0 /\ q[3] = 0 /\ q[4] = 0
    BY <1>8, <1>2, <1>9, SMT
  <2>2. /\ h[1] = h[0] * 256 + q[1] /\ h[2] = h[1] * 256 + q[2]
        /\ h[3] = h[2] * 256 + q[3] /\ h[4] = h[3] * 256 + q[4]
        /\ h[5] = h[4] * 256 + q[5] /\ h[6] = h[5] * 256 + q[6]
        /\ h[7] = h[6] * 256 + q[7] /\ h[8] = h[7] * 256 + q[8]
    BY <1>8, <1>12, SMT
  <2>3. h[4] = 0
    BY <2>1, <2>2, <1>4, SMT
  <2> QED BY <1>2, <1>3, <1>4, <1>8, <1>11, <2>1, <2>2, <2>3, SMT
<1> QED BY <1>5, <1>6, <1>7, <1>8 DEF Width

----------------------------------------------------------------------------
(* Pieces of a sequence of octets.                                         *)

LEMMA Join ==
  ASSUME NEW s \in Seq(Nat), NEW t \in Seq(Nat)
  PROVE /\ s \o t \in Seq(Nat) /\ Len(s \o t) = Len(s) + Len(t) /\ Len(s) \in Nat /\ Len(t) \in Nat
        /\ \A i \in 1 .. Len(s) : (s \o t)[i] = s[i]
        /\ \A i \in 1 .. Len(t) : (s \o t)[Len(s) + i] = t[i]
OBVIOUS

LEMMA Field ==
  ASSUME NEW x \in Seq(Nat), NEW p \in Seq(Nat), NEW n \in Nat, n + Len(p) <= Len(x),
         \A i \in 1 .. Len(p) : x[n + i] = p[i]
  PROVE SubSeq(x, n + 1, n + Len(p)) = p
<1> DEFINE y == SubSeq(x, n + 1, n + Len(p))
<1>1. y \in Seq(Nat) /\ Len(y) = Len(p)
  OBVIOUS
<1>2. \A i \in 1 .. Len(p) : y[i] = x[n + 1 + i - 1]
  OBVIOUS
<1>3. \A i \in 1 .. Len(p) : n + 1 + i - 1 = n + i
  OBVIOUS
<1> HIDE DEF y
<1>4. \A i \in 1 .. Len(p) : y[i] = p[i]
  BY <1>2, <1>3
<1>5. y = p
  BY <1>1, <1>4, SequenceIs, SequencesEqual
<1> QED BY <1>5 DEF y

Cat(s, t) == s \o t

\* x begins with s.
Begins(x, s) == Len(s) <= Len(x) /\ \A i \in 1 .. Len(s) : x[i] = s[i]

LEMMA CatIs ==
  ASSUME NEW s \in Seq(Nat), NEW t \in Seq(Nat)
  PROVE /\ Cat(s, t) \in Seq(Nat) /\ Len(Cat(s, t)) = Len(s) + Len(t)
        /\ Begins(Cat(s, t), s) /\ Begins(Cat(s, t), Cat(s, t))
BY Join DEF Cat, Begins

\* The octets of x from n to m.
Part(x, n, m) == SubSeq(x, n, m)

LEMMA FrontPiece ==
  ASSUME NEW x \in Seq(Nat), NEW s \in Seq(Nat), NEW p \in Seq(Nat), Begins(x, Cat(s, p)),
         NEW n, n = Len(s) + 1, NEW m, m = Len(s) + Len(p)
  PROVE Begins(x, s) /\ Part(x, n, m) = p
<1> DEFINE y == Cat(s, p)
<1>1. /\ y \in Seq(Nat) /\ Len(y) = Len(s) + Len(p) /\ Len(s) \in Nat /\ Len(p) \in Nat
      /\ \A i \in 1 .. Len(s) : y[i] = s[i]
      /\ \A i \in 1 .. Len(p) : y[Len(s) + i] = p[i]
  BY Join DEF Cat
<1> HIDE DEF y
<1>2. Len(y) <= Len(x) /\ \A i \in 1 .. Len(y) : x[i] = y[i]
  BY DEF Begins, y
<1>3. \A i \in 1 .. Len(s) : x[i] = s[i]
  <2> SUFFICES ASSUME NEW i \in 1 .. Len(s) PROVE x[i] = s[i]
    OBVIOUS
  <2>1. i \in 1 .. Len(y)
    BY <1>1
  <2> QED BY <1>1, <1>2, <2>1
<1>4. \A i \in 1 .. Len(p) : x[Len(s) + i] = p[i]
  <2> SUFFICES ASSUME NEW i \in 1 .. Len(p) PROVE x[Len(s) + i] = p[i]
    OBVIOUS
  <2>1. Len(s) + i \in 1 .. Len(y)
    BY <1>1
  <2> QED BY <1>1, <1>2, <2>1
<1>5. SubSeq(x, Len(s) + 1, Len(s) + Len(p)) = p
  BY <1>1, <1>2, <1>4, Field
<1>6. Len(s) <= Len(x)
  BY <1>1, <1>2
<1>7. Part(x, n, m) = p
  BY <1>5 DEF Part
<1> QED BY <1>3, <1>7, <1>6 DEF Begins

\* s is n octets.
Sized(s, n) == s \in Seq(Nat) /\ Len(s) = n

LEMMA CatSized ==
  ASSUME NEW s, NEW p, NEW k \in Nat, NEW j \in Nat, Sized(s, k), Sized(p, j),
         NEW m, k + j = m
  PROVE Sized(Cat(s, p), m)
BY CatIs DEF Sized

LEMMA PieceAt ==
  ASSUME NEW x \in Seq(Nat), NEW s, NEW p, NEW k \in Nat, NEW j \in Nat, Sized(s, k), Sized(p, j),
         Begins(x, Cat(s, p)), NEW n, NEW m, k + 1 = n, k + j = m
  PROVE Begins(x, s) /\ Part(x, n, m) = p
<1>1. s \in Seq(Nat) /\ p \in Seq(Nat) /\ n = Len(s) + 1 /\ m = Len(s) + Len(p)
  BY DEF Sized
<1> QED BY <1>1, FrontPiece

LEMMA WholeBegins ==
  ASSUME NEW x \in Seq(Nat), NEW s, NEW t \in Seq(Nat), NEW k \in Nat, Sized(s, k), x = Cat(s, t)
  PROVE /\ Sized(x, k + Len(t)) /\ Begins(x, s)
        /\ Part(x, k + 1, k + Len(t)) = t /\ Part(x, k + 1, Len(x)) = t
<1>1. s \in Seq(Nat) /\ Len(s) = k
  BY DEF Sized
<1>2. /\ Len(x) = Len(s) + Len(t) /\ Begins(x, s) /\ Begins(x, Cat(s, t))
  BY <1>1, CatIs
<1>3. Part(x, Len(s) + 1, Len(s) + Len(t)) = t
  BY <1>1, <1>2, FrontPiece
<1> QED BY <1>1, <1>2, <1>3 DEF Sized

\* The seven fields of a short header and what follows them.
LEMMA Pieces ==
  ASSUME NEW a, NEW b, NEW c, NEW d, NEW e, NEW f, NEW g, NEW t \in Seq(Nat),
         Sized(a, 1), Sized(b, 4), Sized(c, 2), Sized(d, 2), Sized(e, 4), Sized(f, 4), Sized(g, 4),
         NEW x, x = Cat(Cat(Cat(Cat(Cat(Cat(Cat(a, b), c), d), e), f), g), t)
  PROVE /\ Sized(x, 21 + Len(t))
        /\ x[1] = a[1] /\ Part(x, 2, 5) = b /\ Part(x, 6, 7) = c /\ Part(x, 8, 9) = d
        /\ Part(x, 10, 13) = e /\ Part(x, 14, 17) = f /\ Part(x, 18, 21) = g
        /\ Part(x, 22, Len(x)) = t
<1> DEFINE x2 == Cat(a, b)
           x3 == Cat(x2, c)
           x4 == Cat(x3, d)
           x5 == Cat(x4, e)
           x6 == Cat(x5, f)
           x7 == Cat(x6, g)
<1>2. Sized(x2, 5)
  BY CatSized
<1> HIDE DEF x2
<1>3. Sized(x3, 7)
  BY <1>2, CatSized
<1> HIDE DEF x3
<1>4. Sized(x4, 9)
  BY <1>3, CatSized
<1> HIDE DEF x4
<1>5. Sized(x5, 13)
  BY <1>4, CatSized
<1> HIDE DEF x5
<1>6. Sized(x6, 17)
  BY <1>5, CatSized
<1> HIDE DEF x6
<1>7. Sized(x7, 21)
  BY <1>6, CatSized
<1>8. x = Cat(x7, t)
  BY DEF x2, x3, x4, x5, x6
<1> HIDE DEF x7
<1>9. x \in Seq(Nat)
  BY <1>7, <1>8, CatIs DEF Sized
<1>10. Sized(x, 21 + Len(t)) /\ Begins(x, x7) /\ Part(x, 22, Len(x)) = t
  <2>1. 21 \in Nat /\ 21 + 1 = 22
    OBVIOUS
  <2> QED BY <1>7, <1>8, <1>9, <2>1, WholeBegins
<1>11. Begins(x, x6) /\ Part(x, 18, 21) = g
  BY <1>6, <1>9, <1>10, PieceAt DEF x7
<1>12. Begins(x, x5) /\ Part(x, 14, 17) = f
  BY <1>5, <1>9, <1>11, PieceAt DEF x6
<1>13. Begins(x, x4) /\ Part(x, 10, 13) = e
  BY <1>4, <1>9, <1>12, PieceAt DEF x5
<1>14. Begins(x, x3) /\ Part(x, 8, 9) = d
  BY <1>3, <1>9, <1>13, PieceAt DEF x4
<1>15. Begins(x, x2) /\ Part(x, 6, 7) = c
  BY <1>2, <1>9, <1>14, PieceAt DEF x3
<1>16. Begins(x, a) /\ Part(x, 2, 5) = b
  BY <1>9, <1>15, PieceAt DEF x2
<1>17. x[1] = a[1]
  BY <1>16 DEF Begins, Sized
<1> QED BY <1>10, <1>11, <1>12, <1>13, <1>14, <1>15, <1>16, <1>17

\* The four fields of a long header.
LEMMA LongPieces ==
  ASSUME NEW a, NEW b, NEW c, NEW d, NEW t \in Seq(Nat),
         Sized(a, 1), Sized(b, 1), Sized(c, 4), Sized(d, 4),
         NEW x, x = Cat(Cat(Cat(Cat(a, b), c), d), t)
  PROVE /\ Sized(x, 10 + Len(t))
        /\ x[1] = a[1] /\ Part(x, 2, 2) = b /\ Part(x, 3, 6) = c /\ Part(x, 7, 10) = d
        /\ Part(x, 11, Len(x)) = t
<1> DEFINE x2 == Cat(a, b)
           x3 == Cat(x2, c)
           x4 == Cat(x3, d)
<1>2. Sized(x2, 2)
  BY CatSized
<1> HIDE DEF x2
<1>3. Sized(x3, 6)
  BY <1>2, CatSized
<1> HIDE DEF x3
<1>4. Sized(x4, 10)
  BY <1>3, CatSized
<1>5. x = Cat(x4, t)
  BY DEF x2, x3
<1> HIDE DEF x4
<1>6. x \in Seq(Nat)
  BY <1>4, <1>5, CatIs DEF Sized
<1>7. Sized(x, 10 + Len(t)) /\ Begins(x, x4) /\ Part(x, 11, Len(x)) = t
  <2>1. 10 \in Nat /\ 10 + 1 = 11
    OBVIOUS
  <2> QED BY <1>4, <1>5, <1>6, <2>1, WholeBegins
<1>8. Begins(x, x3) /\ Part(x, 7, 10) = d
  BY <1>3, <1>6, <1>7, PieceAt DEF x4
<1>9. Begins(x, x2) /\ Part(x, 3, 6) = c
  BY <1>2, <1>6, <1>8, PieceAt DEF x3
<1>10. Begins(x, a) /\ Part(x, 2, 2) = b
  BY <1>6, <1>9, PieceAt DEF x2
<1>11. x[1] = a[1]
  BY <1>10 DEF Begins, Sized
<1> QED BY <1>7, <1>8, <1>9, <1>10, <1>11

----------------------------------------------------------------------------
(* The codec.                                                              *)

LongCommands == {"Syn", "SynAck"}
ShortCommands == {"Fin", "Push", "Ack", "Ping", "PathChallenge", "PathResponse"}

LEMMA CodeIs ==
  /\ DOMAIN Code = LongCommands \cup ShortCommands
  /\ Code["Syn"] = 1 /\ Code["SynAck"] = 2 /\ Code["Fin"] = 3 /\ Code["Push"] = 16
  /\ Code["Ack"] = 17 /\ Code["Ping"] = 18 /\ Code["PathChallenge"] = 19
  /\ Code["PathResponse"] = 20
BY DEF Code, LongCommands, ShortCommands

LEMMA CodeRead ==
  ASSUME NEW c \in LongCommands \cup ShortCommands
  PROVE from_u8(Code[c]) = c /\ Code[c] \in Octet /\ Code[c] \in Word /\ Code[c] \in Nat /\ c # None
<1>1. Code[c] \in 1 .. 20
  BY CodeIs DEF LongCommands, ShortCommands
<1>2. \A d \in DOMAIN Code : Code[d] = Code[c] => d = c
  BY CodeIs DEF LongCommands, ShortCommands
<1>3. from_u8(Code[c]) = c
  <2>1. c \in DOMAIN Code
    BY CodeIs
  <2> HIDE DEF Code
  <2>2. \E d \in DOMAIN Code : Code[d] = Code[c]
    BY <2>1
  <2>3. (CHOOSE d \in DOMAIN Code : Code[d] = Code[c]) = c
    BY <1>2, <2>1, Zenon
  <2> QED BY <2>2, <2>3, Zenon DEF from_u8
<1>4. Code[c] \in Octet /\ Code[c] \in Word /\ Code[c] \in Nat
  BY <1>1, SMT DEF Octet, Word
<1>5. c # None
  BY DEF LongCommands, ShortCommands, None
<1> QED BY <1>3, <1>4, <1>5

\* A field that put wrote is read by get.
LEMMA ReadField ==
  ASSUME NEW octets, NEW n \in Nat, NEW m, NEW w \in Width, NEW v \in Word,
         w = 1 => v \in Octet, w = 2 => v \in Half,
         n + w - 1 = m, Part(octets, n, m) = put(v, w)
  PROVE get(octets, n, w) = v
<1>1. SubSeq(octets, n, n + w - 1) = put(v, w)
  BY Zenon DEF Part
<1> QED BY <1>1, GetPut

LEMMA PutSized ==
  ASSUME NEW v \in Nat, NEW w \in Width
  PROVE Sized(put(v, w), w)
BY PutIs DEF Sized

LEMMA FirstOctet ==
  ASSUME NEW c \in LongCommands \cup ShortCommands
  PROVE put(Code[c], 1)[1] = Code[c]
<1>1. Code[c] \in Octet /\ Code[c] \in Word /\ Code[c] \in Nat
  BY CodeRead
<1>2. \A i \in 1 .. 1 : put(Code[c], 1)[i] = IF 1 - i > 3 THEN 0 ELSE Digit(Code[c], 1 - i)
  <2>1. 1 \in Width
    BY DEF Width
  <2> QED BY <1>1, <2>1, PutIs
<1>3. put(Code[c], 1)[1] = Digit(Code[c], 0)
  BY <1>2
<1>4. Digit(Code[c], 0) = Code[c]
  BY <1>1, Digits
<1> QED BY <1>3, <1>4

ShortHeaders ==
  [command : ShortCommands, cid : Word, length : Half, window : Half, timestamp : Word,
   seq : Word, next : Word]
LongHeaders == [command : LongCommands, version : Octet, destination : Word, source : Word]

LEMMA WordIs ==
  /\ (\A v \in Word : v \in Nat) /\ (\A v \in Half : v \in Word /\ v \in Nat)
  /\ \A v \in Octet : v \in Word /\ v \in Nat
  /\ 1 \in Width /\ 2 \in Width /\ 4 \in Width /\ 8 \in Width
<1>1. /\ (\A v \in Word : v \in Nat) /\ (\A v \in Half : v \in Word /\ v \in Nat)
      /\ \A v \in Octet : v \in Word /\ v \in Nat
  BY SMT DEF Word, Half, Octet
<1> QED BY <1>1 DEF Width

LEMMA ReadWord ==
  ASSUME NEW octets, NEW n \in Nat, NEW m, NEW v \in Word, n + 4 - 1 = m,
         Part(octets, n, m) = put(v, 4)
  PROVE get(octets, n, 4) = v
<1>1. 4 \in Width
  BY WordIs
<1> QED BY <1>1, ReadField

LEMMA ReadHalf ==
  ASSUME NEW octets, NEW n \in Nat, NEW m, NEW v \in Half, n + 2 - 1 = m,
         Part(octets, n, m) = put(v, 2)
  PROVE get(octets, n, 2) = v
<1>1. 2 \in Width /\ v \in Word
  BY WordIs
<1> QED BY <1>1, ReadField

LEMMA ReadOctet ==
  ASSUME NEW octets, NEW n \in Nat, NEW m, NEW v \in Octet, n + 1 - 1 = m,
         Part(octets, n, m) = put(v, 1)
  PROVE get(octets, n, 1) = v
<1>1. 1 \in Width /\ v \in Word
  BY WordIs
<1> QED BY <1>1, ReadField

LEMMA ShortRead ==
  ASSUME NEW h \in ShortHeaders, NEW t \in Seq(Nat), NEW x, x = EncodeShort(h) \o t
  PROVE /\ Sized(x, 21 + Len(t)) /\ x[1] = Code[h.command]
        /\ DecodeShort(x) = h /\ Part(x, 22, Len(x)) = t
<1> DEFINE a == put(Code[h.command], 1)
           b == put(h.cid, 4)
           c == put(h.length, 2)
           d == put(h.window, 2)
           e == put(h.timestamp, 4)
           f == put(h.seq, 4)
           g == put(h.next, 4)
<1>1. /\ h.command \in ShortCommands /\ h.cid \in Word /\ h.length \in Half /\ h.window \in Half
      /\ h.timestamp \in Word /\ h.seq \in Word /\ h.next \in Word
  BY DEF ShortHeaders
<1>2. /\ Sized(a, 1) /\ Sized(b, 4) /\ Sized(c, 2) /\ Sized(d, 2) /\ Sized(e, 4) /\ Sized(f, 4)
      /\ Sized(g, 4)
  <2>1. Code[h.command] \in Nat
    BY <1>1, CodeRead
  <2>2. h.cid \in Nat /\ h.length \in Nat /\ h.window \in Nat /\ h.timestamp \in Nat
        /\ h.seq \in Nat /\ h.next \in Nat
    BY <1>1, WordIs
  <2> QED BY <2>1, <2>2, WordIs, PutSized
<1>3. x = Cat(Cat(Cat(Cat(Cat(Cat(Cat(a, b), c), d), e), f), g), t)
  BY Zenon DEF EncodeShort, Cat
<1>4. a[1] = Code[h.command]
  BY <1>1, FirstOctet
<1> HIDE DEF a, b, c, d, e, f, g
<1>5. /\ Sized(x, 21 + Len(t))
      /\ x[1] = a[1] /\ Part(x, 2, 5) = b /\ Part(x, 6, 7) = c /\ Part(x, 8, 9) = d
      /\ Part(x, 10, 13) = e /\ Part(x, 14, 17) = f /\ Part(x, 18, 21) = g
      /\ Part(x, 22, Len(x)) = t
  BY <1>2, <1>3, Pieces
<1>6. from_u8(x[1]) = h.command
  BY <1>1, <1>4, <1>5, CodeRead
<1>7. get(x, 2, 4) = h.cid
  <2>1. 2 + 4 - 1 = 5 /\ 2 \in Nat
    OBVIOUS
  <2>2. Part(x, 2, 5) = put(h.cid, 4)
    BY <1>5 DEF b
  <2> QED BY <1>1, <2>1, <2>2, ReadWord
<1>8. get(x, 6, 2) = h.length
  <2>1. 6 + 2 - 1 = 7 /\ 6 \in Nat
    OBVIOUS
  <2>2. Part(x, 6, 7) = put(h.length, 2)
    BY <1>5 DEF c
  <2> QED BY <1>1, <2>1, <2>2, ReadHalf
<1>9. get(x, 8, 2) = h.window
  <2>1. 8 + 2 - 1 = 9 /\ 8 \in Nat
    OBVIOUS
  <2>2. Part(x, 8, 9) = put(h.window, 2)
    BY <1>5 DEF d
  <2> QED BY <1>1, <2>1, <2>2, ReadHalf
<1>10. get(x, 10, 4) = h.timestamp
  <2>1. 10 + 4 - 1 = 13 /\ 10 \in Nat
    OBVIOUS
  <2>2. Part(x, 10, 13) = put(h.timestamp, 4)
    BY <1>5 DEF e
  <2> QED BY <1>1, <2>1, <2>2, ReadWord
<1>11. get(x, 14, 4) = h.seq
  <2>1. 14 + 4 - 1 = 17 /\ 14 \in Nat
    OBVIOUS
  <2>2. Part(x, 14, 17) = put(h.seq, 4)
    BY <1>5 DEF f
  <2> QED BY <1>1, <2>1, <2>2, ReadWord
<1>12. get(x, 18, 4) = h.next
  <2>1. 18 + 4 - 1 = 21 /\ 18 \in Nat
    OBVIOUS
  <2>2. Part(x, 18, 21) = put(h.next, 4)
    BY <1>5 DEF g
  <2> QED BY <1>1, <2>1, <2>2, ReadWord
<1>13. h = [command |-> h.command, cid |-> h.cid, length |-> h.length, window |-> h.window,
            timestamp |-> h.timestamp, seq |-> h.seq, next |-> h.next]
  BY DEF ShortHeaders
<1>14. DecodeShort(x) = h
  <2>1. DecodeShort(x) =
          [command |-> h.command, cid |-> h.cid, length |-> h.length, window |-> h.window,
            timestamp |-> h.timestamp, seq |-> h.seq, next |-> h.next]
    BY <1>6, <1>7, <1>8, <1>9, <1>10, <1>11, <1>12, Zenon DEF DecodeShort
  <2> QED BY <2>1, <1>13
<1> QED BY <1>4, <1>5, <1>14

LEMMA LongRead ==
  ASSUME NEW h \in LongHeaders, NEW t \in Seq(Nat), NEW x, x = EncodeLong(h) \o t
  PROVE /\ Sized(x, 10 + Len(t)) /\ x[1] = Code[h.command]
        /\ DecodeLong(x) = h /\ Part(x, 11, Len(x)) = t
<1> DEFINE a == put(Code[h.command], 1)
           b == put(h.version, 1)
           c == put(h.destination, 4)
           d == put(h.source, 4)
<1>1. /\ h.command \in LongCommands /\ h.version \in Octet /\ h.destination \in Word
      /\ h.source \in Word
  BY DEF LongHeaders
<1>2. Sized(a, 1) /\ Sized(b, 1) /\ Sized(c, 4) /\ Sized(d, 4)
  <2>1. Code[h.command] \in Nat
    BY <1>1, CodeRead
  <2>2. h.version \in Nat /\ h.destination \in Nat /\ h.source \in Nat
    BY <1>1, WordIs
  <2> QED BY <2>1, <2>2, WordIs, PutSized
<1>3. x = Cat(Cat(Cat(Cat(a, b), c), d), t)
  BY Zenon DEF EncodeLong, Cat
<1>4. a[1] = Code[h.command]
  BY <1>1, FirstOctet
<1> HIDE DEF a, b, c, d
<1>5. /\ Sized(x, 10 + Len(t))
      /\ x[1] = a[1] /\ Part(x, 2, 2) = b /\ Part(x, 3, 6) = c /\ Part(x, 7, 10) = d
      /\ Part(x, 11, Len(x)) = t
  BY <1>2, <1>3, LongPieces
<1>6. from_u8(x[1]) = h.command
  BY <1>1, <1>4, <1>5, CodeRead
<1>7. get(x, 2, 1) = h.version
  <2>1. 2 + 1 - 1 = 2 /\ 2 \in Nat
    OBVIOUS
  <2>2. Part(x, 2, 2) = put(h.version, 1)
    BY <1>5 DEF b
  <2> QED BY <1>1, <2>1, <2>2, ReadOctet
<1>8. get(x, 3, 4) = h.destination
  <2>1. 3 + 4 - 1 = 6 /\ 3 \in Nat
    OBVIOUS
  <2>2. Part(x, 3, 6) = put(h.destination, 4)
    BY <1>5 DEF c
  <2> QED BY <1>1, <2>1, <2>2, ReadWord
<1>9. get(x, 7, 4) = h.source
  <2>1. 7 + 4 - 1 = 10 /\ 7 \in Nat
    OBVIOUS
  <2>2. Part(x, 7, 10) = put(h.source, 4)
    BY <1>5 DEF d
  <2> QED BY <1>1, <2>1, <2>2, ReadWord
<1>10. h = [command |-> h.command, version |-> h.version, destination |-> h.destination,
            source |-> h.source]
  BY DEF LongHeaders
<1>11. DecodeLong(x) = h
  <2>1. DecodeLong(x) =
          [command |-> h.command, version |-> h.version, destination |-> h.destination,
            source |-> h.source]
    BY <1>6, <1>7, <1>8, <1>9, Zenon DEF DecodeLong
  <2> QED BY <2>1, <1>10
<1> QED BY <1>4, <1>5, <1>11

LEMMA CatAssociates ==
  ASSUME NEW s \in Seq(Nat), NEW t \in Seq(Nat), NEW u \in Seq(Nat)
  PROVE Cat(Cat(s, t), u) = Cat(s, Cat(t, u))
<1> DEFINE l == (s \o t) \o u
           r == s \o (t \o u)
<1>1. /\ l \in Seq(Nat) /\ r \in Seq(Nat)
      /\ Len(l) = Len(s) + Len(t) + Len(u) /\ Len(r) = Len(s) + Len(t) + Len(u)
      /\ Len(s) \in Nat /\ Len(t) \in Nat /\ Len(u) \in Nat
  OBVIOUS
<1>2. ASSUME NEW i \in 1 .. Len(l) PROVE l[i] = r[i]
  <2>1. CASE i <= Len(s)
    BY <2>1, <1>1
  <2>2. CASE i > Len(s) /\ i <= Len(s) + Len(t)
    BY <2>2, <1>1
  <2>3. CASE i > Len(s) + Len(t)
    BY <2>3, <1>1
  <2> QED BY <1>1, <2>1, <2>2, <2>3
<1> HIDE DEF l, r
<1>3. l = r
  BY <1>1, <1>2, SequenceIs, SequencesEqual
<1> QED BY <1>3 DEF l, r, Cat

\* The octets behind the header of a short frame.
Payload(f) == IF IsPath(command(f)) THEN put(f.body[1], 8) ELSE f.body

LEMMA CommandKinds ==
  ASSUME NEW c
  PROVE /\ c \in LongCommands => is_long_header(c) /\ ~ HasPayload(c) /\ ~ IsPath(c) /\ c # None
        /\ c \in ShortCommands => ~ is_long_header(c) /\ ~ (HasPayload(c) /\ IsPath(c)) /\ c # None
BY DEF LongCommands, ShortCommands, is_long_header, HasPayload, IsPath, None

LEMMA EncodableShort ==
  ASSUME NEW f, Encodable(f), f \notin LongFrame
  PROVE /\ f.header \in ShortHeaders /\ f.header.command \in ShortCommands /\ f.body \in Seq(Nat)
        /\ f = [header |-> f.header, body |-> f.body]
        /\ Payload(f) \in Seq(Nat) /\ Len(Payload(f)) = f.header.length /\ f.header.length \in Nat
        /\ IsPath(f.header.command) => Len(f.body) = 1 /\ f.body[1] \in Word /\ f.header.length = 8
        /\ ~ IsPath(f.header.command) => Payload(f) = f.body
        /\ ~ HasPayload(f.header.command) /\ ~ IsPath(f.header.command)
             => f.body = <<>> /\ f.header.length = 0
        /\ encode(f) = EncodeShort(f.header) \o Payload(f)
<1>1. f \in ShortFrame
  BY DEF Encodable
<1>2. f.header \in ShortHeaders /\ f.body \in Seq(Nat) /\ f = [header |-> f.header, body |-> f.body]
  BY <1>1 DEF ShortFrame, ShortHeaders, ShortCommands
<1>3. f.header.command \in ShortCommands /\ f.header.length \in Nat
  BY <1>2, WordIs DEF ShortHeaders
<1>4. IF HasPayload(command(f)) THEN f.header.length = Len(f.body)
        ELSE IF IsPath(command(f))
             THEN f.header.length = 8 /\ Len(f.body) = 1 /\ f.body[1] \in Word
             ELSE f.header.length = 0 /\ f.body = <<>>
  BY Zenon DEF Encodable
<1>5. command(f) = f.header.command
  BY DEF command
<1>6. Payload(f) \in Seq(Nat) /\ Len(Payload(f)) = f.header.length
  <2>1. CASE IsPath(f.header.command)
    <3>1. f.header.length = 8 /\ f.body[1] \in Nat
      BY <2>1, <1>3, <1>4, <1>5, CommandKinds, WordIs
    <3>2. put(f.body[1], 8) \in Seq(Nat) /\ Len(put(f.body[1], 8)) = 8
      BY <3>1, WordIs, PutIs
    <3> QED BY <2>1, <3>1, <3>2, <1>5 DEF Payload
  <2>2. CASE ~ IsPath(f.header.command)
    BY <2>2, <1>2, <1>4, <1>5 DEF Payload
  <2> QED BY <2>1, <2>2
<1>7. encode(f) = EncodeShort(f.header) \o Payload(f)
  BY <1>3, <1>5, CommandKinds, Zenon DEF encode, Payload
<1>8. IsPath(f.header.command) => Len(f.body) = 1 /\ f.body[1] \in Word /\ f.header.length = 8
  BY <1>3, <1>4, <1>5, CommandKinds
<1>9. ~ IsPath(f.header.command) => Payload(f) = f.body
  BY <1>5 DEF Payload
<1>10. ~ HasPayload(f.header.command) /\ ~ IsPath(f.header.command)
             => f.body = <<>> /\ f.header.length = 0
  BY <1>4, <1>5
<1> QED BY <1>2, <1>3, <1>6, <1>7, <1>8, <1>9, <1>10

LEMMA EncodableLong ==
  ASSUME NEW f \in LongFrame
  PROVE /\ f.header \in LongHeaders /\ f.header.command \in LongCommands /\ f.body = <<>>
        /\ f = [header |-> f.header, body |-> f.body] /\ encode(f) = EncodeLong(f.header)
<1>1. f.header \in LongHeaders /\ f.body = <<>> /\ f = [header |-> f.header, body |-> f.body]
  BY DEF LongFrame, LongHeaders, LongCommands
<1>2. f.header.command \in LongCommands
  BY <1>1 DEF LongHeaders
<1>3. encode(f) = EncodeLong(f.header)
  BY <1>2, CommandKinds, Zenon DEF encode, command
<1> QED BY <1>1, <1>2, <1>3

LEMMA RestIsPart ==
  ASSUME NEW x, NEW n, NEW m, n + 1 = m
  PROVE Rest(x, n) = Part(x, m, Len(x))
BY Zenon DEF Rest, Part

LEMMA HeaderSizes == 1 + ShortSize = 21 /\ 1 + LongSize = 10 /\ 21 + 1 = 22 /\ 10 + 1 = 11
BY DEF ShortSize, LongSize

\* A sequence is its beginning and the rest.
LEMMA Split ==
  ASSUME NEW s \in Seq(Nat), NEW t \in Seq(Nat), NEW x, x = Cat(s, t)
  PROVE SubSeq(x, 1, Len(s)) = s /\ Rest(x, Len(s)) = t /\ Len(x) = Len(s) + Len(t) /\ x \in Seq(Nat)
<1>1. x \in Seq(Nat) /\ Len(x) = Len(s) + Len(t) /\ Begins(x, s)
  BY CatIs
<1>2. SubSeq(x, 1, Len(s)) = s
  <2>1. \A i \in 1 .. Len(s) : x[0 + i] = s[i]
    BY <1>1 DEF Begins
  <2>2. 0 + Len(s) <= Len(x)
    BY <1>1
  <2>3. SubSeq(x, 0 + 1, 0 + Len(s)) = s
    BY <1>1, <2>1, <2>2, Field
  <2> QED BY <2>3
<1>3. Rest(x, Len(s)) = t
  <2>1. Sized(s, Len(s)) /\ Len(s) \in Nat
    BY DEF Sized
  <2> DEFINE k == Len(s)
  <2>2. k \in Nat /\ Sized(s, k)
    BY <2>1
  <2> HIDE DEF k
  <2>3. Part(x, k + 1, Len(x)) = t
    BY <2>2, <1>1, WholeBegins
  <2>4. Rest(x, k) = t
    BY <2>3, RestIsPart
  <2> QED BY <2>4 DEF k
<1> QED BY <1>1, <1>2, <1>3

LEMMA ShortSized ==
  ASSUME NEW h \in ShortHeaders
  PROVE Sized(EncodeShort(h), 21)
<1> DEFINE a == put(Code[h.command], 1)
           b == put(h.cid, 4)
           c == put(h.length, 2)
           d == put(h.window, 2)
           e == put(h.timestamp, 4)
           f == put(h.seq, 4)
           g == put(h.next, 4)
           x == Cat(Cat(Cat(Cat(Cat(a, b), c), d), e), f)
<1>1. /\ Sized(a, 1) /\ Sized(b, 4) /\ Sized(c, 2) /\ Sized(d, 2) /\ Sized(e, 4) /\ Sized(f, 4)
      /\ Sized(g, 4)
  <2>1. Code[h.command] \in Nat
    BY CodeRead DEF ShortHeaders
  <2>2. h.cid \in Nat /\ h.length \in Nat /\ h.window \in Nat /\ h.timestamp \in Nat
        /\ h.seq \in Nat /\ h.next \in Nat
    BY WordIs DEF ShortHeaders
  <2> QED BY <2>1, <2>2, WordIs, PutSized
<1>2. EncodeShort(h) = Cat(x, g)
  BY Zenon DEF EncodeShort, Cat
<1> HIDE DEF a, b, c, d, e, f, g
<1>3. Sized(Cat(a, b), 5)
  BY <1>1, CatSized
<1>4. Sized(Cat(Cat(a, b), c), 7)
  BY <1>1, <1>3, CatSized
<1>5. Sized(Cat(Cat(Cat(a, b), c), d), 9)
  BY <1>1, <1>4, CatSized
<1>6. Sized(Cat(Cat(Cat(Cat(a, b), c), d), e), 13)
  BY <1>1, <1>5, CatSized
<1>7. Sized(x, 17)
  BY <1>1, <1>6, CatSized
<1> HIDE DEF x
<1>8. Sized(Cat(x, g), 21)
  BY <1>1, <1>7, CatSized
<1> QED BY <1>2, <1>8

LEMMA DecodeShortWhole ==
  ASSUME NEW f, Encodable(f), f \notin LongFrame, NEW t \in Seq(Nat), NEW x, x = encode(f) \o t
  PROVE /\ x \in Seq(Nat) /\ Len(x) = 21 + f.header.length + Len(t)
        /\ x[1] = Code[f.header.command] /\ DecodeShortFrame(x) = <<f, t>>
<1> DEFINE h == f.header
           p == Payload(f)
           s == EncodeShort(h)
           u == Cat(p, t)
<1>1. /\ h \in ShortHeaders /\ h.command \in ShortCommands /\ p \in Seq(Nat) /\ Len(p) = h.length
      /\ h.length \in Nat /\ f.body \in Seq(Nat)
  BY EncodableShort
<1>2. s \in Seq(Nat)
  BY <1>1, ShortSized DEF Sized
<1>3. x = s \o u /\ u \in Seq(Nat) /\ Len(u) = Len(p) + Len(t)
  <2>1. encode(f) = Cat(s, p)
    BY EncodableShort DEF Cat
  <2>2. x = Cat(Cat(s, p), t)
    BY <2>1 DEF Cat
  <2> HIDE DEF s, p
  <2>3. Cat(Cat(s, p), t) = Cat(s, Cat(p, t))
    BY <1>1, <1>2, CatAssociates
  <2>4. Cat(s, Cat(p, t)) = s \o u
    BY DEF Cat
  <2> QED BY <2>2, <2>3, <2>4, <1>1, CatIs
<1> HIDE DEF u
<1>4. /\ Sized(x, 21 + Len(u)) /\ x[1] = Code[h.command] /\ DecodeShort(x) = h
      /\ Part(x, 22, Len(x)) = u
  <2>1. u \in Seq(Nat)
    BY <1>3
  <2>2. h \in ShortHeaders
    BY <1>1
  <2> HIDE DEF h
  <2>3. \A y : y = EncodeShort(h) \o u =>
          /\ Sized(y, 21 + Len(u)) /\ y[1] = Code[h.command] /\ DecodeShort(y) = h
          /\ Part(y, 22, Len(y)) = u
    BY <2>1, <2>2, ShortRead
  <2> QED BY <1>3, <2>3, Zenon
<1>5. x \in Seq(Nat) /\ Len(x) = 21 + Len(u)
  BY <1>4 DEF Sized
<1>6. Rest(x, 1 + ShortSize) = u
  BY <1>4, HeaderSizes, RestIsPart
<1>7. SubSeq(u, 1, h.length) = p /\ Rest(u, h.length) = t
  BY <1>1, Split DEF u
<1>8. /\ ~ (Len(x) < 1 + ShortSize) /\ ~ (Len(u) < h.length)
      /\ Len(u) = h.length + Len(t) /\ Len(t) \in Nat
  <2> HIDE DEF h, p
  <2> QED BY <1>1, <1>3, <1>5, HeaderSizes
<1>9. f = [header |-> h, body |-> f.body]
  BY EncodableShort
<1>13. /\ x \in Seq(Nat) /\ Len(x) = 21 + f.header.length + Len(t)
       /\ x[1] = Code[f.header.command]
  <2>1. h.length \in Nat /\ Len(x) = 21 + Len(u) /\ Len(u) = h.length + Len(t) /\ Len(t) \in Nat
    BY <1>1, <1>5, <1>8
  <2> HIDE DEF u
  <2>2. Len(x) = 21 + h.length + Len(t)
    BY <2>1
  <2> QED BY <1>4, <1>5, <2>2
<1>10. CASE HasPayload(h.command)
  <2>1. p = f.body /\ ~ IsPath(h.command)
    BY <1>10, <1>1, EncodableShort, CommandKinds
  <2>2. DecodeShortFrame(x) = << [header |-> h, body |-> p], t >>
    BY <1>4, <1>6, <1>7, <1>8, <1>10, <2>1, Zenon DEF DecodeShortFrame
  <2>5. DecodeShortFrame(x) = <<f, t>>
    BY <1>9, <2>1, <2>2, Zenon
  <2> QED BY <1>13, <2>5
<1>11. CASE IsPath(h.command)
  <2>1. f.body = <<f.body[1]>> /\ f.body[1] \in Word /\ h.length = 8 /\ p = put(f.body[1], 8)
        /\ ~ HasPayload(h.command)
    <3>1. Len(f.body) = 1 /\ f.body[1] \in Word /\ h.length = 8
      BY <1>11, EncodableShort
    <3>2. f.body = <<f.body[1]>>
      BY <3>1, <1>1
    <3>3. p = put(f.body[1], 8)
      BY <1>11 DEF Payload, command
    <3>4. ~ HasPayload(h.command)
      BY <1>1, <1>11, CommandKinds
    <3> QED BY <3>1, <3>2, <3>3, <3>4
  <2>2. get(u, 1, 8) = f.body[1]
    <3>1. Part(u, 1, 8) = put(f.body[1], 8)
      BY <1>7, <2>1 DEF Part
    <3>2. 1 + 8 - 1 = 8 /\ 1 \in Nat
      OBVIOUS
    <3>3. \A v \in Word : Part(u, 1, 8) = put(v, 8) => get(u, 1, 8) = v
      BY <3>2, ReadField, WordIs
    <3> QED BY <3>1, <3>3, <2>1
  <2>3. Rest(u, 8) = t /\ ~ (Len(u) < 8)
    BY <1>7, <1>8, <2>1
  <2>4. DecodeShortFrame(x) = << [header |-> h, body |-> <<f.body[1]>>], t >>
    BY <1>4, <1>6, <1>8, <1>11, <2>1, <2>2, <2>3, Zenon DEF DecodeShortFrame
  <2>5. DecodeShortFrame(x) = <<f, t>>
    BY <1>9, <2>1, <2>4, Zenon
  <2> QED BY <1>13, <2>5
<1>12. CASE ~ HasPayload(h.command) /\ ~ IsPath(h.command)
  <2>1. f.body = <<>> /\ h.length = 0 /\ p = <<>>
    BY <1>12, EncodableShort
  <2>2. u = t
    BY <2>1 DEF u, Cat
  <2>3. DecodeShortFrame(x) = << [header |-> h, body |-> <<>>], t >>
    BY <1>4, <1>6, <1>8, <1>12, <2>2, Zenon DEF DecodeShortFrame
  <2>5. DecodeShortFrame(x) = <<f, t>>
    BY <1>9, <2>1, <2>3, Zenon
  <2> QED BY <1>13, <2>5
<1> QED BY <1>10, <1>11, <1>12

LEMMA DecodeLongWhole ==
  ASSUME NEW f \in LongFrame, NEW t \in Seq(Nat), NEW x, x = encode(f) \o t
  PROVE /\ x \in Seq(Nat) /\ Len(x) = 10 + Len(t)
        /\ x[1] = Code[f.header.command] /\ DecodeLongFrame(x) = <<f, t>>
<1> DEFINE h == f.header
<1>1. h \in LongHeaders /\ x = EncodeLong(h) \o t
  BY EncodableLong
<1>2. f = [header |-> h, body |-> <<>>]
  BY EncodableLong
<1> HIDE DEF h
<1>3. \A y : y = EncodeLong(h) \o t =>
          /\ Sized(y, 10 + Len(t)) /\ y[1] = Code[h.command] /\ DecodeLong(y) = h
          /\ Part(y, 11, Len(y)) = t
  BY <1>1, LongRead
<1>4. /\ Sized(x, 10 + Len(t)) /\ x[1] = Code[h.command] /\ DecodeLong(x) = h
      /\ Part(x, 11, Len(x)) = t
  BY <1>1, <1>3, Zenon
<1>5. Rest(x, 1 + LongSize) = t
  BY <1>4, HeaderSizes, RestIsPart
<1>6. x \in Seq(Nat) /\ Len(x) = 10 + Len(t) /\ Len(t) \in Nat
  BY <1>4 DEF Sized
<1>7. ~ (Len(x) < 1 + LongSize)
  BY <1>6, HeaderSizes
<1>8. DecodeLongFrame(x) = << [header |-> h, body |-> <<>>], t >>
  BY <1>4, <1>5, <1>7, Zenon DEF DecodeLongFrame
<1> QED BY <1>2, <1>4, <1>6, <1>8, Zenon DEF h

LEMMA EncodedSize ==
  ASSUME NEW f, Encodable(f)
  PROVE encoded_size(f) \in Nat \ {0} /\
        encoded_size(f) = IF f \in LongFrame THEN 10 ELSE 21 + f.header.length
<1>1. CASE f \in LongFrame
  <2>1. f.header.command \in LongCommands
    BY <1>1, EncodableLong
  <2> QED BY <1>1, <2>1, CommandKinds DEF encoded_size, command, LongSize
<1>2. CASE f \notin LongFrame
  <2>1. f.header.command \in ShortCommands /\ f.header.length \in Nat /\ f.body \in Seq(Nat)
    BY <1>2, EncodableShort
  <2>2. f \in ShortFrame /\ command(f) = f.header.command
    BY <1>2 DEF Encodable, command
  <2>3. IF HasPayload(command(f)) THEN f.header.length = Len(f.body)
        ELSE IF IsPath(command(f))
             THEN f.header.length = 8 /\ Len(f.body) = 1 /\ f.body[1] \in Word
             ELSE f.header.length = 0 /\ f.body = <<>>
    BY <1>2, Zenon DEF Encodable
  <2>4. ~ is_long_header(command(f))
    BY <2>1, <2>2, CommandKinds
  <2> QED BY <1>2, <2>1, <2>2, <2>3, <2>4 DEF encoded_size, ShortSize
<1> QED BY <1>1, <1>2

\* decode undoes encode, whatever follows the frame.
LEMMA DecodeWhole ==
  ASSUME NEW f, Encodable(f), NEW t \in Seq(Nat), NEW x, x = encode(f) \o t
  PROVE x \in Seq(Nat) /\ Len(x) = encoded_size(f) + Len(t) /\ decode(x) = <<f, t>>
<1>1. CASE f \in LongFrame
  <2>1. /\ x \in Seq(Nat) /\ Len(x) = 10 + Len(t)
        /\ x[1] = Code[f.header.command] /\ DecodeLongFrame(x) = <<f, t>>
    BY <1>1, DecodeLongWhole, Zenon
  <2>2. f.header.command \in LongCommands
    BY <1>1, EncodableLong
  <2>3. x # <<>> /\ Len(x) = encoded_size(f) + Len(t)
    <3>1. Len(x) = 10 + Len(t) /\ Len(t) \in Nat /\ encoded_size(f) = 10
      BY <1>1, <2>1, EncodedSize
    <3>2. Len(x) # 0
      BY <3>1
    <3>3. x # <<>>
      BY <3>2
    <3> QED BY <3>1, <3>3
  <2>4. from_u8(x[1]) = f.header.command
    BY <2>1, <2>2, CodeRead
  <2>5. decode(x) = DecodeLongFrame(x)
    BY <2>2, <2>3, <2>4, CommandKinds, Zenon DEF decode
  <2> QED BY <2>1, <2>3, <2>5
<1>2. CASE f \notin LongFrame
  <2>1. /\ x \in Seq(Nat) /\ Len(x) = 21 + f.header.length + Len(t)
        /\ x[1] = Code[f.header.command] /\ DecodeShortFrame(x) = <<f, t>>
    BY <1>2, DecodeShortWhole, Zenon
  <2>2. f.header.command \in ShortCommands /\ f.header.length \in Nat
    BY <1>2, EncodableShort
  <2>3. x # <<>> /\ Len(x) = encoded_size(f) + Len(t)
    <3>1. Len(x) = 21 + f.header.length + Len(t) /\ Len(t) \in Nat
          /\ encoded_size(f) = 21 + f.header.length
      BY <1>2, <2>1, EncodedSize
    <3>2. Len(x) # 0
      BY <3>1, <2>2
    <3>3. x # <<>>
      BY <3>2
    <3> QED BY <3>1, <3>3
  <2>4. from_u8(x[1]) = f.header.command
    BY <2>1, <2>2, CodeRead
  <2>5. decode(x) = DecodeShortFrame(x)
    BY <2>2, <2>3, <2>4, CommandKinds, Zenon DEF decode
  <2> QED BY <2>1, <2>3, <2>5
<1> QED BY <1>1, <1>2

\* The frames whatever the size of their numbers.
ShapedLong ==
  [header : [command : LongCommands, version : Nat, destination : Nat, source : Nat],
   body : {<<>>}]
ShapedShort ==
  [header : [command : ShortCommands, cid : Nat, length : Nat, window : Nat, timestamp : Nat,
             seq : Nat, next : Nat],
   body : Seq(Nat)]
Shaped(f) ==
  \/ f \in ShapedLong
  \/ /\ f \in ShapedShort
     /\ IsPath(f.header.command) => Len(f.body) = 1
     /\ ~ IsPath(f.header.command) /\ ~ HasPayload(f.header.command) => f.body = <<>>

LEMMA EncodableShaped ==
  ASSUME NEW f, Encodable(f)
  PROVE Shaped(f)
<1>1. CASE f \in LongFrame
  <2>1. f \in ShapedLong
    BY <1>1, WordIs DEF LongFrame, ShapedLong, LongCommands
  <2> QED BY <2>1 DEF Shaped
<1>2. CASE f \notin LongFrame
  <2>1. f \in ShapedShort
    BY <1>2, WordIs, EncodableShort DEF ShapedShort, ShortHeaders
  <2> QED BY <1>2, <2>1, EncodableShort DEF Shaped
<1> QED BY <1>1, <1>2

LEMMA EncodeIs ==
  ASSUME NEW f, Shaped(f)
  PROVE encode(f) \in Seq(Nat) /\ Len(encode(f)) = encoded_size(f) /\ encoded_size(f) \in Nat \ {0}
<1>1. CASE f \in ShapedLong
  <2> DEFINE h == f.header
  <2>1. h.command \in LongCommands /\ h.version \in Nat /\ h.destination \in Nat /\ h.source \in Nat
    BY <1>1 DEF ShapedLong
  <2>2. Code[h.command] \in Nat
    BY <2>1, CodeRead
  <2>3. is_long_header(command(f)) /\ ~ HasPayload(command(f)) /\ ~ IsPath(command(f))
    BY <2>1, CommandKinds DEF command
  <2>4. encode(f) = put(Code[h.command], 1) \o put(h.version, 1) \o put(h.destination, 4)
                      \o put(h.source, 4)
    BY <2>3, Zenon DEF encode, EncodeLong
  <2>5. /\ Sized(put(Code[h.command], 1), 1) /\ Sized(put(h.version, 1), 1)
        /\ Sized(put(h.destination, 4), 4) /\ Sized(put(h.source, 4), 4)
    BY <2>1, <2>2, WordIs, PutSized
  <2>6. encode(f) \in Seq(Nat) /\ Len(encode(f)) = 10
    <3> DEFINE a == put(Code[h.command], 1)
               b == put(h.version, 1)
               c == put(h.destination, 4)
               d == put(h.source, 4)
    <3>1. encode(f) = Cat(Cat(Cat(a, b), c), d)
      BY <2>4, Zenon DEF Cat
    <3>2. Sized(a, 1) /\ Sized(b, 1) /\ Sized(c, 4) /\ Sized(d, 4)
      BY <2>5
    <3> HIDE DEF a, b, c, d
    <3>3. Sized(Cat(a, b), 2)
      BY <3>2, CatSized
    <3>4. Sized(Cat(Cat(a, b), c), 6)
      BY <3>2, <3>3, CatSized
    <3>5. Sized(Cat(Cat(Cat(a, b), c), d), 10)
      BY <3>2, <3>4, CatSized
    <3> QED BY <3>1, <3>5 DEF Sized
  <2>7. encoded_size(f) = 10
    BY <2>3 DEF encoded_size, LongSize
  <2> QED BY <2>6, <2>7
<1>2. CASE f \notin ShapedLong
  <2> DEFINE h == f.header
  <2>0. f \in ShapedShort /\ (IsPath(h.command) => Len(f.body) = 1)
        /\ (~ IsPath(h.command) /\ ~ HasPayload(h.command) => f.body = <<>>)
    BY <1>2 DEF Shaped
  <2>1. h.command \in ShortCommands /\ h.cid \in Nat /\ h.length \in Nat /\ h.window \in Nat
        /\ h.timestamp \in Nat /\ h.seq \in Nat /\ h.next \in Nat /\ f.body \in Seq(Nat)
    BY <2>0 DEF ShapedShort
  <2>2. Code[h.command] \in Nat
    BY <2>1, CodeRead
  <2>3. ~ is_long_header(command(f)) /\ command(f) = h.command
    BY <2>1, CommandKinds DEF command
  <2>4. encode(f) = EncodeShort(h) \o Payload(f)
    BY <2>3, Zenon DEF encode, Payload
  <2>5. /\ Sized(put(Code[h.command], 1), 1) /\ Sized(put(h.cid, 4), 4) /\ Sized(put(h.length, 2), 2)
        /\ Sized(put(h.window, 2), 2) /\ Sized(put(h.timestamp, 4), 4) /\ Sized(put(h.seq, 4), 4)
        /\ Sized(put(h.next, 4), 4)
    BY <2>1, <2>2, WordIs, PutSized
  <2>6. Payload(f) \in Seq(Nat) =>
          encode(f) \in Seq(Nat) /\ Len(encode(f)) = 21 + Len(Payload(f))
    <3> SUFFICES ASSUME Payload(f) \in Seq(Nat)
                 PROVE encode(f) \in Seq(Nat) /\ Len(encode(f)) = 21 + Len(Payload(f))
      OBVIOUS
    <3> DEFINE a == put(Code[h.command], 1)
               b == put(h.cid, 4)
               c == put(h.length, 2)
               d == put(h.window, 2)
               e == put(h.timestamp, 4)
               q == put(h.seq, 4)
               g == put(h.next, 4)
               t == Payload(f)
               x == encode(f)
    <3>1. x = Cat(Cat(Cat(Cat(Cat(Cat(Cat(a, b), c), d), e), q), g), t)
      BY <2>4, Zenon DEF EncodeShort, Cat
    <3>2. /\ Sized(a, 1) /\ Sized(b, 4) /\ Sized(c, 2) /\ Sized(d, 2) /\ Sized(e, 4) /\ Sized(q, 4)
          /\ Sized(g, 4)
      BY <2>5
    <3>3. t \in Seq(Nat)
      OBVIOUS
    <3> HIDE DEF a, b, c, d, e, q, g, t, x
    <3>4. Sized(x, 21 + Len(t))
      BY <3>1, <3>2, <3>3, Pieces
    <3> QED BY <3>4 DEF Sized, x, t
  <2>7. CASE IsPath(h.command)
    <3>1. f.body[1] \in Nat /\ ~ HasPayload(h.command)
      BY <2>0, <2>1, <2>7, CommandKinds
    <3>2. Sized(put(f.body[1], 8), 8)
      BY <3>1, WordIs, PutSized
    <3>3. Payload(f) = put(f.body[1], 8)
      BY <2>3, <2>7 DEF Payload
    <3>4. Payload(f) \in Seq(Nat) /\ Len(Payload(f)) = 8
      BY <3>2, <3>3 DEF Sized
    <3>5. encode(f) \in Seq(Nat) /\ Len(encode(f)) = 29
      BY <2>6, <3>4
    <3>6. encoded_size(f) = 29
      BY <2>3, <2>7, <3>1 DEF encoded_size, ShortSize
    <3> QED BY <3>5, <3>6
  <2>8. CASE ~ IsPath(h.command)
    <3>1. Payload(f) = f.body
      BY <2>3, <2>8 DEF Payload
    <3>2. encode(f) \in Seq(Nat) /\ Len(encode(f)) = 21 + Len(f.body)
      BY <2>1, <2>6, <3>1
    <3>3. encoded_size(f) = 21 + Len(f.body)
      BY <2>0, <2>3, <2>8, <2>1 DEF encoded_size, ShortSize
    <3> QED BY <2>1, <3>2, <3>3
  <2> QED BY <2>7, <2>8
<1> QED BY <1>1, <1>2

LEMMA Rejoin ==
  ASSUME NEW s \in Seq(Nat), NEW x \in Seq(Nat), Begins(x, s)
  PROVE /\ Rest(x, Len(s)) \in Seq(Nat) /\ Len(Rest(x, Len(s))) = Len(x) - Len(s)
        /\ x = s \o Rest(x, Len(s))
<1> DEFINE r == SubSeq(x, Len(s) + 1, Len(x))
           y == s \o r
<1>0. Len(s) <= Len(x) /\ Len(s) \in Nat /\ Len(x) \in Nat /\ \A i \in 1 .. Len(s) : x[i] = s[i]
  BY DEF Begins
<1>1. r \in Seq(Nat) /\ Len(r) = Len(x) - Len(s) /\ \A i \in 1 .. Len(r) : r[i] = x[Len(s) + i]
  <2>1. r \in Seq(Nat) /\ Len(r) = Len(x) - Len(s)
    BY <1>0
  <2>2. \A i \in 1 .. Len(x) - Len(s) : r[i] = x[Len(s) + 1 + i - 1]
    BY <1>0
  <2>3. \A i \in 1 .. Len(x) - Len(s) : Len(s) + 1 + i - 1 = Len(s) + i
    BY <1>0
  <2> HIDE DEF r
  <2> QED BY <2>1, <2>2, <2>3
<1> HIDE DEF r
<1>2. y \in Seq(Nat) /\ Len(y) = Len(x)
  BY <1>0, <1>1
<1>3. ASSUME NEW i \in 1 .. Len(y) PROVE y[i] = x[i]
  <2>1. CASE i <= Len(s)
    BY <2>1, <1>0, <1>1
  <2>2. CASE i > Len(s)
    <3>1. i - Len(s) \in 1 .. Len(r) /\ Len(s) + (i - Len(s)) = i
      BY <1>0, <1>1, <1>2, <2>2
    <3>2. y[i] = r[i - Len(s)]
      BY <1>0, <1>1, <3>1
    <3> QED BY <1>1, <3>1, <3>2
  <2> QED BY <1>0, <1>2, <2>1, <2>2
<1> HIDE DEF y
<1>4. y = x
  BY <1>2, <1>3, SequenceIs, SequencesEqual
<1> QED BY <1>1, <1>4 DEF Rest, r, y

LEMMA EmptyDecode == decode(<<>>) = <<>>
BY DEF decode

\* A frame that was cut does not decode.
LEMMA DecodeCut ==
  ASSUME NEW f, Encodable(f), NEW x \in Seq(Nat), Begins(encode(f), x), Len(x) < encoded_size(f)
  PROVE decode(x) = <<>>
<1> DEFINE y == encode(f)
           c == f.header.command
<1>1. y \in Seq(Nat) /\ Len(y) = encoded_size(f)
  BY EncodableShaped, EncodeIs
<1>2. y = y \o <<>> /\ <<>> \in Seq(Nat)
  BY <1>1
<1>3. CASE x = <<>>
  BY <1>3, EmptyDecode
<1>4. CASE x # <<>>
  <2>1. x[1] = y[1] /\ Len(x) \in Nat
    <3>1. Len(x) \in Nat /\ 1 \in 1 .. Len(x)
      BY <1>4
    <3> QED BY <3>1 DEF Begins
  <2>2. CASE f \in LongFrame
    <3>1. y[1] = Code[c] /\ c \in LongCommands
      BY <1>2, <2>2, DecodeLongWhole, EncodableLong
    <3>2. from_u8(x[1]) = c
      BY <2>1, <3>1, CodeRead
    <3>3. decode(x) = DecodeLongFrame(x)
      BY <1>4, <3>1, <3>2, CommandKinds, Zenon DEF decode
    <3>4. Len(x) < 1 + LongSize
      BY <2>2, EncodedSize, HeaderSizes
    <3>5. DecodeLongFrame(x) = <<>>
      BY <3>4, Zenon DEF DecodeLongFrame
    <3> QED BY <3>3, <3>5
  <2>3. CASE f \notin LongFrame
    <3> DEFINE h == f.header
               s == EncodeShort(h)
               v == Rest(x, 21)
    <3>1. y[1] = Code[c] /\ c \in ShortCommands /\ h \in ShortHeaders /\ h.length \in Nat
          /\ y = s \o Payload(f) /\ Payload(f) \in Seq(Nat) /\ Len(Payload(f)) = h.length
      BY <1>2, <2>3, DecodeShortWhole, EncodableShort
    <3>2. from_u8(x[1]) = c
      BY <2>1, <3>1, CodeRead
    <3>3. decode(x) = DecodeShortFrame(x)
      BY <1>4, <3>1, <3>2, CommandKinds, Zenon DEF decode
    <3>4. Len(x) < 21 + h.length
      BY <2>3, EncodedSize
    <3>5. CASE Len(x) < 21
      <4>1. Len(x) < 1 + ShortSize
        BY <3>5, HeaderSizes
      <4>2. DecodeShortFrame(x) = <<>>
        BY <4>1, Zenon DEF DecodeShortFrame
      <4> QED BY <3>3, <4>2
    <3>6. CASE ~ (Len(x) < 21)
      <4>1. Sized(s, 21)
        BY <3>1, ShortSized
      <4>2. s \in Seq(Nat) /\ Len(s) = 21
        BY <4>1 DEF Sized
      <4>3. Begins(x, s)
        <5>1. Begins(y, s)
          BY <3>1, <4>2, CatIs DEF Cat
        <5> HIDE DEF y, s
        <5>2. \A i \in 1 .. 21 : y[i] = s[i]
          BY <5>1, <4>2 DEF Begins
        <5>3. \A i \in 1 .. Len(x) : y[i] = x[i]
          BY DEF Begins, y
        <5>4. \A i \in 1 .. 21 : x[i] = s[i]
          <6>1. \A i \in 1 .. 21 : i \in 1 .. Len(x)
            BY <3>6, <2>1
          <6> QED BY <5>2, <5>3, <6>1
        <5> QED BY <5>4, <4>2, <3>6, <2>1 DEF Begins
      <4>4. v \in Seq(Nat) /\ Len(v) = Len(x) - 21 /\ x = s \o v
        <5> HIDE DEF s
        <5>1. Rest(x, Len(s)) \in Seq(Nat) /\ Len(Rest(x, Len(s))) = Len(x) - Len(s)
              /\ x = s \o Rest(x, Len(s))
          BY <4>2, <4>3, Rejoin
        <5> QED BY <5>1, <4>2
      <4>5. DecodeShort(x) = h
        <5> HIDE DEF v, h
        <5> QED BY <3>1, <4>4, ShortRead DEF s
      <4>6. Rest(x, 1 + ShortSize) = v
        BY HeaderSizes
      <4>7. Len(v) < h.length
        <5> HIDE DEF v, h
        <5> QED BY <4>4, <3>4, <2>1, <3>1
      <4>8. DecodeShortFrame(x) = <<>>
        BY <4>5, <4>6, <4>7, Zenon DEF DecodeShortFrame
      <4> QED BY <3>3, <4>8
    <3> QED BY <3>5, <3>6
  <2> QED BY <2>2, <2>3
<1> QED BY <1>3, <1>4

LEMMA GetNat ==
  ASSUME NEW octets \in Seq(Nat), NEW n \in Nat, NEW w \in Nat, 1 <= n, n + w - 1 <= Len(octets)
  PROVE get(octets, n, w) \in Nat
<1> DEFINE q == SubSeq(octets, n, n + w - 1)
<1>1. q \in Seq(Nat) /\ Len(q) \in Nat
  OBVIOUS
<1>2. get(octets, n, w) = Folded("get", 0, 0, q)
  BY <1>1, SequenceIs, GetFolded
<1> HIDE DEF q
<1>3. PICK h : /\ Folded("get", 0, 0, q) = h[Len(q)] /\ h[0] = 0
               /\ \A i \in 1 .. Len(q) : h[i] = h[i - 1] * 256 + q[i]
  BY <1>1, GetWalk
<1> DEFINE N == {i \in 0 .. Len(q) : h[i] \notin Nat}
<1>4. N = {}
  <2> SUFFICES ASSUME N # {} PROVE FALSE
    OBVIOUS
  <2>1. PICK m \in N : \A j \in N : m <= j
    <3>1. N \in SUBSET Nat
      OBVIOUS
    <3> HIDE DEF N
    <3> QED BY <3>1, LeastNumber
  <2>2. m # 0 /\ m \in 0 .. Len(q) /\ h[m] \notin Nat
    BY <1>3
  <2>3. m \in 1 .. Len(q) /\ m - 1 \in 0 .. Len(q) /\ m - 1 \notin N
    BY <1>1, <2>1, <2>2
  <2>4. h[m - 1] \in Nat /\ q[m] \in Nat
    BY <1>1, <2>3
  <2>5. h[m] = h[m - 1] * 256 + q[m]
    BY <1>3, <2>3
  <2> QED BY <2>2, <2>4, <2>5
<1>5. h[Len(q)] \in Nat
  BY <1>1, <1>4
<1> QED BY <1>2, <1>3, <1>5

LEMMA RestIs ==
  ASSUME NEW x \in Seq(Nat), NEW n \in Nat
  PROVE /\ Rest(x, n) \in Seq(Nat) /\ Len(Rest(x, n)) <= Len(x)
        /\ n <= Len(x) => Len(Rest(x, n)) = Len(x) - n
<1>1. CASE n <= Len(x)
  BY <1>1 DEF Rest
<1>2. CASE ~ (n <= Len(x))
  BY <1>2 DEF Rest
<1> QED BY <1>1, <1>2

\* What is left behind a frame is shorter.
LEMMA DecodeShortens ==
  ASSUME NEW x \in Seq(Nat), decode(x) # <<>>
  PROVE decode(x)[2] \in Seq(Nat) /\ Len(decode(x)[2]) < Len(x)
<1> DEFINE c == from_u8(x[1])
<1>1. x # <<>> /\ c # None
  <2>1. x # <<>>
    BY EmptyDecode
  <2>2. ASSUME c = None PROVE FALSE
    <3>1. ~ is_long_header(None)
      BY DEF is_long_header, None
    <3>2. decode(x) = <<>>
      BY <2>1, <2>2, <3>1, Zenon DEF decode
    <3> QED BY <3>2
  <2> QED BY <2>1, <2>2
<1>2. Len(x) \in Nat
  OBVIOUS
<1>3. CASE is_long_header(c)
  <2>1. decode(x) = DecodeLongFrame(x)
    BY <1>1, <1>3, Zenon DEF decode
  <2>2. ~ (Len(x) < 1 + LongSize)
    BY <2>1, Zenon DEF DecodeLongFrame
  <2>3. decode(x) = << [header |-> DecodeLong(x), body |-> <<>>], Rest(x, 1 + LongSize) >>
    BY <2>1, <2>2, Zenon DEF DecodeLongFrame
  <2>4. decode(x)[2] = Rest(x, 1 + LongSize)
    BY <2>3
  <2>5. Rest(x, 10) \in Seq(Nat) /\ Len(Rest(x, 10)) = Len(x) - 10
    BY <2>2, <1>2, HeaderSizes, RestIs
  <2> QED BY <2>4, <2>5, <1>2, HeaderSizes
<1>4. CASE ~ is_long_header(c)
  <2> DEFINE h == DecodeShort(x)
             l == Rest(x, 1 + ShortSize)
  <2>1. decode(x) = DecodeShortFrame(x)
    BY <1>1, <1>4, Zenon DEF decode
  <2>2. ~ (Len(x) < 1 + ShortSize) /\ ~ (Len(l) < h.length)
    BY <2>1, Zenon DEF DecodeShortFrame
  <2>3. l \in Seq(Nat) /\ Len(l) = Len(x) - 21 /\ Len(l) \in Nat
    BY <2>2, <1>2, HeaderSizes, RestIs
  <2>4. h.length \in Nat
    <3>1. h.length = get(x, 6, 2)
      BY DEF DecodeShort
    <3>2. get(x, 6, 2) \in Nat
      BY <2>2, <1>2, HeaderSizes, GetNat
    <3> QED BY <3>1, <3>2
  <2>5. CASE HasPayload(h.command)
    <3>1. ~ IsPath(h.command)
      BY <2>5 DEF HasPayload, IsPath
    <3>2. decode(x) = << [header |-> h, body |-> SubSeq(l, 1, h.length)], Rest(l, h.length) >>
      BY <2>1, <2>2, <2>5, <3>1, Zenon DEF DecodeShortFrame
    <3>3. decode(x)[2] = Rest(l, h.length)
      BY <3>2
    <3>4. Rest(l, h.length) \in Seq(Nat) /\ Len(Rest(l, h.length)) <= Len(l)
      <4> HIDE DEF l, h
      <4> QED BY <2>3, <2>4, RestIs
    <3> HIDE DEF l, h
    <3> QED BY <3>3, <3>4, <2>3, <1>2
  <2>6. CASE IsPath(h.command)
    <3>1. ~ HasPayload(h.command)
      BY <2>6 DEF HasPayload, IsPath
    <3>0. ~ (Len(l) < 8)
      BY <2>1, <2>2, <2>6, <3>1, Zenon DEF DecodeShortFrame
    <3>2. decode(x) = << [header |-> h, body |-> <<get(l, 1, 8)>>], Rest(l, 8) >>
      BY <2>1, <2>2, <2>6, <3>0, <3>1, Zenon DEF DecodeShortFrame
    <3>3. decode(x)[2] = Rest(l, 8)
      BY <3>2
    <3>4. Rest(l, 8) \in Seq(Nat) /\ Len(Rest(l, 8)) <= Len(l)
      <4> HIDE DEF l, h
      <4> QED BY <2>3, RestIs
    <3> HIDE DEF l, h
    <3> QED BY <3>3, <3>4, <2>3, <1>2
  <2>7. CASE ~ HasPayload(h.command) /\ ~ IsPath(h.command)
    <3>2. decode(x) = << [header |-> h, body |-> <<>>], l >>
      BY <2>1, <2>2, <2>7, Zenon DEF DecodeShortFrame
    <3>3. decode(x)[2] = l
      BY <3>2
    <3> HIDE DEF l, h
    <3> QED BY <3>3, <2>3, <1>2
  <2> QED BY <2>5, <2>6, <2>7
<1> QED BY <1>3, <1>4

\* g steps from each position to a later one, and stops where stop says so.
Descends(g, L, stop, v, next) ==
  g = [n \in 0 .. L |-> IF stop[n] THEN <<>> ELSE <<v[n]>> \o g[next[n]]]

LEMMA DescentExists ==
  ASSUME NEW L \in Nat, NEW stop, NEW v, NEW next,
         \A n \in 0 .. L : ~ stop[n] => next[n] \in n + 1 .. L
  PROVE \E g : Descends(g, L, stop, v, next)
<1> DEFINE F(g, n) == IF stop[n] THEN <<>> ELSE <<v[n]>> \o g[next[n]]
           Good(g, k) == \A n \in 0 .. L : n >= k => g[n] = F(g, n)
           K == {k \in 0 .. L + 1 : \E g : Good(g, k)}
<1>1. L + 1 \in K
  <2>1. \A n \in 0 .. L : ~ (n >= L + 1)
    OBVIOUS
  <2>2. Good(0, L + 1)
    BY <2>1
  <2> HIDE DEF Good
  <2> QED BY <2>2
<1>2. PICK k \in K : \A j \in K : k <= j
  <2>1. K \in SUBSET Nat
    OBVIOUS
  <2> HIDE DEF K
  <2> QED BY <1>1, <2>1, LeastNumber
<1>3. k \in 0 .. L + 1 /\ \E g : Good(g, k)
  OBVIOUS
<1>4. PICK g : Good(g, k)
  BY <1>3
<1>5. k = 0
  <2> SUFFICES ASSUME k # 0 PROVE FALSE
    OBVIOUS
  <2> DEFINE j == k - 1
             e == [n \in 0 .. L |-> IF n = j THEN F(g, n) ELSE g[n]]
  <2>1. j \in 0 .. L /\ j + 1 = k /\ j < k
    BY <1>3
  <2>2. ASSUME NEW n \in 0 .. L, n >= j PROVE e[n] = F(e, n)
    <3>1. ~ stop[n] => next[n] \in n + 1 .. L /\ next[n] \in 0 .. L /\ next[n] # j
      BY <2>1, <2>2
    <3>2. ~ stop[n] => e[next[n]] = g[next[n]]
      BY <3>1
    <3> HIDE DEF j
    <3>3. F(e, n) = F(g, n)
      <4> HIDE DEF e
      <4>1. CASE stop[n]
        BY <4>1
      <4>2. CASE ~ stop[n]
        BY <4>2, <3>2
      <4> QED BY <4>1, <4>2
    <3>4. CASE n = j
      BY <3>3, <3>4
    <3>5. CASE n # j
      <4>1. n >= k /\ e[n] = g[n]
        BY <2>1, <2>2, <3>5, <1>3
      <4>2. g[n] = F(g, n)
        BY <4>1, <1>4
      <4> QED BY <4>1, <4>2, <3>3
    <3> QED BY <3>4, <3>5
  <2>3. Good(e, j)
    BY <2>2
  <2>4. j \in K
    <3>1. j \in 0 .. L + 1
      BY <2>1
    <3> HIDE DEF j, e, Good
    <3> QED BY <2>3, <3>1
  <2> QED BY <2>1, <2>4, <1>2
<1>6. \E e : Descends(e, L, stop, v, next)
  <2> DEFINE e == [n \in 0 .. L |-> g[n]]
  <2>1. ASSUME NEW n \in 0 .. L PROVE e[n] = F(e, n)
    <3>1. g[n] = F(g, n)
      BY <1>4, <1>5
    <3>2. ~ stop[n] => e[next[n]] = g[next[n]]
      <4>1. ~ stop[n] => next[n] \in 0 .. L
        OBVIOUS
      <4> QED BY <4>1
    <3> QED BY <3>1, <3>2, Zenon
  <2>2. e = [n \in 0 .. L |-> F(e, n)]
    BY <2>1
  <2>3. Descends(e, L, stop, v, next)
    BY <2>2, Zenon DEF Descends
  <2> QED BY <2>3
<1> QED BY <1>6

\* The reader's function.
LEMMA DeserializeIs ==
  ASSUME NEW x \in Seq(Nat)
  PROVE \E g : /\ deserialize_frames(x) = g[0]
               /\ \A n \in 0 .. Len(x) :
                    g[n] = IF decode(Rest(x, n)) = <<>> THEN <<>>
                           ELSE <<decode(Rest(x, n))[1]>> \o g[Len(x) - Len(decode(Rest(x, n))[2])]
<1> DEFINE L == Len(x)
           D(n) == decode(Rest(x, n))
           stop == [n \in 0 .. L |-> D(n) = <<>>]
           v == [n \in 0 .. L |-> D(n)[1]]
           next == [n \in 0 .. L |-> L - Len(D(n)[2])]
           R(g) == g = [n \in 0 .. L |-> IF D(n) = <<>> THEN <<>> ELSE <<D(n)[1]>> \o g[L - Len(D(n)[2])]]
<1>1. L \in Nat
  OBVIOUS
<1>2. ASSUME NEW n \in 0 .. L, ~ stop[n] PROVE next[n] \in n + 1 .. L
  <2>1. D(n) # <<>>
    BY <1>2
  <2>2. Rest(x, n) \in Seq(Nat) /\ Len(Rest(x, n)) = L - n
    BY RestIs
  <2>3. D(n)[2] \in Seq(Nat) /\ Len(D(n)[2]) < L - n
    BY <2>1, <2>2, DecodeShortens
  <2>4. next[n] = L - Len(D(n)[2])
    BY Zenon
  <2>5. Len(D(n)[2]) \in Nat
    BY <2>3
  <2> HIDE DEF L, next, stop, D
  <2> QED BY <1>1, <2>3, <2>4, <2>5
<1>3. ASSUME NEW g PROVE R(g) <=> Descends(g, L, stop, v, next)
  <2> DEFINE A == [n \in 0 .. L |-> IF D(n) = <<>> THEN <<>> ELSE <<D(n)[1]>> \o g[L - Len(D(n)[2])]]
             B == [n \in 0 .. L |-> IF stop[n] THEN <<>> ELSE <<v[n]>> \o g[next[n]]]
  <2>1. \A n \in 0 .. L : A[n] = B[n]
    <3> HIDE DEF D, L
    <3> QED BY Zenon
  <2>2. A = B
    BY <2>1, Zenon
  <2> QED BY <2>2, Zenon DEF Descends
<1>4. \E g : R(g)
  <2> HIDE DEF L, stop, v, next, R
  <2> QED BY <1>1, <1>2, <1>3, DescentExists
<1> DEFINE g == CHOOSE g : R(g)
<1>5. R(g)
  BY <1>4, Zenon
<1>6. deserialize_frames(x) = g[0]
  BY Zenon DEF deserialize_frames
<1>7. \A n \in 0 .. L : g[n] = IF D(n) = <<>> THEN <<>> ELSE <<D(n)[1]>> \o g[L - Len(D(n)[2])]
  <2> HIDE DEF g
  <2> QED BY <1>5, Zenon
<1> HIDE DEF g, R
<1> QED BY <1>6, <1>7

LEMMA BeginsOrder ==
  ASSUME NEW x \in Seq(Nat), NEW y \in Seq(Nat), NEW z \in Seq(Nat), Begins(z, x), Begins(z, y),
         Len(x) <= Len(y)
  PROVE Begins(y, x)
<1>1. Len(x) \in Nat /\ Len(y) \in Nat /\ \A i \in 1 .. Len(x) : i \in 1 .. Len(y)
  OBVIOUS
<1>2. (\A i \in 1 .. Len(x) : z[i] = x[i]) /\ (\A i \in 1 .. Len(y) : z[i] = y[i])
  BY DEF Begins
<1> QED BY <1>1, <1>2 DEF Begins

LEMMA BeginsJoin ==
  ASSUME NEW x \in Seq(Nat), NEW y \in Seq(Nat), NEW z \in Seq(Nat), Begins(y, x)
  PROVE Begins(y \o z, x)
<1>1. Len(x) \in Nat /\ Len(y) \in Nat /\ Len(z) \in Nat /\ Len(x) <= Len(y)
      /\ \A i \in 1 .. Len(x) : y[i] = x[i]
  BY DEF Begins
<1>2. Len(y \o z) = Len(y) + Len(z) /\ \A i \in 1 .. Len(y) : (y \o z)[i] = y[i]
  BY Join
<1>3. \A i \in 1 .. Len(x) : (y \o z)[i] = x[i]
  BY <1>1, <1>2
<1> QED BY <1>1, <1>2, <1>3 DEF Begins

LEMMA BeginsItself ==
  ASSUME NEW x \in Seq(Nat)
  PROVE Begins(x, x) /\ Begins(x, <<>>)
BY DEF Begins

\* The octets of the first i frames, for every i.
Written(h, fs) ==
  /\ serialize_frames(fs) = h[Len(fs)] /\ h[0] = <<>>
  /\ \A i \in 0 .. Len(fs) : h[i] \in Seq(Nat)
  /\ \A i \in 1 .. Len(fs) : h[i] = h[i - 1] \o encode(fs[i])
                             /\ Len(h[i]) = Len(h[i - 1]) + encoded_size(fs[i])

LEMMA WrittenExists ==
  ASSUME NEW fs, Sequence(fs), \A i \in 1 .. Len(fs) : Shaped(fs[i])
  PROVE \E h : Written(h, fs)
<1>1. Len(fs) \in Nat /\ DOMAIN fs = 1 .. Len(fs)
  BY SequenceFacts
<1>2. PICK h : Walk(h, "octets", 0, <<>>, fs) /\ Folded("octets", 0, <<>>, fs) = h[Len(fs)]
  BY <1>1, FoldedWalks
<1>3. \A v, f : Step("octets", 0, v, f) = v \o encode(f)
  BY DEF Step
<1>4. h[0] = <<>> /\ \A i \in 1 .. Len(fs) : h[i] = h[i - 1] \o encode(fs[i])
  <2>1. h[0] = <<>> /\ \A i \in 1 .. Len(fs) : h[i] = Step("octets", 0, h[i - 1], fs[i])
    BY <1>2 DEF Walk
  <2>2. ASSUME NEW i \in 1 .. Len(fs) PROVE h[i] = h[i - 1] \o encode(fs[i])
    <3>1. h[i] = Step("octets", 0, h[i - 1], fs[i])
      BY <2>1
    <3> QED BY <1>3, <3>1, Zenon
  <2> QED BY <2>1, <2>2
<1>5. \A i \in 1 .. Len(fs) : encode(fs[i]) \in Seq(Nat) /\ Len(encode(fs[i])) = encoded_size(fs[i])
  BY EncodeIs
<1> DEFINE N == {i \in 0 .. Len(fs) : h[i] \notin Seq(Nat)}
<1>6. N = {}
  <2> SUFFICES ASSUME N # {} PROVE FALSE
    OBVIOUS
  <2>1. PICK m \in N : \A j \in N : m <= j
    <3>1. N \in SUBSET Nat
      OBVIOUS
    <3> HIDE DEF N
    <3> QED BY <3>1, LeastNumber
  <2>2. m # 0 /\ m \in 0 .. Len(fs) /\ h[m] \notin Seq(Nat)
    <3>1. h[0] \in Seq(Nat)
      BY <1>4
    <3> QED BY <3>1
  <2>3. m \in 1 .. Len(fs) /\ m - 1 \in 0 .. Len(fs) /\ m - 1 \notin N
    BY <1>1, <2>1, <2>2
  <2>4. h[m - 1] \in Seq(Nat) /\ encode(fs[m]) \in Seq(Nat)
    BY <1>5, <2>3
  <2>5. h[m - 1] \o encode(fs[m]) \in Seq(Nat)
    BY <2>4, Join
  <2> QED BY <2>2, <2>3, <2>5, <1>4
<1>7. ASSUME NEW i \in 1 .. Len(fs) PROVE Len(h[i]) = Len(h[i - 1]) + encoded_size(fs[i])
  <2>1. h[i - 1] \in Seq(Nat)
    BY <1>1, <1>6
  <2>2. Len(h[i - 1] \o encode(fs[i])) = Len(h[i - 1]) + Len(encode(fs[i]))
    BY <1>5, <2>1, Join
  <2> QED BY <1>4, <1>5, <2>2
<1>8. serialize_frames(fs) = h[Len(fs)]
  BY <1>1, <1>2, OctetsFolded
<1> QED BY <1>4, <1>6, <1>7, <1>8 DEF Written

LEMMA WrittenBegins ==
  ASSUME NEW fs, Sequence(fs), \A i \in 1 .. Len(fs) : Shaped(fs[i]), NEW h, Written(h, fs),
         NEW i \in 0 .. Len(fs), NEW j \in 0 .. Len(fs), i <= j
  PROVE Begins(h[j], h[i])
<1>1. Len(fs) \in Nat
  BY SequenceFacts
<1> DEFINE N == {m \in i .. Len(fs) : ~ Begins(h[m], h[i])}
<1>2. N = {}
  <2> SUFFICES ASSUME N # {} PROVE FALSE
    OBVIOUS
  <2>1. PICK m \in N : \A k \in N : m <= k
    <3>1. N \in SUBSET Nat
      BY <1>1
    <3> HIDE DEF N
    <3> QED BY <3>1, LeastNumber
  <2>2. m \in i .. Len(fs) /\ ~ Begins(h[m], h[i])
    OBVIOUS
  <2>3. m # i
    BY <2>2, BeginsItself DEF Written
  <2>4. m \in 1 .. Len(fs) /\ m - 1 \in i .. Len(fs) /\ m - 1 \in 0 .. Len(fs) /\ m - 1 \notin N
    BY <1>1, <2>1, <2>2, <2>3
  <2>5. Begins(h[m - 1], h[i])
    BY <2>4
  <2>6. h[m] = h[m - 1] \o encode(fs[m]) /\ h[m - 1] \in Seq(Nat) /\ h[i] \in Seq(Nat)
    BY <2>4 DEF Written
  <2>7. encode(fs[m]) \in Seq(Nat)
    BY <2>4, EncodeIs
  <2> QED BY <2>2, <2>5, <2>6, <2>7, BeginsJoin
<1> QED BY <1>1, <1>2

\* The reader finds frame f at position n and goes on at m, or stops there.
Reads(x, n, f, m) ==
  /\ decode(Rest(x, n)) # <<>> /\ decode(Rest(x, n))[1] = f
  /\ Len(x) - Len(decode(Rest(x, n))[2]) = m
Stops(x, n) == decode(Rest(x, n)) = <<>>

\* What the reader finds at the end of the first i frames of x, the beginning
\* of the octets of fs.
LEMMA NextFrame ==
  ASSUME NEW fs, Sequence(fs), \A i \in 1 .. Len(fs) : Encodable(fs[i]), NEW h, Written(h, fs),
         NEW x \in Seq(Nat), Begins(h[Len(fs)], x), NEW i \in 0 .. Len(fs), Len(h[i]) <= Len(x)
  PROVE /\ i < Len(fs) /\ Len(h[i + 1]) <= Len(x) => Reads(x, Len(h[i]), fs[i + 1], Len(h[i + 1]))
        /\ i < Len(fs) /\ Len(h[i + 1]) > Len(x) => Stops(x, Len(h[i]))
        /\ i = Len(fs) => Stops(x, Len(h[i]))
<1> DEFINE N == Len(fs)
           y == h[i]
           r == Rest(x, Len(y))
<1>0. N \in Nat
  BY SequenceFacts
<1>1. \A j \in 1 .. N : Shaped(fs[j])
  BY EncodableShaped
<1>2. y \in Seq(Nat) /\ h[N] \in Seq(Nat) /\ Begins(h[N], y)
  <2>1. N \in 0 .. N /\ i <= N
    BY <1>0
  <2> QED BY <1>1, <2>1, WrittenBegins DEF Written
<1>3. Begins(x, y)
  BY <1>2, BeginsOrder
<1>4. r \in Seq(Nat) /\ Len(r) = Len(x) - Len(y) /\ x = y \o r
  <2> HIDE DEF y
  <2> QED BY <1>2, <1>3, Rejoin
<1>5. ASSUME i < N
      PROVE /\ h[i + 1] = y \o encode(fs[i + 1]) /\ h[i + 1] \in Seq(Nat) /\ Begins(h[N], h[i + 1])
            /\ Encodable(fs[i + 1]) /\ encode(fs[i + 1]) \in Seq(Nat)
            /\ Len(encode(fs[i + 1])) = encoded_size(fs[i + 1])
            /\ Len(h[i + 1]) = Len(y) + encoded_size(fs[i + 1]) /\ encoded_size(fs[i + 1]) \in Nat
  <2>1. i + 1 \in 1 .. N /\ i + 1 \in 0 .. N /\ (i + 1) - 1 = i /\ N \in 0 .. N /\ i + 1 <= N
    BY <1>0, <1>5
  <2>2. h[i + 1] = y \o encode(fs[i + 1]) /\ h[i + 1] \in Seq(Nat)
        /\ Len(h[i + 1]) = Len(y) + encoded_size(fs[i + 1])
    BY <2>1 DEF Written
  <2>3. Begins(h[N], h[i + 1])
    BY <1>1, <2>1, WrittenBegins
  <2>4. Encodable(fs[i + 1]) /\ Shaped(fs[i + 1])
    BY <1>1, <2>1
  <2> QED BY <2>2, <2>3, <2>4, EncodeIs
<1>6. ASSUME i < N, Len(h[i + 1]) <= Len(x)
      PROVE /\ decode(r) # <<>> /\ decode(r)[1] = fs[i + 1]
            /\ Len(x) - Len(decode(r)[2]) = Len(h[i + 1])
  <2> DEFINE z == h[i + 1]
             e == encode(fs[i + 1])
             t == Rest(x, Len(z))
  <2>1. z = y \o e /\ z \in Seq(Nat) /\ Begins(h[N], z) /\ e \in Seq(Nat) /\ Encodable(fs[i + 1])
    BY <1>5, <1>6
  <2>2. Begins(x, z)
    BY <1>2, <1>6, <2>1, BeginsOrder
  <2>3. t \in Seq(Nat) /\ Len(t) = Len(x) - Len(z) /\ x = z \o t
    <3> HIDE DEF z
    <3> QED BY <2>1, <2>2, Rejoin
  <2> HIDE DEF z, t, r, y, e
  <2>4. x = Cat(y, Cat(e, t))
    <3>1. x = Cat(Cat(y, e), t)
      BY <2>1, <2>3 DEF Cat
    <3> QED BY <3>1, <1>2, <2>1, <2>3, CatAssociates
  <2>5. r = Cat(e, t)
    <3>1. Cat(e, t) \in Seq(Nat)
      BY <2>1, <2>3, CatIs
    <3>2. Rest(x, Len(y)) = Cat(e, t)
      BY <3>1, <1>2, <2>4, Split
    <3> QED BY <3>2 DEF r
  <2>6. decode(r) = <<fs[i + 1], t>>
    <3>1. r = encode(fs[i + 1]) \o t
      BY <2>5 DEF Cat, e
    <3> QED BY <3>1, <2>1, <2>3, DecodeWhole
  <2>7. decode(r) # <<>> /\ decode(r)[1] = fs[i + 1] /\ decode(r)[2] = t
    BY <2>6
  <2>8. Len(x) - Len(t) = Len(z)
    BY <2>1, <2>3
  <2> QED BY <2>7, <2>8 DEF z
<1>7. ASSUME i < N, Len(h[i + 1]) > Len(x) PROVE decode(r) = <<>>
  <2> DEFINE z == h[i + 1]
             e == encode(fs[i + 1])
  <2>1. z = y \o e /\ z \in Seq(Nat) /\ Begins(h[N], z) /\ e \in Seq(Nat) /\ Encodable(fs[i + 1])
        /\ Len(e) = encoded_size(fs[i + 1])
    BY <1>5, <1>7
  <2>0. Len(x) < Len(z) /\ Len(z) = Len(y) + Len(e)
    <3>1. Len(z) > Len(x)
      BY <1>7
    <3>2. Len(z) = Len(y) + encoded_size(fs[i + 1])
      BY <1>5, <1>7
    <3> HIDE DEF z, y, e
    <3>3. Len(z) \in Nat /\ Len(x) \in Nat
      BY <2>1
    <3> QED BY <3>1, <3>2, <3>3, <2>1
  <2>2. Begins(z, x)
    <3> HIDE DEF z, y, e
    <3>1. Len(x) <= Len(z)
      <4>1. Len(z) \in Nat /\ Len(x) \in Nat
        BY <2>1
      <4> QED BY <4>1, <2>0
    <3> QED BY <1>2, <3>1, <2>1, BeginsOrder
  <2>3. Len(z) = Len(y) + Len(e) /\ Len(x) < Len(z) /\ Len(e) \in Nat /\ Len(y) \in Nat /\ Len(r) \in Nat
    <3> HIDE DEF z, r, y, e
    <3> QED BY <1>2, <1>4, <2>0, <2>1
  <2> HIDE DEF z, r, y, e
  <2>4. Len(r) < Len(e)
    BY <1>4, <2>3
  <2>5. ASSUME NEW k \in 1 .. Len(r) PROVE e[k] = r[k]
    <3>1. k \in 1 .. Len(e) /\ Len(y) + k \in 1 .. Len(x)
      BY <1>4, <2>3, <2>4
    <3>2. z[Len(y) + k] = e[k]
      BY <3>1, <1>2, <2>1, Join
    <3>3. x[Len(y) + k] = r[k]
      BY <1>2, <1>4, Join
    <3>4. z[Len(y) + k] = x[Len(y) + k]
      BY <3>1, <2>2 DEF Begins
    <3> QED BY <3>2, <3>3, <3>4
  <2>6. Begins(e, r)
    BY <2>3, <2>4, <2>5 DEF Begins
  <2> QED BY <1>4, <2>1, <2>4, <2>6, DecodeCut DEF e
<1>8. ASSUME i = N PROVE decode(r) = <<>>
  <2>1. Len(x) <= Len(y)
    BY <1>8 DEF Begins
  <2>2. Len(r) = 0
    <3> HIDE DEF r, y
    <3> QED BY <1>2, <1>4, <2>1
  <2>3. r = <<>>
    <3> HIDE DEF r
    <3> QED BY <1>4, <2>2
  <2> QED BY <2>3, EmptyDecode
<1> QED BY <1>6, <1>7, <1>8 DEF Reads, Stops

\* q is s followed by t.
Joins(q, s, t) ==
  /\ Sequence(q) /\ Len(q) = Len(s) + Len(t)
  /\ \A i \in 1 .. Len(s) : q[i] = s[i]
  /\ \A i \in 1 .. Len(t) : q[Len(s) + i] = t[i]

LEMMA JoinSequences ==
  ASSUME NEW s, Sequence(s), NEW t, Sequence(t)
  PROVE Joins(s \o t, s, t)
<1> DEFINE S == Range(s) \cup Range(t)
<1>1. s \in Seq(S) /\ t \in Seq(S)
  BY DEF Sequence
<1> HIDE DEF S
<1>2. s \o t \in Seq(S) /\ Len(s \o t) = Len(s) + Len(t)
  BY <1>1
<1>3. /\ \A i \in 1 .. Len(s) : (s \o t)[i] = s[i]
      /\ \A i \in 1 .. Len(t) : (s \o t)[Len(s) + i] = t[i]
  BY <1>1
<1> QED BY <1>2, <1>3, SequenceIs DEF Joins

LEMMA PrefixIs ==
  ASSUME NEW s, Sequence(s), NEW t, Sequence(t), Len(s) <= Len(t),
         \A i \in 1 .. Len(s) : s[i] = t[i]
  PROVE IsPrefix(s, t)
<1>1. Len(s) \in Nat /\ Len(t) \in Nat /\ s \in Seq(Range(s)) /\ t \in Seq(Range(t))
  BY DEF Sequence
<1> DEFINE a == SubSeq(s, 1, Len(s))
           b == SubSeq(t, 1, Len(s))
<1>2. a \in Seq(Range(s)) /\ Len(a) = Len(s) /\ \A i \in 1 .. Len(s) : a[i] = s[i]
  BY <1>1
<1>3. b \in Seq(Range(t)) /\ Len(b) = Len(s) /\ \A i \in 1 .. Len(s) : b[i] = t[i]
  BY <1>1
<1> HIDE DEF a, b
<1>4. a = b
  BY <1>2, <1>3, SequenceIs, SequencesEqual
<1> QED BY <1>4 DEF IsPrefix, a, b

\* A datagram decodes to the frames it was made of; cut anywhere, it decodes
\* to the frames that are complete.
LEMMA ReadBack ==
  ASSUME NEW fs, Sequence(fs), \A i \in 1 .. Len(fs) : Encodable(fs[i]),
         NEW x \in Seq(Nat), Begins(serialize_frames(fs), x)
  PROVE /\ IsPrefix(deserialize_frames(x), fs)
        /\ x = serialize_frames(fs) => deserialize_frames(x) = fs
<1> DEFINE N == Len(fs)
<1>0. N \in Nat
  BY SequenceFacts
<1>1. \A j \in 1 .. N : Shaped(fs[j])
  BY EncodableShaped
<1>2. PICK h : Written(h, fs)
  BY <1>1, WrittenExists
<1>3. /\ serialize_frames(fs) = h[N] /\ h[0] = <<>> /\ \A i \in 0 .. N : h[i] \in Seq(Nat)
      /\ Begins(h[N], x)
  BY <1>2 DEF Written
<1>4. PICK g : /\ deserialize_frames(x) = g[0]
               /\ \A n \in 0 .. Len(x) :
                    g[n] = IF decode(Rest(x, n)) = <<>> THEN <<>>
                           ELSE <<decode(Rest(x, n))[1]>> \o g[Len(x) - Len(decode(Rest(x, n))[2])]
  BY DeserializeIs
<1>5. Len(x) \in Nat /\ \A i \in 0 .. N : Len(h[i]) \in Nat
  BY <1>3
<1> DEFINE Fits == {i \in 0 .. N : Len(h[i]) <= Len(x)}
           U == {u \in Nat : \A i \in Fits : i <= u}
<1>6. \E K \in Fits : \A i \in Fits : i <= K
  <2>1. 0 \in Fits
    BY <1>3, <1>5, <1>0
  <2>2. N \in U /\ U \in SUBSET Nat
    BY <1>0
  <2>3. PICK u \in U : \A w \in U : u <= w
    <3> HIDE DEF U
    <3> QED BY <2>2, LeastNumber
  <2>4. u \in Nat /\ \A i \in Fits : i <= u
    OBVIOUS
  <2>5. u \in Fits
    <3> SUFFICES ASSUME u \notin Fits PROVE FALSE
      OBVIOUS
    <3>1. Fits \in SUBSET Nat
      BY <1>0
    <3> HIDE DEF Fits, U
    <3>2. \A i \in Fits : i \in Nat /\ i < u
      BY <2>4, <3>1
    <3>3. u - 1 \in Nat /\ \A i \in Fits : i <= u - 1
      BY <2>1, <2>4, <3>2
    <3>4. u - 1 \in U
      BY <3>3 DEF U
    <3> QED BY <2>3, <2>4, <3>4
  <2> QED BY <2>4, <2>5
<1>7. PICK K \in Fits : \A i \in Fits : i <= K
  BY <1>6
<1>8. K \in 0 .. N /\ Len(h[K]) <= Len(x) /\ \A i \in 0 .. N : Len(h[i]) <= Len(x) => i <= K
  BY <1>7
<1>9. ASSUME NEW i \in 0 .. K PROVE i \in 0 .. N /\ Len(h[i]) <= Len(x) /\ Len(h[i]) \in 0 .. Len(x)
  <2>1. i \in 0 .. N /\ i <= K
    BY <1>8, <1>0
  <2>2. Begins(h[K], h[i])
    BY <1>1, <1>2, <1>8, <2>1, WrittenBegins
  <2>3. Len(h[i]) <= Len(h[K])
    BY <2>2 DEF Begins
  <2> QED BY <2>1, <2>3, <1>5, <1>8
<1> HIDE DEF Fits, U
<1> DEFINE P(r, i) == Sequence(r) /\ Len(r) = K - i /\ \A j \in 1 .. K - i : r[j] = fs[i + j]
           Bad == {d \in 0 .. K : ~ P(g[Len(h[K - d])], K - d)}
<1>10. P(g[Len(h[K])], K)
  <2>1. K \in 0 .. K
    BY <1>8
  <2>2. Len(h[K]) \in 0 .. Len(x)
    BY <1>9, <2>1
  <2>3. K < N => ~ (Len(h[K + 1]) <= Len(x)) /\ K + 1 \in 0 .. N
    BY <1>0, <1>8
  <2>4. decode(Rest(x, Len(h[K]))) = <<>>
    <3>1. K < N \/ K = N
      BY <1>0, <1>8
    <3>2. K < N => Len(h[K + 1]) > Len(x)
      BY <2>3, <1>5
    <3>3. Stops(x, Len(h[K]))
      BY <3>1, <3>2, <1>2, <1>3, <1>8, NextFrame
    <3> QED BY <3>3 DEF Stops
  <2>5. g[Len(h[K])] = <<>>
    BY <1>4, <2>2, <2>4
  <2>6. Sequence(<<>>) /\ Len(<<>>) = 0
    <3>1. <<>> \in Seq(Nat)
      OBVIOUS
    <3> QED BY <3>1, SequenceIs
  <2> QED BY <1>8, <2>5, <2>6
<1>11. ASSUME NEW i \in 0 .. K, i < K, P(g[Len(h[i + 1])], i + 1) PROVE P(g[Len(h[i])], i)
  <2> DEFINE r == g[Len(h[i + 1])]
             D == decode(Rest(x, Len(h[i])))
  <2>1. i \in 0 .. N /\ i < N /\ i + 1 \in 0 .. K /\ Len(h[i]) <= Len(x) /\ Len(h[i]) \in 0 .. Len(x)
    BY <1>0, <1>8, <1>9, <1>11
  <2>2. Len(h[i + 1]) <= Len(x)
    BY <1>9, <2>1
  <2>3. D # <<>> /\ D[1] = fs[i + 1] /\ Len(x) - Len(D[2]) = Len(h[i + 1])
    <3>1. Reads(x, Len(h[i]), fs[i + 1], Len(h[i + 1]))
      BY <1>2, <1>3, <2>1, <2>2, NextFrame
    <3> QED BY <3>1 DEF Reads
  <2>4. g[Len(h[i])] = <<D[1]>> \o g[Len(x) - Len(D[2])]
    BY <1>4, <2>1, <2>3
  <2>5. g[Len(h[i])] = <<fs[i + 1]>> \o r
    BY <2>3, <2>4
  <2> HIDE DEF r
  <2>6. Sequence(r) /\ Len(r) = K - (i + 1) /\ \A j \in 1 .. K - (i + 1) : r[j] = fs[(i + 1) + j]
    BY <1>11 DEF r
  <2> DEFINE one == <<fs[i + 1]>>
             q == one \o r
  <2>7. Sequence(one) /\ Len(one) = 1 /\ one[1] = fs[i + 1]
    BY <2>6, SequenceOps
  <2> HIDE DEF one
  <2>8. Sequence(q) /\ Len(q) = 1 + Len(r) /\ q[1] = one[1]
        /\ \A j \in 1 .. Len(r) : q[1 + j] = r[j]
    <3>1. Sequence(q) /\ Len(q) = Len(one) + Len(r) /\ (\A j \in 1 .. Len(one) : q[j] = one[j])
          /\ \A j \in 1 .. Len(r) : q[Len(one) + j] = r[j]
      <4>1. Joins(q, one, r)
        BY <2>6, <2>7, JoinSequences
      <4> HIDE DEF q
      <4> QED BY <4>1 DEF Joins
    <3> HIDE DEF q
    <3> QED BY <2>7, <3>1
  <2> HIDE DEF q
  <2>9. ASSUME NEW j \in 1 .. K - i PROVE q[j] = fs[i + j]
    <3>1. CASE j = 1
      BY <3>1, <2>7, <2>8
    <3>2. CASE j # 1
      <4>1. j - 1 \in 1 .. Len(r) /\ 1 + (j - 1) = j /\ (i + 1) + (j - 1) = i + j
            /\ j - 1 \in 1 .. K - (i + 1)
        BY <3>2, <2>6, <1>8, <1>0
      <4>2. q[1 + (j - 1)] = r[j - 1] /\ r[j - 1] = fs[(i + 1) + (j - 1)]
        BY <4>1, <2>6, <2>8
      <4> QED BY <4>1, <4>2
    <3> QED BY <3>1, <3>2
  <2>10. Len(q) = K - i
    BY <2>6, <2>8, <1>8
  <2>11. g[Len(h[i])] = q
    BY <2>5 DEF q, one
  <2> QED BY <2>8, <2>9, <2>10, <2>11
<1>12. P(g[Len(h[0])], 0)
  <2> HIDE DEF P
  <2>1. Bad = {}
    <3> SUFFICES ASSUME Bad # {} PROVE FALSE
      OBVIOUS
    <3>1. PICK d \in Bad : \A j \in Bad : d <= j
      <4>1. Bad \in SUBSET Nat
        OBVIOUS
      <4> HIDE DEF Bad
      <4> QED BY <4>1, LeastNumber
    <3>2. d \in 0 .. K /\ ~ P(g[Len(h[K - d])], K - d)
      OBVIOUS
    <3>3. d # 0
      <4>1. K - 0 = K
        BY <1>8
      <4> QED BY <3>2, <4>1, <1>10
    <3>4. d - 1 \in 0 .. K /\ d - 1 \notin Bad
      <4> HIDE DEF Bad
      <4> QED BY <1>8, <3>1, <3>2, <3>3
    <3>5. P(g[Len(h[K - (d - 1)])], K - (d - 1))
      BY <3>4
    <3>6. K - (d - 1) = (K - d) + 1 /\ K - d \in 0 .. K /\ K - d < K
      BY <1>8, <3>2, <3>3
    <3> QED BY <3>2, <3>5, <3>6, <1>11
  <2>2. K \in 0 .. K /\ K - K = 0
    BY <1>8
  <2> QED BY <2>1, <2>2
<1> DEFINE r == deserialize_frames(x)
<1>13. Sequence(r) /\ Len(r) = K /\ \A j \in 1 .. K : r[j] = fs[j]
  <2>1. r = g[Len(h[0])]
    BY <1>3, <1>4
  <2>2. P(r, 0)
    BY <2>1, <1>12
  <2> HIDE DEF r
  <2> QED BY <2>2, <1>8
<1> HIDE DEF r
<1>14. IsPrefix(r, fs)
  BY <1>13, <1>8, <1>0, PrefixIs
<1>15. x = h[N] => r = fs
  <2> SUFFICES ASSUME x = h[N] PROVE r = fs
    OBVIOUS
  <2>1. N \in 0 .. N /\ Len(h[N]) <= Len(x)
    BY <1>0, <1>5
  <2>2. K = N
    BY <2>1, <1>8, <1>0
  <2> QED BY <2>2, <1>13, SequencesEqual
<1> QED BY <1>3, <1>14, <1>15 DEF r

(***************************************************************************)
(* The codec loses nothing: frames whose fields fit their widths, one      *)
(* behind the other in a datagram, are read back exactly (Frame::encode,   *)
(* Frame::decode, the loop of udp.rs over a datagram), and a datagram that *)
(* the receiver's buffer cuts anywhere yields a prefix of them, never a    *)
(* damaged frame.                                                          *)
(***************************************************************************)
THEOREM CodecRoundTrip ==
  ASSUME NEW fs \in Seq(LongFrame \cup ShortFrame), \A i \in 1 .. Len(fs) : Encodable(fs[i])
  PROVE  /\ deserialize_frames(serialize_frames(fs)) = fs
         /\ \A n \in 0 .. Len(serialize_frames(fs)) :
              IsPrefix(deserialize_frames(SubSeq(serialize_frames(fs), 1, n)), fs)
<1> DEFINE x == serialize_frames(fs)
<1>1. Sequence(fs) /\ \A i \in 1 .. Len(fs) : Encodable(fs[i])
  BY SequenceIs
<1>2. x \in Seq(Nat)
  <2>1. \A i \in 1 .. Len(fs) : Shaped(fs[i])
    BY <1>1, EncodableShaped
  <2>2. PICK h : Written(h, fs)
    BY <1>1, <2>1, WrittenExists
  <2> QED BY <2>2 DEF Written
<1>3. Begins(x, x) /\ \A n \in 0 .. Len(x) : Begins(x, SubSeq(x, 1, n)) /\ SubSeq(x, 1, n) \in Seq(Nat)
  BY <1>2 DEF Begins
<1> QED BY <1>1, <1>2, <1>3, ReadBack

----------------------------------------------------------------------------
(* Folds that put one piece of each element behind the other.              *)

LEMMA Associates ==
  ASSUME NEW s, Sequence(s), NEW t, Sequence(t), NEW u, Sequence(u)
  PROVE (s \o t) \o u = s \o (t \o u)
<1> DEFINE a == s \o t
           l == a \o u
           b == t \o u
           r == s \o b
<1>1. Joins(a, s, t)
  BY JoinSequences
<1>2. Joins(b, t, u)
  BY JoinSequences
<1> HIDE DEF a, b
<1>9. Sequence(a) /\ Sequence(b)
  BY <1>1, <1>2 DEF Joins
<1>3. Joins(l, a, u)
  BY <1>9, JoinSequences
<1>4. Joins(r, s, b)
  BY <1>9, JoinSequences
<1>5. Len(s) \in Nat /\ Len(t) \in Nat /\ Len(u) \in Nat
  BY SequenceFacts
<1> HIDE DEF l, r
<1>6. Len(l) = Len(s) + Len(t) + Len(u) /\ Len(r) = Len(s) + Len(t) + Len(u)
      /\ Len(a) = Len(s) + Len(t) /\ Len(b) = Len(t) + Len(u)
  BY <1>1, <1>2, <1>3, <1>4, <1>5 DEF Joins
<1>7. ASSUME NEW i \in 1 .. Len(l) PROVE l[i] = r[i]
  <2>1. CASE i <= Len(s)
    <3>1. i \in 1 .. Len(s) /\ i \in 1 .. Len(a)
      BY <2>1, <1>5, <1>6
    <3>2. l[i] = a[i] /\ a[i] = s[i] /\ r[i] = s[i]
      BY <3>1, <1>1, <1>3, <1>4 DEF Joins
    <3> QED BY <3>2
  <2>2. CASE i > Len(s) /\ i <= Len(s) + Len(t)
    <3> DEFINE j == i - Len(s)
    <3>1. j \in 1 .. Len(t) /\ i \in 1 .. Len(a) /\ i = Len(s) + j /\ j \in 1 .. Len(b)
      BY <2>2, <1>5, <1>6
    <3> HIDE DEF j
    <3>2. l[i] = a[i] /\ a[Len(s) + j] = t[j] /\ r[Len(s) + j] = b[j] /\ b[j] = t[j]
      BY <3>1, <1>1, <1>2, <1>3, <1>4 DEF Joins
    <3> QED BY <3>1, <3>2
  <2>3. CASE i > Len(s) + Len(t)
    <3> DEFINE k == i - Len(a)
               j == i - Len(s)
    <3>1. k \in 1 .. Len(u) /\ i = Len(a) + k /\ j \in 1 .. Len(b) /\ i = Len(s) + j
          /\ j = Len(t) + k
      BY <2>3, <1>5, <1>6
    <3> HIDE DEF j, k
    <3>2. l[Len(a) + k] = u[k] /\ r[Len(s) + j] = b[j] /\ b[Len(t) + k] = u[k]
      BY <3>1, <1>1, <1>2, <1>3, <1>4 DEF Joins
    <3> QED BY <3>1, <3>2
  <2> QED BY <1>5, <1>6, <2>1, <2>2, <2>3
<1>8. l = r
  BY <1>3, <1>4, <1>6, <1>7, SequencesEqual DEF Joins
<1> QED BY <1>8 DEF l, r, a, b

LEMMA EmptyJoin ==
  ASSUME NEW s, Sequence(s)
  PROVE s \o <<>> = s /\ <<>> \o s = s /\ Sequence(<<>>) /\ Len(<<>>) = 0
<1>1. Sequence(<<>>) /\ Len(<<>>) = 0
  <2>1. <<>> \in Seq(Nat)
    OBVIOUS
  <2> QED BY <2>1, SequenceIs
<1>2. s \in Seq(Range(s))
  BY DEF Sequence
<1> QED BY <1>1, <1>2

\* What an element adds to such a fold.
Piece(k, c, x) ==
  CASE k = "sends"  -> IF x.kind = "Send" THEN <<x.batch>> ELSE <<>>
    [] k = "order"  -> IF x \in c THEN <<x>> ELSE <<>>
    [] k = "octets" -> encode(x)
    [] OTHER        -> x

Kinds == {"sends", "order", "octets", "flat"}
Gather(k, c, s) == Folded(k, c, <<>>, s)

\* The elements of s have pieces that are sequences.
Pieced(k, c, s) == Sequence(s) /\ \A i \in 1 .. Len(s) : Sequence(Piece(k, c, s[i]))

LEMMA AppendIs ==
  ASSUME NEW s, Sequence(s), NEW x
  PROVE Append(s, x) = s \o <<x>>
<1> DEFINE S == Range(s) \cup {x}
<1>1. s \in Seq(S) /\ x \in S
  BY DEF Sequence
<1> HIDE DEF S
<1> QED BY <1>1

LEMMA StepGathers ==
  ASSUME NEW k \in Kinds, NEW c, NEW v, Sequence(v), NEW x
  PROVE Step(k, c, v, x) = v \o Piece(k, c, x)
<1>1. CASE k = "sends"
  <2>1. Step(k, c, v, x) = IF x.kind = "Send" THEN Append(v, x.batch) ELSE v
    BY <1>1 DEF Step
  <2>2. Piece(k, c, x) = IF x.kind = "Send" THEN <<x.batch>> ELSE <<>>
    BY <1>1 DEF Piece
  <2>3. CASE x.kind = "Send"
    BY <2>1, <2>2, <2>3, AppendIs
  <2>4. CASE x.kind # "Send"
    BY <2>1, <2>2, <2>4, EmptyJoin
  <2> QED BY <2>3, <2>4
<1>2. CASE k = "order"
  <2>1. Step(k, c, v, x) = IF x \in c THEN Append(v, x) ELSE v
    BY <1>2 DEF Step
  <2>2. Piece(k, c, x) = IF x \in c THEN <<x>> ELSE <<>>
    BY <1>2 DEF Piece
  <2>3. CASE x \in c
    BY <2>1, <2>2, <2>3, AppendIs
  <2>4. CASE x \notin c
    BY <2>1, <2>2, <2>4, EmptyJoin
  <2> QED BY <2>3, <2>4
<1>3. CASE k = "octets"
  BY <1>3 DEF Step, Piece
<1>4. CASE k = "flat"
  BY <1>4 DEF Step, Piece
<1> QED BY <1>1, <1>2, <1>3, <1>4 DEF Kinds

Gathers(h, k, c, s) ==
  /\ Gather(k, c, s) = h[Len(s)] /\ h[0] = <<>>
  /\ \A i \in 0 .. Len(s) : Sequence(h[i])
  /\ \A i \in 1 .. Len(s) : h[i] = h[i - 1] \o Piece(k, c, s[i])

LEMMA GatherWalks ==
  ASSUME NEW k \in Kinds, NEW c, NEW s, Pieced(k, c, s)
  PROVE \E h : Gathers(h, k, c, s) /\ Walk(h, k, c, <<>>, s)
<1>1. Len(s) \in Nat /\ Sequence(s)
  BY SequenceFacts DEF Pieced
<1>2. PICK h : Walk(h, k, c, <<>>, s) /\ Gather(k, c, s) = h[Len(s)]
  BY <1>1, FoldedWalks DEF Gather
<1>3. h[0] = <<>> /\ \A i \in 1 .. Len(s) : h[i] = Step(k, c, h[i - 1], s[i])
  BY <1>2 DEF Walk
<1> DEFINE N == {i \in 0 .. Len(s) : ~ Sequence(h[i])}
<1>4. N = {}
  <2> SUFFICES ASSUME N # {} PROVE FALSE
    OBVIOUS
  <2>1. PICK m \in N : \A j \in N : m <= j
    <3>1. N \in SUBSET Nat
      OBVIOUS
    <3> HIDE DEF N
    <3> QED BY <3>1, LeastNumber
  <2>2. m # 0 /\ m \in 0 .. Len(s) /\ ~ Sequence(h[m])
    <3>1. Sequence(h[0])
      BY <1>1, <1>3, EmptyJoin
    <3> QED BY <3>1
  <2>3. m \in 1 .. Len(s) /\ m - 1 \in 0 .. Len(s) /\ m - 1 \notin N
    BY <1>1, <2>1, <2>2
  <2>4. Sequence(h[m - 1]) /\ Sequence(Piece(k, c, s[m]))
    BY <2>3 DEF Pieced
  <2>5. h[m] = h[m - 1] \o Piece(k, c, s[m])
    <3>1. Step(k, c, h[m - 1], s[m]) = h[m - 1] \o Piece(k, c, s[m])
      BY <2>4, StepGathers
    <3> QED BY <1>3, <2>3, <3>1
  <2>6. Sequence(h[m])
    BY <2>4, <2>5, JoinSequences DEF Joins
  <2> QED BY <2>2, <2>6
<1>5. ASSUME NEW i \in 1 .. Len(s) PROVE h[i] = h[i - 1] \o Piece(k, c, s[i])
  <2>1. Sequence(h[i - 1])
    BY <1>1, <1>4
  <2>2. Step(k, c, h[i - 1], s[i]) = h[i - 1] \o Piece(k, c, s[i])
    BY <2>1, StepGathers
  <2> QED BY <1>3, <2>2
<1> QED BY <1>2, <1>3, <1>4, <1>5 DEF Gathers

LEMMA GatherJoin ==
  ASSUME NEW k \in Kinds, NEW c, NEW s, Pieced(k, c, s), NEW t, Pieced(k, c, t)
  PROVE /\ Pieced(k, c, Cat(s, t)) /\ Sequence(Gather(k, c, s))
        /\ Gather(k, c, Cat(s, t)) = Cat(Gather(k, c, s), Gather(k, c, t))
<1> DEFINE u == s \o t
           n == Len(s)
<1>0. Sequence(s) /\ Sequence(t) /\ n \in Nat /\ Len(t) \in Nat
  BY SequenceFacts DEF Pieced
<1>1. Joins(u, s, t)
  BY <1>0, JoinSequences
<1>2. Sequence(u) /\ Len(u) = n + Len(t) /\ (\A i \in 1 .. n : u[i] = s[i])
      /\ \A i \in 1 .. Len(t) : u[n + i] = t[i]
  BY <1>1 DEF Joins
<1> HIDE DEF u
<1>3. Pieced(k, c, u)
  <2>1. ASSUME NEW i \in 1 .. Len(u) PROVE Sequence(Piece(k, c, u[i]))
    <3>1. CASE i <= n
      BY <3>1, <1>0, <1>2 DEF Pieced
    <3>2. CASE i > n
      <4> DEFINE j == i - n
      <4>1. j \in 1 .. Len(t) /\ i = n + j
        BY <3>2, <1>0, <1>2
      <4> HIDE DEF j, n
      <4>2. u[i] = t[j]
        BY <4>1, <1>2
      <4> QED BY <4>1, <4>2 DEF Pieced
    <3> QED BY <1>0, <1>2, <3>1, <3>2
  <2> QED BY <1>2, <2>1 DEF Pieced
<1>4. PICK h : Gathers(h, k, c, u) /\ Walk(h, k, c, <<>>, u)
  BY <1>3, GatherWalks
<1>5. PICK g : Gathers(g, k, c, s) /\ Walk(g, k, c, <<>>, s)
  BY GatherWalks
<1>6. PICK f : Gathers(f, k, c, t) /\ Walk(f, k, c, <<>>, t)
  BY GatherWalks
<1>7. h[n] = g[n] /\ g[n] = Gather(k, c, s) /\ Sequence(g[n])
  <2>1. h[n] = g[n]
    BY <1>0, <1>2, <1>4, <1>5, WalksAgree
  <2> QED BY <2>1, <1>0, <1>5 DEF Gathers
<1> HIDE DEF n
<1> DEFINE Same(j) == h[n + j] = g[n] \o f[j]
           N == {j \in 0 .. Len(t) : ~ Same(j)}
<1>13. \A j \in 0 .. Len(t) : j \in Nat
  OBVIOUS
<1>8. N = {}
  <2> SUFFICES ASSUME N # {} PROVE FALSE
    OBVIOUS
  <2>1. PICK m \in N : \A j \in N : m <= j
    <3>1. N \in SUBSET Nat
      <4> HIDE DEF Same
      <4> QED BY <1>13
    <3> HIDE DEF N
    <3> QED BY <3>1, LeastNumber
  <2>2. m \in 0 .. Len(t) /\ h[n + m] # g[n] \o f[m]
    BY Zenon
  <2>3. m # 0
    <3>1. f[0] = <<>> /\ n + 0 = n
      BY <1>0, <1>6 DEF Gathers
    <3>2. g[n] \o <<>> = g[n]
      BY <1>7, EmptyJoin
    <3> QED BY <2>2, <3>1, <3>2, <1>7
  <2>4. m \in 1 .. Len(t) /\ m - 1 \in 0 .. Len(t) /\ m - 1 \notin N
    <3> HIDE DEF N
    <3> QED BY <1>0, <2>1, <2>2, <2>3
  <2>5. h[n + (m - 1)] = g[n] \o f[m - 1]
    <3>1. Same(m - 1)
      <4> HIDE DEF Same
      <4> QED BY <2>4
    <3> QED BY <3>1
  <2>6. n + m \in 1 .. Len(u) /\ (n + m) - 1 = n + (m - 1) /\ u[n + m] = t[m]
    BY <1>0, <1>2, <2>4
  <2>7. h[n + m] = h[(n + m) - 1] \o Piece(k, c, u[n + m])
    BY <1>4, <2>6 DEF Gathers
  <2>8. f[m] = f[m - 1] \o Piece(k, c, t[m]) /\ Sequence(f[m - 1])
    BY <1>6, <2>4 DEF Gathers
  <2>9. Sequence(Piece(k, c, t[m]))
    BY <2>4 DEF Pieced
  <2>10. (g[n] \o f[m - 1]) \o Piece(k, c, t[m]) = g[n] \o (f[m - 1] \o Piece(k, c, t[m]))
    <3> DEFINE a == g[n]
               b == f[m - 1]
               d == Piece(k, c, t[m])
    <3>1. Sequence(a) /\ Sequence(b) /\ Sequence(d)
      BY <1>7, <2>8, <2>9
    <3> HIDE DEF a, b, d
    <3>2. (a \o b) \o d = a \o (b \o d)
      BY <3>1, Associates
    <3> QED BY <3>2 DEF a, b, d
  <2>11. h[n + m] = (g[n] \o f[m - 1]) \o Piece(k, c, t[m])
    BY <2>5, <2>6, <2>7
  <2>12. g[n] \o f[m] = g[n] \o (f[m - 1] \o Piece(k, c, t[m]))
    BY <2>8
  <2> QED BY <2>2, <2>10, <2>11, <2>12
<1>9. h[n + Len(t)] = g[n] \o f[Len(t)]
  <2>1. Len(t) \in 0 .. Len(t)
    BY <1>0
  <2>2. Same(Len(t))
    <3> HIDE DEF Same
    <3> QED BY <1>8, <2>1
  <2> QED BY <2>2
<1>10. Gather(k, c, u) = h[n + Len(t)]
  <2>1. Gather(k, c, u) = h[Len(u)]
    BY <1>4 DEF Gathers
  <2> QED BY <2>1, <1>2
<1>11. f[Len(t)] = Gather(k, c, t)
  BY <1>6 DEF Gathers
<1>12. Gather(k, c, u) = Gather(k, c, s) \o Gather(k, c, t)
  BY <1>7, <1>9, <1>10, <1>11
<1>14. u = Cat(s, t)
  BY DEF u, Cat
<1>15. Gather(k, c, u) = Cat(Gather(k, c, s), Gather(k, c, t))
  BY <1>12 DEF Cat
<1> QED BY <1>3, <1>7, <1>14, <1>15

LEMMA GatherEmpty ==
  ASSUME NEW k \in Kinds, NEW c
  PROVE Gather(k, c, <<>>) = <<>> /\ Pieced(k, c, <<>>)
<1>1. Sequence(<<>>) /\ Len(<<>>) = 0
  <2>1. <<>> \in Seq(Nat)
    OBVIOUS
  <2> QED BY <2>1, SequenceIs
<1>2. Pieced(k, c, <<>>)
  BY <1>1 DEF Pieced
<1>3. PICK h : Gathers(h, k, c, <<>>) /\ Walk(h, k, c, <<>>, <<>>)
  BY <1>2, GatherWalks
<1> QED BY <1>1, <1>2, <1>3 DEF Gathers

LEMMA OneIs ==
  ASSUME NEW x
  PROVE Sequence(<<x>>) /\ Len(<<x>>) = 1 /\ <<x>>[1] = x
<1>1. <<x>> \in Seq({x})
  OBVIOUS
<1> QED BY <1>1, SequenceIs

LEMMA GatherOne ==
  ASSUME NEW k \in Kinds, NEW c, NEW x, Sequence(Piece(k, c, x))
  PROVE Gather(k, c, <<x>>) = Piece(k, c, x) /\ Pieced(k, c, <<x>>)
<1> DEFINE s == <<x>>
<1>1. Sequence(s) /\ Len(s) = 1 /\ s[1] = x
  BY OneIs
<1> HIDE DEF s
<1>2. Pieced(k, c, s)
  <2>1. \A i \in 1 .. Len(s) : i = 1
    BY <1>1
  <2> QED BY <1>1, <2>1 DEF Pieced
<1>3. PICK h : Gathers(h, k, c, s) /\ Walk(h, k, c, <<>>, s)
  BY <1>2, GatherWalks
<1>4. h[0] = <<>> /\ h[1] = h[1 - 1] \o Piece(k, c, s[1]) /\ Gather(k, c, s) = h[1]
  <2>1. 1 \in 1 .. Len(s)
    BY <1>1
  <2> QED BY <1>1, <1>3, <2>1 DEF Gathers
<1>5. <<>> \o Piece(k, c, x) = Piece(k, c, x)
  BY EmptyJoin
<1>6. 1 - 1 = 0
  OBVIOUS
<1>7. Gather(k, c, s) = Piece(k, c, x)
  BY <1>1, <1>4, <1>5, <1>6
<1> QED BY <1>2, <1>7 DEF s

LEMMA GatherAppend ==
  ASSUME NEW k \in Kinds, NEW c, NEW s, Pieced(k, c, s), NEW x, Sequence(Piece(k, c, x))
  PROVE /\ Pieced(k, c, Append(s, x))
        /\ Gather(k, c, Append(s, x)) = Cat(Gather(k, c, s), Piece(k, c, x))
<1>1. Append(s, x) = Cat(s, <<x>>)
  BY AppendIs DEF Pieced, Cat
<1>2. Gather(k, c, <<x>>) = Piece(k, c, x) /\ Pieced(k, c, <<x>>)
  BY GatherOne
<1>3. /\ Pieced(k, c, Cat(s, <<x>>))
      /\ Gather(k, c, Cat(s, <<x>>)) = Cat(Gather(k, c, s), Gather(k, c, <<x>>))
  <2> DEFINE t == <<x>>
  <2>1. Pieced(k, c, t)
    BY <1>2
  <2> HIDE DEF t
  <2>2. Pieced(k, c, Cat(s, t)) /\ Gather(k, c, Cat(s, t)) = Cat(Gather(k, c, s), Gather(k, c, t))
    BY <2>1, GatherJoin
  <2> QED BY <2>2 DEF t
<1> QED BY <1>1, <1>2, <1>3

LEMMA GatherFront ==
  ASSUME NEW k \in Kinds, NEW c, NEW s, Pieced(k, c, s), s # <<>>
  PROVE /\ Pieced(k, c, Tail(s)) /\ Sequence(Piece(k, c, Head(s)))
        /\ Gather(k, c, s) = Cat(Piece(k, c, Head(s)), Gather(k, c, Tail(s)))
<1>0. Sequence(s)
  BY DEF Pieced
<1>1. /\ Sequence(Tail(s)) /\ Len(Tail(s)) = Len(s) - 1 /\ Len(s) >= 1 /\ Len(s) \in Nat
      /\ \A i \in 1 .. Len(s) - 1 : Tail(s)[i] = s[i + 1]
      /\ Head(s) = s[1] /\ s = <<Head(s)>> \o Tail(s)
  BY <1>0, SequenceTail, SequenceFacts
<1>2. Pieced(k, c, Tail(s))
  <2>1. ASSUME NEW i \in 1 .. Len(s) - 1 PROVE Sequence(Piece(k, c, Tail(s)[i]))
    <3>1. i + 1 \in 1 .. Len(s)
      BY <1>1
    <3> QED BY <1>1, <3>1 DEF Pieced
  <2> QED BY <1>1, <2>1 DEF Pieced
<1>3. Sequence(Piece(k, c, Head(s)))
  <2>1. 1 \in 1 .. Len(s)
    BY <1>1
  <2> QED BY <1>1, <2>1 DEF Pieced
<1>4. Gather(k, c, <<Head(s)>>) = Piece(k, c, Head(s)) /\ Pieced(k, c, <<Head(s)>>)
  BY <1>3, GatherOne
<1>5. Gather(k, c, <<Head(s)>> \o Tail(s)) = Cat(Gather(k, c, <<Head(s)>>), Gather(k, c, Tail(s)))
  <2> DEFINE a == <<Head(s)>>
             b == Tail(s)
  <2>1. Pieced(k, c, a) /\ Pieced(k, c, b)
    BY <1>2, <1>4
  <2> HIDE DEF a, b
  <2>2. Gather(k, c, Cat(a, b)) = Cat(Gather(k, c, a), Gather(k, c, b))
    BY <2>1, GatherJoin
  <2>3. Cat(a, b) = a \o b
    BY DEF Cat
  <2> QED BY <2>2, <2>3 DEF a, b
<1> QED BY <1>1, <1>2, <1>3, <1>4, <1>5, Zenon

LEMMA SendsIs ==
  ASSUME NEW s, Sequence(s)
  PROVE Sends(s) = Gather("sends", 0, s) /\ Pieced("sends", 0, s)
<1>1. Len(s) \in Nat /\ DOMAIN s = 1 .. Len(s)
  BY SequenceFacts
<1>2. ASSUME NEW x PROVE Sequence(Piece("sends", 0, x))
  <2>1. Piece("sends", 0, x) = IF x.kind = "Send" THEN <<x.batch>> ELSE <<>>
    BY DEF Piece
  <2>2. Sequence(<<x.batch>>) /\ Sequence(<<>>)
    BY OneIs, EmptyJoin
  <2> QED BY <2>1, <2>2
<1> QED BY <1>1, <1>2, SendsFolded DEF Gather, Pieced

LEMMA SendsEmpty == Sends(<<>>) = <<>>
<1>1. Sequence(<<>>) /\ "sends" \in Kinds
  BY EmptyJoin, OneIs DEF Kinds
<1> QED BY <1>1, SendsIs, GatherEmpty

LEMMA SendsAppend ==
  ASSUME NEW s, Sequence(s), NEW x
  PROVE Sends(Append(s, x)) = IF x.kind = "Send" THEN Append(Sends(s), x.batch) ELSE Sends(s)
<1>0. "sends" \in Kinds
  BY DEF Kinds
<1>1. Sends(s) = Gather("sends", 0, s) /\ Pieced("sends", 0, s)
  BY SendsIs
<1>2. Piece("sends", 0, x) = IF x.kind = "Send" THEN <<x.batch>> ELSE <<>>
  BY DEF Piece
<1>3. Sequence(Piece("sends", 0, x))
  BY <1>2, OneIs, EmptyJoin
<1>4. Sequence(Append(s, x))
  BY <1>0, <1>1, <1>3, GatherAppend DEF Pieced
<1>5. Gather("sends", 0, Append(s, x)) = Cat(Gather("sends", 0, s), Piece("sends", 0, x))
  BY <1>0, <1>1, <1>3, GatherAppend
<1>6. Sends(Append(s, x)) = Sends(s) \o Piece("sends", 0, x)
  BY <1>1, <1>4, <1>5, SendsIs DEF Cat
<1>7. Sequence(Sends(s))
  BY <1>0, <1>1, GatherJoin
<1>8. CASE x.kind = "Send"
  BY <1>2, <1>6, <1>7, <1>8, AppendIs
<1>9. CASE x.kind # "Send"
  BY <1>2, <1>6, <1>7, <1>9, EmptyJoin
<1> QED BY <1>8, <1>9

LEMMA SendsFront ==
  ASSUME NEW s, Sequence(s), s # <<>>
  PROVE /\ Sequence(Tail(s)) /\ Sequence(Sends(s)) /\ Sequence(Sends(Tail(s)))
        /\ Sends(s) = IF Head(s).kind = "Send" THEN Cat(<<Head(s).batch>>, Sends(Tail(s)))
                      ELSE Sends(Tail(s))
<1>0. "sends" \in Kinds
  BY DEF Kinds
<1>1. Sends(s) = Gather("sends", 0, s) /\ Pieced("sends", 0, s)
  BY SendsIs
<1>2. /\ Pieced("sends", 0, Tail(s))
      /\ Gather("sends", 0, s) = Cat(Piece("sends", 0, Head(s)), Gather("sends", 0, Tail(s)))
  BY <1>0, <1>1, GatherFront
<1>3. Sequence(Tail(s)) /\ Sends(Tail(s)) = Gather("sends", 0, Tail(s))
  BY <1>2, SendsIs DEF Pieced
<1>4. Sequence(Sends(s)) /\ Sequence(Sends(Tail(s)))
  BY <1>0, <1>1, <1>2, <1>3, GatherJoin
<1>5. Piece("sends", 0, Head(s)) = IF Head(s).kind = "Send" THEN <<Head(s).batch>> ELSE <<>>
  BY DEF Piece
<1>6. <<>> \o Sends(Tail(s)) = Sends(Tail(s))
  BY <1>4, EmptyJoin
<1>7. CASE Head(s).kind = "Send"
  BY <1>1, <1>2, <1>3, <1>4, <1>5, <1>7
<1>8. CASE Head(s).kind # "Send"
  <2>1. Sends(s) = Cat(<<>>, Sends(Tail(s)))
    BY <1>1, <1>2, <1>3, <1>5, <1>8
  <2>2. Sends(s) = Sends(Tail(s))
    BY <2>1, <1>6 DEF Cat
  <2> QED BY <1>3, <1>4, <1>8, <2>2
<1> QED BY <1>7, <1>8

LEMMA SendsJoin ==
  ASSUME NEW s, Sequence(s), NEW t, Sequence(t)
  PROVE Sends(Cat(s, t)) = Cat(Sends(s), Sends(t)) /\ Sequence(Sends(s)) /\ Sequence(Cat(s, t))
<1>0. "sends" \in Kinds
  BY DEF Kinds
<1>1. /\ Sends(s) = Gather("sends", 0, s) /\ Pieced("sends", 0, s)
      /\ Sends(t) = Gather("sends", 0, t) /\ Pieced("sends", 0, t)
  BY SendsIs
<1>2. /\ Pieced("sends", 0, Cat(s, t)) /\ Sequence(Gather("sends", 0, s))
      /\ Gather("sends", 0, Cat(s, t)) = Cat(Gather("sends", 0, s), Gather("sends", 0, t))
  BY <1>0, <1>1, GatherJoin
<1>3. Sequence(Cat(s, t))
  BY <1>2 DEF Pieced
<1> QED BY <1>1, <1>2, <1>3, SendsIs

LEMMA FlattenIs ==
  ASSUME NEW s, Pieced("flat", 0, s)
  PROVE FlattenSeq(s) = Gather("flat", 0, s)
<1> DEFINE n == Len(s)
<1>0. "flat" \in Kinds /\ n \in Nat /\ Sequence(s)
  BY SequenceFacts DEF Kinds, Pieced
<1>1. PICK h : Gathers(h, "flat", 0, s)
  BY <1>0, GatherWalks
<1>2. \A x : Piece("flat", 0, x) = x
  BY DEF Piece
<1>3. /\ h[0] = <<>> /\ Gather("flat", 0, s) = h[n]
      /\ \A i \in 0 .. n : Sequence(h[i])
  BY <1>1 DEF Gathers
<1>4. \A i \in 1 .. n : h[i] = h[i - 1] \o s[i] /\ Sequence(s[i])
  BY <1>1, <1>2 DEF Gathers, Pieced
<1>5. CASE n = 0
  <2>1. s = <<>>
    BY <1>0, <1>5 DEF Sequence
  <2> QED BY <1>3, <1>5, <2>1 DEF FlattenSeq
<1>6. CASE n # 0
  <2> DEFINE R(f) == f = [i \in 1 .. n |-> IF i = 1 THEN s[i] ELSE f[i - 1] \o s[i]]
             g == [i \in 1 .. n |-> h[i]]
             f == CHOOSE f : R(f)
  <2>1. 1 \in 1 .. n /\ 0 \in 0 .. n /\ n \in 1 .. n
    BY <1>0, <1>6
  <2>2. h[1] = s[1]
    <3>1. 1 - 1 = 0
      OBVIOUS
    <3>2. h[1] = h[1 - 1] \o s[1] /\ Sequence(s[1])
      BY <1>4, <2>1, Zenon
    <3>3. <<>> \o s[1] = s[1]
      BY <3>2, EmptyJoin
    <3> QED BY <3>1, <3>2, <3>3, <1>3, Zenon
  <2>3. R(g)
    <3>1. ASSUME NEW i \in 1 .. n PROVE g[i] = IF i = 1 THEN s[i] ELSE g[i - 1] \o s[i]
      <4>1. CASE i = 1
        BY <4>1, <2>2
      <4>2. CASE i # 1
        <5>1. i - 1 \in 1 .. n
          BY <1>0, <4>2
        <5>2. g[i - 1] = h[i - 1] /\ g[i] = h[i]
          BY <5>1
        <5>3. h[i] = h[i - 1] \o s[i]
          BY <1>4
        <5> QED BY <4>2, <5>2, <5>3
      <4> QED BY <4>1, <4>2
    <3> QED BY <3>1, Zenon
  <2>4. R(f)
    <3>1. \E e : R(e)
      BY <2>3, Zenon
    <3> QED BY <3>1, Zenon
  <2>5. FlattenSeq(s) = f[n]
    BY <1>6, Zenon DEF FlattenSeq
  <2> HIDE DEF f, g
  <2>6. \A i \in 1 .. n : f[i] = IF i = 1 THEN s[i] ELSE f[i - 1] \o s[i]
    BY <2>4, Zenon
  <2> DEFINE N == {i \in 1 .. n : f[i] # h[i]}
  <2>7. N = {}
    <3> SUFFICES ASSUME N # {} PROVE FALSE
      OBVIOUS
    <3>1. PICK m \in N : \A j \in N : m <= j
      <4>1. N \in SUBSET Nat
        OBVIOUS
      <4> HIDE DEF N
      <4> QED BY <4>1, LeastNumber
    <3>2. m \in 1 .. n /\ f[m] # h[m]
      OBVIOUS
    <3>3. m # 1
      BY <2>2, <2>6, <3>2
    <3>4. m - 1 \in 1 .. n /\ m - 1 \notin N
      <4> HIDE DEF N
      <4> QED BY <1>0, <3>1, <3>2, <3>3
    <3>5. f[m - 1] = h[m - 1]
      BY <3>4
    <3>6. f[m] = f[m - 1] \o s[m]
      BY <2>6, <3>2, <3>3
    <3>7. h[m] = h[m - 1] \o s[m]
      BY <1>4, <3>2
    <3> QED BY <3>2, <3>5, <3>6, <3>7
  <2>8. f[n] = h[n]
    BY <2>1, <2>7
  <2> QED BY <1>3, <2>5, <2>8
<1> QED BY <1>5, <1>6

LEMMA FoldedEmpty ==
  ASSUME NEW k, NEW c, NEW b
  PROVE Folded(k, c, b, <<>>) = b
<1>1. PICK h : Walk(h, k, c, b, <<>>) /\ Folded(k, c, b, <<>>) = h[Len(<<>>)]
  BY FoldedWalks
<1> QED BY <1>1 DEF Walk

LEMMA EmptySequence == Sequence(<<>>)
<1>1. <<>> \in Seq(Nat)
  OBVIOUS
<1> QED BY <1>1, SequenceIs

LEMMA RestWhole ==
  ASSUME NEW s, Sequence(s)
  PROVE Rest(s, 0) = s
<1>1. Len(s) \in Nat /\ 0 \in 0 .. Len(s)
  BY SequenceFacts
<1>2. /\ Sequence(Rest(s, 0)) /\ Len(Rest(s, 0)) = Len(s) - 0
      /\ \A i \in 1 .. Len(s) - 0 : Rest(s, 0)[i] = s[0 + i]
  BY <1>1, SequenceRest
<1>3. Len(Rest(s, 0)) = Len(s) /\ \A i \in 1 .. Len(s) : Rest(s, 0)[i] = s[i]
  BY <1>1, <1>2
<1> QED BY <1>2, <1>3, SequencesEqual

\* q is s with x behind it.
Appends(q, s, x) ==
  /\ Sequence(q) /\ Len(q) = Len(s) + 1 /\ q[Len(s) + 1] = x
  /\ \A i \in 1 .. Len(s) : q[i] = s[i]

LEMMA AppendSequence ==
  ASSUME NEW s, Sequence(s), NEW x
  PROVE Appends(Append(s, x), s, x)
<1> DEFINE S == Range(s) \cup {x}
<1>1. s \in Seq(S) /\ x \in S
  BY DEF Sequence
<1> HIDE DEF S
<1>2. /\ Append(s, x) \in Seq(S) /\ Len(Append(s, x)) = Len(s) + 1 /\ Append(s, x)[Len(s) + 1] = x
      /\ \A i \in 1 .. Len(s) : Append(s, x)[i] = s[i]
  BY <1>1
<1>3. Sequence(Append(s, x))
  BY <1>2, SequenceIs
<1> QED BY <1>2, <1>3 DEF Appends

LEMMA FoldedAppend ==
  ASSUME NEW k, NEW c, NEW b, NEW s, Sequence(s), NEW x
  PROVE Folded(k, c, b, Append(s, x)) = Step(k, c, Folded(k, c, b, s), x)
<1> DEFINE t == Append(s, x)
           n == Len(s)
<1>0. n \in Nat
  BY SequenceFacts
<1>1. /\ Sequence(t) /\ Len(t) = n + 1 /\ t[n + 1] = x
      /\ \A i \in 1 .. n : t[i] = s[i]
  BY AppendSequence DEF Appends
<1> HIDE DEF t
<1>2. PICK h : Walk(h, k, c, b, s) /\ Folded(k, c, b, s) = h[n]
  BY <1>0, <1>1, FoldedWalks
<1>3. PICK g : Walk(g, k, c, b, t) /\ Folded(k, c, b, t) = g[n + 1]
  BY <1>0, <1>1, FoldedWalks
<1>4. h[n] = g[n]
  BY <1>0, <1>1, <1>2, <1>3, WalksAgree
<1>5. n + 1 \in 1 .. Len(t) /\ (n + 1) - 1 = n
  BY <1>0, <1>1
<1>6. g[n + 1] = Step(k, c, g[n], x)
  BY <1>1, <1>3, <1>5 DEF Walk
<1> QED BY <1>2, <1>3, <1>4, <1>6 DEF t

\* A fold stays in the sets that its steps lead from one to the next.
LEMMA FoldedIn ==
  ASSUME NEW k, NEW c, NEW b, NEW s, Len(s) \in Nat, NEW S, b \in S[0],
         \A i \in 1 .. Len(s) : \A v \in S[i - 1] : Step(k, c, v, s[i]) \in S[i]
  PROVE Folded(k, c, b, s) \in S[Len(s)]
<1> DEFINE n == Len(s)
<1>1. PICK h : Walk(h, k, c, b, s) /\ Folded(k, c, b, s) = h[n]
  BY FoldedWalks
<1> DEFINE N == {m \in 0 .. n : h[m] \notin S[m]}
<1>2. N = {}
  <2> SUFFICES ASSUME N # {} PROVE FALSE
    OBVIOUS
  <2>1. PICK m \in N : \A j \in N : m <= j
    <3>1. N \in SUBSET Nat
      OBVIOUS
    <3> HIDE DEF N
    <3> QED BY <3>1, LeastNumber
  <2>2. m # 0
    BY <1>1 DEF Walk
  <2>3. m \in 1 .. n /\ m - 1 \in 0 .. n /\ m - 1 \notin N
    BY <2>1, <2>2
  <2>4. h[m - 1] \in S[m - 1]
    BY <2>3
  <2>5. h[m] = Step(k, c, h[m - 1], s[m])
    BY <1>1, <2>3 DEF Walk
  <2> QED BY <2>3, <2>4, <2>5
<1> QED BY <1>1, <1>2

----------------------------------------------------------------------------
(* Sizes of datagrams.                                                     *)

\* A frame is well formed and, if it is in range, its fields fit their widths.
Frame == {f \in ShapedLong \cup ShapedShort : Shaped(f) /\ (InRange(f) => Encodable(f))}

LEMMA FrameIs ==
  ASSUME NEW f
  PROVE f \in Frame <=> Shaped(f) /\ (InRange(f) => Encodable(f))
BY DEF Frame, Shaped

LEMMA SizeAppend ==
  ASSUME NEW s, Sequence(s), NEW f
  PROVE PacketSize(Append(s, f)) = PacketSize(s) + encoded_size(f)
<1>1. Sequence(Append(s, f))
  BY AppendSequence DEF Appends
<1>2. \A t : Sequence(t) => PacketSize(t) = Folded("size", 0, 0, t)
  BY SequenceFacts, SizeFolded
<1>3. Folded("size", 0, 0, Append(s, f)) = Step("size", 0, Folded("size", 0, 0, s), f)
  BY FoldedAppend
<1>4. \A v : Step("size", 0, v, f) = v + encoded_size(f)
  BY DEF Step
<1> QED BY <1>1, <1>2, <1>3, <1>4

LEMMA SizeEmpty == PacketSize(<<>>) = 0
<1>1. Len(<<>>) \in Nat /\ DOMAIN <<>> = 1 .. Len(<<>>)
  OBVIOUS
<1>2. PacketSize(<<>>) = Folded("size", 0, 0, <<>>)
  BY <1>1, SizeFolded
<1> QED BY <1>2, FoldedEmpty

LEMMA SerializedSize ==
  ASSUME NEW fs, Sequence(fs), \A i \in 1 .. Len(fs) : Shaped(fs[i])
  PROVE /\ serialize_frames(fs) \in Seq(Nat) /\ Len(serialize_frames(fs)) = PacketSize(fs)
        /\ PacketSize(fs) \in Nat
<1>1. PICK h : Written(h, fs)
  BY WrittenExists
<1> DEFINE g == [i \in 0 .. Len(fs) |-> Len(h[i])]
<1>2. Len(fs) \in Nat /\ DOMAIN fs = 1 .. Len(fs)
  BY SequenceFacts
<1>3. ASSUME NEW i \in 1 .. Len(fs) PROVE g[i] = Step("size", 0, g[i - 1], fs[i])
  <2>1. Len(h[i]) = Len(h[i - 1]) + encoded_size(fs[i])
    BY <1>1 DEF Written
  <2>2. i \in 0 .. Len(fs) /\ i - 1 \in 0 .. Len(fs)
    BY <1>2
  <2>3. g[i] = g[i - 1] + encoded_size(fs[i])
    BY <2>1, <2>2
  <2> HIDE DEF g
  <2> QED BY <2>3 DEF Step
<1>4. g[0] = 0 /\ g[Len(fs)] = Len(h[Len(fs)])
  BY <1>1, <1>2 DEF Written
<1> HIDE DEF g
<1>5. Walk(g, "size", 0, 0, fs)
  BY <1>3, <1>4 DEF Walk
<1>6. PacketSize(fs) = g[Len(fs)]
  BY <1>2, <1>5, SizeFolded, FoldedIs
<1>7. serialize_frames(fs) = h[Len(fs)] /\ h[Len(fs)] \in Seq(Nat)
  BY <1>1, <1>2 DEF Written
<1> QED BY <1>4, <1>6, <1>7

\* The frames of a datagram; only a single frame may exceed MaxPacket.
Packet == {fs \in Seq(Frame) : Len(fs) > 1 => PacketSize(fs) <= MaxPacket}

LEMMA FramesSized ==
  ASSUME NEW fs \in Seq(Frame)
  PROVE PacketSize(fs) \in Nat /\ Len(serialize_frames(fs)) = PacketSize(fs)
<1>1. Sequence(fs) /\ \A i \in 1 .. Len(fs) : fs[i] \in Frame
  BY SequenceIs
<1>2. \A i \in 1 .. Len(fs) : Shaped(fs[i])
  BY <1>1, FrameIs
<1> QED BY <1>1, <1>2, SerializedSize

\* A datagram being filled.
Filled(fs, n) == fs \in Packet /\ n = PacketSize(fs) /\ n \in Nat

LEMMA FillEmpty == Filled(<<>>, 0)
BY SizeEmpty DEF Filled, Packet

LEMMA FillOne ==
  ASSUME NEW f \in Frame
  PROVE Filled(<<f>>, encoded_size(f)) /\ encoded_size(f) \in Nat
<1>1. Append(<<>>, f) = <<f>> /\ Sequence(<<>>)
  BY EmptySequence
<1>2. encoded_size(f) \in Nat
  BY FrameIs, EncodeIs
<1>3. PacketSize(<<f>>) = 0 + encoded_size(f)
  BY <1>1, SizeAppend, SizeEmpty
<1>4. <<f>> \in Seq(Frame) /\ Len(<<f>>) = 1
  OBVIOUS
<1>5. <<f>> \in Packet
  BY <1>4 DEF Packet
<1> QED BY <1>2, <1>3, <1>5 DEF Filled

LEMMA FillMore ==
  ASSUME NEW fs, NEW n, Filled(fs, n), NEW f \in Frame, n + encoded_size(f) <= MaxPacket
  PROVE Filled(Append(fs, f), n + encoded_size(f))
<1>1. fs \in Seq(Frame) /\ n = PacketSize(fs) /\ n \in Nat
  BY DEF Filled, Packet
<1>2. encoded_size(f) \in Nat
  BY FrameIs, EncodeIs
<1>3. Sequence(fs)
  BY <1>1, SequenceIs
<1>4. PacketSize(Append(fs, f)) = n + encoded_size(f)
  BY <1>1, <1>3, SizeAppend
<1>5. Append(fs, f) \in Seq(Frame)
  BY <1>1
<1>6. Append(fs, f) \in Packet
  BY <1>4, <1>5 DEF Packet
<1>7. n + encoded_size(f) \in Nat
  BY <1>1, <1>2
<1> QED BY <1>4, <1>6, <1>7 DEF Filled

Builder == {b \in [frames : Packet, size : Nat, sent : Seq(Packet)] : Filled(b.frames, b.size)}

LEMMA FlushIs ==
  ASSUME NEW b \in Builder
  PROVE /\ flush(b) \in Builder /\ flush(b).frames = <<>> /\ flush(b).sent \in Seq(Packet)
        /\ flush(b).size = 0
<1>1. b.frames \in Packet /\ b.size \in Nat /\ b.sent \in Seq(Packet) /\ Filled(b.frames, b.size)
  BY DEF Builder
<1>2. CASE b.frames = <<>>
  <2>1. flush(b) = b /\ b.size = 0
    BY <1>1, <1>2, SizeEmpty DEF flush, Filled
  <2> QED BY <1>1, <1>2, <2>1
<1>3. CASE b.frames # <<>>
  <2>1. flush(b) = [frames |-> <<>>, size |-> 0, sent |-> Append(b.sent, b.frames)]
    BY <1>3 DEF flush
  <2>2. Append(b.sent, b.frames) \in Seq(Packet)
    BY <1>1
  <2>3. Filled(<<>>, 0) /\ <<>> \in Packet
    BY FillEmpty DEF Filled
  <2>4. flush(b) \in [frames : Packet, size : Nat, sent : Seq(Packet)]
    BY <2>1, <2>2, <2>3
  <2> QED BY <2>1, <2>2, <2>3, <2>4 DEF Builder
<1> QED BY <1>2, <1>3

LEMMA AddFrame ==
  ASSUME NEW b \in Builder, NEW f \in Frame
  PROVE add_frame(b, f) \in Builder
<1> DEFINE c == IF b.frames # <<>> /\ b.size + encoded_size(f) > MaxPacket THEN flush(b) ELSE b
           g == Append(c.frames, f)
           n == c.size + encoded_size(f)
<1>1. c \in Builder
  BY FlushIs
<1>2. Filled(g, n)
  <2>0. b.size \in Nat /\ encoded_size(f) \in Nat /\ MaxPacket \in Nat
    BY FillOne, PacketizerAssumption DEF Builder
  <2>1. CASE b.frames # <<>> /\ b.size + encoded_size(f) <= MaxPacket
    <3>1. c = b /\ Filled(b.frames, b.size)
      BY <2>0, <2>1 DEF Builder
    <3> HIDE DEF c
    <3> QED BY <2>1, <3>1, FillMore
  <2>2. CASE ~ (b.frames # <<>> /\ b.size + encoded_size(f) <= MaxPacket)
    <3>0. b.size \in Nat /\ encoded_size(f) \in Nat /\ Filled(b.frames, b.size) /\ MaxPacket \in Nat
      BY FillOne, PacketizerAssumption DEF Builder
    <3>1. c.frames = <<>> /\ c.size = 0
      <4>1. CASE b.frames = <<>>
        BY <3>0, <4>1, SizeEmpty DEF Filled
      <4>2. CASE b.frames # <<>>
        <5>1. b.size + encoded_size(f) > MaxPacket
          BY <2>2, <3>0, <4>2
        <5>2. c = flush(b)
          BY <5>1, <4>2
        <5> QED BY <5>2, FlushIs
      <4> QED BY <4>1, <4>2
    <3> HIDE DEF c
    <3>2. g = <<f>> /\ n = encoded_size(f)
      BY <3>0, <3>1
    <3> QED BY <3>2, FillOne
  <2> QED BY <2>1, <2>2
<1>3. add_frame(b, f) = [c EXCEPT !.frames = g, !.size = n]
  BY DEF add_frame
<1> HIDE DEF c
<1>4. c = [frames |-> c.frames, size |-> c.size, sent |-> c.sent] /\ c.sent \in Seq(Packet)
  BY <1>1 DEF Builder
<1> HIDE DEF g, n
<1>5. add_frame(b, f) = [frames |-> g, size |-> n, sent |-> c.sent]
  BY <1>3, <1>4
<1>6. g \in Packet /\ n \in Nat
  BY <1>2 DEF Filled
<1>7. add_frame(b, f) \in [frames : Packet, size : Nat, sent : Seq(Packet)]
  BY <1>4, <1>5, <1>6
<1> QED BY <1>2, <1>5, <1>7 DEF Builder

LEMMA BuildPacketsIs ==
  ASSUME NEW frames \in Seq(Frame)
  PROVE BuildPackets(frames) \in Seq(Packet)
<1> DEFINE all == Folded("frame", 0, NewBuilder, frames)
           S == [i \in 0 .. Len(frames) |-> Builder]
<1>1. Sequence(frames) /\ Len(frames) \in Nat /\ DOMAIN frames = 1 .. Len(frames)
      /\ \A i \in 1 .. Len(frames) : frames[i] \in Frame
  BY SequenceIs
<1>2. NewBuilder \in S[0]
  <2>1. Filled(<<>>, 0) /\ <<>> \in Packet
    BY FillEmpty DEF Filled
  <2>2. NewBuilder \in Builder
    BY <2>1 DEF Builder, NewBuilder
  <2> QED BY <1>1, <2>2
<1>3. ASSUME NEW i \in 1 .. Len(frames), NEW v \in S[i - 1]
      PROVE Step("frame", 0, v, frames[i]) \in S[i]
  <2>1. v \in Builder /\ S[i] = Builder
    BY <1>1
  <2>2. Step("frame", 0, v, frames[i]) = add_frame(v, frames[i])
    BY DEF Step
  <2> QED BY <1>1, <2>1, <2>2, AddFrame
<1>4. S[Len(frames)] = Builder
  BY <1>1
<1> HIDE DEF S
<1>5. all \in S[Len(frames)]
  BY <1>1, <1>2, <1>3, FoldedIn
<1>6. BuildPackets(frames) = flush(all).sent
  BY <1>1, FrameFolded DEF BuildPackets
<1> HIDE DEF all
<1> QED BY <1>4, <1>5, <1>6, FlushIs

Grouping == {a \in [packets : Seq(Packet), current : Packet, size : Nat] : Filled(a.current, a.size)}

LEMMA ZeroRttFrameIs ==
  ASSUME NEW a \in Grouping, NEW f \in Frame
  PROVE ZeroRttFrame(a, f) \in Grouping
<1> DEFINE n == encoded_size(f)
           m == a.size + n
           g == Append(a.current, f)
           p == Append(a.packets, a.current)
<1>1. /\ a = [packets |-> a.packets, current |-> a.current, size |-> a.size]
      /\ a.packets \in Seq(Packet) /\ a.current \in Packet /\ a.size \in Nat
      /\ Filled(a.current, a.size) /\ n \in Nat /\ MaxPacket \in Nat
  BY FillOne, PacketizerAssumption DEF Grouping
<1>2. CASE a.size + n <= MaxPacket
  <2>1. Filled(g, m)
    BY <1>1, <1>2, FillMore
  <2>2. ZeroRttFrame(a, f) = [a EXCEPT !.current = g, !.size = m]
    BY <1>2 DEF ZeroRttFrame
  <2> HIDE DEF g, m, n
  <2>3. ZeroRttFrame(a, f) = [packets |-> a.packets, current |-> g, size |-> m]
    BY <1>1, <2>2
  <2>4. g \in Packet /\ m \in Nat
    BY <2>1 DEF Filled
  <2>5. ZeroRttFrame(a, f) \in [packets : Seq(Packet), current : Packet, size : Nat]
    BY <1>1, <2>3, <2>4
  <2> QED BY <2>1, <2>3, <2>5 DEF Grouping
<1>3. CASE ~ (a.size + n <= MaxPacket)
  <2>1. ZeroRttFrame(a, f) = [packets |-> p, current |-> <<f>>, size |-> n]
    BY <1>3 DEF ZeroRttFrame
  <2>2. p \in Seq(Packet)
    BY <1>1
  <2>3. Filled(<<f>>, n) /\ <<f>> \in Packet
    BY FillOne DEF Filled
  <2> HIDE DEF p, n
  <2>4. ZeroRttFrame(a, f) \in [packets : Seq(Packet), current : Packet, size : Nat]
    BY <1>1, <2>1, <2>2, <2>3
  <2> QED BY <2>1, <2>3, <2>4 DEF Grouping
<1> QED BY <1>2, <1>3

LEMMA ZeroRttIs ==
  ASSUME NEW pushes \in Seq(Frame), NEW synAck \in Frame
  PROVE packetize_zero_rtt(pushes, synAck) \in Seq(Packet)
<1> DEFINE b == [packets |-> <<>>, current |-> <<synAck>>, size |-> encoded_size(synAck)]
           all == Folded("zero", 0, b, pushes)
           S == [i \in 0 .. Len(pushes) |-> Grouping]
<1>1. Sequence(pushes) /\ Len(pushes) \in Nat /\ DOMAIN pushes = 1 .. Len(pushes)
      /\ \A i \in 1 .. Len(pushes) : pushes[i] \in Frame
  BY SequenceIs
<1>2. b \in S[0]
  <2>1. Filled(<<synAck>>, encoded_size(synAck)) /\ <<synAck>> \in Packet /\ encoded_size(synAck) \in Nat
    BY FillOne DEF Filled
  <2>2. b \in Grouping
    BY <2>1 DEF Grouping
  <2> QED BY <1>1, <2>2
<1>3. ASSUME NEW i \in 1 .. Len(pushes), NEW v \in S[i - 1]
      PROVE Step("zero", 0, v, pushes[i]) \in S[i]
  <2>1. v \in Grouping /\ S[i] = Grouping
    BY <1>1
  <2>2. Step("zero", 0, v, pushes[i]) = ZeroRttFrame(v, pushes[i])
    BY DEF Step
  <2> QED BY <1>1, <2>1, <2>2, ZeroRttFrameIs
<1>4. S[Len(pushes)] = Grouping
  BY <1>1
<1> HIDE DEF S
<1>5. all \in S[Len(pushes)]
  <2> HIDE DEF b
  <2> QED BY <1>1, <1>2, <1>3, FoldedIn
<1>6. packetize_zero_rtt(pushes, synAck) = Append(all.packets, all.current)
  BY <1>1, ZeroFolded DEF packetize_zero_rtt
<1> HIDE DEF all
<1>7. all.packets \in Seq(Packet) /\ all.current \in Packet
  BY <1>4, <1>5 DEF Grouping
<1> QED BY <1>6, <1>7

----------------------------------------------------------------------------
(* The frames an endpoint makes.                                           *)

Headers == [command : ShortCommands, cid : Word, length : Half, window : Half,
            timestamp : Word, seq : Nat, next : Word]

Heads(h, c, seq, n) ==
  h \in Headers /\ h.command = c /\ h.seq = seq /\ (n \in Half => h.length = n)

LEMMA HeaderIs ==
  ASSUME NEW c \in ShortCommands, NEW cid \in Word, NEW length \in Nat, NEW window \in Half,
         NEW timestamp \in Word, NEW seq \in Nat, NEW next \in Word
  PROVE Heads(ShortHeader(c, cid, length, window, timestamp, seq, next), c, seq, length)
<1> DEFINE n == length % 65536
<1>1. n \in Half /\ (length \in Half => n = length)
  BY SMT DEF Half
<1>2. ShortHeader(c, cid, length, window, timestamp, seq, next)
        = [command |-> c, cid |-> cid, length |-> n, window |-> window,
           timestamp |-> timestamp, seq |-> seq, next |-> next]
  BY DEF ShortHeader
<1> HIDE DEF n
<1> QED BY <1>1, <1>2 DEF Headers, Heads

LEMMA Numbers == 0 \in Half /\ 8 \in Half /\ 0 \in Word /\ 0 \in Nat /\ 8 \in Nat
BY SMT DEF Half, Word

LEMMA ShortFrameIs ==
  ASSUME NEW h \in Headers, NEW b \in Seq(Nat),
         IsPath(h.command) => Len(b) = 1 /\ b[1] \in Word /\ h.length = 8,
         HasPayload(h.command) /\ Len(b) \in Half => h.length = Len(b),
         ~ IsPath(h.command) /\ ~ HasPayload(h.command) => b = <<>> /\ h.length = 0
  PROVE [header |-> h, body |-> b] \in Frame
<1> DEFINE f == [header |-> h, body |-> b]
<1>1. f \in ShapedShort /\ f.header = h /\ f.body = b
  BY WordIs DEF ShapedShort, Headers
<1>2. ASSUME InRange(f) PROVE Encodable(f)
  <2>1. h.command \in ShortCommands /\ ~ is_long_header(h.command)
    BY DEF Headers, ShortCommands, is_long_header
  <2>2. h.seq \in Word /\ Len(b) \in Half
    BY <1>1, <1>2, <2>1 DEF InRange, command
  <2>3. h \in ShortHeaders
    BY <2>2 DEF Headers, ShortHeaders
  <2>4. f \in ShortFrame
    BY <2>3 DEF ShortFrame, ShortHeaders, ShortCommands
  <2> HIDE DEF f
  <2> QED BY <1>1, <2>2, <2>4 DEF Encodable, command
<1>3. Shaped(f)
  BY <1>1 DEF Shaped
<1> QED BY <1>1, <1>2, <1>3 DEF Frame

\* f is a frame of command c with the number seq and the given body.
Makes(f, c, seq, body) ==
  f \in Frame /\ command(f) = c /\ f.header.seq = seq /\ f.body = body

LEMMA PushIs ==
  ASSUME NEW cid \in Word, NEW seq \in Nat, NEW next \in Word, NEW window \in Half,
         NEW timestamp \in Word, NEW payload \in Seq(Nat)
  PROVE Makes(new_push(cid, seq, next, window, timestamp, payload), "Push", seq, payload)
<1> DEFINE n == Len(payload)
           h == ShortHeader("Push", cid, n, window, timestamp, seq, next)
<1>1. "Push" \in ShortCommands /\ ~ IsPath("Push") /\ HasPayload("Push") /\ n \in Nat
  BY DEF ShortCommands, IsPath, HasPayload
<1>3. new_push(cid, seq, next, window, timestamp, payload) = [header |-> h, body |-> payload]
  BY DEF new_push
<1> HIDE DEF n
<1>2. h \in Headers /\ h.command = "Push" /\ h.seq = seq /\ (n \in Half => h.length = n)
  <2>1. Heads(h, "Push", seq, n)
    BY <1>1, HeaderIs
  <2> QED BY <2>1 DEF Heads
<1> HIDE DEF h
<1>4. [header |-> h, body |-> payload] \in Frame
  BY <1>1, <1>2, ShortFrameIs DEF n
<1> QED BY <1>2, <1>3, <1>4 DEF command, Makes

LEMMA FinIs ==
  ASSUME NEW cid \in Word, NEW seq \in Nat, NEW timestamp \in Word, NEW next \in Word,
         NEW window \in Half
  PROVE Makes(new_fin(cid, seq, timestamp, next, window), "Fin", seq, <<>>)
<1> DEFINE h == ShortHeader("Fin", cid, 0, window, timestamp, seq, next)
<1>1. "Fin" \in ShortCommands /\ ~ IsPath("Fin") /\ ~ HasPayload("Fin") /\ <<>> \in Seq(Nat)
  BY DEF ShortCommands, IsPath, HasPayload
<1>2. h \in Headers /\ h.command = "Fin" /\ h.seq = seq /\ h.length = 0
  <2>1. Heads(h, "Fin", seq, 0)
    BY <1>1, Numbers, HeaderIs
  <2> QED BY <2>1, Numbers DEF Heads
<1>3. new_fin(cid, seq, timestamp, next, window) = [header |-> h, body |-> <<>>]
  BY DEF new_fin
<1> HIDE DEF h
<1>4. [header |-> h, body |-> <<>>] \in Frame
  BY <1>1, <1>2, ShortFrameIs
<1> QED BY <1>2, <1>3, <1>4 DEF command, Makes

LEMMA ChallengeIs ==
  ASSUME NEW cid \in Word, NEW seq \in Nat, NEW timestamp \in Word, NEW data \in Word
  PROVE /\ new_path_challenge(cid, seq, timestamp, data) \in Frame
        /\ command(new_path_challenge(cid, seq, timestamp, data)) = "PathChallenge"
<1> DEFINE h == ShortHeader("PathChallenge", cid, 8, 0, timestamp, seq, 0)
<1>1. "PathChallenge" \in ShortCommands /\ IsPath("PathChallenge") /\ ~ HasPayload("PathChallenge")
  BY DEF ShortCommands, IsPath, HasPayload
<1>2. h \in Headers /\ h.command = "PathChallenge" /\ h.length = 8
  <2>1. Heads(h, "PathChallenge", seq, 8)
    BY <1>1, Numbers, HeaderIs
  <2> QED BY <2>1, Numbers DEF Heads
<1>3. new_path_challenge(cid, seq, timestamp, data) = [header |-> h, body |-> <<data>>]
  BY DEF new_path_challenge
<1>5. <<data>> \in Seq(Nat) /\ Len(<<data>>) = 1 /\ <<data>>[1] \in Word
  BY WordIs
<1> HIDE DEF h
<1>4. [header |-> h, body |-> <<data>>] \in Frame
  BY <1>1, <1>2, <1>5, ShortFrameIs
<1> QED BY <1>2, <1>3, <1>4 DEF command

LEMMA SackRangesIs ==
  ASSUME NEW ranges \in Seq(Word \X Word)
  PROVE encode_sack_ranges(ranges) \in Seq(Nat)
<1> DEFINE S == [i \in 0 .. Len(ranges) |-> Seq(Nat)]
<1>1. Len(ranges) \in Nat /\ DOMAIN ranges = 1 .. Len(ranges)
      /\ \A i \in 1 .. Len(ranges) : ranges[i] \in Word \X Word
  OBVIOUS
<1>2. <<>> \in S[0]
  BY <1>1
<1>3. ASSUME NEW i \in 1 .. Len(ranges), NEW v \in S[i - 1]
      PROVE Step("ranges", 0, v, ranges[i]) \in S[i]
  <2>1. v \in Seq(Nat) /\ S[i] = Seq(Nat)
    BY <1>1
  <2>2. ranges[i][1] \in Nat /\ ranges[i][2] \in Nat /\ 4 \in Width
    BY <1>1, WordIs
  <2>3. put(ranges[i][1], 4) \in Seq(Nat) /\ put(ranges[i][2], 4) \in Seq(Nat)
    BY <2>2, PutIs
  <2>4. Step("ranges", 0, v, ranges[i]) = v \o put(ranges[i][1], 4) \o put(ranges[i][2], 4)
    BY DEF Step
  <2> DEFINE x == put(ranges[i][1], 4)
             y == put(ranges[i][2], 4)
  <2> HIDE DEF S, x, y
  <2>5. (v \o x) \o y \in Seq(Nat)
    BY <2>1, <2>3 DEF x, y
  <2> QED BY <2>1, <2>4, <2>5 DEF x, y
<1>4. S[Len(ranges)] = Seq(Nat)
  BY <1>1
<1> HIDE DEF S
<1>5. Folded("ranges", 0, <<>>, ranges) \in S[Len(ranges)]
  BY <1>1, <1>2, <1>3, FoldedIn
<1> QED BY <1>1, <1>4, <1>5, RangesFolded

LEMMA AckIs ==
  ASSUME NEW cid \in Word, NEW next \in Word, NEW window \in Half,
         NEW ranges \in Seq(Word \X Word), NEW timestamp \in Word
  PROVE /\ new_ack(cid, next, window, ranges, timestamp) \in Frame
        /\ command(new_ack(cid, next, window, ranges, timestamp)) = "Ack"
<1> DEFINE p == encode_sack_ranges(ranges)
           n == Len(p)
           h == ShortHeader("Ack", cid, n, window, timestamp, 0, next)
<1>1. "Ack" \in ShortCommands /\ ~ IsPath("Ack") /\ HasPayload("Ack")
  BY DEF ShortCommands, IsPath, HasPayload
<1>2. p \in Seq(Nat)
  BY SackRangesIs
<1>3. new_ack(cid, next, window, ranges, timestamp) = [header |-> h, body |-> p]
  BY DEF new_ack
<1> HIDE DEF p
<1>6. n \in Nat
  BY <1>2
<1> HIDE DEF n
<1>4. h \in Headers /\ h.command = "Ack" /\ (n \in Half => h.length = n)
  <2>1. Heads(h, "Ack", 0, n)
    BY <1>1, <1>6, Numbers, HeaderIs
  <2> QED BY <2>1 DEF Heads
<1> HIDE DEF h
<1>5. [header |-> h, body |-> p] \in Frame
  BY <1>1, <1>2, <1>4, ShortFrameIs DEF n
<1> QED BY <1>3, <1>4, <1>5 DEF command

LEMMA SynIs ==
  ASSUME NEW version \in Octet, NEW source \in Word, NEW destination \in Word
  PROVE /\ new_syn(version, source, destination) \in Frame
        /\ new_syn_ack(version, source, destination) \in Frame
        /\ command(new_syn(version, source, destination)) = "Syn"
        /\ command(new_syn_ack(version, source, destination)) = "SynAck"
        /\ encoded_size(new_syn(version, source, destination)) = 10
<1>1. new_syn(version, source, destination) \in ShapedLong
  BY WordIs DEF new_syn, ShapedLong, LongCommands
<1>2. new_syn_ack(version, source, destination) \in ShapedLong
  BY WordIs DEF new_syn_ack, ShapedLong, LongCommands
<1>6. /\ new_syn(version, source, destination) \in LongFrame
      /\ new_syn_ack(version, source, destination) \in LongFrame
  BY DEF new_syn, new_syn_ack, LongFrame
<1>3. /\ command(new_syn(version, source, destination)) = "Syn"
      /\ command(new_syn_ack(version, source, destination)) = "SynAck"
  BY DEF new_syn, new_syn_ack, command
<1>4. is_long_header("Syn") /\ ~ HasPayload("Syn") /\ ~ IsPath("Syn")
  BY DEF is_long_header, HasPayload, IsPath
<1>5. encoded_size(new_syn(version, source, destination)) = 10
  BY <1>3, <1>4 DEF encoded_size, LongSize
<1> QED BY <1>1, <1>2, <1>3, <1>5, <1>6 DEF Frame, Shaped, Encodable

----------------------------------------------------------------------------
(* The send buffer.                                                        *)

LEMMA FlatPieced ==
  ASSUME NEW S, NEW ps \in Seq(Seq(S))
  PROVE /\ Pieced("flat", 0, ps) /\ FlattenSeq(ps) = Gather("flat", 0, ps)
        /\ Sequence(FlattenSeq(ps)) /\ "flat" \in Kinds
<1>1. Sequence(ps) /\ \A i \in 1 .. Len(ps) : ps[i] \in Seq(S)
  BY SequenceIs
<1>2. \A i \in 1 .. Len(ps) : Sequence(ps[i])
  BY <1>1, SequenceIs
<1>3. \A x : Piece("flat", 0, x) = x
  BY DEF Piece
<1>4. Pieced("flat", 0, ps)
  BY <1>1, <1>2, <1>3 DEF Pieced
<1>5. "flat" \in Kinds
  BY DEF Kinds
<1>6. Sequence(Gather("flat", 0, ps))
  BY <1>4, <1>5, GatherJoin
<1> QED BY <1>4, <1>5, <1>6, FlattenIs

LEMMA FlatIn ==
  ASSUME NEW S, NEW ps \in Seq(Seq(S))
  PROVE FlattenSeq(ps) \in Seq(S)
<1> DEFINE W == [i \in 0 .. Len(ps) |-> Seq(S)]
<1>1. Len(ps) \in Nat /\ \A i \in 1 .. Len(ps) : ps[i] \in Seq(S)
  OBVIOUS
<1>2. <<>> \in W[0] /\ W[Len(ps)] = Seq(S)
  BY <1>1
<1>3. ASSUME NEW i \in 1 .. Len(ps), NEW v \in W[i - 1]
      PROVE Step("flat", 0, v, ps[i]) \in W[i]
  <2>1. v \in Seq(S) /\ W[i] = Seq(S)
    BY <1>1
  <2>2. Step("flat", 0, v, ps[i]) = v \o ps[i]
    BY DEF Step
  <2>3. ps[i] \in Seq(S)
    BY <1>1
  <2>4. v \o ps[i] \in Seq(S)
    BY <2>1, <2>3
  <2> HIDE DEF W
  <2> QED BY <2>1, <2>2, <2>4
<1> HIDE DEF W
<1>4. Folded("flat", 0, <<>>, ps) \in W[Len(ps)]
  BY <1>1, <1>2, <1>3, FoldedIn
<1> QED BY <1>2, <1>4, FlatPieced DEF Gather

LEMMA FlatEmpty == FlattenSeq(<<>>) = <<>>
BY DEF FlattenSeq

LEMMA FlatJoin ==
  ASSUME NEW S, NEW ps \in Seq(Seq(S)), NEW qs \in Seq(Seq(S))
  PROVE FlattenSeq(Cat(ps, qs)) = Cat(FlattenSeq(ps), FlattenSeq(qs))
<1>1. Cat(ps, qs) \in Seq(Seq(S))
  BY DEF Cat
<1>2. "flat" \in Kinds /\ Pieced("flat", 0, ps) /\ Pieced("flat", 0, qs)
  BY FlatPieced
<1>3. Gather("flat", 0, Cat(ps, qs)) = Cat(Gather("flat", 0, ps), Gather("flat", 0, qs))
  BY <1>2, GatherJoin
<1> QED BY <1>1, <1>3, FlatPieced

LEMMA FlatOne ==
  ASSUME NEW S, NEW p \in Seq(S)
  PROVE FlattenSeq(<<p>>) = p
<1>1. <<p>> \in Seq(Seq(S)) /\ "flat" \in Kinds
  BY DEF Kinds
<1>2. Piece("flat", 0, p) = p /\ Sequence(p)
  BY SequenceIs DEF Piece
<1>3. Gather("flat", 0, <<p>>) = p
  BY <1>1, <1>2, GatherOne
<1> QED BY <1>1, <1>3, FlatPieced

LEMMA FlatAppend ==
  ASSUME NEW S, NEW ps \in Seq(Seq(S)), NEW p \in Seq(S)
  PROVE FlattenSeq(Append(ps, p)) = Cat(FlattenSeq(ps), p)
<1>1. <<p>> \in Seq(Seq(S)) /\ Append(ps, p) = ps \o <<p>>
  OBVIOUS
<1>2. Append(ps, p) = Cat(ps, <<p>>)
  BY <1>1 DEF Cat
<1>3. FlattenSeq(Cat(ps, <<p>>)) = Cat(FlattenSeq(ps), FlattenSeq(<<p>>))
  BY <1>1, FlatJoin
<1> QED BY <1>2, <1>3, FlatOne

LEMMA FlatFront ==
  ASSUME NEW S, NEW ps \in Seq(Seq(S)), ps # <<>>
  PROVE /\ FlattenSeq(ps) = Cat(Head(ps), FlattenSeq(Tail(ps)))
        /\ Head(ps) \in Seq(S) /\ Tail(ps) \in Seq(Seq(S))
<1> DEFINE p == Head(ps)
           t == Tail(ps)
<1>1. p \in Seq(S) /\ t \in Seq(Seq(S)) /\ <<p>> \in Seq(Seq(S)) /\ ps = <<p>> \o t
  OBVIOUS
<1> HIDE DEF p, t
<1>2. ps = Cat(<<p>>, t)
  BY <1>1 DEF Cat
<1>3. FlattenSeq(Cat(<<p>>, t)) = Cat(FlattenSeq(<<p>>), FlattenSeq(t))
  BY <1>1, FlatJoin
<1>4. FlattenSeq(ps) = Cat(p, FlattenSeq(t))
  BY <1>1, <1>2, <1>3, FlatOne
<1> QED BY <1>1, <1>4 DEF p, t

LEMMA SkipEmpty ==
  ASSUME NEW ps \in Seq(Seq(Nat)), NEW m \in 0 .. Len(ps), \A i \in 1 .. m : ps[i] = <<>>
  PROVE Rest(ps, m) \in Seq(Seq(Nat)) /\ FlattenSeq(Rest(ps, m)) = FlattenSeq(ps)
<1> DEFINE R(n) == Rest(ps, n)
           Same(n) == FlattenSeq(R(n)) = FlattenSeq(ps)
           N == {n \in 0 .. m : ~ Same(n)}
<1>0. Len(ps) \in Nat /\ m \in Nat
  OBVIOUS
<1>1. ASSUME NEW n \in 0 .. Len(ps)
      PROVE R(n) \in Seq(Seq(Nat)) /\ Len(R(n)) = Len(ps) - n
            /\ \A i \in 1 .. Len(ps) - n : R(n)[i] = ps[n + i]
  <2>1. Sequence(ps)
    BY SequenceIs
  <2>2. Len(R(n)) = Len(ps) - n /\ \A i \in 1 .. Len(ps) - n : R(n)[i] = ps[n + i]
    BY <2>1, SequenceRest
  <2>3. R(n) \in Seq(Seq(Nat))
    BY DEF Rest
  <2> QED BY <2>2, <2>3
<1>2. R(0) = ps
  BY DEF Rest
<1>3. ASSUME NEW n \in 1 .. m PROVE R(n - 1) # <<>> /\ Head(R(n - 1)) = <<>> /\ Tail(R(n - 1)) = R(n)
  <2>1. n - 1 \in 0 .. Len(ps) /\ n \in 0 .. Len(ps) /\ n \in 1 .. m
    BY <1>0
  <2>2. R(n - 1) \in Seq(Seq(Nat)) /\ Len(R(n - 1)) = Len(ps) - (n - 1)
    BY <1>1, <2>1
  <2>3. R(n - 1)[1] = ps[(n - 1) + 1] /\ (n - 1) + 1 = n
    <3>1. 1 \in 1 .. Len(ps) - (n - 1) /\ (n - 1) + 1 = n
      BY <1>0
    <3> QED BY <1>1, <2>1, <3>1
  <2>4. \A i \in 1 .. Len(ps) - n : R(n - 1)[i + 1] = ps[n + i]
    <3> TAKE i \in 1 .. Len(ps) - n
    <3>1. i + 1 \in 1 .. Len(ps) - (n - 1) /\ (n - 1) + (i + 1) = n + i
      BY <1>0
    <3> QED BY <1>1, <2>1, <3>1
  <2>5. R(n) \in Seq(Seq(Nat)) /\ Len(R(n)) = Len(ps) - n /\ \A i \in 1 .. Len(ps) - n : R(n)[i] = ps[n + i]
    BY <1>1, <2>1
  <2> DEFINE q == R(n - 1)
             r == R(n)
  <2> HIDE DEF q, r, R
  <2>6. q \in Seq(Seq(Nat)) /\ Len(q) = Len(ps) - (n - 1) /\ q[1] = <<>>
    BY <2>2, <2>3 DEF q
  <2>7. Tail(q) \in Seq(Seq(Nat)) /\ Len(Tail(q)) = Len(ps) - n /\ q # <<>> /\ Head(q) = <<>>
    BY <1>0, <2>1, <2>6
  <2>8. \A i \in 1 .. Len(ps) - n : Tail(q)[i] = q[i + 1]
    BY <1>0, <2>1, <2>6
  <2>9. Tail(q) = r
    <3>1. r \in Seq(Seq(Nat)) /\ Len(r) = Len(ps) - n
      BY <2>5 DEF r
    <3>2. Sequence(r) /\ Sequence(Tail(q))
      BY <2>7, <3>1, SequenceIs
    <3>3. \A i \in 1 .. Len(Tail(q)) : Tail(q)[i] = r[i]
      BY <2>4, <2>5, <2>7, <2>8 DEF q, r
    <3> QED BY <2>7, <3>1, <3>2, <3>3, SequencesEqual
  <2> QED BY <2>7, <2>9 DEF q, r
<1>4. N = {}
  <2> SUFFICES ASSUME N # {} PROVE FALSE
    OBVIOUS
  <2>1. PICK n \in N : \A j \in N : n <= j
    <3> HIDE DEF Same
    <3>1. N \in SUBSET Nat
      BY <1>0
    <3> HIDE DEF N
    <3> QED BY <3>1, LeastNumber
  <2> HIDE DEF R
  <2>2. n # 0
    BY <1>2, <2>1
  <2> HIDE DEF Same
  <2>3. n \in 1 .. m /\ n - 1 \in 0 .. m /\ n - 1 \notin N /\ ~ Same(n)
    BY <1>0, <2>1, <2>2
  <2>4. Same(n - 1)
    BY <2>3
  <2>5. n - 1 \in 0 .. Len(ps)
    BY <1>0, <2>3
  <2> DEFINE q == R(n - 1)
  <2>6. q \in Seq(Seq(Nat)) /\ q # <<>> /\ Head(q) = <<>> /\ Tail(q) = R(n)
    BY <1>1, <1>3, <2>3, <2>5
  <2> HIDE DEF q
  <2>7. FlattenSeq(q) = Cat(<<>>, FlattenSeq(Tail(q))) /\ Tail(q) \in Seq(Seq(Nat))
    BY <2>6, FlatFront
  <2>8. Sequence(FlattenSeq(Tail(q)))
    BY <2>7, FlatPieced
  <2>9. Cat(<<>>, FlattenSeq(Tail(q))) = FlattenSeq(Tail(q))
    BY <2>8, EmptyJoin DEF Cat
  <2> QED BY <2>3, <2>4, <2>6, <2>7, <2>9 DEF Same, q
<1>5. Same(m)
  <2> HIDE DEF Same
  <2> QED BY <1>0, <1>4
<1> QED BY <1>1, <1>5

LEMMA WithoutEmptyFrontIs ==
  ASSUME NEW ps \in Seq(Seq(Nat))
  PROVE /\ WithoutEmptyFront(ps) \in Seq(Seq(Nat))
        /\ FlattenSeq(WithoutEmptyFront(ps)) = FlattenSeq(ps)
        /\ WithoutEmptyFront(ps) # <<>> => Head(WithoutEmptyFront(ps)) # <<>>
<1> DEFINE full == {i \in DOMAIN ps : ps[i] # <<>>}
           k == CHOOSE i \in full : \A j \in full : i <= j
<1>0. Len(ps) \in Nat /\ DOMAIN ps = 1 .. Len(ps)
  OBVIOUS
<1>1. CASE full = {}
  <2>1. WithoutEmptyFront(ps) = <<>>
    BY <1>1 DEF WithoutEmptyFront
  <2>2. \A i \in 1 .. Len(ps) : ps[i] = <<>>
    BY <1>0, <1>1
  <2>3. FlattenSeq(Rest(ps, Len(ps))) = FlattenSeq(ps)
    BY <1>0, <2>2, SkipEmpty
  <2>4. Rest(ps, Len(ps)) = <<>>
    BY <1>0 DEF Rest
  <2> QED BY <2>1, <2>3, <2>4
<1>2. CASE full # {}
  <2>0. full \in SUBSET Nat /\ full \subseteq 1 .. Len(ps)
    BY <1>0
  <2>1. \E i \in full : \A j \in full : i <= j
    <3> HIDE DEF full
    <3> QED BY <1>2, <2>0, LeastNumber
  <2>2. k \in full /\ \A j \in full : k <= j
    <3> HIDE DEF full
    <3> QED BY <2>1
  <2>3. WithoutEmptyFront(ps) = Rest(ps, k - 1)
    BY <1>2 DEF WithoutEmptyFront
  <2> HIDE DEF k
  <2>4. k \in 1 .. Len(ps) /\ k - 1 \in 0 .. Len(ps) /\ ps[k] # <<>>
    BY <1>0, <2>2
  <2>5. ASSUME NEW i \in 1 .. k - 1 PROVE ps[i] = <<>>
    <3>1. i \in 1 .. Len(ps) /\ ~ (k <= i)
      BY <1>0, <2>4
    <3>2. i \notin full
      BY <2>2, <3>1
    <3> QED BY <1>0, <3>1, <3>2
  <2>6. Rest(ps, k - 1) \in Seq(Seq(Nat)) /\ FlattenSeq(Rest(ps, k - 1)) = FlattenSeq(ps)
    BY <2>4, <2>5, SkipEmpty
  <2>7. Head(Rest(ps, k - 1)) = ps[k]
    BY <1>0, <2>4 DEF Rest
  <2> QED BY <2>3, <2>4, <2>6, <2>7
<1> QED BY <1>1, <1>2

Content(sb) == FlattenSeq(sb.pieces)
Buffer == {b \in [pieces : Seq(Seq(Nat)), size : 0 .. StreamCap] : b.size = Len(Content(b))}

LEMMA BufferIs ==
  ASSUME NEW b \in Buffer
  PROVE /\ b = [pieces |-> b.pieces, size |-> b.size] /\ b.pieces \in Seq(Seq(Nat))
        /\ b.size \in Nat /\ b.size <= StreamCap /\ StreamCap \in Nat
        /\ Content(b) \in Seq(Nat) /\ b.size = Len(Content(b))
<1>1. b \in [pieces : Seq(Seq(Nat)), size : 0 .. StreamCap] /\ b.size = Len(Content(b))
  BY DEF Buffer
<1>2. b.pieces \in Seq(Seq(Nat)) /\ b.size \in 0 .. StreamCap
      /\ b = [pieces |-> b.pieces, size |-> b.size]
  BY <1>1
<1>3. Content(b) \in Seq(Nat)
  BY <1>2, FlatIn DEF Content
<1> QED BY <1>1, <1>2, <1>3, PacketizerAssumption

LEMMA MakeBuffer ==
  ASSUME NEW ps \in Seq(Seq(Nat)), NEW n, n = Len(FlattenSeq(ps)), n <= StreamCap
  PROVE [pieces |-> ps, size |-> n] \in Buffer
<1>1. FlattenSeq(ps) \in Seq(Nat) /\ StreamCap \in Nat
  BY FlatIn, PacketizerAssumption
<1>2. n \in 0 .. StreamCap
  BY <1>1
<1> QED BY <1>2 DEF Buffer, Content

LEMMA EmptyBuffer == EmptySendBuffer \in Buffer /\ Content(EmptySendBuffer) = <<>>
<1>1. <<>> \in Seq(Seq(Nat)) /\ 0 = Len(<<>>) /\ 0 <= StreamCap
  BY PacketizerAssumption
<1>2. [pieces |-> <<>>, size |-> 0] \in Buffer
  BY <1>1, FlatEmpty, MakeBuffer
<1> QED BY <1>2, FlatEmpty DEF EmptySendBuffer, Content

LEMMA SplitAt ==
  ASSUME NEW x \in Seq(Nat), NEW n \in Nat, n <= Len(x)
  PROVE /\ SubSeq(x, 1, n) \in Seq(Nat) /\ Len(SubSeq(x, 1, n)) = n
        /\ Rest(x, n) \in Seq(Nat) /\ Len(Rest(x, n)) = Len(x) - n
        /\ x = Cat(SubSeq(x, 1, n), Rest(x, n))
<1> DEFINE s == SubSeq(x, 1, n)
<1>1. s \in Seq(Nat) /\ Len(s) = n /\ Len(x) \in Nat /\ \A i \in 1 .. n : s[i] = x[i]
  OBVIOUS
<1> HIDE DEF s
<1>2. Begins(x, s)
  BY <1>1 DEF Begins
<1>3. Rest(x, Len(s)) \in Seq(Nat) /\ Len(Rest(x, Len(s))) = Len(x) - Len(s)
  BY <1>1, <1>2, Rejoin
<1>4. x = s \o Rest(x, Len(s))
  BY <1>1, <1>2, Rejoin
<1> QED BY <1>1, <1>3, <1>4 DEF s, Cat

\* Taking chunk out of sb leaves left.
Chunked(sb, chunk, left) ==
  /\ chunk \in Seq(Nat) /\ Len(chunk) <= MaxPayload /\ left \in Buffer
  /\ Cat(chunk, Content(left)) = Content(sb)

LEMMA ChunkIs ==
  ASSUME NEW sb \in Buffer
  PROVE Chunked(sb, create_chunk(sb).chunk, create_chunk(sb).sb)
<1> DEFINE ps == WithoutEmptyFront(sb.pieces)
           p == Head(ps)
           t == Tail(ps)
           n == Least(Len(p), MaxPayload)
           left == Rest(p, n)
           qs == IF left = <<>> THEN t ELSE <<left>> \o t
           chunk == SubSeq(p, 1, n)
<1>0. MaxPayload \in Nat /\ MaxPayload # 0
  BY PacketizerAssumption
<1>1. /\ sb = [pieces |-> sb.pieces, size |-> sb.size] /\ sb.pieces \in Seq(Seq(Nat))
      /\ sb.size \in Nat /\ sb.size <= StreamCap /\ StreamCap \in Nat
      /\ Content(sb) \in Seq(Nat) /\ sb.size = Len(Content(sb))
  BY BufferIs
<1>2. ps \in Seq(Seq(Nat)) /\ FlattenSeq(ps) = Content(sb) /\ (ps # <<>> => p # <<>>)
  BY <1>1, WithoutEmptyFrontIs DEF Content
<1>3. CASE ps = <<>>
  <2>1. create_chunk(sb) = [chunk |-> <<>>, sb |-> [sb EXCEPT !.pieces = <<>>]]
    BY <1>3 DEF create_chunk
  <2>2. create_chunk(sb).chunk = <<>> /\ create_chunk(sb).sb = [pieces |-> <<>>, size |-> sb.size]
    BY <1>1, <2>1
  <2>3. Content(sb) = <<>> /\ sb.size = Len(<<>>)
    BY <1>1, <1>2, <1>3, FlatEmpty
  <2>4. create_chunk(sb).sb = EmptySendBuffer
    BY <2>2, <2>3 DEF EmptySendBuffer
  <2>5. Cat(<<>>, <<>>) = <<>> /\ <<>> \in Seq(Nat) /\ Len(<<>>) <= MaxPayload
    BY <1>0 DEF Cat
  <2> QED BY <2>2, <2>3, <2>4, <2>5, EmptyBuffer DEF Chunked
<1>4. CASE ps # <<>>
  <2>1. create_chunk(sb) = [chunk |-> chunk, sb |-> [pieces |-> qs, size |-> sb.size - n]]
    BY <1>4, Zenon DEF create_chunk
  <2>2. create_chunk(sb).chunk = chunk /\ create_chunk(sb).sb = [pieces |-> qs, size |-> sb.size - n]
    <3> HIDE DEF chunk, qs, n
    <3> QED BY <2>1
  <2>3. p \in Seq(Nat) /\ t \in Seq(Seq(Nat)) /\ Content(sb) = Cat(p, FlattenSeq(t))
    <3> HIDE DEF ps
    <3> QED BY <1>2, <1>4, FlatFront
  <2> HIDE DEF ps, p, t
  <2>4. n \in Nat /\ n <= Len(p) /\ n <= MaxPayload
    BY <1>0, <2>3 DEF Least
  <2> HIDE DEF n
  <2>5. chunk \in Seq(Nat) /\ Len(chunk) = n /\ left \in Seq(Nat) /\ Len(left) = Len(p) - n
        /\ p = Cat(chunk, left)
    BY <2>3, <2>4, SplitAt
  <2> HIDE DEF chunk, left
  <2>6. FlattenSeq(t) \in Seq(Nat)
    BY <2>3, FlatIn
  <2>7. qs \in Seq(Seq(Nat)) /\ FlattenSeq(qs) = Cat(left, FlattenSeq(t))
    <3>1. CASE left = <<>>
      <4>1. Cat(<<>>, FlattenSeq(t)) = FlattenSeq(t)
        BY <2>6 DEF Cat
      <4> QED BY <2>3, <3>1, <4>1
    <3>2. CASE left # <<>>
      <4>1. qs = Cat(<<left>>, t) /\ <<left>> \in Seq(Seq(Nat))
        BY <2>5, <3>2 DEF Cat
      <4>2. Cat(<<left>>, t) \in Seq(Seq(Nat))
        BY <2>3, <4>1 DEF Cat
      <4>3. FlattenSeq(Cat(<<left>>, t)) = Cat(FlattenSeq(<<left>>), FlattenSeq(t))
        BY <2>3, <4>1, FlatJoin
      <4>4. FlattenSeq(<<left>>) = left
        BY <2>5, FlatOne
      <4> QED BY <4>1, <4>2, <4>3, <4>4
    <3> QED BY <3>1, <3>2
  <2> HIDE DEF qs
  <2>8. Content(sb) = Cat(chunk, FlattenSeq(qs))
    BY <2>3, <2>5, <2>6, <2>7, CatAssociates
  <2>9. FlattenSeq(qs) \in Seq(Nat)
    BY <2>7, FlatIn
  <2>10. sb.size - n = Len(FlattenSeq(qs)) /\ sb.size - n <= StreamCap
    <3>1. Len(Cat(chunk, FlattenSeq(qs))) = Len(chunk) + Len(FlattenSeq(qs))
      BY <2>5, <2>9, CatIs
    <3> QED BY <1>1, <2>4, <2>5, <2>8, <2>9, <3>1
  <2>11. [pieces |-> qs, size |-> sb.size - n] \in Buffer
    BY <2>7, <2>10, MakeBuffer
  <2>12. Content([pieces |-> qs, size |-> sb.size - n]) = FlattenSeq(qs)
    BY DEF Content
  <2> QED BY <2>2, <2>4, <2>5, <2>8, <2>11, <2>12 DEF Chunked
<1> QED BY <1>3, <1>4

\* The buffer has n bytes in one piece.
OnePiece(sb, n) ==
  \/ n = 0 /\ sb.pieces = <<>>
  \/ n \in Nat \ {0} /\ \E p \in Seq(Nat) : sb.pieces = <<p>> /\ Len(p) = n

LEMMA ChunkOne ==
  ASSUME NEW sb \in Buffer, NEW n, OnePiece(sb, n)
  PROVE /\ n \in Nat /\ Len(create_chunk(sb).chunk) = Least(n, MaxPayload)
        /\ OnePiece(create_chunk(sb).sb, n - Least(n, MaxPayload))
<1>0. MaxPayload \in Nat /\ MaxPayload # 0
  BY PacketizerAssumption
<1>1. sb = [pieces |-> sb.pieces, size |-> sb.size]
  BY BufferIs
<1>2. CASE n = 0 /\ sb.pieces = <<>>
  <2>1. WithoutEmptyFront(sb.pieces) = <<>>
    BY <1>2 DEF WithoutEmptyFront
  <2>2. create_chunk(sb) = [chunk |-> <<>>, sb |-> [sb EXCEPT !.pieces = <<>>]]
    BY <2>1 DEF create_chunk
  <2>3. create_chunk(sb).chunk = <<>> /\ create_chunk(sb).sb = [pieces |-> <<>>, size |-> sb.size]
    BY <1>1, <2>2
  <2>4. Least(n, MaxPayload) = 0 /\ n - 0 = 0
    BY <1>0, <1>2 DEF Least
  <2>5. create_chunk(sb).sb.pieces = <<>> /\ Len(create_chunk(sb).chunk) = 0
    BY <2>3
  <2>6. n - Least(n, MaxPayload) = 0
    BY <2>4
  <2> QED BY <1>2, <2>4, <2>5, <2>6 DEF OnePiece
<1>3. CASE n \in Nat \ {0} /\ \E p \in Seq(Nat) : sb.pieces = <<p>> /\ Len(p) = n
  <2>1. PICK p \in Seq(Nat) : sb.pieces = <<p>> /\ Len(p) = n
    BY <1>3
  <2> DEFINE ps == sb.pieces
             m == Least(n, MaxPayload)
             left == Rest(p, m)
             chunk == SubSeq(p, 1, m)
             qs == IF left = <<>> THEN Tail(ps) ELSE <<left>> \o Tail(ps)
             full == {i \in DOMAIN ps : ps[i] # <<>>}
  <2>2. ps = <<p>> /\ p # <<>> /\ Head(ps) = p /\ Tail(ps) = <<>> /\ Len(ps) = 1 /\ ps[1] = p
    BY <1>3, <2>1
  <2>3. full = {1}
    BY <2>2
  <2>4. (CHOOSE i \in full : \A j \in full : i <= j) = 1
    BY <2>3
  <2>5. Rest(ps, 1 - 1) = ps
    <3>1. Sequence(<<p>>) /\ 1 - 1 = 0
      BY OneIs
    <3> QED BY <2>2, <3>1, RestWhole
  <2>6. WithoutEmptyFront(ps) = ps
    BY <2>3, <2>4, <2>5 DEF WithoutEmptyFront
  <2>7. create_chunk(sb) = [chunk |-> chunk, sb |-> [pieces |-> qs, size |-> sb.size - m]]
    <3>1. ps # <<>> /\ Head(ps) = p /\ Len(p) = n /\ WithoutEmptyFront(ps) = ps
      BY <2>1, <2>2, <2>6
    <3>2. /\ Least(Len(Head(WithoutEmptyFront(ps))), MaxPayload) = m
          /\ Head(WithoutEmptyFront(ps)) = p /\ Tail(WithoutEmptyFront(ps)) = Tail(ps)
          /\ WithoutEmptyFront(ps) # <<>>
      BY <3>1, Zenon
    <3> QED BY <3>2, Zenon DEF create_chunk
  <2>8. m \in Nat /\ m <= Len(p) /\ m <= n
    BY <1>0, <1>3, <2>1 DEF Least
  <2>9. Len(chunk) = m /\ left \in Seq(Nat) /\ Len(left) = n - m
    BY <2>1, <2>8, SplitAt
  <2>10. n - m = 0 => qs = <<>>
    BY <2>2, <2>9
  <2>11. n - m # 0 => qs = <<left>> /\ n - m \in Nat \ {0}
    BY <1>3, <2>2, <2>8, <2>9
  <2> HIDE DEF chunk, qs, m, left
  <2>12. create_chunk(sb).chunk = chunk /\ create_chunk(sb).sb.pieces = qs
    BY <2>7
  <2>13. OnePiece(create_chunk(sb).sb, n - m)
    BY <2>9, <2>10, <2>11, <2>12 DEF OnePiece
  <2> QED BY <1>3, <2>9, <2>12, <2>13 DEF m
<1> QED BY <1>2, <1>3 DEF OnePiece

\* The first k bytes of data were put behind what sb held.
Grown(sb, data, k, new) ==
  /\ new \in Buffer /\ k \in 0 .. Len(data)
  /\ Content(new) = Cat(Content(sb), SubSeq(data, 1, k))
  /\ new.size = sb.size + k
  /\ k = Least(Len(data), Permit(StreamCap, sb.size))

LEMMA WriteIs ==
  ASSUME NEW sb \in Buffer, NEW data \in Seq(Nat)
  PROVE Grown(sb, data, Least(Len(data), Permit(StreamCap, sb.size)), write_to_stream(sb, data))
<1> DEFINE space == Permit(StreamCap, sb.size)
           k == Least(Len(data), space)
           taken == SubSeq(data, 1, k)
           ps == Append(sb.pieces, taken)
<1>1. /\ sb = [pieces |-> sb.pieces, size |-> sb.size] /\ sb.pieces \in Seq(Seq(Nat))
      /\ sb.size \in Nat /\ sb.size <= StreamCap /\ StreamCap \in Nat
      /\ Content(sb) \in Seq(Nat) /\ sb.size = Len(Content(sb))
  BY BufferIs
<1>2. space \in Nat /\ space = StreamCap - sb.size
  BY <1>1 DEF Permit
<1>3. Len(data) \in Nat /\ k \in Nat /\ k <= Len(data) /\ k <= space /\ k \in 0 .. Len(data)
  BY <1>2 DEF Least
<1>4. taken \in Seq(Nat) /\ Len(taken) = k
  BY <1>3, SplitAt
<1>5. CASE space = 0
  <2>1. write_to_stream(sb, data) = sb
    BY <1>5 DEF write_to_stream
  <2>2. k = 0
    BY <1>3, <1>5
  <2>3. taken = <<>>
    BY <1>4, <2>2
  <2>4. Cat(Content(sb), <<>>) = Content(sb)
    BY <1>1 DEF Cat
  <2>5. Content(sb) = Cat(Content(sb), taken) /\ sb.size = sb.size + k
    <3>1. sb.size = sb.size + 0
      BY <1>1
    <3> QED BY <3>1, <2>2, <2>3, <2>4, Zenon
  <2> HIDE DEF k
  <2>6. Grown(sb, data, k, sb)
    BY <1>3, <2>5 DEF Grown, k
  <2> QED BY <2>1, <2>6 DEF k
<1>6. CASE space # 0
  <2>1. write_to_stream(sb, data) = [pieces |-> ps, size |-> sb.size + Len(taken)]
    BY <1>6, Zenon DEF write_to_stream
  <2>2. ps \in Seq(Seq(Nat))
    BY <1>1, <1>4
  <2>3. FlattenSeq(ps) = Cat(Content(sb), taken)
    BY <1>1, <1>4, FlatAppend DEF Content
  <2> HIDE DEF taken
  <2>4. Len(Cat(Content(sb), taken)) = sb.size + k
    BY <1>1, <1>4, CatIs
  <2>5. sb.size + k <= StreamCap
    BY <1>1, <1>2, <1>3
  <2> DEFINE new == [pieces |-> ps, size |-> sb.size + k]
  <2>6. new \in Buffer
    <3> HIDE DEF k, ps
    <3> QED BY <2>2, <2>3, <2>4, <2>5, MakeBuffer
  <2>7. Content(new) = Cat(Content(sb), taken) /\ new.size = sb.size + k
    <3>1. new.pieces = ps /\ new.size = sb.size + k
      <4> HIDE DEF k, ps
      <4> QED OBVIOUS
    <3> HIDE DEF new
    <3> QED BY <2>3, <3>1 DEF Content
  <2>8. write_to_stream(sb, data) = new
    BY <1>4, <2>1
  <2> HIDE DEF k, new
  <2>9. Grown(sb, data, k, new)
    BY <1>3, <2>6, <2>7 DEF Grown, k, taken
  <2> QED BY <2>8, <2>9 DEF k
<1> QED BY <1>5, <1>6

----------------------------------------------------------------------------
(* Packetizing.                                                            *)

Contexts == [cid : Word, timestamp : Word, cwnd : Nat, window : Nat, next : Word, mine : Half]

Bodies(fs) == [i \in 1 .. Len(fs) |-> fs[i].body]

\* PUSH frames numbered from n.
Numbered(fs, n) ==
  /\ fs \in Seq(Frame)
  /\ \A i \in 1 .. Len(fs) : /\ command(fs[i]) = "Push" /\ fs[i].header.seq = (n + i) - 1
                             /\ fs[i].body \in Seq(Nat) /\ fs[i].body # <<>>
                             /\ Len(fs[i].body) <= MaxPayload

LEMMA BodiesIs ==
  ASSUME NEW fs, NEW n, Numbered(fs, n)
  PROVE Bodies(fs) \in Seq(Seq(Nat)) /\ Len(Bodies(fs)) = Len(fs)
BY DEF Bodies, Numbered

LEMMA NumberedEmpty ==
  ASSUME NEW n
  PROVE Numbered(<<>>, n) /\ Bodies(<<>>) = <<>>
BY DEF Bodies, Numbered

LEMMA NumberedAppend ==
  ASSUME NEW fs, NEW n \in Nat, Numbered(fs, n), NEW f, NEW b, Makes(f, "Push", n + Len(fs), b),
         b \in Seq(Nat), b # <<>>, Len(b) <= MaxPayload
  PROVE Numbered(Append(fs, f), n) /\ Bodies(Append(fs, f)) = Append(Bodies(fs), b)
<1>1. /\ fs \in Seq(Frame) /\ f \in Frame /\ command(f) = "Push" /\ f.header.seq = n + Len(fs)
      /\ f.body = b /\ Len(fs) \in Nat
  BY DEF Numbered, Makes
<1> DEFINE q == Append(fs, f)
<1>2. q \in Seq(Frame) /\ Len(q) = Len(fs) + 1 /\ q[Len(fs) + 1] = f /\ \A i \in 1 .. Len(fs) : q[i] = fs[i]
  BY <1>1
<1> HIDE DEF q
<1>3. \A i \in 1 .. Len(q) : i \in 1 .. Len(fs) \/ i = Len(fs) + 1
  BY <1>1, <1>2
<1>4. Numbered(q, n)
  <2>1. (n + (Len(fs) + 1)) - 1 = n + Len(fs)
    BY <1>1
  <2>2. ASSUME NEW i \in 1 .. Len(q)
        PROVE /\ command(q[i]) = "Push" /\ q[i].header.seq = (n + i) - 1 /\ q[i].body \in Seq(Nat)
              /\ q[i].body # <<>> /\ Len(q[i].body) <= MaxPayload
    <3>1. CASE i \in 1 .. Len(fs)
      BY <1>2, <3>1 DEF Numbered
    <3>2. CASE i = Len(fs) + 1
      BY <1>1, <1>2, <2>1, <3>2
    <3> QED BY <1>3, <3>1, <3>2
  <2> QED BY <1>2, <2>2 DEF Numbered
<1>5. Bodies(q) = Append(Bodies(fs), b)
  <2> DEFINE g == Bodies(fs)
  <2>1. g \in Seq(Seq(Nat)) /\ Len(g) = Len(fs) /\ \A i \in 1 .. Len(fs) : g[i] = fs[i].body
    <3>1. \A i \in 1 .. Len(fs) : g[i] = fs[i].body
      BY DEF Bodies
    <3> QED BY <3>1, BodiesIs
  <2> HIDE DEF g
  <2>2. Append(g, b) \in Seq(Seq(Nat)) /\ Len(Append(g, b)) = Len(fs) + 1
        /\ Append(g, b)[Len(fs) + 1] = b /\ \A i \in 1 .. Len(fs) : Append(g, b)[i] = fs[i].body
    BY <1>1, <2>1
  <2>3. Bodies(q) \in Seq(Seq(Nat)) /\ Len(Bodies(q)) = Len(fs) + 1
    BY <1>2, <1>4, BodiesIs
  <2>4. ASSUME NEW i \in 1 .. Len(q) PROVE Bodies(q)[i] = Append(g, b)[i]
    <3>1. Bodies(q)[i] = q[i].body
      BY DEF Bodies
    <3>2. CASE i \in 1 .. Len(fs)
      BY <1>2, <2>2, <3>1, <3>2
    <3>3. CASE i = Len(fs) + 1
      BY <1>1, <1>2, <2>2, <3>1, <3>3
    <3> QED BY <1>3, <3>2, <3>3
  <2>5. Sequence(Bodies(q)) /\ Sequence(Append(g, b))
    BY <2>2, <2>3, SequenceIs
  <2>6. \A i \in 1 .. Len(Bodies(q)) : Bodies(q)[i] = Append(g, b)[i]
    BY <1>2, <2>3, <2>4
  <2>7. Bodies(q) = Append(g, b)
    BY <2>2, <2>3, <2>5, <2>6, SequencesEqual
  <2> QED BY <2>7 DEF g
<1> QED BY <1>4, <1>5 DEF q

\* The packetizer has cut data into frames numbered from n and what is left.
Cuts(fs, n, sb, seq, data) ==
  /\ Numbered(fs, n) /\ sb \in Buffer /\ seq = n + Len(fs) /\ seq \in Nat
  /\ Cat(FlattenSeq(Bodies(fs)), Content(sb)) = data
  /\ PacketSize(fs) = 21 * Len(fs) + Len(FlattenSeq(Bodies(fs)))

LEMMA CutsStart ==
  ASSUME NEW sb \in Buffer, NEW n \in Nat
  PROVE Cuts(<<>>, n, sb, n, Content(sb))
<1>1. Content(sb) \in Seq(Nat)
  BY BufferIs
<1>2. Cat(<<>>, Content(sb)) = Content(sb)
  BY <1>1 DEF Cat
<1>3. n = n + Len(<<>>) /\ 0 = 21 * Len(<<>>) + Len(<<>>)
  OBVIOUS
<1> QED BY <1>2, <1>3, NumberedEmpty, SizeEmpty, FlatEmpty DEF Cuts

LEMMA PushSize ==
  ASSUME NEW f, NEW n, NEW b \in Seq(Nat), Makes(f, "Push", n, b)
  PROVE encoded_size(f) = 21 + Len(b)
<1>1. ~ is_long_header("Push") /\ HasPayload("Push")
  BY DEF is_long_header, HasPayload
<1> QED BY <1>1 DEF encoded_size, ShortSize, Makes

LEMMA CutsMore ==
  ASSUME NEW fs, NEW n \in Nat, NEW sb, NEW seq, NEW data, Cuts(fs, n, sb, seq, data),
         NEW b, NEW left, Chunked(sb, b, left), b # <<>>, NEW f, Makes(f, "Push", seq, b)
  PROVE Cuts(Append(fs, f), n, left, seq + 1, data)
<1> DEFINE g == FlattenSeq(Bodies(fs))
<1>1. /\ Numbered(fs, n) /\ sb \in Buffer /\ seq = n + Len(fs) /\ seq \in Nat
      /\ Cat(g, Content(sb)) = data /\ PacketSize(fs) = 21 * Len(fs) + Len(g)
  BY DEF Cuts
<1>2. /\ b \in Seq(Nat) /\ Len(b) <= MaxPayload /\ left \in Buffer
      /\ Cat(b, Content(left)) = Content(sb)
  BY DEF Chunked
<1>3. Makes(f, "Push", n + Len(fs), b)
  BY <1>1
<1>4. Numbered(Append(fs, f), n) /\ Bodies(Append(fs, f)) = Append(Bodies(fs), b)
  BY <1>1, <1>2, <1>3, NumberedAppend
<1>5. Bodies(fs) \in Seq(Seq(Nat)) /\ fs \in Seq(Frame)
  BY <1>1, BodiesIs DEF Numbered
<1>6. FlattenSeq(Append(Bodies(fs), b)) = Cat(g, b)
  BY <1>2, <1>5, FlatAppend
<1>7. g \in Seq(Nat)
  BY <1>5, FlatIn
<1>8. Content(left) \in Seq(Nat)
  BY <1>2, BufferIs
<1> HIDE DEF g
<1>9. Cat(Cat(g, b), Content(left)) = data
  BY <1>1, <1>2, <1>7, <1>8, CatAssociates
<1>10. Len(Cat(g, b)) = Len(g) + Len(b)
  BY <1>2, <1>7, CatIs
<1>11. Sequence(fs) /\ Len(Append(fs, f)) = Len(fs) + 1 /\ Len(fs) \in Nat
  BY <1>5, SequenceIs, AppendSequence DEF Appends
<1>12. PacketSize(Append(fs, f)) = PacketSize(fs) + encoded_size(f)
  BY <1>11, SizeAppend
<1>13. encoded_size(f) = 21 + Len(b)
  BY <1>2, PushSize
<1>14. PacketSize(Append(fs, f)) = 21 * Len(Append(fs, f)) + Len(Cat(g, b))
  <2>1. Len(g) \in Nat /\ Len(b) \in Nat
    BY <1>2, <1>7
  <2> QED BY <1>1, <1>10, <1>11, <1>12, <1>13, <2>1
<1>15. seq + 1 = n + Len(Append(fs, f)) /\ seq + 1 \in Nat
  BY <1>1, <1>11
<1> QED BY <1>2, <1>4, <1>6, <1>9, <1>14, <1>15 DEF Cuts

Accs(n, data) ==
  {a \in [buffer : Buffer, seq : Nat, frames : Seq(Frame)] :
     Cuts(a.frames, n, a.buffer, a.seq, data)}

\* One more frame was made of the chunk, or there was none.
OneMore(a, new, chunk, left) ==
  \/ /\ chunk = <<>> /\ new.frames = a.frames
     /\ new = [buffer |-> left, seq |-> a.seq, frames |-> a.frames]
  \/ \E f : /\ chunk # <<>> /\ Makes(f, "Push", a.seq, chunk)
            /\ new = [buffer |-> left, seq |-> a.seq + 1, frames |-> Append(a.frames, f)]

LEMMA PacketizeOneIs ==
  ASSUME NEW ctx \in Contexts, NEW a, a.buffer \in Buffer, a.seq \in Nat,
         a = [buffer |-> a.buffer, seq |-> a.seq, frames |-> a.frames]
  PROVE OneMore(a, PacketizeOne(ctx, a), create_chunk(a.buffer).chunk, create_chunk(a.buffer).sb)
<1> DEFINE chunk == create_chunk(a.buffer).chunk
           left == create_chunk(a.buffer).sb
           f == new_push(ctx.cid, a.seq, ctx.next, ctx.mine, ctx.timestamp, chunk)
<1>1. chunk \in Seq(Nat)
  BY ChunkIs DEF Chunked
<1>2. ctx.cid \in Word /\ ctx.next \in Word /\ ctx.mine \in Half /\ ctx.timestamp \in Word
  BY DEF Contexts
<1>3. CASE chunk = <<>>
  <2>1. PacketizeOne(ctx, a) = [a EXCEPT !.buffer = left]
    BY <1>3 DEF PacketizeOne
  <2> HIDE DEF left, chunk
  <2>2. PacketizeOne(ctx, a) = [buffer |-> left, seq |-> a.seq, frames |-> a.frames]
    BY <2>1
  <2>3. PacketizeOne(ctx, a).frames = a.frames
    BY <2>2
  <2>4. OneMore(a, PacketizeOne(ctx, a), chunk, left)
    BY <1>3, <2>2, <2>3 DEF OneMore
  <2> QED BY <2>4 DEF left, chunk
<1>4. CASE chunk # <<>>
  <2>1. PacketizeOne(ctx, a) = [buffer |-> left, seq |-> a.seq + 1, frames |-> Append(a.frames, f)]
    BY <1>4, Zenon DEF PacketizeOne
  <2> HIDE DEF left, chunk
  <2>2. Makes(f, "Push", a.seq, chunk)
    BY <1>1, <1>2, PushIs
  <2> HIDE DEF f
  <2>3. OneMore(a, PacketizeOne(ctx, a), chunk, left)
    BY <1>4, <2>1, <2>2 DEF OneMore
  <2> QED BY <2>3 DEF left, chunk
<1> QED BY <1>3, <1>4

LEMMA AccIs ==
  ASSUME NEW n, NEW data, NEW a \in Accs(n, data)
  PROVE /\ a = [buffer |-> a.buffer, seq |-> a.seq, frames |-> a.frames]
        /\ a.buffer \in Buffer /\ a.seq \in Nat /\ a.frames \in Seq(Frame)
        /\ Cuts(a.frames, n, a.buffer, a.seq, data)
BY DEF Accs

LEMMA MakeAcc ==
  ASSUME NEW n, NEW data, NEW fs, NEW sb, NEW seq, Cuts(fs, n, sb, seq, data)
  PROVE [buffer |-> sb, seq |-> seq, frames |-> fs] \in Accs(n, data)
<1>1. sb \in Buffer /\ seq \in Nat /\ fs \in Seq(Frame)
  BY DEF Cuts, Numbered
<1>2. [buffer |-> sb, seq |-> seq, frames |-> fs] \in [buffer : Buffer, seq : Nat, frames : Seq(Frame)]
  BY <1>1
<1> QED BY <1>2 DEF Accs

LEMMA CutsNone ==
  ASSUME NEW fs, NEW n, NEW sb, NEW seq, NEW data, Cuts(fs, n, sb, seq, data),
         NEW left, Chunked(sb, <<>>, left)
  PROVE Cuts(fs, n, left, seq, data)
<1>1. left \in Buffer /\ Cat(<<>>, Content(left)) = Content(sb)
  BY DEF Chunked
<1>2. Content(left) \in Seq(Nat)
  BY <1>1, BufferIs
<1>3. Cat(<<>>, Content(left)) = Content(left)
  BY <1>2 DEF Cat
<1> QED BY <1>1, <1>3 DEF Cuts

LEMMA OneMoreCuts ==
  ASSUME NEW n \in Nat, NEW data, NEW a \in Accs(n, data), NEW new, NEW chunk, NEW left,
         Chunked(a.buffer, chunk, left), OneMore(a, new, chunk, left)
  PROVE new \in Accs(n, data)
<1>1. Cuts(a.frames, n, a.buffer, a.seq, data)
  BY AccIs
<1>2. CASE chunk = <<>> /\ new = [buffer |-> left, seq |-> a.seq, frames |-> a.frames]
  <2>1. Cuts(a.frames, n, left, a.seq, data)
    BY <1>1, <1>2, CutsNone
  <2> QED BY <1>2, <2>1, MakeAcc
<1>3. ASSUME NEW f, chunk # <<>>, Makes(f, "Push", a.seq, chunk),
             new = [buffer |-> left, seq |-> a.seq + 1, frames |-> Append(a.frames, f)]
      PROVE new \in Accs(n, data)
  <2>1. Cuts(Append(a.frames, f), n, left, a.seq + 1, data)
    BY <1>1, <1>3, CutsMore
  <2> QED BY <1>3, <2>1, MakeAcc
<1> QED BY <1>2, <1>3 DEF OneMore

\* Of m bytes in one piece, every frame but the last takes MaxPayload.
Counted(k, sb, m) ==
  \E l \in Nat : /\ OnePiece(sb, l)
                 /\ l = 0 => k = 0 \/ (k - 1) * MaxPayload < m
                 /\ l # 0 => (k * MaxPayload) + l = m

LEMMA OneMoreCounted ==
  ASSUME NEW n \in Nat, NEW data, NEW a \in Accs(n, data), NEW new, NEW m \in Nat,
         Counted(Len(a.frames), a.buffer, m),
         OneMore(a, new, create_chunk(a.buffer).chunk, create_chunk(a.buffer).sb)
  PROVE Counted(Len(new.frames), new.buffer, m)
<1> DEFINE chunk == create_chunk(a.buffer).chunk
           left == create_chunk(a.buffer).sb
           k == Len(a.frames)
<1>1. PICK l \in Nat : /\ OnePiece(a.buffer, l)
                       /\ l = 0 => k = 0 \/ (k - 1) * MaxPayload < m
                       /\ l # 0 => (k * MaxPayload) + l = m
  BY DEF Counted
<1>2. a.buffer \in Buffer /\ a.frames \in Seq(Frame) /\ k \in Nat /\ MaxPayload \in Nat /\ MaxPayload # 0
  BY AccIs, PacketizerAssumption
<1> DEFINE d == Least(l, MaxPayload)
<1>3. Len(chunk) = d /\ OnePiece(left, l - d)
  BY <1>1, <1>2, ChunkOne
<1>4. chunk \in Seq(Nat)
  BY <1>2, ChunkIs DEF Chunked
<1>5. d \in Nat /\ d <= l /\ (d = 0 <=> l = 0) /\ l - d \in Nat /\ (d = l \/ d = MaxPayload)
  BY <1>2 DEF Least
<1> HIDE DEF chunk, left, d, k
<1>6. chunk = <<>> <=> l = 0
  BY <1>3, <1>4, <1>5
<1>7. CASE chunk = <<>> /\ new = [buffer |-> left, seq |-> a.seq, frames |-> a.frames]
  <2>1. new.buffer = left /\ Len(new.frames) = k
    BY <1>7 DEF k
  <2>2. l - d = l
    BY <1>5, <1>6, <1>7
  <2> QED BY <1>1, <1>3, <2>1, <2>2 DEF Counted
<1>8. ASSUME NEW f, chunk # <<>>,
             new = [buffer |-> left, seq |-> a.seq + 1, frames |-> Append(a.frames, f)]
      PROVE Counted(Len(new.frames), new.buffer, m)
  <2>1. new.buffer = left /\ new.frames = Append(a.frames, f)
    BY <1>8
  <2>2. Sequence(a.frames)
    BY <1>2, SequenceIs
  <2>3. Len(new.frames) = k + 1
    BY <2>1, <2>2, AppendSequence DEF Appends, k
  <2>4. l # 0 /\ (k * MaxPayload) + l = m /\ (k * MaxPayload) \in Nat
    BY <1>1, <1>2, <1>6, <1>8
  <2>5. (k + 1) - 1 = k /\ (k + 1) * MaxPayload = (k * MaxPayload) + MaxPayload
    BY <1>2
  <2> DEFINE p == k * MaxPayload
             q == (k + 1) * MaxPayload
  <2>6. p \in Nat /\ p + l = m /\ q = p + MaxPayload
    BY <2>4, <2>5
  <2> HIDE DEF p, q
  <2>7. l - d = 0 => p < m
    BY <1>5, <2>4, <2>6
  <2>8. l - d # 0 => q + (l - d) = m
    BY <1>2, <1>5, <2>6
  <2>9. l - d = 0 => ((k + 1) - 1) * MaxPayload < m
    BY <2>5, <2>7 DEF p
  <2>10. Counted(k + 1, left, m)
    BY <1>3, <1>5, <2>8, <2>9 DEF Counted, q
  <2> QED BY <2>1, <2>3, <2>10
<1> QED BY <1>7, <1>8 DEF OneMore, chunk, left

Info == [type : {"Push", "Fin"}, body : Seq(Nat), mode : {"Reliable", "SimpleRetransmit"}]
Tracked(n) == UNION {[D -> Info] : D \in SUBSET (0 .. n - 1)}

LEMMA TrackedIs ==
  ASSUME NEW n \in Nat, NEW tracked
  PROVE tracked \in Tracked(n) <=>
          /\ DOMAIN tracked \in SUBSET (0 .. n - 1) /\ tracked = [s \in DOMAIN tracked |-> tracked[s]]
          /\ \A s \in DOMAIN tracked : tracked[s] \in Info
<1>1. tracked \in Tracked(n) <=> \E D \in SUBSET (0 .. n - 1) : tracked \in [D -> Info]
  BY DEF Tracked
<1>2. ASSUME NEW D \in SUBSET (0 .. n - 1), tracked \in [D -> Info]
      PROVE /\ DOMAIN tracked = D /\ tracked = [s \in D |-> tracked[s]] /\ \A s \in D : tracked[s] \in Info
  BY <1>2
<1>3. ASSUME tracked = [s \in DOMAIN tracked |-> tracked[s]], \A s \in DOMAIN tracked : tracked[s] \in Info
      PROVE tracked \in [DOMAIN tracked -> Info]
  BY <1>3
<1> QED BY <1>1, <1>2, <1>3

LEMMA PermittedNat ==
  ASSUME NEW ctx \in Contexts, NEW rel, NEW n \in Nat, rel.tracked \in Tracked(n)
  PROVE Permitted(ctx, rel) \in Nat
<1> DEFINE T == {s \in DOMAIN rel.tracked : rel.tracked[s].mode = "Reliable"}
           u == sack_in_flight_count(rel)
<1>1. DOMAIN rel.tracked \subseteq 0 .. n - 1
  BY TrackedIs
<1>2. IsFiniteSet(0 .. n - 1)
  BY FS_Interval
<1>3. T \subseteq 0 .. n - 1
  BY <1>1
<1> HIDE DEF T
<1>4. Cardinality(T) \in Nat
  BY <1>2, <1>3, FS_Subset, FS_CardinalityType
<1>5. u \in Nat
  BY <1>4 DEF sack_in_flight_count, T
<1>6. ctx.cwnd \in Nat /\ ctx.window \in Nat
  BY DEF Contexts
<1> HIDE DEF u
<1>7. Permit(ctx.cwnd, u) \in Nat /\ Permit(ctx.window, u) \in Nat
  BY <1>5, <1>6 DEF Permit
<1>8. Permitted(ctx, rel) = Least(Permit(ctx.cwnd, u), Permit(ctx.window, u))
  BY DEF Permitted, u
<1> QED BY <1>7, <1>8 DEF Least

LEMMA PacketizeIs ==
  ASSUME NEW ctx \in Contexts, NEW rel, rel.buffer \in Buffer, rel.seq \in Nat,
         rel.tracked \in Tracked(rel.seq)
  PROVE packetize(ctx, rel) \in Accs(rel.seq, Content(rel.buffer))
<1> DEFINE n == Permitted(ctx, rel)
           q == [i \in 1 .. n |-> i]
           b == [buffer |-> rel.buffer, seq |-> rel.seq, frames |-> <<>>]
           A == Accs(rel.seq, Content(rel.buffer))
           S == [i \in 0 .. n |-> A]
<1>1. n \in Nat
  BY PermittedNat
<1>2. Len(q) = n
  <2> HIDE DEF n
  <2> QED BY <1>1
<1>3. packetize(ctx, rel) = Folded("packet", ctx, b, q)
  BY <1>1, PacketFolded
<1> HIDE DEF n, q
<1>4. b \in A
  BY CutsStart, MakeAcc
<1>5. b \in S[0] /\ S[n] = A
  BY <1>1, <1>4
<1>6. ASSUME NEW i \in 1 .. n, NEW v \in S[i - 1] PROVE Step("packet", ctx, v, q[i]) \in S[i]
  <2>1. v \in A /\ S[i] = A
    BY <1>1
  <2>2. Step("packet", ctx, v, q[i]) = PacketizeOne(ctx, v)
    BY DEF Step
  <2>3. v = [buffer |-> v.buffer, seq |-> v.seq, frames |-> v.frames] /\ v.buffer \in Buffer /\ v.seq \in Nat
    BY <2>1, AccIs
  <2>4. OneMore(v, PacketizeOne(ctx, v), create_chunk(v.buffer).chunk, create_chunk(v.buffer).sb)
    BY <2>3, PacketizeOneIs
  <2>5. Chunked(v.buffer, create_chunk(v.buffer).chunk, create_chunk(v.buffer).sb)
    BY <2>3, ChunkIs
  <2>6. PacketizeOne(ctx, v) \in A
    BY <2>1, <2>4, <2>5, OneMoreCuts
  <2> QED BY <2>1, <2>2, <2>6
<1> HIDE DEF S, b, A
<1>7. Folded("packet", ctx, b, q) \in S[Len(q)]
  BY <1>1, <1>2, <1>5, <1>6, FoldedIn
<1> QED BY <1>2, <1>3, <1>5, <1>7 DEF A

LEMMA PacketizeCounted ==
  ASSUME NEW ctx \in Contexts, NEW rel, rel.buffer \in Buffer, rel.seq \in Nat,
         rel.tracked \in Tracked(rel.seq), NEW m \in Nat, OnePiece(rel.buffer, m)
  PROVE Counted(Len(packetize(ctx, rel).frames), packetize(ctx, rel).buffer, m)
<1> DEFINE n == Permitted(ctx, rel)
           q == [i \in 1 .. n |-> i]
           b == [buffer |-> rel.buffer, seq |-> rel.seq, frames |-> <<>>]
           A == {a \in Accs(rel.seq, Content(rel.buffer)) : Counted(Len(a.frames), a.buffer, m)}
           S == [i \in 0 .. n |-> A]
<1>1. n \in Nat
  BY PermittedNat
<1>2. Len(q) = n
  <2> HIDE DEF n
  <2> QED BY <1>1
<1>3. packetize(ctx, rel) = Folded("packet", ctx, b, q)
  BY <1>1, PacketFolded
<1> HIDE DEF n, q
<1>4. b \in A
  <2>1. b \in Accs(rel.seq, Content(rel.buffer))
    BY CutsStart, MakeAcc
  <2>2. Len(b.frames) = 0 /\ b.buffer = rel.buffer
    OBVIOUS
  <2>3. MaxPayload \in Nat /\ (0 * MaxPayload) + m = m
    BY PacketizerAssumption
  <2>4. Counted(0, rel.buffer, m)
    BY <2>3 DEF Counted
  <2> QED BY <2>1, <2>2, <2>4
<1>5. b \in S[0] /\ S[n] = A
  BY <1>1, <1>4
<1>6. ASSUME NEW i \in 1 .. n, NEW v \in S[i - 1] PROVE Step("packet", ctx, v, q[i]) \in S[i]
  <2>1. v \in A /\ S[i] = A
    BY <1>1
  <2>2. Step("packet", ctx, v, q[i]) = PacketizeOne(ctx, v)
    BY DEF Step
  <2>3. v = [buffer |-> v.buffer, seq |-> v.seq, frames |-> v.frames] /\ v.buffer \in Buffer /\ v.seq \in Nat
    BY <2>1, AccIs
  <2>4. OneMore(v, PacketizeOne(ctx, v), create_chunk(v.buffer).chunk, create_chunk(v.buffer).sb)
    BY <2>3, PacketizeOneIs
  <2>5. Chunked(v.buffer, create_chunk(v.buffer).chunk, create_chunk(v.buffer).sb)
    BY <2>3, ChunkIs
  <2>6. PacketizeOne(ctx, v) \in Accs(rel.seq, Content(rel.buffer))
    BY <2>1, <2>4, <2>5, OneMoreCuts
  <2>7. Counted(Len(PacketizeOne(ctx, v).frames), PacketizeOne(ctx, v).buffer, m)
    BY <2>1, <2>4, OneMoreCounted
  <2> QED BY <2>1, <2>2, <2>6, <2>7
<1>8. \A a \in A : Counted(Len(a.frames), a.buffer, m)
  OBVIOUS
<1> HIDE DEF S, b, A
<1>7. Folded("packet", ctx, b, q) \in S[Len(q)]
  BY <1>1, <1>2, <1>5, <1>6, FoldedIn
<1> QED BY <1>2, <1>3, <1>5, <1>7, <1>8

LEMMA FromFrameIs ==
  ASSUME NEW f, NEW c \in {"Push", "Fin"}, NEW n \in Nat, NEW b \in Seq(Nat), Makes(f, c, n, b)
  PROVE /\ Tracks(f) /\ sequence_number(f) = n /\ from_frame(f) \in Info
        /\ from_frame(f).type = c /\ from_frame(f).body = b
<1> DEFINE mode == reliability_mode_with_config(f, Layered)
<1>1. command(f) = c /\ f.header.seq = n /\ f.body = b
  BY DEF Makes
<1>2. ~ is_long_header(c) /\ n # -1 /\ c \notin {"Ack", "Ping"}
  BY DEF is_long_header
<1>3. sequence_number(f) = n
  BY <1>1, <1>2 DEF sequence_number
<1>4. mode \in {"Reliable", "SimpleRetransmit"}
  BY <1>1, <1>2 DEF reliability_mode_with_config
<1>5. frame_type(f) = c
  BY <1>1, <1>2 DEF frame_type
<1> HIDE DEF mode
<1>6. from_frame(f) = [type |-> c, body |-> b, mode |-> mode]
  BY <1>1, <1>5 DEF from_frame, mode
<1>7. Tracks(f)
  BY <1>2, <1>3, <1>4 DEF Tracks, mode, NoNumber
<1> QED BY <1>3, <1>4, <1>6, <1>7 DEF Info

\* What may be tracked: P has pairs of a number and what is kept for it.
TrackedIn(n, P) == {T \in Tracked(n) : \A s \in DOMAIN T : <<s, T[s]>> \in P}

LEMMA TrackOne ==
  ASSUME NEW n \in Nat, NEW P, NEW T \in TrackedIn(n, P),
         NEW f, NEW c \in {"Push", "Fin"}, NEW s \in 0 .. n - 1, NEW b \in Seq(Nat),
         Makes(f, c, s, b), <<s, from_frame(f)>> \in P
  PROVE add_in_flight_packet(T, f) \in TrackedIn(n, P)
<1> DEFINE D == DOMAIN T \cup {s}
           i == from_frame(f)
           U == [r \in D |-> IF r = s THEN i ELSE T[r]]
<1>1. Tracks(f) /\ sequence_number(f) = s /\ i \in Info
  BY FromFrameIs
<1>2. add_in_flight_packet(T, f) = U
  BY <1>1, Zenon DEF add_in_flight_packet
<1>3. /\ DOMAIN T \subseteq 0 .. n - 1 /\ \A r \in DOMAIN T : T[r] \in Info /\ <<r, T[r]>> \in P
  BY TrackedIs DEF TrackedIn
<1>4. D \in SUBSET (0 .. n - 1) /\ DOMAIN U = D
  BY <1>3
<1> HIDE DEF i
<1>5. ASSUME NEW r \in D PROVE U[r] \in Info /\ <<r, U[r]>> \in P
  <2>1. CASE r = s
    BY <1>1, <2>1 DEF i
  <2>2. CASE r # s
    BY <1>3, <2>2
  <2> QED BY <2>1, <2>2
<1>6. U = [r \in DOMAIN U |-> U[r]]
  OBVIOUS
<1> HIDE DEF U, D
<1>7. U \in Tracked(n)
  BY <1>4, <1>5, <1>6, TrackedIs
<1> QED BY <1>2, <1>4, <1>5, <1>7 DEF TrackedIn

\* Frames that are kept, with numbers below n, and what is kept of them in P.
Keepable(f, n, P) ==
  /\ <<f.header.seq, from_frame(f)>> \in P
  /\ \E c \in {"Push", "Fin"}, s \in 0 .. n - 1, b \in Seq(Nat) : Makes(f, c, s, b)

LEMMA TrackAllIs ==
  ASSUME NEW n \in Nat, NEW P, NEW T \in TrackedIn(n, P), NEW fs, Sequence(fs),
         \A i \in 1 .. Len(fs) : Keepable(fs[i], n, P)
  PROVE TrackAll(T, fs) \in TrackedIn(n, P)
<1> DEFINE A == TrackedIn(n, P)
           S == [i \in 0 .. Len(fs) |-> A]
<1>1. Len(fs) \in Nat /\ DOMAIN fs = 1 .. Len(fs)
  BY SequenceFacts
<1>2. T \in S[0] /\ S[Len(fs)] = A
  BY <1>1
<1>3. ASSUME NEW i \in 1 .. Len(fs), NEW v \in S[i - 1] PROVE Step("track", 0, v, fs[i]) \in S[i]
  <2>1. v \in A /\ S[i] = A
    BY <1>1
  <2>2. Step("track", 0, v, fs[i]) = add_in_flight_packet(v, fs[i])
    BY DEF Step
  <2>3. PICK c \in {"Push", "Fin"}, s \in 0 .. n - 1, b \in Seq(Nat) : Makes(fs[i], c, s, b)
    BY DEF Keepable
  <2>4. <<s, from_frame(fs[i])>> \in P
    BY <2>3 DEF Keepable, Makes
  <2>5. add_in_flight_packet(v, fs[i]) \in A
    BY <2>1, <2>3, <2>4, TrackOne
  <2> QED BY <2>1, <2>2, <2>5
<1> HIDE DEF S, A
<1>4. Folded("track", 0, T, fs) \in S[Len(fs)]
  BY <1>1, <1>2, <1>3, FoldedIn
<1> QED BY <1>1, <1>2, <1>4, TrackFolded DEF A

LEMMA TrackedGrows ==
  ASSUME NEW n \in Nat, NEW m \in Nat, n <= m, NEW P, NEW Q, P \subseteq Q, NEW T \in TrackedIn(n, P)
  PROVE T \in TrackedIn(m, Q)
<1>1. T \in Tracked(n) /\ \A s \in DOMAIN T : <<s, T[s]>> \in Q
  BY DEF TrackedIn
<1>2. 0 .. n - 1 \subseteq 0 .. m - 1
  OBVIOUS
<1>3. T \in Tracked(m)
  BY <1>1, <1>2, TrackedIs
<1> QED BY <1>1, <1>3 DEF TrackedIn

LEMMA InOrderIs ==
  ASSUME NEW numbers, ep.rel.seq \in Nat
  PROVE InOrder(numbers) \in Seq(numbers)
<1> DEFINE q == [i \in 1 .. ep.rel.seq |-> i - 1]
           A == Seq(numbers)
           S == [i \in 0 .. Len(q) |-> A]
<1>1. Len(q) \in Nat
  OBVIOUS
<1>2. InOrder(numbers) = Folded("order", numbers, <<>>, q)
  BY OrderFolded
<1> HIDE DEF q
<1>3. <<>> \in S[0] /\ S[Len(q)] = A
  BY <1>1
<1>4. ASSUME NEW i \in 1 .. Len(q), NEW v \in S[i - 1] PROVE Step("order", numbers, v, q[i]) \in S[i]
  <2>1. v \in A /\ S[i] = A
    BY <1>1
  <2>2. Step("order", numbers, v, q[i]) = IF q[i] \in numbers THEN Append(v, q[i]) ELSE v
    BY DEF Step
  <2>3. q[i] \in numbers => Append(v, q[i]) \in A
    BY <2>1
  <2> QED BY <2>1, <2>2, <2>3
<1> HIDE DEF S
<1>5. Folded("order", numbers, <<>>, q) \in S[Len(q)]
  BY <1>1, <1>3, <1>4, FoldedIn
<1> QED BY <1>2, <1>3, <1>5

Remade(info) == IF info.type = "Push" THEN info.body ELSE <<>>

LEMMA ReconstructIs ==
  ASSUME NEW info \in Info, NEW s \in Nat, NEW ctx \in Contexts
  PROVE Makes(reconstruct_frame(s, info, ctx), info.type, s, Remade(info))
<1>1. ctx.cid \in Word /\ ctx.next \in Word /\ ctx.mine \in Half /\ ctx.timestamp \in Word
  BY DEF Contexts
<1>2. info.type \in {"Push", "Fin"} /\ info.body \in Seq(Nat)
  BY DEF Info
<1>3. CASE info.type = "Push"
  <2>1. info.type # "Fin" /\ info.type # "PathChallenge" /\ info.type # "PathResponse"
    BY <1>3
  <2>2. reconstruct_frame(s, info, ctx) = new_push(ctx.cid, s, ctx.next, ctx.mine, ctx.timestamp, info.body)
    BY <1>3, <2>1 DEF reconstruct_frame
  <2>3. Makes(new_push(ctx.cid, s, ctx.next, ctx.mine, ctx.timestamp, info.body), "Push", s, info.body)
    BY <1>1, <1>2, PushIs
  <2> QED BY <1>3, <2>2, <2>3 DEF Remade
<1>4. CASE info.type = "Fin"
  <2>1. info.type # "Push" /\ info.type # "PathChallenge" /\ info.type # "PathResponse"
    BY <1>4
  <2>2. reconstruct_frame(s, info, ctx) = new_fin(ctx.cid, s, ctx.timestamp, ctx.next, ctx.mine)
    BY <1>4, <2>1 DEF reconstruct_frame
  <2>3. Makes(new_fin(ctx.cid, s, ctx.timestamp, ctx.next, ctx.mine), "Fin", s, <<>>)
    BY <1>1, <1>2, FinIs
  <2> QED BY <1>4, <2>1, <2>2, <2>3 DEF Remade
<1> QED BY <1>2, <1>3, <1>4
=============================================================================
