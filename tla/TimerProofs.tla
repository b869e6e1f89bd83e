----------------------------- MODULE TimerProofs -----------------------------
(***************************************************************************)
(* Proofs about the timing wheel and the timer task, for every size of the *)
(* wheel, every number of timers and every order of commands and expiries. *)
(***************************************************************************)
EXTENDS TimerTask, FiniteSetTheorems, WellFoundedInduction, TLAPS

----------------------------------------------------------------------------
(* Least and greatest numbers.                                             *)

LEMMA LeastNumber ==
  ASSUME NEW T \in SUBSET Nat, T # {}
  PROVE \E n \in T : \A m \in T : n <= m
<1> DEFINE Down == {1..n : n \in T}
           R == StrictSubsetOrdering(Nat)
<1>1. ASSUME NEW n \in T PROVE 1..n \in FiniteSubsetsOf(Nat)
  BY FS_Interval DEF FiniteSubsetsOf
<1>2. Down \subseteq FiniteSubsetsOf(Nat) /\ Down # {}
  BY <1>1
<1>3. IsWellFoundedOn(R, FiniteSubsetsOf(Nat))
  BY FS_StrictSubsetOrderingWellFounded
<1>4. PICK x \in Down : \A y \in Down : ~ (<<y, x>> \in R)
  <2> HIDE DEF Down, R
  <2> QED BY <1>2, <1>3, WFMin
<1>5. PICK n \in T : x = 1..n
  BY <1>4
<1>6. ASSUME NEW m \in T, m < n PROVE FALSE
  <2>1. 1..m \in Down
    OBVIOUS
  <2>2. 1..m \in SUBSET Nat /\ 1..n \in SUBSET Nat /\ 1..m \subseteq 1..n
    BY <1>6
  <2>3. n \in 1..n /\ n \notin 1..m
    BY <1>6
  <2>4. <<1..m, x>> \in R
    BY <1>5, <2>2, <2>3 DEF StrictSubsetOrdering
  <2> QED BY <1>4, <2>1, <2>4
<1>7. \A m \in T : n <= m
  BY <1>6
<1> QED BY <1>7

LEMMA MaxIsGreatest ==
  ASSUME NEW b \in Nat, NEW S \in SUBSET (1 .. b), S # {}
  PROVE Max(S) \in S /\ \A x \in S : Max(S) >= x
<1> DEFINE U == {u \in Nat : \A x \in S : x <= u}
<1>1. b \in U /\ U \in SUBSET Nat
  OBVIOUS
<1>2. PICK u \in U : \A v \in U : u <= v
  <2> HIDE DEF U
  <2> QED BY <1>1, LeastNumber
<1>3. u \in S
  <2>1. SUFFICES ASSUME u \notin S PROVE FALSE
    OBVIOUS
  <2>2. \A x \in S : x \in Nat /\ x < u
    BY <2>1, <1>2
  <2> u \in Nat /\ \E y \in S : TRUE
    OBVIOUS
  <2> HIDE DEF U
  <2>3. u - 1 \in Nat /\ \A x \in S : x <= u - 1
    BY <2>2
  <2>4. u - 1 \in U
    BY <2>3 DEF U
  <2>5. u \in Nat
    OBVIOUS
  <2> QED BY <2>4, <2>5, <1>2
<1>4. \E n \in S : \A m \in S : n >= m
  BY <1>2, <1>3
<1> QED BY <1>4 DEF Max

LEMMA CountUp ==
  ASSUME NEW n \in Nat, NEW G, 0 \in G, \A i \in 1 .. n : i - 1 \in G => i \in G
  PROVE n \in G
<1> DEFINE N == {i \in 0 .. n : i \notin G}
<1>1. SUFFICES ASSUME N # {} PROVE FALSE
  OBVIOUS
<1>2. PICK m \in N : \A j \in N : m <= j
  <2>1. N \in SUBSET Nat
    OBVIOUS
  <2> HIDE DEF N
  <2> QED BY <1>1, <2>1, LeastNumber
<1>3. m \in 1 .. n /\ m - 1 \in 0 .. n /\ m - 1 \notin N
  BY <1>2
<1> QED BY <1>2, <1>3

----------------------------------------------------------------------------
(* Folds.  FoldLeft is a function on the sets of positions, defined by its *)
(* own values.  Step names the operators that are folded, so that the facts*)
(* about such a function are proved once for all of them.                  *)

Step(k, c, v, x) ==
  CASE k = "push"   -> PushBack(v, x)
    [] k = "cancel" -> CancelAt(v, x)
    [] k = "clear"  -> ClearOne(v, x)
    [] k = "turn"   -> AdvanceOneSlot(v, c)
    [] OTHER        -> Trigger(v, x)

\* f folds Step over the sets of the first n positions of s.
Folds(f, k, c, b, s, n) ==
  f = [T \in SUBSET (1 .. n) |->
         IF T = {} THEN b ELSE Step(k, c, f[T \ {Max(T)}], s[Max(T)])]

LEMMA FoldExists ==
  ASSUME NEW k, NEW c, NEW b, NEW s, NEW n \in Nat
  PROVE \E f : Folds(f, k, c, b, s, n)
<1> DEFINE N == {m \in Nat : ~ \E f : Folds(f, k, c, b, s, m)}
<1>1. SUFFICES ASSUME N # {} PROVE FALSE
  OBVIOUS
<1>2. PICK m \in N : \A j \in N : m <= j
  <2>1. N \in SUBSET Nat
    OBVIOUS
  <2> HIDE DEF N
  <2> QED BY <1>1, <2>1, LeastNumber
<1>3. m # 0
  <2>1. SUBSET (1 .. 0) = {{}}
    OBVIOUS
  <2> DEFINE e == [T \in SUBSET (1 .. 0) |-> b]
  <2>3. e = [T \in SUBSET (1 .. 0) |->
               IF T = {} THEN b ELSE Step(k, c, e[T \ {Max(T)}], s[Max(T)])]
    BY <2>1, Zenon
  <2>2. Folds(e, k, c, b, s, 0)
    BY <2>3, Zenon DEF Folds
  <2> QED BY <2>2
<1>4. m \in Nat /\ m - 1 \in Nat /\ m - 1 \notin N
  BY <1>2, <1>3
<1>5. PICK f : Folds(f, k, c, b, s, m - 1)
  BY <1>4
<1> DEFINE g == [T \in SUBSET (1 .. m) |->
                   IF T = {} THEN b ELSE Step(k, c, f[T \ {Max(T)}], s[Max(T)])]
<1>6. \A T \in SUBSET (1 .. m - 1) : T \in SUBSET (1 .. m)
  BY <1>4
<1>7. \A T \in SUBSET (1 .. m - 1) :
        f[T] = IF T = {} THEN b ELSE Step(k, c, f[T \ {Max(T)}], s[Max(T)])
  BY <1>5, Zenon DEF Folds
<1>8. \A T \in SUBSET (1 .. m - 1) : g[T] = f[T]
  BY <1>6, <1>7, Zenon
<1>9. ASSUME NEW T \in SUBSET (1 .. m), T # {}
      PROVE T \ {Max(T)} \in SUBSET (1 .. m - 1)
  <2>1. Max(T) \in T /\ \A x \in T : Max(T) >= x
    BY <1>4, <1>9, MaxIsGreatest
  <2> DEFINE x == Max(T)
  <2>3. x \in T /\ \A y \in T : x >= y /\ y \in 1 .. m
    BY <2>1
  <2> HIDE DEF x
  <2>2. \A y \in T \ {x} : y \in 1 .. m - 1
    BY <2>3, <1>4
  <2> QED BY <2>2 DEF x
<1>10. \A T \in SUBSET (1 .. m) :
         g[T] = IF T = {} THEN b ELSE Step(k, c, g[T \ {Max(T)}], s[Max(T)])
  <2> SUFFICES ASSUME NEW T \in SUBSET (1 .. m)
               PROVE g[T] = IF T = {} THEN b ELSE Step(k, c, g[T \ {Max(T)}], s[Max(T)])
    OBVIOUS
  <2>1. g[T] = IF T = {} THEN b ELSE Step(k, c, f[T \ {Max(T)}], s[Max(T)])
    OBVIOUS
  <2>2. T # {} => g[T \ {Max(T)}] = f[T \ {Max(T)}]
    BY <1>8, <1>9, Zenon
  <2> HIDE DEF g
  <2> QED BY <2>1, <2>2, Zenon
<1>11. DOMAIN g = SUBSET (1 .. m) /\ g = [T \in SUBSET (1 .. m) |-> g[T]]
  OBVIOUS
<1> HIDE DEF g
<1>12. Folds(g, k, c, b, s, m)
  BY <1>10, <1>11 DEF Folds
<1> QED BY <1>2, <1>12 DEF N

\* h has, for every n, the fold of the first n elements of s.
Walk(h, k, c, b, s) ==
  /\ h[0] = b
  /\ \A i \in 1 .. Len(s) : h[i] = Step(k, c, h[i - 1], s[i])

LEMMA FoldWalks ==
  ASSUME NEW k, NEW c, NEW b, NEW s, NEW f, Len(s) \in Nat, Folds(f, k, c, b, s, Len(s))
  PROVE \E h : Walk(h, k, c, b, s) /\ h[Len(s)] = f[1 .. Len(s)]
<1> DEFINE h == [i \in 0 .. Len(s) |-> f[1 .. i]]
           n == Len(s)
<1>1. \A T \in SUBSET (1 .. n) :
        f[T] = IF T = {} THEN b ELSE Step(k, c, f[T \ {Max(T)}], s[Max(T)])
  BY Zenon DEF Folds
<1> n \in Nat
  OBVIOUS
<1> HIDE DEF n
<1>2. h[0] = b
  <2>1. 1 .. 0 = {} /\ {} \in SUBSET (1 .. n) /\ 0 \in 0 .. n
    BY DEF n
  <2>2. f[{}] = b
    BY <1>1, <2>1
  <2> QED BY <2>1, <2>2 DEF n
<1>3. ASSUME NEW i \in 1 .. n PROVE h[i] = Step(k, c, h[i - 1], s[i])
  <2>1. 1 .. i \in SUBSET (1 .. n) /\ i \in 1 .. i
    OBVIOUS
  <2>2. Max(1 .. i) \in 1 .. i /\ \A x \in 1 .. i : Max(1 .. i) >= x
    BY <2>1, MaxIsGreatest
  <2>3. Max(1 .. i) = i
    BY <2>2
  <2>4. (1 .. i) \ {i} = 1 .. i - 1
    OBVIOUS
  <2>5. f[1 .. i] = Step(k, c, f[1 .. i - 1], s[i])
    BY <1>1, <2>1, <2>3, <2>4
  <2>6. i \in 0 .. n /\ i - 1 \in 0 .. n
    OBVIOUS
  <2> QED BY <2>5, <2>6 DEF n
<1>4. h[n] = f[1 .. n]
  BY DEF n
<1> HIDE DEF h
<1> QED BY <1>2, <1>3, <1>4 DEF Walk, n

LEMMA WalksAgree ==
  ASSUME NEW k, NEW c, NEW b, NEW s, NEW t, NEW h, NEW g,
         Len(s) \in Nat, Len(t) \in Nat,
         Walk(h, k, c, b, s), Walk(g, k, c, b, t),
         NEW n \in Nat, n <= Len(s), n <= Len(t), \A i \in 1 .. n : s[i] = t[i]
  PROVE h[n] = g[n]
<1> DEFINE N == {m \in 0 .. n : h[m] # g[m]}
<1>1. SUFFICES ASSUME N # {} PROVE FALSE
  OBVIOUS
<1>2. PICK m \in N : \A j \in N : m <= j
  <2>1. N \in SUBSET Nat
    OBVIOUS
  <2> HIDE DEF N
  <2> QED BY <1>1, <2>1, LeastNumber
<1>3. m # 0
  BY DEF Walk
<1>4. m \in 1 .. n /\ m - 1 \in 0 .. n /\ m - 1 \notin N
  BY <1>2, <1>3
<1>5. h[m - 1] = g[m - 1]
  BY <1>4
<1>6. m \in 1 .. Len(s) /\ m \in 1 .. Len(t) /\ s[m] = t[m]
  BY <1>4
<1>7. h[m] = Step(k, c, h[m - 1], s[m]) /\ g[m] = Step(k, c, g[m - 1], t[m])
  BY <1>6 DEF Walk
<1> QED BY <1>5, <1>6, <1>7

\* The fold of a whole sequence.
Folded(k, c, b, s) == CHOOSE v : \E h : Walk(h, k, c, b, s) /\ v = h[Len(s)]

LEMMA FoldedIs ==
  ASSUME NEW k, NEW c, NEW b, NEW s, Len(s) \in Nat, NEW h, Walk(h, k, c, b, s)
  PROVE Folded(k, c, b, s) = h[Len(s)]
<1>1. \E g : Walk(g, k, c, b, s) /\ Folded(k, c, b, s) = g[Len(s)]
  BY Zenon DEF Folded
<1>2. PICK g : Walk(g, k, c, b, s) /\ Folded(k, c, b, s) = g[Len(s)]
  BY <1>1
<1> QED BY <1>2, WalksAgree

LEMMA FoldedWalks ==
  ASSUME NEW k, NEW c, NEW b, NEW s, Len(s) \in Nat
  PROVE \E h : Walk(h, k, c, b, s) /\ Folded(k, c, b, s) = h[Len(s)]
<1>1. PICK f : Folds(f, k, c, b, s, Len(s))
  BY FoldExists
<1>2. PICK h : Walk(h, k, c, b, s)
  BY <1>1, FoldWalks
<1> QED BY <1>2, FoldedIs

\* What FoldLeft computes, once its function is known to be of the kind above.
LEMMA FoldIsFolded ==
  ASSUME NEW k, NEW c, NEW b, NEW s, NEW f, NEW v, Len(s) \in Nat,
         Folds(f, k, c, b, s, Len(s)), v = f[1 .. Len(s)]
  PROVE Folded(k, c, b, s) = v
<1>1. PICK h : Walk(h, k, c, b, s) /\ h[Len(s)] = f[1 .. Len(s)]
  BY FoldWalks
<1> QED BY <1>1, FoldedIs

LEMMA PushFolded ==
  ASSUME NEW w, NEW s, Len(s) \in Nat, DOMAIN s = 1 .. Len(s)
  PROVE FoldLeft(PushBack, w, s) = Folded("push", 0, w, s)
<1> DEFINE F(f) == f = [T \in SUBSET DOMAIN s |->
                          IF T = {} THEN w ELSE PushBack(f[T \ {Max(T)}], s[Max(T)])]
           g == CHOOSE f : F(f)
<1>1. \A v, x : Step("push", 0, v, x) = PushBack(v, x)
  BY DEF Step
<1>2. ASSUME NEW f PROVE F(f) <=> Folds(f, "push", 0, w, s, Len(s))
  BY <1>1 DEF Folds
<1>3. \E f : F(f)
  BY <1>2, FoldExists
<1>4. F(g)
  BY <1>3, Zenon
<1>5. FoldLeft(PushBack, w, s) = g[DOMAIN s]
  BY DEF FoldLeft, MapThenFoldSet
<1> HIDE DEF F, g
<1>6. Folded("push", 0, w, s) = g[1 .. Len(s)]
  BY <1>2, <1>4, FoldIsFolded
<1> QED BY <1>5, <1>6

LEMMA CancelFolded ==
  ASSUME NEW a, NEW s, Len(s) \in Nat, DOMAIN s = 1 .. Len(s)
  PROVE FoldLeft(CancelAt, a, s) = Folded("cancel", 0, a, s)
<1> DEFINE F(f) == f = [T \in SUBSET DOMAIN s |->
                          IF T = {} THEN a ELSE CancelAt(f[T \ {Max(T)}], s[Max(T)])]
           g == CHOOSE f : F(f)
<1>1. \A v, x : Step("cancel", 0, v, x) = CancelAt(v, x)
  BY DEF Step
<1>2. ASSUME NEW f PROVE F(f) <=> Folds(f, "cancel", 0, a, s, Len(s))
  BY <1>1 DEF Folds
<1>3. \E f : F(f)
  BY <1>2, FoldExists
<1>4. F(g)
  BY <1>3, Zenon
<1>5. FoldLeft(CancelAt, a, s) = g[DOMAIN s]
  BY DEF FoldLeft, MapThenFoldSet
<1> HIDE DEF F, g
<1>6. Folded("cancel", 0, a, s) = g[1 .. Len(s)]
  BY <1>2, <1>4, FoldIsFolded
<1> QED BY <1>5, <1>6

LEMMA ClearFolded ==
  ASSUME NEW a, NEW s, Len(s) \in Nat, DOMAIN s = 1 .. Len(s)
  PROVE FoldLeft(ClearOne, a, s) = Folded("clear", 0, a, s)
<1> DEFINE F(f) == f = [T \in SUBSET DOMAIN s |->
                          IF T = {} THEN a ELSE ClearOne(f[T \ {Max(T)}], s[Max(T)])]
           g == CHOOSE f : F(f)
<1>1. \A v, x : Step("clear", 0, v, x) = ClearOne(v, x)
  BY DEF Step
<1>2. ASSUME NEW f PROVE F(f) <=> Folds(f, "clear", 0, a, s, Len(s))
  BY <1>1 DEF Folds
<1>3. \E f : F(f)
  BY <1>2, FoldExists
<1>4. F(g)
  BY <1>3, Zenon
<1>5. FoldLeft(ClearOne, a, s) = g[DOMAIN s]
  BY DEF FoldLeft, MapThenFoldSet
<1> HIDE DEF F, g
<1>6. Folded("clear", 0, a, s) = g[1 .. Len(s)]
  BY <1>2, <1>4, FoldIsFolded
<1> QED BY <1>5, <1>6

LEMMA TriggerFolded ==
  ASSUME NEW a, NEW s, Len(s) \in Nat, DOMAIN s = 1 .. Len(s)
  PROVE FoldLeft(Trigger, a, s) = Folded("trigger", 0, a, s)
<1> DEFINE F(f) == f = [T \in SUBSET DOMAIN s |->
                          IF T = {} THEN a ELSE Trigger(f[T \ {Max(T)}], s[Max(T)])]
           g == CHOOSE f : F(f)
<1>1. \A v, x : Step("trigger", 0, v, x) = Trigger(v, x)
  BY DEF Step
<1>2. ASSUME NEW f PROVE F(f) <=> Folds(f, "trigger", 0, a, s, Len(s))
  BY <1>1 DEF Folds
<1>3. \E f : F(f)
  BY <1>2, FoldExists
<1>4. F(g)
  BY <1>3, Zenon
<1>5. FoldLeft(Trigger, a, s) = g[DOMAIN s]
  BY DEF FoldLeft, MapThenFoldSet
<1> HIDE DEF F, g
<1>6. Folded("trigger", 0, a, s) = g[1 .. Len(s)]
  BY <1>2, <1>4, FoldIsFolded
<1> QED BY <1>5, <1>6

LEMMA TurnFolded ==
  ASSUME NEW c, NEW a, NEW s, Len(s) \in Nat, DOMAIN s = 1 .. Len(s)
  PROVE FoldLeft(LAMBDA v, x : AdvanceOneSlot(v, c), a, s) = Folded("turn", c, a, s)
<1> DEFINE F(f) == f = [T \in SUBSET DOMAIN s |->
                          IF T = {} THEN a ELSE AdvanceOneSlot(f[T \ {Max(T)}], c)]
           g == CHOOSE f : F(f)
<1>1. \A v, x : Step("turn", c, v, x) = AdvanceOneSlot(v, c)
  BY DEF Step
<1>2. ASSUME NEW f PROVE F(f) <=> Folds(f, "turn", c, a, s, Len(s))
  BY <1>1 DEF Folds
<1>3. \E f : F(f)
  BY <1>2, FoldExists
<1>4. F(g)
  BY <1>3, Zenon
<1>5. FoldLeft(LAMBDA v, x : AdvanceOneSlot(v, c), a, s) = g[DOMAIN s]
  BY DEF FoldLeft, MapThenFoldSet
<1> HIDE DEF F, g
<1>6. Folded("turn", c, a, s) = g[1 .. Len(s)]
  BY <1>2, <1>4, FoldIsFolded
<1> QED BY <1>5, <1>6

----------------------------------------------------------------------------
(* The elements at the positions of a set.                                 *)

Below(S, s) == {u \in S : u < s}

\* The ranks of the elements are 0, 1, and so on.
LEMMA Ranks ==
  ASSUME NEW S \in SUBSET Nat, IsFiniteSet(S)
  PROVE /\ Cardinality(S) \in Nat
        /\ \A s \in S : Cardinality(Below(S, s)) \in 0 .. Cardinality(S) - 1
        /\ \A s, u \in S : s < u => Cardinality(Below(S, s)) < Cardinality(Below(S, u))
        /\ \A k \in 1 .. Cardinality(S) : \E s \in S : Cardinality(Below(S, s)) = k - 1
<1> DEFINE n == Cardinality(S)
           rank == [s \in S |-> Cardinality(Below(S, s))]
<1>1. n \in Nat
  BY FS_CardinalityType
<1>2. ASSUME NEW T \in SUBSET S, NEW x \in S, x \notin T
      PROVE Cardinality(T) \in Nat /\ Cardinality(T) < n
  <2>1. T # S
    BY <1>2
  <2>2. IsFiniteSet(T)
    BY FS_Subset
  <2>3. Cardinality(T) \in Nat
    BY <2>2, FS_CardinalityType
  <2>4. Cardinality(T) <= n /\ (Cardinality(S) = Cardinality(T) => S = T)
    BY FS_Subset
  <2> QED BY <2>1, <2>3, <2>4, <1>1
<1>3. ASSUME NEW s \in S PROVE rank[s] \in 0 .. n - 1
  <2>1. Below(S, s) \in SUBSET S /\ s \notin Below(S, s)
    BY DEF Below
  <2>2. Cardinality(Below(S, s)) \in Nat /\ Cardinality(Below(S, s)) < n
    BY <2>1, <1>2
  <2> HIDE DEF n
  <2> QED BY <2>2, <1>1
<1>4. ASSUME NEW s \in S, NEW u \in S, s < u PROVE rank[s] < rank[u]
  <2>1. Below(S, s) \in SUBSET Below(S, u) /\ s \in Below(S, u) /\ s \notin Below(S, s)
    <3>1. \A x \in S : x < s => x < u
      BY <1>4
    <3>2. ~ (s < s)
      BY s \in Nat
    <3>3. Below(S, s) \in SUBSET Below(S, u)
      BY <3>1, Zenon DEF Below
    <3>4. s \in Below(S, u) /\ s \notin Below(S, s)
      BY <3>2, <1>4, Zenon DEF Below
    <3> QED BY <3>3, <3>4
  <2>2. IsFiniteSet(Below(S, u))
    <3>1. Below(S, u) \in SUBSET S
      BY DEF Below
    <3> QED BY <3>1, FS_Subset
  <2>3. Below(S, s) # Below(S, u)
    BY <2>1
  <2>4. Cardinality(Below(S, s)) < Cardinality(Below(S, u))
    BY <2>1, <2>2, <2>3, FS_Subset, FS_CardinalityType, <1>3
  <2> QED BY <2>4
<1>5. rank \in Injection(S, 0 .. n - 1)
  <2>1. rank \in [S -> 0 .. n - 1]
    BY <1>3
  <2>2. \A a, b \in S : rank[a] = rank[b] => a = b
    <3>1. \A a \in S : rank[a] \in Nat
      BY <1>3
    <3>2. \A a, b \in S : a < b \/ b < a \/ a = b
      OBVIOUS
    <3> HIDE DEF rank
    <3> QED BY <1>4, <3>1, <3>2
  <2> HIDE DEF rank
  <2> QED BY <2>1, <2>2 DEF Injection, IsInjective
<1>6. IsFiniteSet(0 .. n - 1) /\ Cardinality(0 .. n - 1) = n
  <2>1. 0 \in Int /\ n - 1 \in Int
    BY <1>1
  <2>2. /\ IsFiniteSet(0 .. n - 1)
        /\ Cardinality(0 .. n - 1) = IF 0 > n - 1 THEN 0 ELSE n - 1 - 0 + 1
    <3> HIDE DEF n
    <3> QED BY <2>1, FS_Interval
  <2> QED BY <2>2, <1>1
<1>7. rank \in Surjection(S, 0 .. n - 1)
  <2> HIDE DEF rank
  <2> QED BY <1>5, <1>6, FS_Injection
<1>8. ASSUME NEW k \in 1 .. n PROVE \E s \in S : rank[s] = k - 1
  <2>1. k - 1 \in 0 .. n - 1
    BY <1>1
  <2> HIDE DEF rank
  <2> QED BY <2>1, <1>7 DEF Surjection
<1>9. \A s \in S : rank[s] = Cardinality(Below(S, s))
  OBVIOUS
<1> HIDE DEF rank
<1> QED BY <1>1, <1>3, <1>4, <1>8, <1>9

Nth(S, n) == CHOOSE p \in S : Cardinality(Below(S, p)) = n - 1

LEMMA NthIs ==
  ASSUME NEW S \in SUBSET Nat, IsFiniteSet(S)
  PROVE /\ Cardinality(S) \in Nat
        /\ \A n \in 1 .. Cardinality(S) : Nth(S, n) \in S /\ Cardinality(Below(S, Nth(S, n))) = n - 1
        /\ \A m, n \in 1 .. Cardinality(S) : m < n => Nth(S, m) < Nth(S, n)
        /\ \A p \in S : /\ Cardinality(Below(S, p)) + 1 \in 1 .. Cardinality(S)
                        /\ Nth(S, Cardinality(Below(S, p)) + 1) = p
<1> DEFINE c == Cardinality(S)
           rank(p) == Cardinality(Below(S, p))
<1>1. /\ c \in Nat
      /\ \A s \in S : rank(s) \in 0 .. c - 1
      /\ \A s, u \in S : s < u => rank(s) < rank(u)
      /\ \A k \in 1 .. c : \E s \in S : rank(s) = k - 1
  BY Ranks
<1>2. \A n : Nth(S, n) = CHOOSE p \in S : rank(p) = n - 1
  BY Zenon DEF Nth
<1> HIDE DEF c, rank
<1>3. ASSUME NEW n \in 1 .. c PROVE Nth(S, n) \in S /\ rank(Nth(S, n)) = n - 1
  <2>1. \E s \in S : rank(s) = n - 1
    BY <1>1
  <2> QED BY <1>2, <2>1
<1>4. \A s, u \in S : rank(s) = rank(u) => s = u
  <2>1. \A s, u \in S : s < u \/ u < s \/ s = u
    OBVIOUS
  <2>2. \A s \in S : rank(s) \in Nat
    BY <1>1
  <2> QED BY <1>1, <2>1, <2>2
<1>5. ASSUME NEW m \in 1 .. c, NEW n \in 1 .. c, m < n PROVE Nth(S, m) < Nth(S, n)
  <2> DEFINE a == Nth(S, m)
             b == Nth(S, n)
  <2>1. a \in S /\ b \in S /\ rank(a) = m - 1 /\ rank(b) = n - 1
    BY <1>3
  <2> HIDE DEF a, b
  <2>2. a # b /\ ~ (b < a)
    BY <2>1, <1>1, <1>5
  <2>3. a \in Nat /\ b \in Nat
    BY <2>1
  <2>4. a < b
    BY <2>2, <2>3
  <2> QED BY <2>4 DEF a, b
<1>6. ASSUME NEW p \in S PROVE rank(p) + 1 \in 1 .. c /\ Nth(S, rank(p) + 1) = p
  <2>1. rank(p) \in 0 .. c - 1 /\ rank(p) + 1 \in 1 .. c
    BY <1>1
  <2> DEFINE a == Nth(S, rank(p) + 1)
  <2>2. a \in S /\ rank(a) = rank(p) + 1 - 1
    BY <2>1, <1>3
  <2> HIDE DEF a
  <2>3. rank(a) = rank(p)
    BY <2>1, <2>2
  <2> QED BY <2>1, <2>2, <2>3, <1>4 DEF a
<1> QED BY <1>1, <1>3, <1>5, <1>6 DEF c, rank

LEMMA AtPositionsIs ==
  ASSUME NEW E, NEW seq \in Seq(E), NEW S \in SUBSET (1 .. Len(seq)),
         NEW q, q = AtPositions(seq, S)
  PROVE /\ q \in Seq(E) /\ Len(q) = Cardinality(S) /\ Len(q) \in Nat /\ DOMAIN q = 1 .. Len(q)
        /\ \A n \in 1 .. Len(q) :
             Nth(S, n) \in S /\ q[n] = seq[Nth(S, n)] /\ Cardinality(Below(S, Nth(S, n))) = n - 1
        /\ \A m, n \in 1 .. Len(q) : m < n => Nth(S, m) < Nth(S, n)
        /\ \A p \in S : /\ Cardinality(Below(S, p)) + 1 \in 1 .. Len(q)
                        /\ Nth(S, Cardinality(Below(S, p)) + 1) = p
<1>1. Len(seq) \in Nat
  OBVIOUS
<1>2. S \in SUBSET Nat /\ IsFiniteSet(S)
  <2> DEFINE m == Len(seq)
  <2> HIDE DEF m
  <2>1. m \in Nat /\ S \in SUBSET (1 .. m)
    BY <1>1 DEF m
  <2>2. IsFiniteSet(1 .. m)
    BY <2>1, FS_Interval
  <2>3. S \in SUBSET Nat
    BY <2>1
  <2> QED BY <2>1, <2>2, <2>3, FS_Subset
<1> DEFINE c == Cardinality(S)
<1>3. /\ c \in Nat
      /\ \A n \in 1 .. c : Nth(S, n) \in S /\ Cardinality(Below(S, Nth(S, n))) = n - 1
      /\ \A m, n \in 1 .. c : m < n => Nth(S, m) < Nth(S, n)
      /\ \A p \in S : /\ Cardinality(Below(S, p)) + 1 \in 1 .. c
                      /\ Nth(S, Cardinality(Below(S, p)) + 1) = p
  BY <1>2, NthIs
<1>4. q = [n \in 1 .. c |-> seq[Nth(S, n)]]
  BY Zenon DEF AtPositions, Nth, Below
<1> HIDE DEF c
<1>5. \A n \in 1 .. c : seq[Nth(S, n)] \in E
  <2>1. \A p \in 1 .. Len(seq) : seq[p] \in E
    OBVIOUS
  <2> QED BY <1>3, <2>1
<1>6. q \in [1 .. c -> E]
  BY <1>4, <1>5
<1>7. q \in Seq(E) /\ Len(q) = c /\ DOMAIN q = 1 .. c
  BY <1>3, <1>6
<1>8. \A n \in 1 .. c : q[n] = seq[Nth(S, n)]
  BY <1>4
<1> QED BY <1>3, <1>7, <1>8 DEF c

----------------------------------------------------------------------------
(* Slots and index.  The operations on a wheel move entries in four ways:  *)
(* one is put behind a slot, one is taken out and the last of its slot put *)
(* in its place, some leave a slot and the rest moves up, all leave a slot.*)

Slots == [Slot -> Seq(TimerEntry)]
Index == [TimerId -> Place \cup {None}]

\* Index M says where every entry of slots S is, and nothing else.
Placed(S, M) ==
  /\ \A s \in Slot : \A p \in 1 .. Len(S[s]) : M[S[s][p].id] = <<s, p>>
  /\ \A i \in TimerId : M[i] # None =>
       M[i][2] \in 1 .. Len(S[M[i][1]]) /\ S[M[i][1]][M[i][2]].id = i

\* Every entry is in the slot of its expiry.
InSlot(S) == \A s \in Slot : \A p \in 1 .. Len(S[s]) : s = calculate_slot_index(S[s][p].expiry)

Stored(S) == {x \in TimerEntry : \E s \in Slot : \E p \in 1 .. Len(S[s]) : S[s][p] = x}

LEMMA Constants ==
  /\ SlotCount \in Nat /\ SlotCount > 0 /\ SlotDuration \in Nat /\ SlotDuration > 0
  /\ MaxTimers \in Nat /\ Slot \in SUBSET Nat /\ TimerId \in SUBSET Nat /\ None \notin Nat
  /\ 0 \in Slot
BY WheelAssumption DEF Slot, TimerId

LEMMA EntryFields ==
  ASSUME NEW e \in TimerEntry
  PROVE /\ e.id \in TimerId /\ e.expiry \in Nat /\ e.conn \in Conn /\ e.kind \in Kind
        /\ e.id \in Nat /\ e.id # None
BY Constants DEF TimerEntry

LEMMA SlotFacts ==
  ASSUME NEW S \in Slots, NEW s \in Slot
  PROVE /\ S[s] \in Seq(TimerEntry) /\ Len(S[s]) \in Nat /\ DOMAIN S[s] = 1 .. Len(S[s])
        /\ \A p \in 1 .. Len(S[s]) : /\ S[s][p] \in TimerEntry /\ S[s][p].id \in TimerId
                                     /\ S[s][p].expiry \in Nat
        /\ DOMAIN S = Slot
<1>1. S[s] \in Seq(TimerEntry) /\ DOMAIN S = Slot
  BY DEF Slots
<1>2. Len(S[s]) \in Nat /\ DOMAIN S[s] = 1 .. Len(S[s]) /\ \A p \in 1 .. Len(S[s]) : S[s][p] \in TimerEntry
  BY <1>1
<1> QED BY <1>1, <1>2, EntryFields

LEMMA HeldIs ==
  ASSUME NEW S \in Slots
  PROVE UNION {Range(S[s]) : s \in Slot} = Stored(S)
<1>1. ASSUME NEW s \in Slot PROVE Range(S[s]) = {S[s][p] : p \in 1 .. Len(S[s])}
  BY SlotFacts DEF Range
<1>2. \A s \in Slot : \A p \in 1 .. Len(S[s]) : S[s][p] \in TimerEntry
  BY SlotFacts
<1>3. \A x : x \in UNION {Range(S[s]) : s \in Slot} <=> \E s \in Slot : x \in Range(S[s])
  BY Zenon
<1>4. \A x : x \in UNION {Range(S[s]) : s \in Slot} <=> x \in Stored(S)
  <2> TAKE x
  <2>1. x \in Stored(S) <=> \E s \in Slot : \E p \in 1 .. Len(S[s]) : S[s][p] = x
    BY <1>2 DEF Stored
  <2>2. \A s \in Slot : x \in Range(S[s]) <=> \E p \in 1 .. Len(S[s]) : S[s][p] = x
    BY <1>1
  <2> QED BY <1>3, <2>1, <2>2
<1> QED BY <1>4

\* An entry is in one place only, and an id in one entry.
LEMMA OnePlace ==
  ASSUME NEW S \in Slots, NEW M \in Index, Placed(S, M), NEW s \in Slot, NEW t \in Slot,
         NEW p \in 1 .. Len(S[s]), NEW q \in 1 .. Len(S[t]), S[s][p].id = S[t][q].id
  PROVE s = t /\ p = q
<1>1. M[S[s][p].id] = <<s, p>> /\ M[S[t][q].id] = <<t, q>>
  BY DEF Placed
<1>2. <<s, p>> = <<t, q>>
  BY <1>1
<1> QED BY <1>2

LEMMA PlaceIs ==
  ASSUME NEW s \in Slot, NEW p \in Nat, p # 0
  PROVE <<s, p>> \in Place /\ <<s, p>> # None
<1>1. <<s, p>> \in Place
  BY DEF Place
<1> QED BY <1>1, WheelAssumption

LEMMA IndexFacts ==
  ASSUME NEW M \in Index, NEW i \in TimerId
  PROVE /\ DOMAIN M = TimerId /\ M[i] \in Place \cup {None}
        /\ M[i] # None => M[i] = <<M[i][1], M[i][2]>> /\ M[i][1] \in Slot /\ M[i][2] \in Nat /\ M[i][2] # 0
BY DEF Index, Place

LEMMA AtPlace ==
  ASSUME NEW S \in Slots, NEW M \in Index, Placed(S, M), NEW s \in Slot, NEW p \in 1 .. Len(S[s])
  PROVE /\ M[S[s][p].id] = <<s, p>> /\ M[S[s][p].id] # None
        /\ S[s][p] \in TimerEntry /\ S[s][p] \in Stored(S) /\ S[s][p].id \in TimerId
<1>1. Len(S[s]) \in Nat /\ S[s][p] \in TimerEntry /\ S[s][p].id \in TimerId
  BY SlotFacts
<1>2. p \in Nat /\ p # 0
  BY <1>1
<1>3. M[S[s][p].id] = <<s, p>>
  BY DEF Placed
<1>4. <<s, p>> # None
  BY <1>2, PlaceIs
<1> QED BY <1>1, <1>3, <1>4 DEF Stored

\* The ids on the index are those of the entries.
LEMMA OnIndex ==
  ASSUME NEW S \in Slots, NEW M \in Index, Placed(S, M)
  PROVE /\ \A x \in Stored(S) : M[x.id] # None
        /\ \A i \in TimerId : M[i] # None => \E x \in Stored(S) : x.id = i
        /\ \A x, y \in Stored(S) : x.id = y.id => x = y
<1>1. ASSUME NEW x \in Stored(S) PROVE M[x.id] # None
  <2>1a. PICK s \in Slot : \E p \in 1 .. Len(S[s]) : S[s][p] = x
    BY DEF Stored
  <2>1. PICK p \in 1 .. Len(S[s]) : S[s][p] = x
    BY <2>1a
  <2> QED BY <2>1, AtPlace
<1>2. ASSUME NEW i \in TimerId, M[i] # None PROVE \E x \in Stored(S) : x.id = i
  <2>1. M[i][1] \in Slot /\ M[i][2] \in 1 .. Len(S[M[i][1]]) /\ S[M[i][1]][M[i][2]].id = i
    BY <1>2, IndexFacts DEF Placed
  <2>2. S[M[i][1]][M[i][2]] \in Stored(S)
    BY <2>1, SlotFacts DEF Stored
  <2> QED BY <2>1, <2>2
<1>3. ASSUME NEW x \in Stored(S), NEW y \in Stored(S), x.id = y.id PROVE x = y
  <2>1a. PICK s \in Slot : \E p \in 1 .. Len(S[s]) : S[s][p] = x
    BY DEF Stored
  <2>1. PICK p \in 1 .. Len(S[s]) : S[s][p] = x
    BY <2>1a
  <2>2a. PICK t \in Slot : \E q \in 1 .. Len(S[t]) : S[t][q] = y
    BY DEF Stored
  <2>2. PICK q \in 1 .. Len(S[t]) : S[t][q] = y
    BY <2>2a
  <2>3. s = t /\ p = q
    BY <2>1, <2>2, <1>3, OnePlace
  <2> QED BY <2>1, <2>2, <2>3
<1> QED BY <1>1, <1>2, <1>3

LEMMA SlotOf ==
  ASSUME NEW t \in Nat
  PROVE calculate_slot_index(t) \in Slot
<1> DEFINE q == t \div SlotDuration
<1>1. q \in Nat
  BY Constants
<1> HIDE DEF q
<1>2. q % SlotCount \in 0 .. SlotCount - 1
  BY <1>1, Constants
<1> QED BY <1>2 DEF calculate_slot_index, Slot, q

Pushed(S, s, e) == [S EXCEPT ![s] = Append(@, e)]
Marked(M, i, place) == [M EXCEPT ![i] = place]
Swapped(S, s, p) ==
  [S EXCEPT ![s] = SubSeq([S[s] EXCEPT ![p] = S[s][Len(S[s])]], 1, Len(S[s]) - 1)]

\* One entry behind the slot of its expiry.
LEMMA PushTables ==
  ASSUME NEW S \in Slots, NEW M \in Index, Placed(S, M), InSlot(S),
         NEW e \in TimerEntry, M[e.id] = None, NEW s, s = calculate_slot_index(e.expiry),
         NEW S2, S2 = Pushed(S, s, e),
         NEW M2, M2 = Marked(M, e.id, <<s, Len(S[s]) + 1>>)
  PROVE /\ S2 \in Slots /\ M2 \in Index /\ Placed(S2, M2) /\ InSlot(S2)
        /\ Stored(S2) = Stored(S) \cup {e}
        /\ \A t \in Slot : t # s => S2[t] = S[t]
        /\ s \in Slot /\ S2[s] = Append(S[s], e)
<1>1. s \in Slot /\ e.id \in TimerId
  BY SlotOf, EntryFields
<1>2. S[s] \in Seq(TimerEntry) /\ Len(S[s]) \in Nat /\ DOMAIN S = Slot /\ DOMAIN M = TimerId
  BY <1>1, SlotFacts, IndexFacts
<1> DEFINE n == Len(S[s])
           q == Append(S[s], e)
<1>3. /\ q \in Seq(TimerEntry) /\ Len(q) = n + 1 /\ q[n + 1] = e
      /\ \A p \in 1 .. n : q[p] = S[s][p]
  BY <1>2
<1>4. S2 \in Slots /\ S2[s] = q /\ \A t \in Slot : t # s => S2[t] = S[t]
  BY <1>1, <1>3 DEF Slots, Pushed
<1>5. /\ <<s, n + 1>> \in Place /\ <<s, n + 1>> # None
  BY <1>1, <1>2, PlaceIs
<1>6. M2 \in Index /\ M2[e.id] = <<s, n + 1>> /\ \A i \in TimerId : i # e.id => M2[i] = M[i]
  BY <1>1, <1>5 DEF Index, Marked, n
<1>7. \A t \in Slot : \A p \in 1 .. Len(S[t]) : S[t][p].id # e.id
  <2> SUFFICES ASSUME NEW t \in Slot, NEW p \in 1 .. Len(S[t]), S[t][p].id = e.id PROVE FALSE
    OBVIOUS
  <2> QED BY AtPlace
<1> HIDE DEF q, n
<1> n \in Nat
  BY <1>2 DEF n
<1>8. Placed(S2, M2)
  <2>1. ASSUME NEW t \in Slot, NEW p \in 1 .. Len(S2[t]) PROVE M2[S2[t][p].id] = <<t, p>>
    <3>1. CASE t # s
      <4>1. S2[t] = S[t] /\ S[t][p].id \in TimerId /\ M[S[t][p].id] = <<t, p>>
        BY <3>1, <1>4, <2>1, SlotFacts DEF Placed
      <4> QED BY <4>1, <1>6, <1>7, <2>1
    <3>2. CASE t = s /\ p = n + 1
      BY <3>2, <1>3, <1>4, <1>6
    <3>3. CASE t = s /\ p # n + 1
      <4>1. p \in 1 .. Len(S[s]) /\ S2[t][p] = S[s][p]
        BY <3>3, <2>1, <1>3, <1>4 DEF n
      <4>2. S[s][p].id \in TimerId /\ M[S[s][p].id] = <<s, p>>
        BY <4>1, <1>1, SlotFacts DEF Placed
      <4> QED BY <4>1, <4>2, <3>3, <1>1, <1>6, <1>7
    <3> QED BY <3>1, <3>2, <3>3
  <2>2. ASSUME NEW i \in TimerId, M2[i] # None
        PROVE M2[i][2] \in 1 .. Len(S2[M2[i][1]]) /\ S2[M2[i][1]][M2[i][2]].id = i
    <3>1. CASE i = e.id
      BY <3>1, <1>3, <1>4, <1>6
    <3>2. CASE i # e.id
      <4> DEFINE t == M[i][1]
                 p == M[i][2]
      <4>1. M2[i] = M[i] /\ t \in Slot /\ p \in 1 .. Len(S[t]) /\ S[t][p].id = i
        BY <3>2, <2>2, <1>6, IndexFacts DEF Placed
      <4> HIDE DEF t, p
      <4>2. p \in 1 .. Len(S2[t]) /\ S2[t][p] = S[t][p]
        BY <4>1, <1>2, <1>3, <1>4 DEF n
      <4> QED BY <4>1, <4>2 DEF t, p
    <3> QED BY <3>1, <3>2
  <2> QED BY <2>1, <2>2 DEF Placed
<1>9. ASSUME NEW t \in Slot, NEW p \in 1 .. Len(S2[t])
      PROVE \/ S2[t][p] = e /\ t = s
            \/ p \in 1 .. Len(S[t]) /\ S2[t][p] = S[t][p]
  <2>1. CASE t # s
    BY <2>1, <1>4, <1>9
  <2>2. CASE t = s /\ p = n + 1
    <3>1. S2[s] = q /\ q[n + 1] = e
      BY <1>3, <1>4
    <3>2. S2[t][p] = e
      BY <2>2, <3>1
    <3> QED BY <2>2, <3>2
  <2>3. CASE t = s /\ p # n + 1
    BY <2>3, <1>3, <1>4, <1>9 DEF n
  <2> QED BY <2>1, <2>2, <2>3
<1>10. InSlot(S2)
  BY <1>9 DEF InSlot
<1>11. Stored(S2) = Stored(S) \cup {e}
  <2>1. ASSUME NEW x \in Stored(S2) PROVE x \in Stored(S) \cup {e}
    BY <1>9 DEF Stored
  <2>2. ASSUME NEW x \in Stored(S) PROVE x \in Stored(S2)
    <3>1a. PICK t \in Slot : \E p \in 1 .. Len(S[t]) : S[t][p] = x
      BY DEF Stored
    <3>1. PICK p \in 1 .. Len(S[t]) : S[t][p] = x
      BY <3>1a
    <3>2. p \in 1 .. Len(S2[t]) /\ S2[t][p] = x
      BY <3>1, <1>2, <1>3, <1>4 DEF n
    <3> QED BY <3>1, <3>2, x \in TimerEntry DEF Stored
  <2>3. e \in Stored(S2)
    <3>1. n + 1 \in 1 .. Len(S2[s]) /\ S2[s][n + 1] = e
      BY <1>3, <1>4
    <3> QED BY <3>1, <1>1 DEF Stored
  <2> QED BY <2>1, <2>2, <2>3
<1> QED BY <1>1, <1>4, <1>6, <1>8, <1>10, <1>11 DEF q

\* One entry leaves, and the last of its slot takes its place.
LEMMA RemoveTables ==
  ASSUME NEW S \in Slots, NEW M \in Index, Placed(S, M), InSlot(S),
         NEW s \in Slot, NEW p \in 1 .. Len(S[s]), NEW n, n = Len(S[s]),
         NEW id, id = S[s][p].id, NEW last, last = S[s][n],
         NEW S2, S2 = Swapped(S, s, p),
         NEW M2 \in Index, M2[id] = None, p # n => M2[last.id] = <<s, p>>,
         \A i \in TimerId : i # id /\ i # last.id => M2[i] = M[i]
  PROVE /\ S2 \in Slots /\ Placed(S2, M2) /\ InSlot(S2)
        /\ Stored(S2) = {x \in Stored(S) : x.id # id}
        /\ \A t \in Slot : t # s => S2[t] = S[t]
        /\ last.id \in TimerId /\ id \in TimerId /\ (p = n => last.id = id)
<1>1. n \in Nat /\ p \in 1 .. n /\ n \in 1 .. n /\ DOMAIN S = Slot /\ S[s] \in Seq(TimerEntry)
  BY SlotFacts
<1>2. /\ id \in TimerId /\ last.id \in TimerId /\ last \in TimerEntry
      /\ M[id] = <<s, p>> /\ M[last.id] = <<s, n>>
  BY <1>1, AtPlace
<1>3. p = n => last.id = id
  OBVIOUS
<1>4. p # n => last.id # id
  <2>1. p # n => <<s, p>> # <<s, n>>
    OBVIOUS
  <2> QED BY <1>2, <2>1
<1> DEFINE r == [S[s] EXCEPT ![p] = last]
           q == SubSeq(r, 1, n - 1)
<1>5. r \in Seq(TimerEntry) /\ Len(r) = n /\ r[p] = last /\ \A j \in 1 .. n : j # p => r[j] = S[s][j]
  <2>1. S[s] \in [1 .. n -> TimerEntry]
    BY <1>1
  <2>2. r \in [1 .. n -> TimerEntry]
    BY <2>1, <1>2
  <2>3. r[p] = last /\ \A j \in 1 .. n : j # p => r[j] = S[s][j]
    BY <2>1, <1>1
  <2> HIDE DEF r
  <2> QED BY <2>2, <2>3, <1>1
<1> HIDE DEF r
<1>6. /\ q \in Seq(TimerEntry) /\ Len(q) = n - 1 /\ \A j \in 1 .. n - 1 : q[j] = r[j]
  BY <1>1, <1>5
<1>7. S2 \in Slots /\ S2[s] = q /\ \A t \in Slot : t # s => S2[t] = S[t]
  BY <1>1, <1>6 DEF Slots, r, Swapped
<1> HIDE DEF q
\* Where the entries were.
<1>8. ASSUME NEW t \in Slot, NEW j \in 1 .. Len(S2[t])
      PROVE \/ t = s /\ j = p /\ p # n /\ S2[t][j] = last
            \/ /\ j \in 1 .. Len(S[t]) /\ S2[t][j] = S[t][j] /\ S[t][j].id # id
               /\ S[t][j].id # last.id
  <2>1. CASE t # s
    <3>1. j \in 1 .. Len(S[t]) /\ S2[t][j] = S[t][j]
      BY <2>1, <1>7, <1>8
    <3>2. S[t][j].id # id /\ S[t][j].id # last.id
      BY <3>1, <2>1, <1>1, OnePlace
    <3> QED BY <3>1, <3>2
  <2>2. CASE t = s /\ j = p
    <3>1. j \in 1 .. n - 1 /\ S2[s][j] = q[j]
      BY <2>2, <1>7, <1>6, <1>8
    <3>2. S2[t][j] = last /\ p # n
      BY <3>1, <2>2, <1>5, <1>6, <1>1
    <3> QED BY <2>2, <3>2
  <2>3. CASE t = s /\ j # p
    <3>1. j \in 1 .. n - 1 /\ S2[s][j] = q[j]
      BY <2>3, <1>7, <1>6, <1>8
    <3>2. S2[t][j] = S[s][j] /\ j \in 1 .. n /\ j # n
      BY <3>1, <2>3, <1>5, <1>6, <1>1
    <3>3. S[s][j].id # id /\ S[s][j].id # last.id
      BY <3>2, <2>3, <1>1, OnePlace
    <3> QED BY <2>3, <3>2, <3>3
  <2> QED BY <2>1, <2>2, <2>3
\* Where they are now.
<1>9. ASSUME NEW t \in Slot, NEW j \in 1 .. Len(S[t]), S[t][j].id # id, S[t][j].id # last.id
      PROVE j \in 1 .. Len(S2[t]) /\ S2[t][j] = S[t][j]
  <2>1. CASE t # s
    BY <2>1, <1>7, <1>9
  <2>2. CASE t = s
    <3>1. j # p /\ j # n /\ j \in 1 .. n
      BY <2>2, <1>9
    <3>2. j \in 1 .. n - 1
      BY <3>1, <1>1
    <3> QED BY <2>2, <3>1, <3>2, <1>5, <1>6, <1>7
  <2> QED BY <2>1, <2>2
<1>10. p # n => p \in 1 .. Len(S2[s]) /\ S2[s][p] = last
  BY <1>1, <1>5, <1>6, <1>7
<1>11. Placed(S2, M2)
  <2>1. ASSUME NEW t \in Slot, NEW j \in 1 .. Len(S2[t]) PROVE M2[S2[t][j].id] = <<t, j>>
    <3>1. CASE t = s /\ j = p /\ p # n /\ S2[t][j] = last
      BY <3>1
    <3>2. CASE ~ (t = s /\ j = p /\ p # n /\ S2[t][j] = last)
      <4>0. /\ j \in 1 .. Len(S[t]) /\ S2[t][j] = S[t][j] /\ S[t][j].id # id
            /\ S[t][j].id # last.id
        BY <3>2, <1>8
      <4>1. M[S[t][j].id] = <<t, j>> /\ S[t][j].id \in TimerId
        BY <4>0, AtPlace
      <4> QED BY <4>0, <4>1
    <3> QED BY <3>1, <3>2
  <2>2. ASSUME NEW i \in TimerId, M2[i] # None
        PROVE M2[i][2] \in 1 .. Len(S2[M2[i][1]]) /\ S2[M2[i][1]][M2[i][2]].id = i
    <3>1. i # id
      BY <2>2
    <3>2. CASE i = last.id
      <4>1. p # n /\ M2[i] = <<s, p>>
        BY <3>1, <3>2, <1>3
      <4> QED BY <4>1, <3>2, <1>10
    <3>3. CASE i # last.id
      <4> DEFINE t == M[i][1]
                 j == M[i][2]
      <4>1. M2[i] = M[i] /\ t \in Slot /\ j \in 1 .. Len(S[t]) /\ S[t][j].id = i
        BY <3>1, <3>3, <2>2, IndexFacts DEF Placed
      <4> HIDE DEF t, j
      <4>2. j \in 1 .. Len(S2[t]) /\ S2[t][j] = S[t][j]
        BY <4>1, <3>1, <3>3, <1>9
      <4> QED BY <4>1, <4>2 DEF t, j
    <3> QED BY <3>2, <3>3
  <2> QED BY <2>1, <2>2 DEF Placed
<1>12. InSlot(S2)
  <2> SUFFICES ASSUME NEW t \in Slot, NEW j \in 1 .. Len(S2[t])
               PROVE t = calculate_slot_index(S2[t][j].expiry)
    BY DEF InSlot
  <2>1. s = calculate_slot_index(last.expiry)
    BY <1>1 DEF InSlot
  <2>2. CASE t = s /\ S2[t][j] = last
    BY <2>1, <2>2
  <2>3. CASE ~ (t = s /\ S2[t][j] = last)
    <3>1. j \in 1 .. Len(S[t]) /\ S2[t][j] = S[t][j]
      BY <2>3, <1>8
    <3> QED BY <3>1 DEF InSlot
  <2> QED BY <2>2, <2>3
<1>13. Stored(S2) = {x \in Stored(S) : x.id # id}
  <2>1. ASSUME NEW x \in Stored(S2) PROVE x \in Stored(S) /\ x.id # id
    <3>1a. PICK t \in Slot : \E j \in 1 .. Len(S2[t]) : S2[t][j] = x
      BY DEF Stored
    <3>1. PICK j \in 1 .. Len(S2[t]) : S2[t][j] = x
      BY <3>1a
    <3>2. CASE t = s /\ j = p /\ p # n /\ S2[t][j] = last
      <4>1. last \in Stored(S)
        BY <1>1, AtPlace
      <4> QED BY <4>1, <3>1, <3>2, <1>4
    <3>3. CASE j \in 1 .. Len(S[t]) /\ S2[t][j] = S[t][j] /\ S[t][j].id # id
      <4>1. S[t][j] \in Stored(S)
        BY <3>3, AtPlace
      <4> QED BY <4>1, <3>1, <3>3
    <3> QED BY <3>2, <3>3, <1>8
  <2>2. ASSUME NEW x \in Stored(S), x.id # id PROVE x \in Stored(S2)
    <3>1a. PICK t \in Slot : \E j \in 1 .. Len(S[t]) : S[t][j] = x
      BY DEF Stored
    <3>1. PICK j \in 1 .. Len(S[t]) : S[t][j] = x
      BY <3>1a
    <3>2. x \in TimerEntry
      BY DEF Stored
    <3>3. CASE x.id # last.id
      BY <2>2, <3>1, <3>2, <3>3, <1>9 DEF Stored
    <3>4. CASE x.id = last.id
      <4>1. t = s /\ j = n
        BY <3>1, <3>4, <1>1, OnePlace
      <4>2. x = last /\ p # n
        BY <4>1, <3>1, <2>2
      <4> QED BY <4>2, <3>2, <1>10 DEF Stored
    <3> QED BY <3>3, <3>4
  <2> QED BY <2>1, <2>2
<1> QED BY <1>2, <1>3, <1>7, <1>11, <1>12, <1>13

\* Some entries leave a slot, and the rest moves up.
LEMMA LeaveTables ==
  ASSUME NEW S \in Slots, NEW M \in Index, Placed(S, M), InSlot(S),
         NEW s \in Slot, NEW r \in Seq(TimerEntry), NEW M2 \in Index,
         \A n \in 1 .. Len(r) : M2[r[n].id] = <<s, n>> /\ \E p \in 1 .. Len(S[s]) : r[n] = S[s][p],
         \A p \in 1 .. Len(S[s]) : M2[S[s][p].id] = None \/ \E n \in 1 .. Len(r) : r[n] = S[s][p],
         \A i \in TimerId : (\A p \in 1 .. Len(S[s]) : S[s][p].id # i) => M2[i] = M[i],
         NEW S2 \in Slots, S2[s] = r, \A t \in Slot : t # s => S2[t] = S[t]
  PROVE /\ Placed(S2, M2) /\ InSlot(S2)
        /\ Stored(S2) = {x \in Stored(S) : M2[x.id] # None}
<1>1. DOMAIN S = Slot /\ Len(r) \in Nat /\ Len(S[s]) \in Nat
  BY SlotFacts
<1>2. S2 \in Slots /\ S2[s] = r /\ \A t \in Slot : t # s => S2[t] = S[t]
  OBVIOUS
<1>3. ASSUME NEW t \in Slot, t # s, NEW j \in 1 .. Len(S[t])
      PROVE M2[S[t][j].id] = <<t, j>> /\ S[t][j].id \in TimerId
  <2>1. M[S[t][j].id] = <<t, j>> /\ S[t][j].id \in TimerId
    BY AtPlace
  <2>2. \A p \in 1 .. Len(S[s]) : S[s][p].id # S[t][j].id
    BY <1>3, OnePlace
  <2> QED BY <2>1, <2>2
<1>4. Placed(S2, M2)
  <2>1. ASSUME NEW t \in Slot, NEW j \in 1 .. Len(S2[t]) PROVE M2[S2[t][j].id] = <<t, j>>
    <3>1. CASE t = s
      BY <3>1, <1>2
    <3>2. CASE t # s
      <4>1. S2[t] = S[t] /\ j \in 1 .. Len(S[t])
        BY <3>2, <2>1, <1>2
      <4> QED BY <4>1, <3>2, <1>3
    <3> QED BY <3>1, <3>2
  <2>2. ASSUME NEW i \in TimerId, M2[i] # None
        PROVE M2[i][2] \in 1 .. Len(S2[M2[i][1]]) /\ S2[M2[i][1]][M2[i][2]].id = i
    <3>1. CASE \E p \in 1 .. Len(S[s]) : S[s][p].id = i
      <4>1. PICK p \in 1 .. Len(S[s]) : S[s][p].id = i
        BY <3>1
      <4>2. PICK n \in 1 .. Len(r) : r[n] = S[s][p]
        BY <4>1, <2>2
      <4>3. M2[i] = <<s, n>> /\ r[n].id = i
        BY <4>1, <4>2
      <4> QED BY <4>3, <1>2
    <3>2. CASE \A p \in 1 .. Len(S[s]) : S[s][p].id # i
      <4> DEFINE t == M[i][1]
                 j == M[i][2]
      <4>1. M2[i] = M[i] /\ t \in Slot /\ j \in 1 .. Len(S[t]) /\ S[t][j].id = i
        BY <3>2, <2>2, IndexFacts DEF Placed
      <4> HIDE DEF t, j
      <4>2. t # s
        BY <4>1, <3>2
      <4> QED BY <4>1, <4>2, <1>2 DEF t, j
    <3> QED BY <3>1, <3>2
  <2> QED BY <2>1, <2>2 DEF Placed
<1>5. InSlot(S2)
  <2> SUFFICES ASSUME NEW t \in Slot, NEW j \in 1 .. Len(S2[t])
               PROVE t = calculate_slot_index(S2[t][j].expiry)
    BY DEF InSlot
  <2>1. CASE t = s
    <3>1. PICK p \in 1 .. Len(S[s]) : S2[s][j] = S[s][p]
      BY <2>1, <1>2
    <3> QED BY <3>1, <2>1 DEF InSlot
  <2>2. CASE t # s
    BY <2>2, <1>2 DEF InSlot
  <2> QED BY <2>1, <2>2
<1>6. Stored(S2) = {x \in Stored(S) : M2[x.id] # None}
  <2>1. ASSUME NEW x \in Stored(S2) PROVE x \in Stored(S) /\ M2[x.id] # None
    <3>1a. PICK t \in Slot : \E j \in 1 .. Len(S2[t]) : S2[t][j] = x
      BY DEF Stored
    <3>1. PICK j \in 1 .. Len(S2[t]) : S2[t][j] = x
      BY <3>1a
    <3>2. M2[x.id] # None
      <4>1. M2[S2[t][j].id] # None
        BY <1>2, <1>4, AtPlace
      <4> QED BY <3>1, <4>1
    <3>3. x \in Stored(S)
      <4>1. CASE t = s
        <5>1. PICK p \in 1 .. Len(S[s]) : S2[s][j] = S[s][p]
          BY <4>1, <3>1, <1>2
        <5> QED BY <5>1, <3>1, <4>1, AtPlace
      <4>2. CASE t # s
        BY <4>2, <3>1, <1>2, AtPlace
      <4> QED BY <4>1, <4>2
    <3> QED BY <3>2, <3>3
  <2>2. ASSUME NEW x \in Stored(S), M2[x.id] # None PROVE x \in Stored(S2)
    <3>1a. PICK t \in Slot : \E j \in 1 .. Len(S[t]) : S[t][j] = x
      BY DEF Stored
    <3>1. PICK j \in 1 .. Len(S[t]) : S[t][j] = x
      BY <3>1a
    <3>2. x \in TimerEntry
      BY DEF Stored
    <3>3. CASE t = s
      <4>1. PICK n \in 1 .. Len(r) : r[n] = x
        BY <3>1, <3>3, <2>2
      <4> QED BY <4>1, <3>2, <1>2 DEF Stored
    <3>4. CASE t # s
      BY <3>1, <3>2, <3>4, <1>2 DEF Stored
    <3> QED BY <3>3, <3>4
  <2> QED BY <2>1, <2>2
<1> QED BY <1>2, <1>4, <1>5, <1>6

----------------------------------------------------------------------------
(* The expired and the pending entries of a slot.                          *)

LEMMA WholeIs ==
  ASSUME NEW q \in Seq(TimerEntry), NEW S \in SUBSET (1 .. Len(q)), 1 .. Len(q) \in SUBSET S
  PROVE AtPositions(q, S) = q
<1> DEFINE r == AtPositions(q, S)
           n == Len(q)
<1>1. n \in Nat /\ S = 1 .. n /\ DOMAIN q = 1 .. n
  <2>1. S = 1 .. Len(q)
    OBVIOUS
  <2> QED BY <2>1
<1>2. /\ r \in Seq(TimerEntry) /\ Len(r) = Cardinality(S) /\ DOMAIN r = 1 .. Len(r)
      /\ \A m \in 1 .. Len(r) : r[m] = q[Nth(S, m)]
      /\ \A p \in S : Nth(S, Cardinality(Below(S, p)) + 1) = p
  BY AtPositionsIs
<1> HIDE DEF r
<1>3. ASSUME NEW p \in 1 .. n PROVE Cardinality(Below(S, p)) = p - 1
  <2>1. Below(S, p) = 1 .. p - 1
    BY <1>1 DEF Below
  <2>2. 1 \in Int /\ p - 1 \in Int
    BY <1>1
  <2>3. Cardinality(1 .. p - 1) = IF 1 > p - 1 THEN 0 ELSE p - 1 - 1 + 1
    BY <2>2, FS_Interval
  <2> QED BY <2>1, <2>3, <1>1
<1>4. Cardinality(S) = n
  <2> HIDE DEF n
  <2>1. Cardinality(1 .. n) = IF 1 > n THEN 0 ELSE n - 1 + 1
    BY <1>1, FS_Interval
  <2> QED BY <2>1, <1>1 DEF n
<1>5. \A p \in 1 .. n : r[p] = q[p]
  <2> SUFFICES ASSUME NEW p \in 1 .. n PROVE r[p] = q[p]
    OBVIOUS
  <2>1. p - 1 + 1 = p /\ p \in S
    BY <1>1
  <2>2. Nth(S, p) = p
    BY <2>1, <1>2, <1>3
  <2> QED BY <2>2, <1>2, <1>4
<1>6. r = q
  BY <1>1, <1>2, <1>4, <1>5
<1> QED BY <1>6 DEF r

\* r has the entries of q at the positions in S, once each.
Picks(r, q, S) ==
  /\ r \in Seq(TimerEntry) /\ Len(r) \in Nat /\ DOMAIN r = 1 .. Len(r)
  /\ \A n \in 1 .. Len(r) : \E p \in S : r[n] = q[p]
  /\ \A p \in S : \E n \in 1 .. Len(r) : r[n] = q[p]
  /\ (\A i, j \in 1 .. Len(q) : q[i].id = q[j].id => i = j)
       => \A m, n \in 1 .. Len(r) : r[m].id = r[n].id => m = n

LEMMA PicksIs ==
  ASSUME NEW q \in Seq(TimerEntry), NEW S \in SUBSET (1 .. Len(q))
  PROVE Picks(AtPositions(q, S), q, S)
<1> DEFINE r == AtPositions(q, S)
<1>1. /\ r \in Seq(TimerEntry) /\ Len(r) \in Nat /\ DOMAIN r = 1 .. Len(r)
      /\ \A n \in 1 .. Len(r) : Nth(S, n) \in S /\ r[n] = q[Nth(S, n)]
      /\ \A m, n \in 1 .. Len(r) : m < n => Nth(S, m) < Nth(S, n)
      /\ \A p \in S : /\ Cardinality(Below(S, p)) + 1 \in 1 .. Len(r)
                      /\ Nth(S, Cardinality(Below(S, p)) + 1) = p
  BY AtPositionsIs
<1> HIDE DEF r
<1>2. \A p \in S : \E n \in 1 .. Len(r) : r[n] = q[p]
  <2> SUFFICES ASSUME NEW p \in S PROVE \E n \in 1 .. Len(r) : r[n] = q[p]
    OBVIOUS
  <2> DEFINE n == Cardinality(Below(S, p)) + 1
  <2>1. n \in 1 .. Len(r) /\ Nth(S, n) = p
    BY <1>1
  <2> HIDE DEF n
  <2> QED BY <2>1, <1>1
<1>3. ASSUME \A i, j \in 1 .. Len(q) : q[i].id = q[j].id => i = j,
             NEW m \in 1 .. Len(r), NEW n \in 1 .. Len(r), r[m].id = r[n].id
      PROVE m = n
  <2>1. Nth(S, m) \in 1 .. Len(q) /\ Nth(S, n) \in 1 .. Len(q)
    BY <1>1
  <2>2. Nth(S, m) = Nth(S, n)
    BY <2>1, <1>1, <1>3
  <2>3. Nth(S, m) \in Nat /\ m \in Nat /\ n \in Nat
    BY <2>1, <1>1
  <2>4. ~ (m < n) /\ ~ (n < m)
    BY <1>1, <2>2, <2>3
  <2> QED BY <2>3, <2>4
<1>4. \A n \in 1 .. Len(r) : \E p \in S : r[n] = q[p]
  BY <1>1
<1>5. Picks(r, q, S)
  BY <1>1, <1>2, <1>3, <1>4 DEF Picks
<1> QED BY <1>5 DEF r

LEMMA SplitSlot ==
  ASSUME NEW q \in Seq(TimerEntry), NEW now \in Nat, NEW x, x = Expired(q, now),
         NEW r, r = Pending(q, now)
  PROVE /\ Picks(x, q, {p \in 1 .. Len(q) : q[p].expiry <= now})
        /\ Picks(r, q, {p \in 1 .. Len(q) : ~ (q[p].expiry <= now)})
        /\ x = <<>> => r = q
        /\ \A p \in 1 .. Len(q) : q[p].expiry > now <=> ~ (q[p].expiry <= now)
<1>1. Len(q) \in Nat /\ DOMAIN q = 1 .. Len(q) /\ \A p \in 1 .. Len(q) : q[p].expiry \in Nat
  BY EntryFields
<1> DEFINE A == {p \in 1 .. Len(q) : q[p].expiry <= now}
           B == {p \in 1 .. Len(q) : ~ (q[p].expiry <= now)}
<1>2. \A p \in 1 .. Len(q) : q[p].expiry > now <=> ~ (q[p].expiry <= now)
  BY <1>1
<1>3. x = AtPositions(q, A)
  BY <1>1 DEF Expired
<1>4. B = {p \in DOMAIN q : q[p].expiry > now}
  BY <1>1, <1>2
<1>5. r = AtPositions(q, B)
  BY <1>4 DEF Pending
<1>6. A \in SUBSET (1 .. Len(q)) /\ B \in SUBSET (1 .. Len(q)) /\ (A = {} => B = 1 .. Len(q))
  OBVIOUS
<1> HIDE DEF A, B
<1>7. Picks(x, q, A) /\ Picks(r, q, B)
  BY <1>3, <1>5, <1>6, PicksIs
<1>8. x = <<>> => A = {}
  <2>1. x = <<>> => Len(x) = 0
    OBVIOUS
  <2> QED BY <2>1, <1>7 DEF Picks
<1>9. x = <<>> => r = q
  BY <1>8, <1>6, <1>5, WholeIs
<1> QED BY <1>2, <1>7, <1>9 DEF A, B

----------------------------------------------------------------------------
(* Wheels.                                                                 *)

Sound(w) == w \in Wheel /\ Placed(w.slots, w.timer_map) /\ InSlot(w.slots)

\* Two wheels differ in slots, index and cache only.
SameTurn(v, w) ==
  /\ v.current_slot = w.current_slot /\ v.current_time = w.current_time
  /\ v.next_entry_id = w.next_entry_id

LEMMA WheelFields ==
  ASSUME NEW w \in Wheel
  PROVE /\ w.slots \in Slots /\ w.timer_map \in Index /\ w.current_slot \in Slot
        /\ w.current_time \in Nat /\ w.next_entry_id \in 1 .. MaxTimers + 1
        /\ w.cached_next_expiry \in Nat \cup {None}
BY DEF Wheel, Slots, Index

Refilled(w, S, M) == [w EXCEPT !.slots = S, !.timer_map = M]

LEMMA WheelFrom ==
  ASSUME NEW w \in Wheel, NEW S \in Slots, NEW M \in Index, NEW v, v = Refilled(w, S, M)
  PROVE /\ v \in Wheel /\ v.slots = S /\ v.timer_map = M /\ SameTurn(v, w)
        /\ v.cached_next_expiry = w.cached_next_expiry
BY DEF Wheel, Slots, Index, SameTurn, Refilled

LEMMA EntriesAre ==
  ASSUME NEW w \in Wheel
  PROVE Entries(w) = Stored(w.slots)
BY WheelFields, HeldIs DEF Entries

LEMMA PushIs ==
  ASSUME NEW w, Sound(w), NEW e \in TimerEntry, w.timer_map[e.id] = None,
         NEW v, v = PushBack(w, e), NEW s, s = calculate_slot_index(e.expiry)
  PROVE /\ Sound(v) /\ SameTurn(v, w) /\ v.cached_next_expiry = w.cached_next_expiry
        /\ Stored(v.slots) = Stored(w.slots) \cup {e}
        /\ \A t \in Slot : t # s => v.slots[t] = w.slots[t]
        /\ s \in Slot /\ v.slots[s] = Append(w.slots[s], e)
        /\ v.timer_map = Marked(w.timer_map, e.id, <<s, Len(w.slots[s]) + 1>>)
<1> DEFINE S == w.slots
           M == w.timer_map
           S2 == Pushed(S, s, e)
           M2 == Marked(M, e.id, <<s, Len(S[s]) + 1>>)
<1>1. w \in Wheel /\ S \in Slots /\ M \in Index /\ Placed(S, M) /\ InSlot(S)
  BY WheelFields DEF Sound
<1>2. v = Refilled(w, S2, M2) /\ M[e.id] = None
  BY <1>1 DEF PushBack, Wheel, Refilled, Pushed, Marked
<1> HIDE DEF S, M
<1>3. /\ S2 \in Slots /\ M2 \in Index /\ Placed(S2, M2) /\ InSlot(S2)
      /\ Stored(S2) = Stored(S) \cup {e}
      /\ \A t \in Slot : t # s => S2[t] = S[t]
      /\ s \in Slot /\ S2[s] = Append(S[s], e)
  BY <1>1, <1>2, PushTables
<1> HIDE DEF S2, M2
<1>4. /\ v \in Wheel /\ v.slots = S2 /\ v.timer_map = M2 /\ SameTurn(v, w)
      /\ v.cached_next_expiry = w.cached_next_expiry
  BY <1>1, <1>2, <1>3, WheelFrom
<1> QED BY <1>3, <1>4 DEF Sound, S, M, M2

\* A wheel without the timer id.
Without(v, w, id) ==
  /\ Sound(v) /\ SameTurn(v, w)
  /\ Stored(v.slots) = {x \in Stored(w.slots) : x.id # id}

LEMMA RemoveIs ==
  ASSUME NEW w, Sound(w), NEW s \in Slot, NEW p \in 1 .. Len(w.slots[s]),
         NEW id, id = w.slots[s][p].id, NEW n, n = Len(w.slots[s]),
         NEW last, last = w.slots[s][n], NEW v \in Wheel,
         v.slots = Swapped(w.slots, s, p),
         v.timer_map[id] = None, p # n => v.timer_map[last.id] = <<s, p>>,
         \A i \in TimerId : i # id /\ i # last.id => v.timer_map[i] = w.timer_map[i],
         SameTurn(v, w)
  PROVE Without(v, w, id)
<1> DEFINE S == w.slots
           M == w.timer_map
           S2 == v.slots
           M2 == v.timer_map
<1>1. w \in Wheel /\ S \in Slots /\ M \in Index /\ Placed(S, M) /\ InSlot(S) /\ M2 \in Index
  BY WheelFields DEF Sound
<1>2. S2 \in Slots /\ Placed(S2, M2) /\ InSlot(S2) /\ Stored(S2) = {x \in Stored(S) : x.id # id}
  <2>1. /\ p \in 1 .. Len(S[s]) /\ n = Len(S[s]) /\ id = S[s][p].id /\ last = S[s][n]
        /\ S2 = Swapped(S, s, p)
        /\ M2[id] = None /\ (p # n => M2[last.id] = <<s, p>>)
        /\ \A i \in TimerId : i # id /\ i # last.id => M2[i] = M[i]
    OBVIOUS
  <2> HIDE DEF S, M, S2, M2
  <2> QED BY <1>1, <2>1, RemoveTables
<1> QED BY <1>2 DEF Without, Sound

LEMMA MarkedIs ==
  ASSUME NEW M \in Index, NEW i \in TimerId, NEW place \in Place \cup {None}
  PROVE /\ Marked(M, i, place) \in Index /\ Marked(M, i, place)[i] = place
        /\ \A j \in TimerId : j # i => Marked(M, i, place)[j] = M[j]
BY DEF Index, Marked

LEMMA SwappedIs ==
  ASSUME NEW S \in Slots, NEW s \in Slot, NEW p \in 1 .. Len(S[s])
  PROVE /\ Swapped(S, s, p) \in Slots /\ Swapped(S, s, p)[s] \in Seq(TimerEntry)
        /\ Len(Swapped(S, s, p)[s]) = Len(S[s]) - 1
        /\ \A t \in Slot : t # s => Swapped(S, s, p)[t] = S[t]
<1> DEFINE n == Len(S[s])
           r == [S[s] EXCEPT ![p] = S[s][n]]
           q == SubSeq(r, 1, n - 1)
<1>1. n \in Nat /\ n # 0 /\ S[s] \in Seq(TimerEntry) /\ S[s][n] \in TimerEntry /\ DOMAIN S = Slot
  BY SlotFacts
<1>2. r \in Seq(TimerEntry) /\ Len(r) = n
  <2>1. S[s] \in [1 .. n -> TimerEntry]
    BY <1>1
  <2>2. r \in [1 .. n -> TimerEntry]
    BY <2>1, <1>1
  <2> HIDE DEF r
  <2> QED BY <2>2, <1>1
<1> HIDE DEF r
<1>3. q \in Seq(TimerEntry) /\ Len(q) = n - 1
  BY <1>1, <1>2
<1> HIDE DEF q
<1>4. Swapped(S, s, p) = [S EXCEPT ![s] = q]
  BY DEF Swapped, q, r
<1> QED BY <1>1, <1>3, <1>4 DEF Slots

LEMMA SwapRemoveIs ==
  ASSUME NEW w \in Wheel, NEW s \in Slot, NEW p \in 1 .. Len(w.slots[s]),
         NEW n, n = Len(w.slots[s]), NEW last, last = w.slots[s][n],
         NEW v, v = SwapRemove(w, s, p)
  PROVE /\ v \in Wheel /\ v.slots = Swapped(w.slots, s, p) /\ SameTurn(v, w)
        /\ v.timer_map = Marked(w.timer_map, last.id, IF p = n THEN w.timer_map[last.id] ELSE <<s, p>>)
        /\ v.cached_next_expiry = w.cached_next_expiry /\ last.id \in TimerId
<1> DEFINE S == w.slots
           M == w.timer_map
           S2 == Swapped(S, s, p)
           M2 == Marked(M, last.id, IF p = n THEN M[last.id] ELSE <<s, p>>)
<1>1. S \in Slots /\ M \in Index
  BY WheelFields
<1>2. v = Refilled(w, S2, M2)
  BY <1>1 DEF SwapRemove, Wheel, Refilled, Swapped, Marked
<1> p \in 1 .. Len(S[s]) /\ n = Len(S[s]) /\ last = S[s][n]
  OBVIOUS
<1> HIDE DEF S, M
<1>3. n \in Nat /\ n \in 1 .. Len(S[s]) /\ p \in Nat /\ p # 0
  BY <1>1, SlotFacts
<1>4. last.id \in TimerId
  BY <1>1, <1>3, SlotFacts
<1>5. S2 \in Slots
  BY <1>1, SwappedIs
<1>6. M[last.id] \in Place \cup {None} /\ <<s, p>> \in Place
  BY <1>1, <1>3, <1>4, IndexFacts, PlaceIs
<1>7. M2 \in Index
  BY <1>1, <1>4, <1>6, MarkedIs
<1> HIDE DEF S2, M2
<1>8. /\ v \in Wheel /\ v.slots = S2 /\ v.timer_map = M2 /\ SameTurn(v, w)
      /\ v.cached_next_expiry = w.cached_next_expiry
  BY <1>2, <1>5, <1>7, WheelFrom
<1> QED BY <1>4, <1>8 DEF S2, M2, S, M

Remarked(w, i) == [w EXCEPT !.timer_map[i] = None]
Recached(w, t) == [w EXCEPT !.cached_next_expiry = t]

LEMMA RemarkedIs ==
  ASSUME NEW w \in Wheel, NEW i \in TimerId, NEW v, v = Remarked(w, i)
  PROVE /\ v \in Wheel /\ v.slots = w.slots /\ v.timer_map = Marked(w.timer_map, i, None)
        /\ SameTurn(v, w) /\ v.cached_next_expiry = w.cached_next_expiry
BY DEF Wheel, Remarked, Marked, SameTurn

LEMMA RecachedIs ==
  ASSUME NEW w \in Wheel, NEW t \in Nat \cup {None}, NEW v, v = Recached(w, t)
  PROVE /\ v \in Wheel /\ v.slots = w.slots /\ v.timer_map = w.timer_map
        /\ SameTurn(v, w) /\ v.cached_next_expiry = t
BY DEF Wheel, Recached, SameTurn

LEMMA CancelIs ==
  ASSUME NEW w, Sound(w), NEW id \in TimerId, NEW d, d = cancel_timer(w, id)
  PROVE /\ Without(d.wheel, w, id) /\ d.cancelled \in BOOLEAN
        /\ d.cancelled <=> w.timer_map[id] # None
        /\ d.wheel.cached_next_expiry \in {w.cached_next_expiry, None}
<1> DEFINE S == w.slots
           M == w.timer_map
           s == M[id][1]
           p == M[id][2]
           n == Len(S[s])
           last == S[s][n]
           w1 == Remarked(w, id)
           w2 == SwapRemove(w1, s, p)
           w3 == Recached(w2, IF AffectsCache(w, S[s][p]) THEN None ELSE w2.cached_next_expiry)
<1>1. w \in Wheel /\ S \in Slots /\ M \in Index /\ Placed(S, M) /\ InSlot(S)
      /\ w.cached_next_expiry \in Nat \cup {None}
  BY WheelFields DEF Sound
<1>2. CASE M[id] = None
  <2>1. d.wheel = w /\ d.cancelled = FALSE
    BY <1>2 DEF cancel_timer
  <2>2. \A x \in Stored(S) : x.id # id
    BY <1>1, <1>2, OnIndex
  <2>3. Stored(S) = {x \in Stored(S) : x.id # id}
    BY <2>2
  <2> QED BY <1>2, <2>1, <2>3 DEF Without, SameTurn
<1>3. CASE M[id] # None
  <2>1. s \in Slot /\ p \in 1 .. Len(S[s]) /\ S[s][p].id = id /\ Len(S[s]) \in Nat
    BY <1>1, <1>3, IndexFacts, SlotFacts DEF Placed
  <2>2. d = [wheel |-> w3, cancelled |-> TRUE]
    <3>1. ~ (p > Len(S[s]))
      BY <2>1
    <3> QED BY <1>3, <3>1 DEF cancel_timer, Remarked, Recached
  <2>3. /\ w1 \in Wheel /\ w1.slots = S /\ w1.timer_map = Marked(M, id, None)
        /\ SameTurn(w1, w) /\ w1.cached_next_expiry = w.cached_next_expiry
    BY <1>1, RemarkedIs
  <2> DEFINE M1 == Marked(M, id, None)
  <2>4. M1 \in Index /\ M1[id] = None /\ \A j \in TimerId : j # id => M1[j] = M[j]
    BY <1>1, MarkedIs
  <2> HIDE DEF S, M, M1, w1, s, p
  <2>5. /\ w2 \in Wheel /\ w2.slots = Swapped(S, s, p) /\ SameTurn(w2, w1)
        /\ w2.timer_map = Marked(M1, last.id, IF p = n THEN M1[last.id] ELSE <<s, p>>)
        /\ w2.cached_next_expiry = w1.cached_next_expiry /\ last.id \in TimerId
    <3>1. p \in 1 .. Len(w1.slots[s])
      BY <2>1, <2>3
    <3>2. w1.timer_map = M1
      BY <2>3 DEF M1
    <3> QED BY <2>1, <2>3, <3>1, <3>2, SwapRemoveIs
  <2> HIDE DEF w2
  <2>6. /\ w3 \in Wheel /\ w3.slots = w2.slots /\ w3.timer_map = w2.timer_map
        /\ SameTurn(w3, w2) /\ w3.cached_next_expiry \in {w.cached_next_expiry, None}
    <3> DEFINE t == IF AffectsCache(w, S[s][p]) THEN None ELSE w2.cached_next_expiry
    <3>1. t \in {w.cached_next_expiry, None} /\ t \in Nat \cup {None}
      BY <1>1, <2>3, <2>5
    <3> HIDE DEF t
    <3>2. w3 = Recached(w2, t)
      BY DEF t
    <3> HIDE DEF w3
    <3> QED BY <2>5, <3>1, <3>2, RecachedIs
  <2> HIDE DEF w3
  <2>7. last.id \in TimerId /\ M[last.id] = <<s, n>> /\ M[id] = <<s, p>> /\ (p = n => last.id = id)
    <3>1. n \in 1 .. Len(S[s])
      BY <2>1
    <3> QED BY <1>1, <2>1, <3>1, AtPlace
  <2>8. p # n => last.id # id
    <3>1. p # n => <<s, p>> # <<s, n>>
      OBVIOUS
    <3> HIDE DEF last, n
    <3> QED BY <2>7, <3>1
  <2> DEFINE M2 == w3.timer_map
             x == IF p = n THEN M1[last.id] ELSE <<s, p>>
  <2>9. /\ M2[id] = None /\ (p # n => M2[last.id] = <<s, p>>)
        /\ \A i \in TimerId : i # id /\ i # last.id => M2[i] = M[i]
    <3>1. M2 = Marked(M1, last.id, x)
      BY <2>5, <2>6
    <3>2. x \in Place \cup {None}
      <4>1. M1[last.id] \in Place \cup {None}
        BY <2>4, <2>7, IndexFacts
      <4>2. <<s, p>> \in Place
        BY <2>1, PlaceIs
      <4> QED BY <4>1, <4>2
    <3> HIDE DEF last, n, x, M2
    <3>3. M2[last.id] = x /\ \A j \in TimerId : j # last.id => M2[j] = M1[j]
      BY <3>1, <3>2, <2>4, <2>7, MarkedIs
    <3>4. p = n => x = None
      BY <2>4, <2>7 DEF x
    <3>5. p # n => x = <<s, p>>
      BY DEF x
    <3>6. M2[id] = None
      BY <3>3, <3>4, <2>4, <2>7, <2>8
    <3> QED BY <3>3, <3>5, <3>6, <2>4
  <2>10. SameTurn(w3, w)
    BY <2>3, <2>5, <2>6 DEF SameTurn
  <2>11. Without(w3, w, id)
    <3>1. /\ p \in 1 .. Len(w.slots[s]) /\ id = w.slots[s][p].id /\ n = Len(w.slots[s])
          /\ last = w.slots[s][n] /\ w3.slots = Swapped(w.slots, s, p)
          /\ \A i \in TimerId : i # id /\ i # last.id => w3.timer_map[i] = w.timer_map[i]
      BY <2>1, <2>5, <2>6, <2>9 DEF S, M
    <3>2. w3.timer_map[id] = None /\ (p # n => w3.timer_map[last.id] = <<s, p>>)
      BY <2>9
    <3> HIDE DEF last, n, M2
    <3> QED BY <3>1, <3>2, <2>1, <2>6, <2>10, RemoveIs
  <2> QED BY <2>2, <2>6, <2>11, <1>3 DEF M
<1> QED BY <1>2, <1>3

LEMMA OnHeld ==
  ASSUME NEW w, Sound(w), NEW i \in TimerId
  PROVE w.timer_map[i] # None <=> \E x \in Stored(w.slots) : x.id = i
<1>1. w.slots \in Slots /\ w.timer_map \in Index /\ Placed(w.slots, w.timer_map)
  BY WheelFields DEF Sound
<1> QED BY <1>1, OnIndex

SwapOut(w, id) == Remarked(SwapRemove(w, w.timer_map[id][1], w.timer_map[id][2]), id)

\* One timer of a batch leaves; the others that come later in it keep their places.
LEMMA SwapOutIs ==
  ASSUME NEW w, Sound(w), NEW id \in TimerId, w.timer_map[id] # None
  PROVE /\ Without(SwapOut(w, id), w, id)
        /\ SwapOut(w, id).cached_next_expiry = w.cached_next_expiry
        /\ \A i \in TimerId : \A t, q :
             i # id /\ w.timer_map[i] = <<t, q>> /\ (t = w.timer_map[id][1] => ~ (q >= w.timer_map[id][2]))
               => SwapOut(w, id).timer_map[i] = <<t, q>>
        /\ ~ (w.timer_map[id][2] > Len(w.slots[w.timer_map[id][1]]))
<1> DEFINE S == w.slots
           M == w.timer_map
           s == M[id][1]
           p == M[id][2]
           n == Len(S[s])
           last == S[s][n]
           w2 == SwapRemove(w, s, p)
           w3 == Remarked(w2, id)
<1>1. w \in Wheel /\ S \in Slots /\ M \in Index /\ Placed(S, M) /\ InSlot(S)
  BY WheelFields DEF Sound
<1>2. M[id] # None /\ s \in Slot /\ p \in Nat /\ p # 0
  BY <1>1, IndexFacts
<1>3. p \in 1 .. Len(S[s]) /\ S[s][p].id = id /\ Len(S[s]) \in Nat
  BY <1>1, <1>2, SlotFacts DEF Placed
<1>5. SwapOut(w, id) = w3 /\ ~ (p > Len(S[s]))
  BY <1>3 DEF SwapOut
<1> HIDE DEF S, M, s, p
<1>6. /\ w2 \in Wheel /\ w2.slots = Swapped(S, s, p) /\ SameTurn(w2, w)
      /\ w2.timer_map = Marked(M, last.id, IF p = n THEN M[last.id] ELSE <<s, p>>)
      /\ w2.cached_next_expiry = w.cached_next_expiry /\ last.id \in TimerId
  <2>1. p \in 1 .. Len(w.slots[s])
    BY <1>3 DEF S
  <2> QED BY <2>1, <1>1, <1>2, SwapRemoveIs DEF S, M
<1> HIDE DEF w2
<1>7. /\ w3 \in Wheel /\ w3.slots = w2.slots /\ w3.timer_map = Marked(w2.timer_map, id, None)
      /\ SameTurn(w3, w2) /\ w3.cached_next_expiry = w2.cached_next_expiry
  BY <1>6, RemarkedIs
<1> HIDE DEF w3
<1>8. last.id \in TimerId /\ M[last.id] = <<s, n>> /\ M[id] = <<s, p>> /\ (p = n => last.id = id)
  <2>1. n \in 1 .. Len(S[s]) /\ s \in Slot
    BY <1>2, <1>3
  <2>2. M[S[s][n].id] = <<s, n>> /\ S[s][n].id \in TimerId
    <3> HIDE DEF n
    <3> QED BY <1>1, <2>1, AtPlace
  <2>3. M[S[s][p].id] = <<s, p>>
    BY <1>1, <1>2, <1>3, AtPlace
  <2>4. p = n => last.id = id
    BY <1>3
  <2> QED BY <1>3, <2>2, <2>3, <2>4 DEF last
<1>9. p # n => last.id # id
  <2>1. p # n => <<s, p>> # <<s, n>>
    OBVIOUS
  <2> HIDE DEF last, n
  <2> QED BY <1>8, <2>1
<1> DEFINE x == IF p = n THEN M[last.id] ELSE <<s, p>>
           M1 == Marked(M, last.id, x)
           M2 == Marked(M1, id, None)
<1>10. M2 = w3.timer_map
  BY <1>6, <1>7
<1> HIDE DEF last
<1>11. x \in Place \cup {None}
  <2>1. M[last.id] \in Place \cup {None}
    BY <1>1, <1>8, IndexFacts
  <2>2. <<s, p>> \in Place
    BY <1>2, PlaceIs
  <2> QED BY <2>1, <2>2
<1>12. p # n => x = <<s, p>>
  OBVIOUS
<1> HIDE DEF x
<1>13. M1 \in Index /\ M1[last.id] = x /\ \A j \in TimerId : j # last.id => M1[j] = M[j]
  BY <1>1, <1>8, <1>11, MarkedIs
<1> HIDE DEF M1
<1>14. M2 \in Index /\ M2[id] = None /\ \A j \in TimerId : j # id => M2[j] = M1[j]
  BY <1>13, MarkedIs
<1> HIDE DEF M2, n
<1>15. /\ M2[id] = None /\ (p # n => M2[last.id] = <<s, p>>)
       /\ \A i \in TimerId : i # id /\ i # last.id => M2[i] = M[i]
  BY <1>8, <1>9, <1>12, <1>13, <1>14
<1>16. SameTurn(w3, w)
  BY <1>6, <1>7 DEF SameTurn
<1>17. Without(w3, w, id)
  <2>1. /\ p \in 1 .. Len(w.slots[s]) /\ id = w.slots[s][p].id /\ n = Len(w.slots[s])
        /\ last = w.slots[s][n] /\ w3.slots = Swapped(w.slots, s, p)
    BY <1>3, <1>6, <1>7 DEF S, n, last
  <2>2. /\ \A i \in TimerId : i # id /\ i # last.id => w3.timer_map[i] = w.timer_map[i]
        /\ w3.timer_map[id] = None /\ (p # n => w3.timer_map[last.id] = <<s, p>>)
    BY <1>10, <1>15 DEF M
  <2>3. \A i \in TimerId : i # id /\ i # last.id => w3.timer_map[i] = w.timer_map[i]
    BY <2>2
  <2> QED BY <2>1, <2>2, <2>3, <1>2, <1>7, <1>16, RemoveIs
<1>18. ASSUME NEW i \in TimerId, NEW t, NEW q, i # id, M[i] = <<t, q>>, t = s => ~ (q >= p)
       PROVE M2[i] = <<t, q>>
  <2>1. i # last.id
    <3>1. SUFFICES ASSUME i = last.id PROVE FALSE
      OBVIOUS
    <3>2. <<t, q>> = <<s, n>>
      BY <3>1, <1>8, <1>18
    <3>3. t = s /\ q = n
      BY <3>2
    <3> QED BY <3>3, <1>18, <1>3 DEF n
  <2> QED BY <2>1, <1>15, <1>18
<1>19. \A i \in TimerId : \A t, q :
         i # id /\ w.timer_map[i] = <<t, q>> /\ (t = s => ~ (q >= p)) => w3.timer_map[i] = <<t, q>>
  BY <1>10, <1>18 DEF M
<1>20. w3.cached_next_expiry = w.cached_next_expiry
  BY <1>6, <1>7
<1>21. SwapOut(w, id) = w3 /\ ~ (p > Len(w.slots[s]))
  BY <1>5 DEF S
<1> QED BY <1>17, <1>19, <1>20, <1>21 DEF s, p, M

----------------------------------------------------------------------------
(* Several timers cancelled one after the other.                           *)

\* A wheel without the timers in G.
Lessened(v, w, G) ==
  /\ Sound(v) /\ SameTurn(v, w)
  /\ Stored(v.slots) = {x \in Stored(w.slots) : x.id \notin G}
  /\ v.cached_next_expiry \in {w.cached_next_expiry, None}

LEMMA LessenedMore ==
  ASSUME NEW u, NEW v, NEW w, NEW G, NEW id, Lessened(v, w, G), Without(u, v, id),
         u.cached_next_expiry \in {v.cached_next_expiry, None}
  PROVE Lessened(u, w, G \cup {id})
BY DEF Lessened, Without, SameTurn

LEMMA LessenedNone ==
  ASSUME NEW w, Sound(w)
  PROVE Lessened(w, w, {})
<1>1. Stored(w.slots) = {x \in Stored(w.slots) : x.id \notin {}}
  OBVIOUS
<1> QED BY <1>1 DEF Lessened, SameTurn

First(q, n) == {q[m] : m \in 1 .. n}

LEMMA FirstMore ==
  ASSUME NEW q, NEW n \in Nat, n # 0
  PROVE First(q, n) = First(q, n - 1) \cup {q[n]} /\ First(q, 0) = {}
<1>1. 1 .. n = (1 .. n - 1) \cup {n} /\ 1 .. 0 = {}
  OBVIOUS
<1> QED BY <1>1 DEF First

LEMMA ClearIs ==
  ASSUME NEW w, Sound(w), NEW q \in Seq(TimerId), NEW a,
         a = FoldLeft(ClearOne, [wheel |-> w, gone |-> {}], q), NEW ids, ids = First(q, Len(q))
  PROVE /\ Lessened(a.wheel, w, ids)
        /\ a.gone = {i \in ids : w.timer_map[i] # None}
<1> DEFINE b == [wheel |-> w, gone |-> {}]
           n == Len(q)
<1>1. n \in Nat /\ DOMAIN q = 1 .. n /\ \A m \in 1 .. n : q[m] \in TimerId
  OBVIOUS
<1>2. PICK h : Walk(h, "clear", 0, b, q) /\ Folded("clear", 0, b, q) = h[n]
  BY <1>1, FoldedWalks
<1>3. a = h[n]
  BY <1>1, <1>2, ClearFolded
<1>4. h[0] = b /\ \A m \in 1 .. n : h[m] = ClearOne(h[m - 1], q[m])
  BY <1>2 DEF Walk, Step
<1> DEFINE Good(m) == /\ Lessened(h[m].wheel, w, First(q, m))
                      /\ h[m].gone = {i \in First(q, m) : w.timer_map[i] # None}
           G == {m \in 0 .. n : Good(m)}
<1> HIDE DEF n
<1>5. Good(0)
  <2>1. First(q, 0) = {} /\ h[0].wheel = w /\ h[0].gone = {}
    BY <1>4 DEF First
  <2> QED BY <2>1, LessenedNone
<1>6. ASSUME NEW m \in 1 .. n, Good(m - 1) PROVE Good(m)
  <2> DEFINE v == h[m - 1].wheel
             d == cancel_timer(v, q[m])
             F == First(q, m - 1)
  <2>1. /\ First(q, m) = F \cup {q[m]} /\ q[m] \in TimerId
    BY <1>1, FirstMore
  <2>2. h[m] = [wheel |-> d.wheel, gone |-> IF d.cancelled THEN h[m - 1].gone \cup {q[m]}
                                            ELSE h[m - 1].gone]
    BY <1>4, <1>6 DEF ClearOne
  <2>3. Lessened(v, w, F) /\ h[m - 1].gone = {i \in F : w.timer_map[i] # None}
    BY <1>6
  <2> HIDE DEF v, F
  <2>4. Sound(v) /\ Stored(v.slots) = {x \in Stored(w.slots) : x.id \notin F}
    BY <2>3 DEF Lessened
  <2>5. /\ Without(d.wheel, v, q[m]) /\ d.cancelled \in BOOLEAN
        /\ d.cancelled <=> v.timer_map[q[m]] # None
        /\ d.wheel.cached_next_expiry \in {v.cached_next_expiry, None}
    BY <2>1, <2>4, CancelIs
  <2> HIDE DEF d
  <2>6. Lessened(d.wheel, w, F \cup {q[m]})
    BY <2>3, <2>5, LessenedMore
  <2>7. v.timer_map[q[m]] # None <=> w.timer_map[q[m]] # None /\ q[m] \notin F
    BY <2>1, <2>4, OnHeld
  <2>8. h[m].wheel = d.wheel
    BY <2>2
  <2>9. h[m].gone = {i \in F \cup {q[m]} : w.timer_map[i] # None}
    <3>1. CASE d.cancelled
      <4>1. h[m].gone = h[m - 1].gone \cup {q[m]}
        BY <2>2, <3>1
      <4>2. w.timer_map[q[m]] # None
        BY <2>5, <2>7, <3>1
      <4> QED BY <4>1, <4>2, <2>3
    <3>2. CASE ~ d.cancelled
      <4>1. h[m].gone = h[m - 1].gone
        BY <2>2, <3>2
      <4>2. w.timer_map[q[m]] # None => q[m] \in F
        BY <2>5, <2>7, <3>2
      <4> QED BY <4>1, <4>2, <2>3
    <3> QED BY <3>1, <3>2
  <2> QED BY <2>1, <2>6, <2>8, <2>9
<1> HIDE DEF Good
<1>7. n \in G
  <2>1. 0 \in G
    BY <1>1, <1>5
  <2>2. \A m \in 1 .. n : m - 1 \in G => m \in G
    BY <1>1, <1>6
  <2> HIDE DEF G
  <2> QED BY <1>1, <2>1, <2>2, CountUp
<1>8. Good(n)
  BY <1>7
<1> QED BY <1>3, <1>8 DEF Good, n

----------------------------------------------------------------------------
(* A batch of cancellations.                                               *)

\* Jobs q name timers on wheel w at their places, each once; within a slot the
\* later positions come first.
InTurn(q, w) ==
  /\ Len(q) \in Nat /\ DOMAIN q = 1 .. Len(q)
  /\ \A j \in 1 .. Len(q) : /\ q[j].id \in TimerId /\ w.timer_map[q[j].id] # None
                            /\ w.timer_map[q[j].id] = <<q[j].slot, q[j].pos>>
  /\ \A j, l \in 1 .. Len(q) : j < l => /\ q[j].id # q[l].id
                                        /\ q[l].slot = q[j].slot => ~ (q[l].pos >= q[j].pos)

JobIds(q, n) == {q[m].id : m \in 1 .. n}

LEMMA JobIdsMore ==
  ASSUME NEW q, NEW n \in Nat, n # 0
  PROVE JobIds(q, n) = JobIds(q, n - 1) \cup {q[n].id} /\ JobIds(q, 0) = {}
<1>1. 1 .. n = (1 .. n - 1) \cup {n} /\ 1 .. 0 = {}
  OBVIOUS
<1> QED BY <1>1 DEF JobIds

LEMMA CancelAtIs ==
  ASSUME NEW a, NEW job, Sound(a.wheel), a.invalidate \in BOOLEAN, job.id \in TimerId,
         a.wheel.timer_map[job.id] # None, job.slot = a.wheel.timer_map[job.id][1],
         job.pos = a.wheel.timer_map[job.id][2]
  PROVE /\ CancelAt(a, job).wheel = SwapOut(a.wheel, job.id)
        /\ CancelAt(a, job).invalidate \in BOOLEAN
<1> DEFINE w == a.wheel
           i == job.id
<1>1. ~ (job.pos > Len(w.slots[job.slot]))
  BY SwapOutIs
<1>2. CancelAt(a, job) =
        [wheel |-> [SwapRemove(w, job.slot, job.pos) EXCEPT !.timer_map[i] = None],
         invalidate |-> a.invalidate \/ AffectsCache(w, w.slots[job.slot][job.pos])]
  BY <1>1 DEF CancelAt
<1>3. SwapOut(w, i) = [SwapRemove(w, job.slot, job.pos) EXCEPT !.timer_map[i] = None]
  BY DEF SwapOut, Remarked
<1> DEFINE A == AffectsCache(w, w.slots[job.slot][job.pos])
           v == SwapOut(w, i)
<1>4. A \in BOOLEAN
  BY DEF AffectsCache
<1>5. CancelAt(a, job) = [wheel |-> v, invalidate |-> a.invalidate \/ A]
  BY <1>2, <1>3
<1> HIDE DEF A, v
<1> QED BY <1>4, <1>5 DEF v, w, i

LEMMA CancelAllIs ==
  ASSUME NEW w, Sound(w), NEW q, InTurn(q, w), NEW a,
         a = FoldLeft(CancelAt, [wheel |-> w, invalidate |-> FALSE], q)
  PROVE Lessened(a.wheel, w, JobIds(q, Len(q))) /\ a.invalidate \in BOOLEAN
<1> DEFINE b == [wheel |-> w, invalidate |-> FALSE]
           n == Len(q)
<1>1. n \in Nat /\ DOMAIN q = 1 .. n
  BY DEF InTurn
<1>2. PICK h : Walk(h, "cancel", 0, b, q) /\ Folded("cancel", 0, b, q) = h[n]
  BY <1>1, FoldedWalks
<1>3. a = h[n]
  BY <1>1, <1>2, CancelFolded
<1>4. h[0] = b /\ \A m \in 1 .. n : h[m] = CancelAt(h[m - 1], q[m])
  BY <1>2 DEF Walk, Step
<1>5. /\ \A j \in 1 .. n : /\ q[j].id \in TimerId /\ w.timer_map[q[j].id] # None
                           /\ w.timer_map[q[j].id] = <<q[j].slot, q[j].pos>>
      /\ \A j, l \in 1 .. n : j < l => /\ q[j].id # q[l].id
                                       /\ q[l].slot = q[j].slot => ~ (q[l].pos >= q[j].pos)
  BY DEF InTurn
<1> DEFINE Good(m) == /\ Lessened(h[m].wheel, w, JobIds(q, m)) /\ h[m].invalidate \in BOOLEAN
                      /\ \A j \in 1 .. n : m < j =>
                           /\ h[m].wheel.timer_map[q[j].id] = <<q[j].slot, q[j].pos>>
                           /\ h[m].wheel.timer_map[q[j].id] # None
           G == {m \in 0 .. n : Good(m)}
<1> HIDE DEF n
<1>6. Good(0)
  <2>1. JobIds(q, 0) = {} /\ h[0].wheel = w /\ h[0].invalidate = FALSE
    BY <1>4 DEF JobIds
  <2> QED BY <2>1, <1>5, LessenedNone
<1>7. ASSUME NEW m \in 1 .. n, Good(m - 1) PROVE Good(m)
  <2> DEFINE v == h[m - 1].wheel
             i == q[m].id
             u == SwapOut(v, i)
             F == JobIds(q, m - 1)
  <2>1. /\ Lessened(v, w, F) /\ h[m - 1].invalidate \in BOOLEAN
        /\ \A j \in 1 .. n : m - 1 < j => /\ v.timer_map[q[j].id] = <<q[j].slot, q[j].pos>>
                                          /\ v.timer_map[q[j].id] # None
    BY <1>7
  <2>2. Sound(v) /\ i \in TimerId
    BY <2>1, <1>5 DEF Lessened
  <2>3. m - 1 < m /\ m \in 1 .. n /\ m \in Nat /\ m # 0 /\ \A j \in 1 .. n : m < j => m - 1 < j
    BY <1>1
  <2>4. v.timer_map[i] = <<q[m].slot, q[m].pos>> /\ v.timer_map[i] # None
    BY <2>1, <2>3
  <2>5. v.timer_map[i][1] = q[m].slot /\ v.timer_map[i][2] = q[m].pos
    BY <2>4
  <2>6. h[m].wheel = u /\ h[m].invalidate \in BOOLEAN
    <3>1. CancelAt(h[m - 1], q[m]).wheel = u /\ CancelAt(h[m - 1], q[m]).invalidate \in BOOLEAN
      BY <2>1, <2>2, <2>4, <2>5, CancelAtIs
    <3> QED BY <3>1, <1>4, <1>7
  <2> HIDE DEF v, i, u, F
  <2>7. /\ Without(u, v, i) /\ u.cached_next_expiry = v.cached_next_expiry
        /\ \A j \in TimerId : \A t, r :
             j # i /\ v.timer_map[j] = <<t, r>> /\ (t = v.timer_map[i][1] => ~ (r >= v.timer_map[i][2]))
               => u.timer_map[j] = <<t, r>>
    <3>1. Sound(v) /\ i \in TimerId /\ v.timer_map[i] # None
      BY <2>2, <2>4
    <3>2. u = SwapOut(v, i)
      BY DEF u
    <3> QED BY ONLY <3>1, <3>2, SwapOutIs
  <2>8. Lessened(u, w, JobIds(q, m))
    <3>1. Lessened(u, w, F \cup {i})
      BY <2>1, <2>7, LessenedMore
    <3> QED BY <3>1, <2>3, JobIdsMore DEF F, i
  <2>9. ASSUME NEW j \in 1 .. n, m < j
        PROVE /\ u.timer_map[q[j].id] = <<q[j].slot, q[j].pos>> /\ u.timer_map[q[j].id] # None
    <3>1. q[j].id # i /\ q[j].id \in TimerId /\ (q[j].slot = q[m].slot => ~ (q[j].pos >= q[m].pos))
      BY <2>9, <1>5 DEF i
    <3>2. v.timer_map[q[j].id] = <<q[j].slot, q[j].pos>> /\ v.timer_map[q[j].id] # None
      BY <2>9, <2>1, <2>3
    <3>3. q[j].slot = v.timer_map[i][1] => ~ (q[j].pos >= v.timer_map[i][2])
      BY <3>1, <2>5
    <3>4. u.timer_map[q[j].id] = <<q[j].slot, q[j].pos>>
      BY <3>1, <3>2, <3>3, <2>7
    <3> QED BY <3>2, <3>4
  <2> QED BY <2>6, <2>8, <2>9
<1> HIDE DEF Good
<1>8. n \in G
  <2>1. 0 \in G
    BY <1>1, <1>6
  <2>2. \A m \in 1 .. n : m - 1 \in G => m \in G
    BY <1>1, <1>7
  <2> HIDE DEF G
  <2> QED BY <1>1, <2>1, <2>2, CountUp
<1>9. Good(n)
  BY <1>8
<1> QED BY <1>3, <1>9 DEF Good, n

LEMMA SetSeq ==
  ASSUME NEW S, IsFiniteSet(S), NEW q \in SetToSeqs(S)
  PROVE /\ Len(q) \in Nat /\ DOMAIN q = 1 .. Len(q) /\ q \in Seq(S)
        /\ \A m, n \in 1 .. Len(q) : m # n => q[m] # q[n]
        /\ {q[m] : m \in 1 .. Len(q)} = S
<1> DEFINE c == Cardinality(S)
           D == 1 .. c
<1>1. c \in Nat
  BY FS_CardinalityType
<1>2. q \in [D -> S] /\ \A i, j \in D : i # j => q[i] # q[j]
  BY DEF SetToSeqs
<1>3. IsFiniteSet(D) /\ Cardinality(D) = c
  BY <1>1, FS_Interval
<1>4. Len(q) = c /\ q \in Seq(S)
  BY <1>1, <1>2
<1>5. q \in Injection(D, S)
  BY <1>2 DEF Injection, IsInjective
<1> DEFINE R == {q[m] : m \in D}
<1>6. R \subseteq S /\ R = Range(q)
  BY <1>2 DEF Range
<1>7. q \in Surjection(D, R) /\ q \in Injection(D, R)
  BY <1>2 DEF Injection, Surjection, IsInjective
<1>8. q \in Bijection(D, R)
  BY <1>7 DEF Bijection
<1>9. ExistsBijection(D, R)
  BY <1>8 DEF ExistsBijection
<1>10. Cardinality(R) = c /\ IsFiniteSet(R)
  BY <1>3, <1>9, FS_Bijection
<1>11. R = S
  BY <1>6, <1>10, FS_Subset, <1>1
<1> QED BY <1>1, <1>2, <1>4, <1>11

LEMMA IdsFinite ==
  ASSUME NEW T \in SUBSET TimerId
  PROVE IsFiniteSet(T) /\ Cardinality(T) \in Nat
<1>1. IsFiniteSet(1 .. MaxTimers)
  BY Constants, FS_Interval
<1>2. IsFiniteSet(T)
  BY <1>1, FS_Subset DEF TimerId
<1> QED BY <1>2, FS_CardinalityType

LEMMA GroupsInTurn ==
  ASSUME NEW w, Sound(w), NEW ids \in SUBSET TimerId, NEW q \in slot_groups(w, ids)
  PROVE InTurn(q, w) /\ JobIds(q, Len(q)) = {i \in ids : w.timer_map[i] # None}
<1> DEFINE M == w.timer_map
           I == {j \in ids : M[j] # None}
           f == [i \in I |-> [id |-> i, slot |-> M[i][1], pos |-> M[i][2]]]
           J == {[id |-> i, slot |-> M[i][1], pos |-> M[i][2]] : i \in I}
<1>1. q \in SetToSeqs(J) /\ \A m, n \in DOMAIN q : m < n => LaterPositionFirst(q[m], q[n])
  BY DEF slot_groups
<1>2. f \in Surjection(I, J)
  <2>1. f \in [I -> J]
    OBVIOUS
  <2>2. \A t \in J : \E s \in I : f[s] = t
    OBVIOUS
  <2> HIDE DEF f, J, I
  <2> QED BY <2>1, <2>2 DEF Surjection
<1>3. IsFiniteSet(J)
  <2>1. IsFiniteSet(I)
    BY IdsFinite
  <2> HIDE DEF f, I, J
  <2> QED BY <1>2, <2>1, FS_Surjection
<1>4. M \in Index /\ w \in Wheel
  BY WheelFields DEF Sound
<1> DEFINE n == Len(q)
<1>5. /\ n \in Nat /\ DOMAIN q = 1 .. n /\ q \in Seq(J)
      /\ \A m, l \in 1 .. n : m # l => q[m] # q[l]
      /\ {q[m] : m \in 1 .. n} = J
  <2> HIDE DEF J
  <2> QED BY <1>1, <1>3, SetSeq
<1> HIDE DEF n
<1>6. ASSUME NEW m \in 1 .. n
      PROVE /\ q[m].id \in ids /\ q[m].id \in TimerId /\ M[q[m].id] # None
            /\ q[m] = [id |-> q[m].id, slot |-> M[q[m].id][1], pos |-> M[q[m].id][2]]
            /\ M[q[m].id] = <<q[m].slot, q[m].pos>>
            /\ q[m].pos \in Nat
  <2>1. q[m] \in J
    BY <1>5
  <2>2. PICK i \in I : q[m] = [id |-> i, slot |-> M[i][1], pos |-> M[i][2]]
    BY <2>1
  <2>3. i \in ids /\ i \in TimerId /\ M[i] # None
    OBVIOUS
  <2>4. M[i] = <<M[i][1], M[i][2]>> /\ M[i][2] \in Nat
    BY <1>4, <2>3, IndexFacts
  <2>5. q[m].id = i /\ q[m].slot = M[i][1] /\ q[m].pos = M[i][2]
    BY <2>2
  <2> HIDE DEF M
  <2> QED BY <2>2, <2>3, <2>4, <2>5
<1>7. \A j, l \in 1 .. n : j < l => /\ q[j].id # q[l].id
                                    /\ q[l].slot = q[j].slot => ~ (q[l].pos >= q[j].pos)
  <2>1. SUFFICES ASSUME NEW j \in 1 .. n, NEW l \in 1 .. n, j < l
                 PROVE /\ q[j].id # q[l].id
                       /\ q[l].slot = q[j].slot => ~ (q[l].pos >= q[j].pos)
    OBVIOUS
  <2>2. q[j] # q[l]
    BY <1>5, <2>1
  <2>3. q[j].id # q[l].id
    BY <1>6, <2>2
  <2>4. q[j].slot = q[l].slot => q[j].pos > q[l].pos
    BY <1>1, <1>5, <2>1 DEF LaterPositionFirst
  <2>5. q[j].pos \in Nat /\ q[l].pos \in Nat
    BY <1>6
  <2>6. q[l].slot = q[j].slot => ~ (q[l].pos >= q[j].pos)
    BY <2>4, <2>5
  <2> QED BY <2>3, <2>6
<1>8. JobIds(q, n) = I
  <2>1. \A m \in 1 .. n : q[m].id \in I
    BY <1>6
  <2>2. ASSUME NEW i \in I PROVE \E m \in 1 .. n : q[m].id = i
    <3>1. f[i] \in J /\ f[i].id = i
      OBVIOUS
    <3> HIDE DEF f, J, I
    <3>2. PICK m \in 1 .. n : q[m] = f[i]
      BY <1>5, <3>1
    <3> QED BY <3>1, <3>2
  <2> HIDE DEF I
  <2> QED BY <2>1, <2>2 DEF JobIds
<1> QED BY <1>5, <1>6, <1>7, <1>8 DEF InTurn, n

LEMMA BatchCancelIs ==
  ASSUME NEW w, Sound(w), NEW ids \in SUBSET TimerId, NEW q \in slot_groups(w, ids),
         NEW v, v = batch_cancel_timers(w, q)
  PROVE Lessened(v, w, ids)
<1> DEFINE a == FoldLeft(CancelAt, [wheel |-> w, invalidate |-> FALSE], q)
           I == {i \in ids : w.timer_map[i] # None}
           t == IF a.invalidate THEN None ELSE a.wheel.cached_next_expiry
           u == a.wheel
<1>1. InTurn(q, w) /\ JobIds(q, Len(q)) = I
  BY GroupsInTurn
<1>2. v = Recached(u, t)
  BY DEF batch_cancel_timers, Recached
<1>3. Lessened(u, w, I) /\ a.invalidate \in BOOLEAN
  <2> HIDE DEF I, a
  <2>1. a = FoldLeft(CancelAt, [wheel |-> w, invalidate |-> FALSE], q)
    BY DEF a
  <2> QED BY <1>1, <2>1, CancelAllIs
<1>4. u \in Wheel /\ Sound(u) /\ u.cached_next_expiry \in {w.cached_next_expiry, None}
  BY <1>3 DEF Lessened, Sound
<1>5. t \in {w.cached_next_expiry, None} /\ t \in Nat \cup {None}
  BY <1>4, WheelFields DEF u
<1> HIDE DEF t, u, a
<1>6. /\ v \in Wheel /\ v.slots = u.slots /\ v.timer_map = u.timer_map
      /\ SameTurn(v, u) /\ v.cached_next_expiry = t
  BY <1>2, <1>4, <1>5, RecachedIs
<1>7. Sound(v)
  BY <1>4, <1>6 DEF Sound
<1>8. Stored(u.slots) = {x \in Stored(w.slots) : x.id \notin I}
  BY <1>3 DEF Lessened
<1>9. \A x \in Stored(w.slots) : x.id \in I <=> x.id \in ids
  <2>1. w.slots \in Slots /\ w.timer_map \in Index /\ Placed(w.slots, w.timer_map)
    BY WheelFields DEF Sound
  <2> QED BY <2>1, OnIndex
<1>10. SameTurn(v, w)
  BY <1>3, <1>6 DEF Lessened, SameTurn
<1> HIDE DEF I
<1>11. Stored(v.slots) = {x \in Stored(w.slots) : x.id \notin ids}
  BY <1>6, <1>8, <1>9
<1> QED BY <1>5, <1>6, <1>7, <1>10, <1>11 DEF Lessened

----------------------------------------------------------------------------
(* Expiries.                                                               *)

Gone(x) == {x[n].id : n \in 1 .. Len(x)}

\* The entries x, due by now and one for each id, have left wheel w, which became v.
Leaves(v, x, w, now) ==
  /\ Sound(v) /\ v.next_entry_id = w.next_entry_id
  /\ v.cached_next_expiry = w.cached_next_expiry
  /\ x \in Seq(TimerEntry) /\ \A m, n \in 1 .. Len(x) : x[m].id = x[n].id => m = n
  /\ \A n \in 1 .. Len(x) : x[n] \in Stored(w.slots) /\ x[n].expiry <= now
  /\ Stored(v.slots) = {e \in Stored(w.slots) : e.id \notin Gone(x)}

\* What a slot splits into: the ids of the two parts are different.
LEMMA SplitIds ==
  ASSUME NEW q \in Seq(TimerEntry), NEW now \in Nat, NEW x, x = Expired(q, now),
         NEW r, r = Pending(q, now), \A i, j \in 1 .. Len(q) : q[i].id = q[j].id => i = j
  PROVE /\ x \in Seq(TimerEntry) /\ r \in Seq(TimerEntry)
        /\ Len(x) \in Nat /\ Len(r) \in Nat /\ DOMAIN x = 1 .. Len(x) /\ DOMAIN r = 1 .. Len(r)
        /\ \A m, n \in 1 .. Len(x) : x[m].id = x[n].id => m = n
        /\ \A m, n \in 1 .. Len(r) : r[m].id = r[n].id => m = n
        /\ \A n \in 1 .. Len(x) : x[n].expiry <= now /\ \E p \in 1 .. Len(q) : q[p] = x[n]
        /\ \A n \in 1 .. Len(r) : /\ r[n].expiry > now /\ \E p \in 1 .. Len(q) : q[p] = r[n]
                                  /\ r[n].id \notin Gone(x)
        /\ \A p \in 1 .. Len(q) : \/ \E n \in 1 .. Len(x) : x[n] = q[p]
                                  \/ \E n \in 1 .. Len(r) : r[n] = q[p]
        /\ x = <<>> => r = q
<1> DEFINE A == {p \in 1 .. Len(q) : q[p].expiry <= now}
           B == {p \in 1 .. Len(q) : ~ (q[p].expiry <= now)}
<1>1. /\ Picks(x, q, A) /\ Picks(r, q, B)
      /\ x = <<>> => r = q
      /\ \A p \in 1 .. Len(q) : q[p].expiry > now <=> ~ (q[p].expiry <= now)
  BY SplitSlot
<1>2. \A p \in A : p \in 1 .. Len(q) /\ q[p].expiry <= now
  OBVIOUS
<1>3. \A p \in B : p \in 1 .. Len(q) /\ q[p].expiry > now /\ p \notin A
  BY <1>1
<1>4. \A p \in 1 .. Len(q) : p \in A \/ p \in B
  OBVIOUS
<1> HIDE DEF A, B
<1>5. /\ x \in Seq(TimerEntry) /\ r \in Seq(TimerEntry)
      /\ Len(x) \in Nat /\ Len(r) \in Nat /\ DOMAIN x = 1 .. Len(x) /\ DOMAIN r = 1 .. Len(r)
      /\ \A m, n \in 1 .. Len(x) : x[m].id = x[n].id => m = n
      /\ \A m, n \in 1 .. Len(r) : r[m].id = r[n].id => m = n
      /\ \A n \in 1 .. Len(x) : \E p \in A : x[n] = q[p]
      /\ \A n \in 1 .. Len(r) : \E p \in B : r[n] = q[p]
      /\ \A p \in A : \E n \in 1 .. Len(x) : x[n] = q[p]
      /\ \A p \in B : \E n \in 1 .. Len(r) : r[n] = q[p]
  <2>1. \A i, j \in 1 .. Len(q) : q[i].id = q[j].id => i = j
    OBVIOUS
  <2>2. Picks(x, q, A) /\ Picks(r, q, B)
    BY <1>1
  <2>3. /\ x \in Seq(TimerEntry) /\ Len(x) \in Nat /\ DOMAIN x = 1 .. Len(x)
        /\ \A m, n \in 1 .. Len(x) : x[m].id = x[n].id => m = n
        /\ \A n \in 1 .. Len(x) : \E p \in A : x[n] = q[p]
        /\ \A p \in A : \E n \in 1 .. Len(x) : x[n] = q[p]
    BY ONLY <2>1, <2>2 DEF Picks
  <2>4. /\ r \in Seq(TimerEntry) /\ Len(r) \in Nat /\ DOMAIN r = 1 .. Len(r)
        /\ \A m, n \in 1 .. Len(r) : r[m].id = r[n].id => m = n
        /\ \A n \in 1 .. Len(r) : \E p \in B : r[n] = q[p]
        /\ \A p \in B : \E n \in 1 .. Len(r) : r[n] = q[p]
    BY ONLY <2>1, <2>2 DEF Picks
  <2> QED BY ONLY <2>3, <2>4
<1>6. ASSUME NEW n \in 1 .. Len(r)
      PROVE /\ r[n].expiry > now /\ \E p \in 1 .. Len(q) : q[p] = r[n]
            /\ r[n].id \notin Gone(x)
  <2>1. PICK p \in B : r[n] = q[p]
    BY <1>5
  <2>2. ASSUME NEW m \in 1 .. Len(x), x[m].id = r[n].id PROVE FALSE
    <3>1. PICK l \in A : x[m] = q[l]
      BY <1>5
    <3>2. p = l
      BY <2>1, <2>2, <3>1, <1>2, <1>3
    <3> QED BY <3>2, <1>3
  <2> QED BY <2>1, <2>2, <1>3 DEF Gone
<1>7. ASSUME NEW n \in 1 .. Len(x)
      PROVE x[n].expiry <= now /\ \E p \in 1 .. Len(q) : q[p] = x[n]
  <2>1. PICK p \in A : x[n] = q[p]
    BY <1>5
  <2>2. p \in 1 .. Len(q) /\ q[p].expiry <= now
    BY <1>2
  <2> QED BY <2>1, <2>2
<1>8. \A p \in 1 .. Len(q) : \/ \E n \in 1 .. Len(x) : x[n] = q[p]
                             \/ \E n \in 1 .. Len(r) : r[n] = q[p]
  BY <1>4, <1>5
<1>9. x = <<>> => r = q
  BY <1>1
<1> QED BY ONLY <1>9, <1>5, <1>6, <1>7, <1>8

\* The entries that stay in a slot are found by their ids.
LEMMA FoundById ==
  ASSUME NEW r, NEW k, \A m, n \in 1 .. k : r[m].id = r[n].id => m = n, NEW n \in 1 .. k
  PROVE (CHOOSE p \in 1 .. k : r[p].id = r[n].id) = n
OBVIOUS

Remapped(w, s, x, r, id) ==
  IF id \in Ids(x) THEN None
  ELSE IF x # <<>> /\ id \in Ids(r) THEN <<s, CHOOSE p \in DOMAIN r : r[p].id = id>>
  ELSE w.timer_map[id]

LEMMA IdsAre ==
  ASSUME NEW x, DOMAIN x = 1 .. Len(x)
  PROVE Ids(x) = Gone(x)
BY DEF Ids, Gone, Range

LEMMA CheckCurrentIs ==
  ASSUME NEW w, Sound(w), NEW now \in Nat, NEW d,
         d = check_current_slot_for_expired_timers(w, now)
  PROVE /\ Leaves(d.wheel, d.expired, w, now) /\ SameTurn(d.wheel, w)
        /\ \A e \in Stored(d.wheel.slots) :
             calculate_slot_index(e.expiry) = w.current_slot => e.expiry > now
<1> DEFINE S == w.slots
           M == w.timer_map
           s == w.current_slot
           q == S[s]
           x == Expired(q, now)
           r == Pending(q, now)
           M2 == [id \in TimerId |-> Remapped(w, s, x, r, id)]
           S2 == [S EXCEPT ![s] = r]
           v == Refilled(w, S2, M2)
<1>1. w \in Wheel /\ S \in Slots /\ M \in Index /\ Placed(S, M) /\ InSlot(S) /\ s \in Slot
  BY WheelFields DEF Sound
<1>2. d = [wheel |-> v, expired |-> x]
  BY DEF check_current_slot_for_expired_timers, Refilled, Remapped
<1> HIDE DEF S, M, s
<1>3. /\ q \in Seq(TimerEntry) /\ Len(q) \in Nat
      /\ \A p \in 1 .. Len(q) : q[p] \in TimerEntry /\ q[p].id \in TimerId
      /\ \A p \in 1 .. Len(q) : M[q[p].id] = <<s, p>> /\ q[p] \in Stored(S) /\ M[q[p].id] # None
      /\ \A i, j \in 1 .. Len(q) : q[i].id = q[j].id => i = j
  <2>1. q \in Seq(TimerEntry) /\ Len(q) \in Nat
    BY <1>1, SlotFacts
  <2>2. \A p \in 1 .. Len(q) : q[p] \in TimerEntry /\ q[p].id \in TimerId
    BY <1>1, SlotFacts
  <2>3. \A p \in 1 .. Len(q) : M[q[p].id] = <<s, p>> /\ q[p] \in Stored(S) /\ M[q[p].id] # None
    BY <1>1, AtPlace
  <2>4. \A i, j \in 1 .. Len(q) : q[i].id = q[j].id => i = j
    BY <1>1, OnePlace
  <2> QED BY <2>1, <2>2, <2>3, <2>4
<1> HIDE DEF q
<1>4. /\ x \in Seq(TimerEntry) /\ r \in Seq(TimerEntry)
      /\ Len(x) \in Nat /\ Len(r) \in Nat /\ DOMAIN x = 1 .. Len(x) /\ DOMAIN r = 1 .. Len(r)
      /\ \A m, n \in 1 .. Len(x) : x[m].id = x[n].id => m = n
      /\ \A m, n \in 1 .. Len(r) : r[m].id = r[n].id => m = n
      /\ \A n \in 1 .. Len(x) : x[n].expiry <= now /\ \E p \in 1 .. Len(q) : q[p] = x[n]
      /\ \A n \in 1 .. Len(r) : /\ r[n].expiry > now /\ \E p \in 1 .. Len(q) : q[p] = r[n]
                                /\ r[n].id \notin Gone(x)
      /\ \A p \in 1 .. Len(q) : \/ \E n \in 1 .. Len(x) : x[n] = q[p]
                                \/ \E n \in 1 .. Len(r) : r[n] = q[p]
      /\ x = <<>> => r = q
  <2>1. /\ q \in Seq(TimerEntry) /\ now \in Nat
        /\ \A i, j \in 1 .. Len(q) : q[i].id = q[j].id => i = j
    BY <1>3
  <2> QED BY ONLY <2>1, SplitIds, ZenonT(60)
<1> HIDE DEF x, r
<1>5. Ids(x) = Gone(x) /\ Ids(r) = Gone(r)
  BY <1>4, IdsAre
<1>6. ASSUME NEW n \in 1 .. Len(r)
      PROVE /\ M2[r[n].id] = <<s, n>> /\ r[n].id \in TimerId
            /\ \E p \in 1 .. Len(q) : r[n] = q[p]
  <2>1. PICK p \in 1 .. Len(q) : q[p] = r[n]
    BY <1>4
  <2>2. r[n].id \in TimerId /\ r[n].id \notin Gone(x) /\ r[n].id \in Gone(r)
    BY <2>1, <1>3, <1>4 DEF Gone
  <2>3. CASE x = <<>>
    <3>1. M2[r[n].id] = M[r[n].id]
      BY <2>2, <2>3, <1>5 DEF Remapped, M
    <3>2. r = q
      BY <1>4, <2>3
    <3> QED BY <3>1, <3>2, <2>1, <2>2, <1>3
  <2>4. CASE x # <<>>
    <3>1. M2[r[n].id] = <<s, CHOOSE p1 \in 1 .. Len(r) : r[p1].id = r[n].id>>
      BY <2>2, <2>4, <1>4, <1>5 DEF Remapped
    <3>2. (CHOOSE p1 \in 1 .. Len(r) : r[p1].id = r[n].id) = n
      BY <1>4, FoundById
    <3> HIDE DEF M2
    <3> QED BY <3>1, <3>2, <2>1, <2>2
  <2> QED BY <2>3, <2>4
<1>7. \A n \in 1 .. Len(x) : M2[x[n].id] = None /\ x[n].id \in TimerId /\ x[n] \in Stored(S)
  <2>1. SUFFICES ASSUME NEW n \in 1 .. Len(x)
                 PROVE M2[x[n].id] = None /\ x[n].id \in TimerId /\ x[n] \in Stored(S)
    OBVIOUS
  <2>2. PICK p \in 1 .. Len(q) : q[p] = x[n]
    BY <1>4
  <2>3. x[n].id \in TimerId /\ x[n].id \in Gone(x)
    BY <2>2, <1>3 DEF Gone
  <2> QED BY <2>2, <2>3, <1>3, <1>5 DEF Remapped
<1>8. \A i \in TimerId : (\A p \in 1 .. Len(q) : q[p].id # i) => M2[i] = M[i]
  <2>1. SUFFICES ASSUME NEW i \in TimerId, \A p \in 1 .. Len(q) : q[p].id # i
                 PROVE M2[i] = M[i]
    OBVIOUS
  <2>2. ASSUME NEW n \in 1 .. Len(x), x[n].id = i PROVE FALSE
    <3>1. PICK p \in 1 .. Len(q) : q[p] = x[n]
      BY <1>4
    <3> QED BY <3>1, <2>1, <2>2
  <2>3. \A n \in 1 .. Len(r) : r[n].id # i
    BY <2>1, <1>4
  <2>4. i \notin Gone(x) /\ i \notin Gone(r)
    BY <2>2, <2>3 DEF Gone
  <2> QED BY <2>4, <1>5 DEF Remapped, M
<1>9. M2 \in Index
  <2>1. ASSUME NEW i \in TimerId PROVE M2[i] \in Place \cup {None}
    <3>1. CASE \A p \in 1 .. Len(q) : q[p].id # i
      BY <3>1, <1>1, <1>8, IndexFacts
    <3>2. ASSUME NEW p \in 1 .. Len(q), q[p].id = i PROVE M2[i] \in Place \cup {None}
      <4>1. CASE \E n \in 1 .. Len(x) : x[n] = q[p]
        BY <4>1, <3>2, <1>7
      <4>2. CASE \E n \in 1 .. Len(r) : r[n] = q[p]
        <5>1. PICK n \in 1 .. Len(r) : r[n] = q[p]
          BY <4>2
        <5>2. M2[i] = <<s, n>>
          BY <5>1, <3>2, <1>6
        <5>3. <<s, n>> \in Place
          BY <1>1, <1>4, PlaceIs
        <5> HIDE DEF M2
        <5> QED BY <5>2, <5>3
      <4> QED BY <4>1, <4>2, <1>4
    <3> QED BY <3>1, <3>2
  <2>2. M2 = [i \in TimerId |-> M2[i]]
    OBVIOUS
  <2> HIDE DEF M2
  <2> QED BY <2>1, <2>2 DEF Index
<1>10. S2 \in Slots /\ S2[s] = r /\ \A t \in Slot : t # s => S2[t] = S[t]
  BY <1>1, <1>4 DEF Slots
<1> HIDE DEF M2, S2
<1>11. /\ Placed(S2, M2) /\ InSlot(S2)
       /\ Stored(S2) = {y \in Stored(S) : M2[y.id] # None}
  <2>1. \A p \in 1 .. Len(q) : M2[q[p].id] = None \/ \E n \in 1 .. Len(r) : r[n] = q[p]
    BY <1>4, <1>7
  <2>2. \A n \in 1 .. Len(r) : M2[r[n].id] = <<s, n>> /\ \E p \in 1 .. Len(S[s]) : r[n] = S[s][p]
    BY <1>6 DEF q
  <2>3. \A p \in 1 .. Len(S[s]) : M2[S[s][p].id] = None \/ \E n \in 1 .. Len(r) : r[n] = S[s][p]
    BY <2>1 DEF q
  <2>4. \A i \in TimerId : (\A p \in 1 .. Len(S[s]) : S[s][p].id # i) => M2[i] = M[i]
    BY <1>8 DEF q
  <2>5. r \in Seq(TimerEntry)
    BY <1>4
  <2> QED BY ONLY <1>1, <1>9, <1>10, <2>2, <2>3, <2>4, <2>5, LeaveTables
<1>12. /\ v \in Wheel /\ v.slots = S2 /\ v.timer_map = M2 /\ SameTurn(v, w)
       /\ v.cached_next_expiry = w.cached_next_expiry
  BY <1>1, <1>9, <1>10, WheelFrom
<1> HIDE DEF v
<1>13. Sound(v)
  BY <1>11, <1>12 DEF Sound
<1>14. \A y \in Stored(S) : M2[y.id] # None <=> y.id \notin Gone(x)
  <2>1. SUFFICES ASSUME NEW y \in Stored(S) PROVE M2[y.id] # None <=> y.id \notin Gone(x)
    OBVIOUS
  <2>2. y.id \in TimerId /\ M[y.id] # None
    BY <1>1, OnIndex, EntryFields DEF Stored
  <2>3. CASE y.id \in Gone(x)
    BY <2>3, <1>7 DEF Gone
  <2>4. CASE y.id \notin Gone(x)
    <3>1. CASE \A p \in 1 .. Len(q) : q[p].id # y.id
      BY <2>2, <2>4, <3>1, <1>8
    <3>2. ASSUME NEW p \in 1 .. Len(q), q[p].id = y.id PROVE M2[y.id] # None
      <4>1. ~ \E n \in 1 .. Len(x) : x[n] = q[p]
        BY <2>4, <3>2 DEF Gone
      <4>2. PICK n \in 1 .. Len(r) : r[n] = q[p]
        BY <4>1, <1>4
      <4>3. M2[y.id] = <<s, n>>
        BY <4>2, <3>2, <1>6
      <4>4. <<s, n>> # None
        BY <1>1, <1>4, PlaceIs
      <4> QED BY <4>3, <4>4
    <3> QED BY <2>4, <3>1, <3>2
  <2> QED BY <2>3, <2>4
<1>15. Stored(v.slots) = {e \in Stored(w.slots) : e.id \notin Gone(x)}
  BY <1>11, <1>12, <1>14 DEF S
<1>16. Leaves(v, x, w, now)
  BY <1>4, <1>7, <1>12, <1>13, <1>15 DEF Leaves, SameTurn, S
<1>17. ASSUME NEW e \in Stored(v.slots), calculate_slot_index(e.expiry) = w.current_slot
       PROVE e.expiry > now
  <2>0. e \in TimerEntry /\ \E t \in Slot : \E p \in 1 .. Len(S2[t]) : S2[t][p] = e
    BY <1>12 DEF Stored
  <2>1. PICK t \in Slot : \E p \in 1 .. Len(S2[t]) : S2[t][p] = e
    BY <2>0
  <2>2. PICK p \in 1 .. Len(S2[t]) : S2[t][p] = e
    BY <2>1
  <2>3. t = s
    BY <2>2, <1>11, <1>17 DEF InSlot, s
  <2> QED BY <2>2, <2>3, <1>4, <1>10
<1> QED BY <1>2, <1>12, <1>16, <1>17

LEMMA PushOneIs ==
  ASSUME NEW w, Sound(w), NEW e \in TimerEntry, w.timer_map[e.id] = None
  PROVE /\ Sound(PushBack(w, e)) /\ SameTurn(PushBack(w, e), w)
        /\ PushBack(w, e).cached_next_expiry = w.cached_next_expiry
        /\ Stored(PushBack(w, e).slots) = Stored(w.slots) \cup {e}
<1>1. PICK v : v = PushBack(w, e)
  OBVIOUS
<1>2. PICK s : s = calculate_slot_index(e.expiry)
  OBVIOUS
<1>3. /\ Sound(v) /\ SameTurn(v, w) /\ v.cached_next_expiry = w.cached_next_expiry
      /\ Stored(v.slots) = Stored(w.slots) \cup {e}
  BY <1>1, <1>2, PushIs
<1> QED BY <1>1, <1>3

\* Entries q are put on wheel w one after the other.
LEMMA PushAllIs ==
  ASSUME NEW w, Sound(w), NEW q \in Seq(TimerEntry), NEW v, v = FoldLeft(PushBack, w, q),
         \A i, j \in 1 .. Len(q) : q[i].id = q[j].id => i = j,
         \A j \in 1 .. Len(q) : w.timer_map[q[j].id] = None
  PROVE /\ Sound(v) /\ SameTurn(v, w) /\ v.cached_next_expiry = w.cached_next_expiry
        /\ Stored(v.slots) = Stored(w.slots) \cup First(q, Len(q))
<1> DEFINE n == Len(q)
<1>1. n \in Nat /\ DOMAIN q = 1 .. n /\ \A m \in 1 .. n : q[m] \in TimerEntry
  OBVIOUS
<1>2. PICK h : Walk(h, "push", 0, w, q) /\ Folded("push", 0, w, q) = h[n]
  BY <1>1, FoldedWalks
<1>3. v = h[n]
  BY <1>1, <1>2, PushFolded
<1>4. h[0] = w /\ \A m \in 1 .. n : h[m] = PushBack(h[m - 1], q[m])
  BY <1>2 DEF Walk, Step
<1>5. /\ \A i, j \in 1 .. n : q[i].id = q[j].id => i = j
      /\ \A j \in 1 .. n : w.timer_map[q[j].id] = None
  OBVIOUS
<1> DEFINE Good(m) == /\ Sound(h[m]) /\ SameTurn(h[m], w)
                      /\ h[m].cached_next_expiry = w.cached_next_expiry
                      /\ Stored(h[m].slots) = Stored(w.slots) \cup First(q, m)
           G == {m \in 0 .. n : Good(m)}
<1> HIDE DEF n
<1>6. Good(0)
  <2>1. First(q, 0) = {}
    BY DEF First
  <2> QED BY <1>4, <2>1 DEF SameTurn
<1>7. ASSUME NEW m \in 1 .. n, Good(m - 1) PROVE Good(m)
  <2> DEFINE u == h[m - 1]
             e == q[m]
             F == First(q, m - 1)
  <2>1. m \in Nat /\ m # 0 /\ m - 1 \in Nat /\ e \in TimerEntry /\ m \in 1 .. n
    BY <1>1
  <2>2. First(q, m) = F \cup {e}
    BY <2>1, FirstMore
  <2>3. h[m] = PushBack(u, e)
    BY <1>4
  <2>4. Sound(u) /\ SameTurn(u, w) /\ u.cached_next_expiry = w.cached_next_expiry
        /\ Stored(u.slots) = Stored(w.slots) \cup F
    BY <1>7
  <2>5. u.timer_map[e.id] = None
    <3>1. SUFFICES ASSUME u.timer_map[e.id] # None PROVE FALSE
      OBVIOUS
    <3> HIDE DEF u
    <3>2. e.id \in TimerId
      BY <2>1, EntryFields
    <3>3. PICK y \in Stored(u.slots) : y.id = e.id
      BY <2>4, <3>1, <3>2, OnHeld
    <3>4. CASE y \in Stored(w.slots)
      <4>1. w.timer_map[e.id] # None
        BY <3>2, <3>3, <3>4, OnHeld
      <4> QED BY <4>1, <2>1, <1>5
    <3>5. CASE y \in F
      <4>1. PICK j \in 1 .. m - 1 : y = q[j]
        BY <3>5 DEF First
      <4>2. j \in 1 .. n /\ j # m
        BY <1>1, <2>1
      <4> QED BY <4>1, <4>2, <3>3, <2>1, <1>5
    <3> QED BY <3>3, <3>4, <3>5, <2>4
  <2> HIDE DEF u, e, F
  <2>6. /\ Sound(h[m]) /\ SameTurn(h[m], u) /\ h[m].cached_next_expiry = u.cached_next_expiry
        /\ Stored(h[m].slots) = Stored(u.slots) \cup {e}
    <3>1. e \in TimerEntry /\ Sound(u) /\ u.timer_map[e.id] = None
      BY <2>1, <2>4, <2>5
    <3> QED BY ONLY <3>1, <2>3, PushOneIs
  <2>7. SameTurn(h[m], w)
    BY <2>4, <2>6 DEF SameTurn
  <2> QED BY <2>2, <2>4, <2>6, <2>7
<1> HIDE DEF Good
<1>8. n \in G
  <2>1. 0 \in G
    BY <1>1, <1>6
  <2>2. \A m \in 1 .. n : m - 1 \in G => m \in G
    BY <1>1, <1>7
  <2> HIDE DEF G
  <2> QED BY <1>1, <2>1, <2>2, CountUp
<1>9. Good(n)
  BY <1>8
<1> QED BY <1>3, <1>9 DEF Good, n

\* A slot is emptied, and the wheel turned to it.
Emptied(w, s) ==
  [w EXCEPT !.current_slot = s, !.current_time = @ + SlotDuration, !.slots[s] = <<>>,
            !.timer_map = [id \in TimerId |-> IF id \in Ids(w.slots[s]) THEN None ELSE @[id]]]

LEMMA EmptiedIs ==
  ASSUME NEW w, Sound(w), NEW s \in Slot, NEW v, v = Emptied(w, s)
  PROVE /\ Sound(v) /\ v.current_slot = s /\ v.current_time = w.current_time + SlotDuration
        /\ v.next_entry_id = w.next_entry_id /\ v.cached_next_expiry = w.cached_next_expiry
        /\ \A p \in 1 .. Len(w.slots[s]) : v.timer_map[w.slots[s][p].id] = None
        /\ Stored(v.slots) = {e \in Stored(w.slots) : calculate_slot_index(e.expiry) # s}
<1> DEFINE S == w.slots
           M == w.timer_map
           q == S[s]
           M2 == [id \in TimerId |-> IF id \in Ids(q) THEN None ELSE M[id]]
           S2 == [S EXCEPT ![s] = <<>>]
<1>1. w \in Wheel /\ S \in Slots /\ M \in Index /\ Placed(S, M) /\ InSlot(S)
  BY WheelFields DEF Sound
<1>2. /\ v \in Wheel /\ v.slots = S2 /\ v.timer_map = M2
      /\ v.current_slot = s /\ v.current_time = w.current_time + SlotDuration
      /\ v.next_entry_id = w.next_entry_id /\ v.cached_next_expiry = w.cached_next_expiry
  <2>1. v = [w EXCEPT !.current_slot = s, !.current_time = w.current_time + SlotDuration,
                      !.slots = S2, !.timer_map = M2]
    BY DEF Emptied
  <2>2. S2 \in Slots /\ M2 \in Index /\ w.current_time + SlotDuration \in Nat
    BY <1>1, Constants, WheelFields DEF Slots, Index
  <2> HIDE DEF S2, M2
  <2> QED BY <2>1, <2>2, <1>1 DEF Wheel, Slots, Index
<1> HIDE DEF S, M
<1>3. S2[s] = <<>> /\ (\A t \in Slot : t # s => S2[t] = S[t]) /\ S2 \in Slots /\ M2 \in Index
  BY <1>1 DEF Slots, Index
<1>4. Ids(q) = Gone(q) /\ \A p \in 1 .. Len(q) : q[p].id \in TimerId
  <2>1. DOMAIN q = 1 .. Len(q) /\ \A p \in 1 .. Len(q) : q[p].id \in TimerId
    BY <1>1, SlotFacts
  <2> HIDE DEF q
  <2> QED BY <2>1, IdsAre
<1>5. \A i \in TimerId : M2[i] = IF i \in Gone(q) THEN None ELSE M[i]
  BY <1>4
<1>6. \A p \in 1 .. Len(q) : M2[q[p].id] = None
  BY <1>4, <1>5 DEF Gone
<1>7. \A i \in TimerId : (\A p \in 1 .. Len(q) : q[p].id # i) => M2[i] = M[i]
  BY <1>5 DEF Gone
<1> HIDE DEF S2, M2
<1>8. /\ Placed(S2, M2) /\ InSlot(S2)
      /\ Stored(S2) = {y \in Stored(S) : M2[y.id] # None}
  <2> DEFINE r == << >>
  <2>1. r \in Seq(TimerEntry)
    OBVIOUS
  <2>2. \A n \in 1 .. Len(r) : M2[r[n].id] = <<s, n>> /\ \E p \in 1 .. Len(S[s]) : r[n] = S[s][p]
    OBVIOUS
  <2>3. S2[s] = r
    BY <1>3
  <2>4. \A p \in 1 .. Len(S[s]) : M2[S[s][p].id] = None \/ \E n \in 1 .. Len(r) : r[n] = S[s][p]
    BY <1>6
  <2>5. \A i \in TimerId : (\A p \in 1 .. Len(S[s]) : S[s][p].id # i) => M2[i] = M[i]
    BY <1>7
  <2>6. (\A t \in Slot : t # s => S2[t] = S[t]) /\ S2 \in Slots /\ M2 \in Index /\ s \in Slot
    BY <1>3
  <2> HIDE DEF r, q
  <2> QED BY ONLY <1>1, <2>1, <2>2, <2>3, <2>4, <2>5, <2>6, LeaveTables
<1>9. ASSUME NEW y \in Stored(S)
      PROVE M2[y.id] # None <=> calculate_slot_index(y.expiry) # s
  <2>0. y \in TimerEntry /\ \E t \in Slot : \E p \in 1 .. Len(S[t]) : S[t][p] = y
    BY DEF Stored
  <2>1. PICK t \in Slot : \E p \in 1 .. Len(S[t]) : S[t][p] = y
    BY <2>0
  <2>2. PICK p \in 1 .. Len(S[t]) : S[t][p] = y
    BY <2>1
  <2>3. t = calculate_slot_index(y.expiry) /\ M[y.id] = <<t, p>> /\ y.id \in TimerId /\ M[y.id] # None
    BY <2>2, <1>1, AtPlace DEF InSlot
  <2>4. CASE t = s
    BY <2>2, <2>3, <2>4, <1>6
  <2>5. CASE t # s
    <3>1. ASSUME NEW l \in 1 .. Len(q), q[l].id = y.id PROVE FALSE
      BY <3>1, <2>2, <2>5, <1>1, OnePlace
    <3>2. M2[y.id] = M[y.id]
      BY <3>1, <2>3, <1>7
    <3> QED BY <3>2, <2>3, <2>5
  <2> QED BY <2>4, <2>5
<1>10. Stored(S2) = {e \in Stored(S) : calculate_slot_index(e.expiry) # s}
  BY <1>8, <1>9
<1>11. Sound(v)
  BY <1>2, <1>8 DEF Sound
<1> QED BY <1>2, <1>6, <1>10, <1>11 DEF S

Turned(w, s, now) == FoldLeft(PushBack, Emptied(w, s), Pending(w.slots[s], now))
NextSlot(w) == (w.current_slot + 1) % SlotCount

\* One slot further.  The entries due in it leave, the others stay on the wheel.
LEMMA TurnedIs ==
  ASSUME NEW w, Sound(w), NEW now \in Nat, NEW s \in Slot
  PROVE /\ Leaves(Turned(w, s, now), Expired(w.slots[s], now), w, now)
        /\ Turned(w, s, now).current_slot = s
        /\ Turned(w, s, now).current_time = w.current_time + SlotDuration
        /\ \A e \in Stored(Turned(w, s, now).slots) :
             calculate_slot_index(e.expiry) = s => e.expiry > now
<1> DEFINE q == w.slots[s]
           x == Expired(q, now)
           r == Pending(q, now)
           w1 == Emptied(w, s)
           v == FoldLeft(PushBack, w1, r)
<1>1. v = Turned(w, s, now)
  BY DEF Turned
<1>2. w \in Wheel /\ w.slots \in Slots /\ w.timer_map \in Index
      /\ Placed(w.slots, w.timer_map) /\ InSlot(w.slots) /\ Sound(w)
  BY WheelFields DEF Sound
<1>4. /\ q \in Seq(TimerEntry) /\ Len(q) \in Nat /\ s \in Slot
      /\ \A p \in 1 .. Len(q) : q[p] \in Stored(w.slots) /\ q[p] \in TimerEntry
      /\ \A p \in 1 .. Len(q) : calculate_slot_index(q[p].expiry) = s
      /\ \A i, j \in 1 .. Len(q) : q[i].id = q[j].id => i = j
  <2>1. q \in Seq(TimerEntry) /\ Len(q) \in Nat
    BY <1>2, SlotFacts
  <2>2. \A p \in 1 .. Len(q) : q[p] \in Stored(w.slots) /\ q[p] \in TimerEntry
    BY <1>2, AtPlace
  <2>3. \A p \in 1 .. Len(q) : calculate_slot_index(q[p].expiry) = s
    BY <1>2 DEF InSlot
  <2>4. \A i, j \in 1 .. Len(q) : q[i].id = q[j].id => i = j
    BY <1>2, OnePlace
  <2> QED BY <2>1, <2>2, <2>3, <2>4
<1>5. /\ Sound(w1) /\ w1.current_slot = s /\ w1.current_time = w.current_time + SlotDuration
      /\ w1.next_entry_id = w.next_entry_id /\ w1.cached_next_expiry = w.cached_next_expiry
      /\ \A p \in 1 .. Len(q) : w1.timer_map[q[p].id] = None
      /\ Stored(w1.slots) = {e \in Stored(w.slots) : calculate_slot_index(e.expiry) # s}
  <2> HIDE DEF w1
  <2>1. w1 = Emptied(w, s) /\ s \in Slot /\ Sound(w)
    BY <1>2 DEF w1
  <2> QED BY ONLY <2>1, EmptiedIs DEF q
<1> HIDE DEF q, w1
<1>6. /\ x \in Seq(TimerEntry) /\ r \in Seq(TimerEntry)
      /\ Len(x) \in Nat /\ Len(r) \in Nat /\ DOMAIN x = 1 .. Len(x) /\ DOMAIN r = 1 .. Len(r)
      /\ \A m, n \in 1 .. Len(x) : x[m].id = x[n].id => m = n
      /\ \A m, n \in 1 .. Len(r) : r[m].id = r[n].id => m = n
      /\ \A n \in 1 .. Len(x) : x[n].expiry <= now /\ \E p \in 1 .. Len(q) : q[p] = x[n]
      /\ \A n \in 1 .. Len(r) : /\ r[n].expiry > now /\ \E p \in 1 .. Len(q) : q[p] = r[n]
                                /\ r[n].id \notin Gone(x)
      /\ \A p \in 1 .. Len(q) : \/ \E n \in 1 .. Len(x) : x[n] = q[p]
                                \/ \E n \in 1 .. Len(r) : r[n] = q[p]
      /\ x = <<>> => r = q
  <2>1. q \in Seq(TimerEntry) /\ \A i, j \in 1 .. Len(q) : q[i].id = q[j].id => i = j
    BY <1>4
  <2> QED BY <2>1, SplitIds
<1> HIDE DEF x, r
<1>7. /\ Sound(v) /\ SameTurn(v, w1) /\ v.cached_next_expiry = w1.cached_next_expiry
      /\ Stored(v.slots) = Stored(w1.slots) \cup First(r, Len(r))
  <2>1. \A j \in 1 .. Len(r) : w1.timer_map[r[j].id] = None
    BY <1>5, <1>6
  <2>2. Sound(w1) /\ r \in Seq(TimerEntry) /\ \A m, n \in 1 .. Len(r) : r[m].id = r[n].id => m = n
    BY <1>5, <1>6
  <2> QED BY ONLY <2>1, <2>2, PushAllIs
<1> HIDE DEF v
<1>8. ASSUME NEW e PROVE e \in Stored(v.slots) <=> e \in Stored(w.slots) /\ e.id \notin Gone(x)
  <2>1. CASE e \in Stored(w.slots) /\ calculate_slot_index(e.expiry) # s
    <3>1. e \in Stored(v.slots)
      BY <2>1, <1>5, <1>7
    <3>2. ASSUME NEW n \in 1 .. Len(x), x[n].id = e.id PROVE FALSE
      <4>1. PICK p \in 1 .. Len(q) : q[p] = x[n]
        BY <1>6
      <4>2. q[p] = e
        BY <4>1, <3>2, <2>1, <1>2, <1>4, OnIndex
      <4> QED BY <4>2, <1>4, <2>1
    <3> QED BY <2>1, <3>1, <3>2 DEF Gone
  <2>2. CASE e \in Stored(w.slots) /\ calculate_slot_index(e.expiry) = s
    <3>0. e \in TimerEntry /\ \E t \in Slot : \E p \in 1 .. Len(w.slots[t]) : w.slots[t][p] = e
      BY <2>2 DEF Stored
    <3>1. PICK t \in Slot : \E p \in 1 .. Len(w.slots[t]) : w.slots[t][p] = e
      BY <3>0
    <3>2. PICK p \in 1 .. Len(w.slots[t]) : w.slots[t][p] = e
      BY <3>1
    <3>3. t = s
      BY <3>2, <2>2, <1>2 DEF InSlot
    <3>4. p \in 1 .. Len(q) /\ q[p] = e
      BY <3>2, <3>3 DEF q
    <3>5. ASSUME NEW n \in 1 .. Len(x), x[n] = e PROVE FALSE \/ (e \notin Stored(v.slots) /\ e.id \in Gone(x))
      <4>1. e.id \in Gone(x)
        BY <3>5 DEF Gone
      <4>2. e \notin First(r, Len(r))
        BY <4>1, <1>6 DEF First
      <4>3. e \notin Stored(w1.slots)
        BY <2>2, <1>5
      <4> QED BY <4>1, <4>2, <4>3, <1>7
    <3>6. ASSUME NEW n \in 1 .. Len(r), r[n] = e PROVE e \in Stored(v.slots) /\ e.id \notin Gone(x)
      BY <3>6, <1>6, <1>7 DEF First
    <3> QED BY <3>4, <3>5, <3>6, <1>6, <2>2
  <2>3. CASE e \notin Stored(w.slots)
    <3>1. e \notin Stored(w1.slots)
      BY <2>3, <1>5
    <3>2. ASSUME NEW n \in 1 .. Len(r), r[n] = e PROVE FALSE
      BY <3>2, <2>3, <1>4, <1>6
    <3> QED BY <2>3, <3>1, <3>2, <1>7 DEF First
  <2> QED BY <2>1, <2>2, <2>3
<1>9. Stored(v.slots) = {e \in Stored(w.slots) : e.id \notin Gone(x)}
  BY <1>8
<1>10. \A n \in 1 .. Len(x) : x[n] \in Stored(w.slots) /\ x[n].expiry <= now
  BY <1>4, <1>6
<1>11. Leaves(v, x, w, now)
  BY <1>5, <1>6, <1>7, <1>9, <1>10 DEF Leaves, SameTurn
<1>12. ASSUME NEW e \in Stored(v.slots), calculate_slot_index(e.expiry) = s
       PROVE e.expiry > now
  <2>1. e \notin Stored(w1.slots)
    BY <1>5, <1>12
  <2>2. PICK n \in 1 .. Len(r) : e = r[n]
    BY <2>1, <1>7 DEF First
  <2> QED BY <2>2, <1>6
<1>13. v.current_slot = s /\ v.current_time = w.current_time + SlotDuration
  BY <1>5, <1>7 DEF SameTurn
<1>14. x = Expired(w.slots[s], now)
  BY DEF x, q
<1> QED BY <1>1, <1>11, <1>12, <1>13, <1>14

LEMMA NextSlotIs ==
  ASSUME NEW w \in Wheel
  PROVE NextSlot(w) \in Slot
BY Constants, WheelFields DEF NextSlot, Slot

LEMMA AdvanceOneIs ==
  ASSUME NEW a, NEW now
  PROVE AdvanceOneSlot(a, now) =
          [wheel |-> Turned(a.wheel, NextSlot(a.wheel), now),
           expired |-> a.expired \o Expired(a.wheel.slots[NextSlot(a.wheel)], now)]
BY DEF AdvanceOneSlot, Turned, Emptied, NextSlot

----------------------------------------------------------------------------
(* Quotients and remainders.                                               *)

LEMMA DivMod ==
  ASSUME NEW a \in Nat, NEW d \in Nat, d > 0
  PROVE /\ a \div d \in Nat /\ a % d \in Nat /\ a % d < d
        /\ a = d * (a \div d) + (a % d)
OBVIOUS

LEMMA Products ==
  ASSUME NEW d \in Nat, NEW p \in Nat, NEW q \in Nat
  PROVE /\ d * p \in Nat /\ (p <= q => d * p <= d * q) /\ d * (p + 1) = d * p + d
        /\ d * (p + q) = d * p + d * q
OBVIOUS

LEMMA DivModUnique ==
  ASSUME NEW a \in Nat, NEW d \in Nat, d > 0, NEW q \in Nat, NEW r \in Nat, r < d, a = d * q + r
  PROVE a \div d = q /\ a % d = r
<1> DEFINE p == a \div d
           s == a % d
<1>1. p \in Nat /\ s \in Nat /\ s < d /\ a = d * p + s
  BY DivMod
<1> HIDE DEF p, s
<1>2. d * p \in Nat /\ d * q \in Nat
  BY <1>1, Products
<1>3. CASE p + 1 <= q
  <2>1. d * (p + 1) <= d * q /\ d * (p + 1) = d * p + d
    BY <1>1, <1>3, Products
  <2> QED BY <1>1, <1>2, <2>1
<1>4. CASE q + 1 <= p
  <2>1. d * (q + 1) <= d * p /\ d * (q + 1) = d * q + d
    BY <1>1, <1>4, Products
  <2> QED BY <1>1, <1>2, <2>1
<1>5. CASE p = q
  BY <1>1, <1>2, <1>5 DEF p, s
<1> QED BY <1>1, <1>3, <1>4, <1>5

LEMMA ModNext ==
  ASSUME NEW a \in Nat, NEW m \in Nat, NEW d \in Nat, d > 0
  PROVE ((a % d) + m) % d = (a + m) % d
<1> DEFINE p == a \div d
           b == (a % d) + m
           q == b \div d
           r == b % d
<1>1. p \in Nat /\ a % d \in Nat /\ a = d * p + (a % d)
  BY DivMod
<1>2. b \in Nat
  BY <1>1
<1>3. q \in Nat /\ r \in Nat /\ r < d /\ b = d * q + r
  <2> HIDE DEF b
  <2> QED BY <1>2, DivMod
<1>4. d * (p + q) = d * p + d * q /\ p + q \in Nat /\ d * p \in Nat /\ d * q \in Nat
  BY <1>1, <1>3, Products
<1>5. a + m = d * (p + q) + r
  <2> HIDE DEF p, q, r
  <2> DEFINE y == a % d
  <2>1. a = d * p + y /\ y \in Nat /\ y + m = d * q + r
    BY <1>1, <1>3
  <2> HIDE DEF y
  <2> DEFINE A == d * p
             B == d * q
  <2>2. a = A + y /\ y + m = B + r /\ d * (p + q) = A + B /\ A \in Nat /\ B \in Nat
    <3>1. A = d * p /\ B = d * q
      OBVIOUS
    <3> HIDE DEF A, B
    <3>2. d * (p + q) = A + B /\ A \in Nat /\ B \in Nat
      BY <3>1, <1>4, Zenon
    <3>3. a = A + y /\ y + m = B + r
      BY <3>1, <2>1, Zenon
    <3> QED BY <3>2, <3>3
  <2> HIDE DEF A, B
  <2>3. a + m = (A + B) + r
    <3>1. r \in Nat /\ y \in Nat /\ m \in Nat
      BY <1>3, <2>1
    <3> QED BY ONLY <3>1, <2>2
  <2> QED BY <2>2, <2>3
<1> HIDE DEF p, q, r
<1>6. (a + m) % d = r
  <2>1. a + m \in Nat
    OBVIOUS
  <2> QED BY <1>3, <1>4, <1>5, <2>1, DivModUnique
<1> QED BY <1>6 DEF r

LEMMA DivMonotone ==
  ASSUME NEW a \in Nat, NEW b \in Nat, NEW d \in Nat, d > 0, NEW c \in Nat
  PROVE /\ d * c <= a => c <= a \div d
        /\ a < d * c + d => a \div d <= c
<1> DEFINE p == a \div d
           s == a % d
<1>1. p \in Nat /\ s \in Nat /\ s < d /\ a = d * p + s
  BY DivMod
<1> HIDE DEF p, s
<1>2. d * p \in Nat /\ d * c \in Nat
  BY <1>1, Products
<1>3. ASSUME p + 1 <= c PROVE ~ (d * c <= a)
  <2>1. d * (p + 1) <= d * c /\ d * (p + 1) = d * p + d
    BY <1>1, <1>3, Products
  <2> QED BY <1>1, <1>2, <2>1
<1>4. ASSUME c + 1 <= p PROVE ~ (a < d * c + d)
  <2>1. d * (c + 1) <= d * p /\ d * (c + 1) = d * c + d
    BY <1>1, <1>4, Products
  <2> QED BY <1>1, <1>2, <2>1
<1> QED BY <1>1, <1>3, <1>4 DEF p

\* Time t belongs to one of the k slots that follow the one of time ct, or to that.
Visits(ct, k, t) ==
  \E j \in 0 .. k : calculate_slot_index(t) = (calculate_slot_index(ct) + j) % SlotCount

\* From the wheel's time on, up to now, every time belongs to one of the slots an
\* advance visits.
LEMMA AllVisited ==
  ASSUME NEW ct \in Nat, NEW t \in Nat, NEW now \in Nat, ct % SlotDuration = 0, ct <= t, t <= now,
         NEW q, q = (now - ct) \div SlotDuration, NEW k \in Nat, k = q \/ (k = SlotCount /\ k <= q)
  PROVE Visits(ct, k, t)
<1> DEFINE D == SlotDuration
           C == SlotCount
           c == ct \div D
           b == t \div D
<1>1. D \in Nat /\ D > 0 /\ C \in Nat /\ C > 0
  BY Constants
<1> HIDE DEF D, C
<1>2. c \in Nat /\ b \in Nat /\ ct = D * c /\ D * c \in Nat
  <2>1. c \in Nat /\ ct = D * c + (ct % D) /\ ct % D = 0 /\ b \in Nat
    BY <1>1, DivMod DEF D
  <2> HIDE DEF c, b
  <2>2. D * c \in Nat
    BY <1>1, <2>1, Products
  <2> QED BY <2>1, <2>2
<1>3. q \in Nat /\ now - ct < D * q + D /\ D * q \in Nat
  <2>1. now - ct \in Nat
    OBVIOUS
  <2> DEFINE n == now - ct
  <2> HIDE DEF n
  <2>2. q = n \div D /\ n \in Nat
    BY <2>1 DEF n, D
  <2>3. q \in Nat /\ n = D * q + (n % D) /\ n % D \in Nat /\ n % D < D
    BY <1>1, <2>2, DivMod
  <2>4. D * q \in Nat
    BY <1>1, <2>3, Products
  <2> QED BY <1>1, <2>3, <2>4 DEF n
<1> HIDE DEF c
<1>4. c <= b
  BY <1>1, <1>2, DivMonotone
<1>5. b <= c + q
  <2>1. D * (c + q) = D * c + D * q
    BY <1>1, <1>2, <1>3, Products
  <2>2. t < D * (c + q) + D
    <3> DEFINE A == D * c
               B == D * q
    <3>1. A \in Nat /\ B \in Nat /\ ct = A /\ now - ct < B + D /\ D * (c + q) = A + B
      BY <1>2, <1>3, <2>1
    <3> HIDE DEF A, B
    <3>2. t < (A + B) + D
      BY <3>1, <1>1
    <3> QED BY <3>1, <3>2
  <2>3. c + q \in Nat
    BY <1>2, <1>3
  <2> QED BY <1>1, <2>2, <2>3, DivMonotone
<1> HIDE DEF b
<1> DEFINE j == b - c
<1>6. j \in Nat /\ j <= q /\ b = c + j
  BY <1>2, <1>3, <1>4, <1>5
<1>7. calculate_slot_index(t) = b % C /\ calculate_slot_index(ct) = c % C
  BY DEF calculate_slot_index, b, c, C, D
<1> HIDE DEF j
<1>8. b % C = ((c % C) + j) % C
  <2>1. c \in Nat /\ j \in Nat /\ C \in Nat /\ C > 0
    BY <1>1, <1>2, <1>6
  <2>2. ((c % C) + j) % C = (c + j) % C
    BY ONLY <2>1, ModNext, ZenonT(60)
  <2> QED BY <2>2, <1>6
<1>9. CASE j <= k
  BY <1>6, <1>7, <1>8, <1>9 DEF C, Visits
<1>10. CASE ~ (j <= k)
  <2>1. k = C
    BY <1>6, <1>10 DEF C
  <2>2. j % C \in Nat /\ j % C < C
    BY <1>1, <1>6, DivMod
  <2>3. j % C \in 0 .. k
    BY <2>1, <2>2, <1>1
  <2> DEFINE i == j % C
             y == c % C
  <2>4. y \in Nat /\ i \in Nat
    BY <2>2, <1>1, <1>2, DivMod
  <2>5. (i + y) % C = (j + y) % C
    <3>1. j \in Nat /\ y \in Nat /\ C \in Nat /\ C > 0
      BY <1>1, <1>6, <2>4
    <3> HIDE DEF y
    <3>2. ((j % C) + y) % C = (j + y) % C
      BY ONLY <3>1, ModNext, ZenonT(60)
    <3> QED BY <3>2
  <2> HIDE DEF i, y
  <2>6. i + y = y + i /\ j + y = y + j
    BY <2>4, <1>6
  <2>7. (y + i) % C = (y + j) % C
    BY <2>5, <2>6
  <2>8. calculate_slot_index(t) = (calculate_slot_index(ct) + i) % SlotCount
    BY <2>7, <1>7, <1>8 DEF y, C
  <2> QED BY <2>3, <2>8 DEF i, Visits
<1> QED BY <1>9, <1>10

----------------------------------------------------------------------------
(* An advance.                                                             *)

LEMMA LeavesMore ==
  ASSUME NEW u, NEW v, NEW w, NEW x, NEW y, NEW now, Leaves(u, y, v, now), Leaves(v, x, w, now)
  PROVE Leaves(u, x \o y, w, now)
<1> DEFINE z == x \o y
<1>1. /\ x \in Seq(TimerEntry) /\ y \in Seq(TimerEntry)
      /\ \A m, n \in 1 .. Len(x) : x[m].id = x[n].id => m = n
      /\ \A m, n \in 1 .. Len(y) : y[m].id = y[n].id => m = n
      /\ \A n \in 1 .. Len(x) : x[n] \in Stored(w.slots) /\ x[n].expiry <= now
      /\ \A n \in 1 .. Len(y) : y[n] \in Stored(v.slots) /\ y[n].expiry <= now
      /\ Stored(u.slots) = {e \in Stored(v.slots) : e.id \notin Gone(y)}
      /\ Stored(v.slots) = {e \in Stored(w.slots) : e.id \notin Gone(x)}
  BY DEF Leaves
<1>2. /\ Sound(u) /\ u.next_entry_id = w.next_entry_id
      /\ u.cached_next_expiry = w.cached_next_expiry
  BY DEF Leaves
<1>3. /\ z \in Seq(TimerEntry) /\ Len(z) = Len(x) + Len(y) /\ Len(x) \in Nat /\ Len(y) \in Nat
      /\ \A n \in 1 .. Len(x) : z[n] = x[n] /\ n \in 1 .. Len(z)
      /\ \A n \in 1 .. Len(y) : z[Len(x) + n] = y[n] /\ Len(x) + n \in 1 .. Len(z)
  BY <1>1
<1>4. ASSUME NEW n \in 1 .. Len(z)
      PROVE \/ n \in 1 .. Len(x) /\ z[n] = x[n]
            \/ n - Len(x) \in 1 .. Len(y) /\ z[n] = y[n - Len(x)]
  BY <1>1
<1> HIDE DEF z
<1>5. Gone(z) = Gone(x) \cup Gone(y)
  <2>1. \A i \in Gone(x) : i \in Gone(z)
    BY <1>3 DEF Gone
  <2>2. \A i \in Gone(y) : i \in Gone(z)
    BY <1>3 DEF Gone
  <2>3. \A i \in Gone(z) : i \in Gone(x) \/ i \in Gone(y)
    <3>1. SUFFICES ASSUME NEW n \in 1 .. Len(z) PROVE z[n].id \in Gone(x) \/ z[n].id \in Gone(y)
      BY DEF Gone
    <3>2. CASE n \in 1 .. Len(x) /\ z[n] = x[n]
      BY <3>2 DEF Gone
    <3>3. CASE n - Len(x) \in 1 .. Len(y) /\ z[n] = y[n - Len(x)]
      BY <3>3 DEF Gone
    <3> QED BY <3>2, <3>3, <1>4
  <2> QED BY <2>1, <2>2, <2>3
<1>6. Stored(u.slots) = {e \in Stored(w.slots) : e.id \notin Gone(z)}
  BY <1>1, <1>5
<1>7. \A n \in 1 .. Len(z) : z[n] \in Stored(w.slots) /\ z[n].expiry <= now
  <2>1. SUFFICES ASSUME NEW n \in 1 .. Len(z) PROVE z[n] \in Stored(w.slots) /\ z[n].expiry <= now
    OBVIOUS
  <2>2. CASE n \in 1 .. Len(x) /\ z[n] = x[n]
    BY <2>2, <1>1
  <2>3. CASE n - Len(x) \in 1 .. Len(y) /\ z[n] = y[n - Len(x)]
    BY <2>3, <1>1
  <2> QED BY <2>2, <2>3, <1>4
<1>8. ASSUME NEW m \in 1 .. Len(x), NEW n \in 1 .. Len(y) PROVE x[m].id # y[n].id
  <2>1. y[n].id \notin Gone(x)
    BY <1>1
  <2> QED BY <2>1 DEF Gone
<1>9. ASSUME NEW m \in 1 .. Len(z), NEW n \in 1 .. Len(z), z[m].id = z[n].id PROVE m = n
  <2>1. m \in Nat /\ n \in Nat
    BY <1>3
  <2>2. CASE m \in 1 .. Len(x) /\ z[m] = x[m]
    <3>1. CASE n \in 1 .. Len(x) /\ z[n] = x[n]
      BY <2>2, <3>1, <1>1, <1>9
    <3>2. CASE n - Len(x) \in 1 .. Len(y) /\ z[n] = y[n - Len(x)]
      BY <2>2, <3>2, <1>8, <1>9
    <3> QED BY <3>1, <3>2, <1>4
  <2>3. CASE m - Len(x) \in 1 .. Len(y) /\ z[m] = y[m - Len(x)]
    <3>1. CASE n \in 1 .. Len(x) /\ z[n] = x[n]
      BY <2>3, <3>1, <1>8, <1>9
    <3>2. CASE n - Len(x) \in 1 .. Len(y) /\ z[n] = y[n - Len(x)]
      <4>1. m - Len(x) = n - Len(x)
        BY <2>3, <3>2, <1>1, <1>9
      <4> QED BY <4>1, <2>1, <1>3
    <3> QED BY <3>1, <3>2, <1>4
  <2> QED BY <2>2, <2>3, <1>4
<1>10. z \in Seq(TimerEntry)
  BY <1>3
<1> QED BY <1>2, <1>6, <1>7, <1>9, <1>10 DEF Leaves, z

\* After m slots more, all slots passed hold nothing that is due.
Passed(a, w, now, m) ==
  /\ a = [wheel |-> a.wheel, expired |-> a.expired]
  /\ Leaves(a.wheel, a.expired, w, now)
  /\ a.wheel.current_time = w.current_time + SlotDuration * m
  /\ a.wheel.current_slot = (w.current_slot + m) % SlotCount
  /\ \A e \in Stored(a.wheel.slots) : \A j \in 0 .. m :
       calculate_slot_index(e.expiry) = (w.current_slot + j) % SlotCount => e.expiry > now

LEMMA PassedFirst ==
  ASSUME NEW w, Sound(w), NEW now \in Nat
  PROVE Passed(check_current_slot_for_expired_timers(w, now), w, now, 0)
<1>1. PICK d : d = check_current_slot_for_expired_timers(w, now)
  OBVIOUS
<1>2. /\ Leaves(d.wheel, d.expired, w, now) /\ SameTurn(d.wheel, w)
      /\ \A e \in Stored(d.wheel.slots) :
           calculate_slot_index(e.expiry) = w.current_slot => e.expiry > now
  BY <1>1, CheckCurrentIs
<1>3. w.current_slot \in 0 .. SlotCount - 1 /\ w.current_time \in Nat
  BY WheelFields DEF Sound, Slot
<1>4. (w.current_slot + 0) % SlotCount = w.current_slot
  BY <1>3, Constants
<1>5. w.current_time + SlotDuration * 0 = w.current_time
  BY <1>3, Constants
<1>6. \A j \in 0 .. 0 : (w.current_slot + j) % SlotCount = w.current_slot
  BY <1>4
<1>7. d = [wheel |-> d.wheel, expired |-> d.expired]
  BY <1>1 DEF check_current_slot_for_expired_timers
<1>8. Passed(d, w, now, 0)
  BY <1>2, <1>4, <1>5, <1>6, <1>7 DEF Passed, SameTurn
<1> QED BY <1>1, <1>8

LEMMA PassedMore ==
  ASSUME NEW w, Sound(w), NEW now \in Nat, NEW m \in Nat, NEW a, Passed(a, w, now, m)
  PROVE Passed(AdvanceOneSlot(a, now), w, now, m + 1)
<1> DEFINE v == a.wheel
           s == NextSlot(v)
           y == Expired(v.slots[s], now)
           u == Turned(v, s, now)
           b == AdvanceOneSlot(a, now)
<1>1. b = [wheel |-> u, expired |-> a.expired \o y]
  BY AdvanceOneIs
<1>2. Leaves(v, a.expired, w, now) /\ Sound(v) /\ v \in Wheel /\ s \in Slot
  BY NextSlotIs DEF Passed, Leaves, Sound
<1>3. s = (w.current_slot + (m + 1)) % SlotCount
  <2> DEFINE c == w.current_slot
             C == SlotCount
             e == c + m
  <2>1. c \in Nat /\ C \in Nat /\ C > 0 /\ e \in Nat /\ 1 \in Nat
    <3>1. c \in Slot
      BY WheelFields DEF Sound
    <3>2. c \in Nat
      BY <3>1, Constants
    <3> QED BY <3>2, Constants
  <2>2. s = ((e % C) + 1) % C
    BY DEF NextSlot, Passed
  <2> HIDE DEF C, e, s
  <2>3. s = (e + 1) % C
    BY <2>1, <2>2, ModNext
  <2>4. e + 1 = c + (m + 1)
    BY <2>1 DEF e
  <2> QED BY <2>3, <2>4 DEF C
<1> HIDE DEF v, s, y
<1>4. /\ Leaves(u, y, v, now) /\ u.current_slot = s
      /\ u.current_time = v.current_time + SlotDuration
      /\ \A e \in Stored(u.slots) : calculate_slot_index(e.expiry) = s => e.expiry > now
  BY <1>2, TurnedIs DEF y
<1> HIDE DEF u, b
<1>5. Leaves(u, a.expired \o y, w, now)
  BY <1>2, <1>4, LeavesMore
<1>6. u.current_time = w.current_time + SlotDuration * (m + 1)
  <2> DEFINE p == SlotDuration * m
  <2>1. SlotDuration * (m + 1) = p + SlotDuration /\ p \in Nat /\ SlotDuration \in Nat
    BY Constants, Products
  <2>2. v.current_time = w.current_time + p /\ w.current_time \in Nat
    BY WheelFields DEF Passed, v, Sound
  <2> HIDE DEF p
  <2> QED BY <2>1, <2>2, <1>4
<1>7. ASSUME NEW e \in Stored(u.slots), NEW j \in 0 .. m + 1,
             calculate_slot_index(e.expiry) = (w.current_slot + j) % SlotCount
      PROVE e.expiry > now
  <2>1. CASE j = m + 1
    BY <2>1, <1>3, <1>4, <1>7
  <2>2. CASE j \in 0 .. m
    <3>1. e \in Stored(v.slots)
      BY <1>4 DEF Leaves
    <3> QED BY <3>1, <2>2, <1>7 DEF Passed, v
  <2> QED BY <2>1, <2>2
<1> QED BY <1>1, <1>3, <1>4, <1>5, <1>6, <1>7 DEF Passed, b

LEMMA PassedAll ==
  ASSUME NEW w, Sound(w), NEW now \in Nat, NEW k \in Nat, NEW b,
         b = check_current_slot_for_expired_timers(w, now), NEW q, q = [n \in 1 .. k |-> n]
  PROVE Passed(FoldLeft(LAMBDA v, x : AdvanceOneSlot(v, now), b, q), w, now, k)
<1>1. Len(q) = k /\ DOMAIN q = 1 .. k
  OBVIOUS
<1> HIDE DEF check_current_slot_for_expired_timers
<1>2. PICK h : Walk(h, "turn", now, b, q) /\ Folded("turn", now, b, q) = h[k]
  BY <1>1, FoldedWalks
<1>3. FoldLeft(LAMBDA v, x : AdvanceOneSlot(v, now), b, q) = h[k]
  BY <1>1, <1>2, TurnFolded
<1>4. h[0] = b /\ \A m \in 1 .. k : h[m] = AdvanceOneSlot(h[m - 1], now)
  BY <1>1, <1>2 DEF Walk, Step
<1> DEFINE G == {m \in 0 .. k : Passed(h[m], w, now, m)}
<1>5. 0 \in G
  BY <1>4, PassedFirst
<1>6. ASSUME NEW m \in 1 .. k, m - 1 \in G PROVE m \in G
  <2>1. m - 1 \in Nat /\ (m - 1) + 1 = m
    OBVIOUS
  <2>2. Passed(h[m - 1], w, now, m - 1)
    BY <1>6
  <2>3. Passed(AdvanceOneSlot(h[m - 1], now), w, now, (m - 1) + 1)
    BY <2>1, <2>2, PassedMore
  <2>4. Passed(h[m], w, now, m)
    BY <2>1, <2>3, <1>4
  <2> QED BY <2>4
<1>7. k \in G
  <2>1. \A m \in 1 .. k : m - 1 \in G => m \in G
    BY <1>6
  <2> HIDE DEF G
  <2> QED BY <1>5, <2>1, CountUp
<1> QED BY <1>3, <1>7

\* The entries x have left wheel w, which became v; the cache may be cleared.
Fired(v, x, w, now) ==
  /\ Sound(v) /\ v.next_entry_id = w.next_entry_id
  /\ v.cached_next_expiry \in {w.cached_next_expiry, None}
  /\ x \in Seq(TimerEntry) /\ \A m, n \in 1 .. Len(x) : x[m].id = x[n].id => m = n
  /\ \A n \in 1 .. Len(x) : x[n] \in Stored(w.slots) /\ x[n].expiry <= now
  /\ Stored(v.slots) = {e \in Stored(w.slots) : e.id \notin Gone(x)}

\* The pointer stands at the slot of the wheel's time.
Turns(w, now) ==
  /\ w.current_time % SlotDuration = 0
  /\ w.current_slot = calculate_slot_index(w.current_time)
  /\ w.current_time <= now

LEMMA PassedTurns ==
  ASSUME NEW w, Sound(w), NEW now \in Nat, Turns(w, now), NEW m \in Nat, NEW a, Passed(a, w, now, m),
         m <= (now - w.current_time) \div SlotDuration
  PROVE Turns(a.wheel, now)
<1> DEFINE D == SlotDuration
           C == SlotCount
           t == w.current_time
           c == t \div D
           u == a.wheel.current_time
           q == (now - t) \div D
<1>1. D \in Nat /\ D > 0 /\ C \in Nat /\ C > 0 /\ t \in Nat /\ t <= now
  BY Constants, WheelFields DEF Sound, Turns
<1>2. c \in Nat /\ t = D * c + (t % D) /\ t % D = 0
  BY <1>1, DivMod DEF Turns
<1>3. u = t + D * m
  BY DEF Passed
<1> HIDE DEF c, u, D, C, t
<1>4. D * c \in Nat /\ D * m \in Nat /\ D * (c + m) = D * c + D * m
  BY <1>1, <1>2, Products
<1> DEFINE A == D * c
           B == D * m
<1>5. t = A /\ u = A + B /\ D * (c + m) = A + B /\ A \in Nat /\ B \in Nat /\ u \in Nat
  <2>1. A = D * c /\ B = D * m
    OBVIOUS
  <2> HIDE DEF A, B
  <2>2. A \in Nat /\ B \in Nat /\ D * (c + m) = A + B /\ u = t + B
    BY <1>3, <1>4, <2>1, Zenon
  <2>3. t = A + (t % D) /\ t % D = 0
    BY <1>2, <2>1, Zenon
  <2>4. t = A
    BY <2>2, <2>3
  <2> QED BY <2>2, <2>4
<1> HIDE DEF A, B
<1>6. u \div D = c + m /\ u % D = 0
  <2>1. u = D * (c + m) + 0
    BY <1>5
  <2>2. c + m \in Nat /\ 0 \in Nat /\ 0 < D
    BY <1>1, <1>2
  <2> QED BY ONLY <1>1, <1>5, <2>1, <2>2, DivModUnique
<1>7. calculate_slot_index(u) = (calculate_slot_index(t) + m) % C
  <2>1. calculate_slot_index(u) = (c + m) % C /\ calculate_slot_index(t) = c % C
    BY <1>6 DEF calculate_slot_index, c, C, D
  <2>2. ((c % C) + m) % C = (c + m) % C
    BY ONLY <1>1, <1>2, m \in Nat, ModNext
  <2> QED BY <2>1, <2>2
<1>8. u <= now
  <2>1. now - t \in Nat
    BY <1>1
  <2> DEFINE n == now - t
  <2>2. n \in Nat
    BY <2>1
  <2> HIDE DEF n
  <2>3. n \div D \in Nat /\ n = D * (n \div D) + (n % D) /\ n % D \in Nat
    BY <1>1, <2>2, DivMod
  <2>4. m <= n \div D
    BY DEF n, t, D
  <2>5. D * m <= D * (n \div D) /\ D * (n \div D) \in Nat
    BY <1>1, <2>3, <2>4, Products
  <2> DEFINE p == D * (n \div D)
  <2>6. B <= p /\ p \in Nat /\ n = p + (n % D)
    BY <2>3, <2>5 DEF B
  <2> HIDE DEF p
  <2>7. B <= n
    BY <2>2, <2>3, <2>6, <1>5
  <2> QED BY <2>7, <1>1, <1>5 DEF n
<1>9. a.wheel.current_slot = (w.current_slot + m) % C
  BY DEF Passed, C
<1> QED BY <1>6, <1>7, <1>8, <1>9 DEF Turns, u, t, D

\* Nothing on the wheel expires before the wheel's time.
Ahead(w) == \A e \in Stored(w.slots) : e.expiry >= w.current_time

LEMMA AdvanceIs ==
  ASSUME NEW w, Sound(w), NEW now \in Nat, Turns(w, now), Ahead(w), NEW d, d = advance(w, now)
  PROVE /\ Fired(d.wheel, d.expired, w, now) /\ Turns(d.wheel, now)
        /\ \A e \in Stored(d.wheel.slots) : e.expiry > now
<1> DEFINE t == w.current_time
           q == (now - t) \div SlotDuration
           k == IF SlotCount < q THEN SlotCount ELSE q
           b == check_current_slot_for_expired_timers(w, now)
           seq == [n \in 1 .. k |-> n]
           a == FoldLeft(LAMBDA v, x : AdvanceOneSlot(v, now), b, seq)
           c == IF a.expired = <<>> THEN a.wheel.cached_next_expiry ELSE None
           z == [wheel |-> Recached(a.wheel, c), expired |-> a.expired]
<1>1. t \in Nat /\ t <= now /\ now - t \in Nat /\ q \in Nat /\ k \in Nat /\ k <= q
      /\ (k = q \/ (k = SlotCount /\ k <= q))
  <2>1. t \in Nat /\ t <= now /\ SlotDuration \in Nat /\ SlotDuration > 0 /\ SlotCount \in Nat
    BY Constants, WheelFields DEF Sound, Turns
  <2> HIDE DEF t
  <2>2. now - t \in Nat
    BY <2>1
  <2> DEFINE n == now - t
  <2> HIDE DEF n
  <2>3. n \div SlotDuration \in Nat
    BY <2>1, <2>2, DivMod DEF n
  <2>4. q \in Nat
    BY <2>3 DEF n
  <2> HIDE DEF q
  <2> QED BY <2>1, <2>2, <2>4
<1>2. ~ (now < t)
  BY <1>1
<1>3. Passed(b, w, now, 0)
  BY PassedFirst
<1>4. Passed(a, w, now, k)
  <2> HIDE DEF k
  <2> QED BY <1>1, PassedAll
<1>5. CASE q = 0
  <2>1. d = b
    BY <1>2, <1>5 DEF advance
  <2> DEFINE y == Passed(d, w, now, 0)
  <2>2. Passed(d, w, now, 0) /\ k = 0
    BY <1>1, <1>3, <1>5, <2>1
  <2>3. Fired(d.wheel, d.expired, w, now)
    BY <2>2 DEF Passed, Leaves, Fired
  <2>4. Turns(d.wheel, now)
    BY <2>2, <1>1, <1>5, PassedTurns
  <2>5. ASSUME NEW e \in Stored(d.wheel.slots), ~ (e.expiry > now) PROVE FALSE
    <3>1. e \in Stored(w.slots) /\ e \in TimerEntry
      BY <2>3 DEF Fired, Stored
    <3>2. e.expiry \in Nat /\ e.expiry >= t
      BY <3>1, EntryFields DEF Ahead
    <3>3. e.expiry <= now
      BY <3>2, <2>5
    <3>4. t % SlotDuration = 0 /\ w.current_slot = calculate_slot_index(t)
      BY DEF Turns
    <3> HIDE DEF t, q, k
    <3>5. t <= e.expiry
      BY <3>2, <1>1
    <3>6. q = (now - t) \div SlotDuration
      BY DEF q
    <3>7. Visits(t, k, e.expiry)
      <4>1. t \in Nat /\ e.expiry \in Nat /\ now \in Nat /\ t % SlotDuration = 0 /\ k \in Nat
            /\ (k = q \/ (k = SlotCount /\ k <= q))
        BY <1>1, <3>2, <3>4
      <4> QED BY ONLY <4>1, <3>3, <3>5, <3>6, AllVisited
    <3> QED BY <3>7, <3>4, <2>2, <2>5 DEF Passed, Visits
  <2> QED BY <2>3, <2>4, <2>5
<1>6. CASE q # 0
  <2>1. d = z
    <3>1. d = [a EXCEPT !.wheel.cached_next_expiry = IF a.expired = <<>> THEN @ ELSE None]
      BY <1>2, <1>6 DEF advance
    <3>2. a = [wheel |-> a.wheel, expired |-> a.expired]
      BY <1>4 DEF Passed
    <3> HIDE DEF a
    <3> QED BY <3>1, <3>2 DEF Recached
  <2> HIDE DEF a
  <2>2. Leaves(a.wheel, a.expired, w, now) /\ Sound(a.wheel) /\ a.wheel \in Wheel
        /\ a.wheel.cached_next_expiry = w.cached_next_expiry
    BY <1>4 DEF Passed, Leaves, Sound
  <2>3. c \in {w.cached_next_expiry, None} /\ c \in Nat \cup {None}
    BY <2>2, WheelFields
  <2> HIDE DEF c
  <2> DEFINE u == Recached(a.wheel, c)
  <2>4. /\ u \in Wheel /\ u.slots = a.wheel.slots /\ u.timer_map = a.wheel.timer_map
        /\ SameTurn(u, a.wheel) /\ u.cached_next_expiry = c
    BY <2>2, <2>3, RecachedIs
  <2>5. d.wheel = u /\ d.expired = a.expired
    BY <2>1
  <2> HIDE DEF u
  <2>6. Fired(u, a.expired, w, now)
    <3>1. Sound(u)
      BY <2>2, <2>4 DEF Sound
    <3>2. u.next_entry_id = w.next_entry_id /\ u.cached_next_expiry \in {w.cached_next_expiry, None}
      BY <2>2, <2>3, <2>4 DEF SameTurn, Leaves
    <3> QED BY <3>1, <3>2, <2>2, <2>4 DEF Leaves, Fired
  <2>7. Turns(u, now)
    <3>1. Turns(a.wheel, now)
      BY <1>1, <1>4, PassedTurns
    <3> QED BY <3>1, <2>4 DEF Turns, SameTurn
  <2>8. ASSUME NEW e \in Stored(u.slots), ~ (e.expiry > now) PROVE FALSE
    <3>1. e \in Stored(w.slots) /\ e \in TimerEntry
      BY <2>6 DEF Fired, Stored
    <3>2. e.expiry \in Nat /\ e.expiry >= t
      BY <3>1, EntryFields DEF Ahead
    <3>3. e.expiry <= now
      BY <3>2, <2>8
    <3>4. t % SlotDuration = 0 /\ w.current_slot = calculate_slot_index(t)
      BY DEF Turns
    <3> HIDE DEF t, q, k
    <3>5. t <= e.expiry
      BY <3>2, <1>1
    <3>6. q = (now - t) \div SlotDuration
      BY DEF q
    <3>7. Visits(t, k, e.expiry)
      <4>1. t \in Nat /\ e.expiry \in Nat /\ now \in Nat /\ t % SlotDuration = 0 /\ k \in Nat
            /\ (k = q \/ (k = SlotCount /\ k <= q))
        BY <1>1, <3>2, <3>4
      <4> QED BY ONLY <4>1, <3>3, <3>5, <3>6, AllVisited
    <3> QED BY <3>7, <3>4, <2>4, <2>8, <1>4 DEF Passed, Visits
  <2> QED BY <2>5, <2>6, <2>7, <2>8
<1> QED BY <1>5, <1>6

----------------------------------------------------------------------------
(* Additions.                                                              *)

\* The positions of the entries for slot s, if z says which slot each is for.
For(z, n, s) == {m \in 1 .. n : z[m] = s}

\* An entry is the next of its group after those before it.
LEMMA RankInGroup ==
  ASSUME NEW n \in Nat, NEW z, NEW m \in 1 .. n
  PROVE /\ For(z, n, z[m]) \in SUBSET (1 .. n) /\ m \in For(z, n, z[m])
        /\ Cardinality({j \in 1 .. m : z[j] = z[m]}) = Cardinality(Below(For(z, n, z[m]), m)) + 1
        /\ Cardinality(Below(For(z, n, z[m]), m)) \in Nat
<1> DEFINE B == Below(For(z, n, z[m]), m)
<1>1. B \in SUBSET (1 .. n) /\ m \notin B
  BY DEF Below, For
<1>2. {j \in 1 .. m : z[j] = z[m]} = B \cup {m}
  BY DEF Below, For
<1> HIDE DEF B
<1>0. IsFiniteSet(1 .. n)
  BY FS_Interval
<1>3. IsFiniteSet(B)
  BY ONLY <1>0, <1>1, FS_Subset
<1>4. Cardinality(B \cup {m}) = Cardinality(B) + 1 /\ Cardinality(B) \in Nat
  BY <1>1, <1>3, FS_AddElement, FS_CardinalityType
<1> QED BY <1>2, <1>4 DEF B, For

LEMMA GroupIs ==
  ASSUME NEW E \in Seq(TimerEntry), NEW z, NEW s, NEW g, g = AtPositions(E, For(z, Len(E), s))
  PROVE /\ g \in Seq(TimerEntry) /\ Len(g) \in Nat
        /\ \A p \in 1 .. Len(g) : \E m \in 1 .. Len(E) :
             g[p] = E[m] /\ z[m] = s /\ Cardinality(Below(For(z, Len(E), s), m)) + 1 = p
        /\ \A m \in 1 .. Len(E) : z[m] = s =>
             /\ Cardinality(Below(For(z, Len(E), s), m)) + 1 \in 1 .. Len(g)
             /\ g[Cardinality(Below(For(z, Len(E), s), m)) + 1] = E[m]
<1> DEFINE P == For(z, Len(E), s)
<1>1. P \in SUBSET (1 .. Len(E)) /\ \A m \in 1 .. Len(E) : m \in P <=> z[m] = s
  BY DEF For
<1> HIDE DEF P
<1>2. /\ g \in Seq(TimerEntry) /\ Len(g) \in Nat
      /\ \A p \in 1 .. Len(g) :
           Nth(P, p) \in P /\ g[p] = E[Nth(P, p)] /\ Cardinality(Below(P, Nth(P, p))) = p - 1
      /\ \A m \in P : /\ Cardinality(Below(P, m)) + 1 \in 1 .. Len(g)
                      /\ Nth(P, Cardinality(Below(P, m)) + 1) = m
  <2>1. g = AtPositions(E, P)
    BY DEF P
  <2>2. PICK h : h = g
    OBVIOUS
  <2>3. /\ h \in Seq(TimerEntry) /\ Len(h) \in Nat
        /\ \A p \in 1 .. Len(h) :
             Nth(P, p) \in P /\ h[p] = E[Nth(P, p)] /\ Cardinality(Below(P, Nth(P, p))) = p - 1
        /\ \A m \in P : /\ Cardinality(Below(P, m)) + 1 \in 1 .. Len(h)
                        /\ Nth(P, Cardinality(Below(P, m)) + 1) = m
    <3>1. h = AtPositions(E, P) /\ E \in Seq(TimerEntry) /\ P \in SUBSET (1 .. Len(E))
      BY <1>1, <2>1, <2>2
    <3> QED BY ONLY <3>1, AtPositionsIs
  <2> QED BY <2>2, <2>3
<1>3. ASSUME NEW p \in 1 .. Len(g)
      PROVE \E m \in 1 .. Len(E) : g[p] = E[m] /\ z[m] = s /\ Cardinality(Below(P, m)) + 1 = p
  <2>1. Nth(P, p) \in 1 .. Len(E) /\ g[p] = E[Nth(P, p)] /\ z[Nth(P, p)] = s
    BY <1>1, <1>2
  <2>2. Cardinality(Below(P, Nth(P, p))) + 1 = p
    BY <1>2
  <2> QED BY <2>1, <2>2
<1>4. ASSUME NEW m \in 1 .. Len(E), z[m] = s
      PROVE Cardinality(Below(P, m)) + 1 \in 1 .. Len(g) /\ g[Cardinality(Below(P, m)) + 1] = E[m]
  BY <1>1, <1>2, <1>4
<1> QED BY <1>2, <1>3, <1>4 DEF P

\* Entries E are new to index M; z says which slot each is for.
Fresh(E, z, M) ==
  /\ E \in Seq(TimerEntry)
  /\ \A m \in 1 .. Len(E) : z[m] = calculate_slot_index(E[m].expiry) /\ M[E[m].id] = None
  /\ \A m, l \in 1 .. Len(E) : E[m].id = E[l].id => m = l

\* Slots S2 and index M2 are S and M with the entries E behind.
Behind(S2, M2, S, M, E, z) ==
  /\ S2 \in Slots /\ \A s \in Slot : S2[s] = S[s] \o AtPositions(E, For(z, Len(E), s))
  /\ M2 \in Index /\ \A i \in TimerId : (\A m \in 1 .. Len(E) : E[m].id # i) => M2[i] = M[i]
  /\ \A m \in 1 .. Len(E) :
       M2[E[m].id] = <<z[m], Len(S[z[m]]) + Cardinality({j \in 1 .. m : z[j] = z[m]})>>

LEMMA AppendTables ==
  ASSUME NEW S \in Slots, NEW M \in Index, Placed(S, M), InSlot(S),
         NEW E, NEW z, Fresh(E, z, M), NEW S2, NEW M2, Behind(S2, M2, S, M, E, z)
  PROVE /\ Placed(S2, M2) /\ InSlot(S2)
        /\ Stored(S2) = Stored(S) \cup First(E, Len(E))
<1> USE DEF Fresh, Behind
<1> DEFINE n == Len(E)
           g(s) == AtPositions(E, For(z, n, s))
           rank(m) == Cardinality(Below(For(z, n, z[m]), m)) + 1
<1>1. /\ n \in Nat /\ \A m \in 1 .. n : /\ E[m] \in TimerEntry /\ E[m].id \in TimerId /\ z[m] \in Slot
                                        /\ z[m] = calculate_slot_index(E[m].expiry)
                                        /\ M[E[m].id] = None
  <2>1. n \in Nat /\ \A m \in 1 .. n : E[m] \in TimerEntry
    OBVIOUS
  <2>2. \A m \in 1 .. n : E[m].id \in TimerId /\ E[m].expiry \in Nat
    BY <2>1, EntryFields
  <2> QED BY <2>1, <2>2, SlotOf
<1>2. ASSUME NEW s \in Slot
      PROVE /\ g(s) \in Seq(TimerEntry) /\ Len(g(s)) \in Nat
            /\ \A p \in 1 .. Len(g(s)) : \E m \in 1 .. n : g(s)[p] = E[m] /\ z[m] = s /\ rank(m) = p
            /\ \A m \in 1 .. n : z[m] = s => rank(m) \in 1 .. Len(g(s)) /\ g(s)[rank(m)] = E[m]
  <2> DEFINE G == g(s)
  <2>1. /\ G \in Seq(TimerEntry) /\ Len(G) \in Nat
        /\ \A p \in 1 .. Len(G) : \E m \in 1 .. n :
             G[p] = E[m] /\ z[m] = s /\ Cardinality(Below(For(z, n, s), m)) + 1 = p
        /\ \A m \in 1 .. n : z[m] = s =>
             /\ Cardinality(Below(For(z, n, s), m)) + 1 \in 1 .. Len(G)
             /\ G[Cardinality(Below(For(z, n, s), m)) + 1] = E[m]
    BY GroupIs
  <2> HIDE DEF G
  <2>2. \A p \in 1 .. Len(G) : \E m \in 1 .. n : G[p] = E[m] /\ z[m] = s /\ rank(m) = p
    BY <2>1
  <2>3. \A m \in 1 .. n : z[m] = s => rank(m) \in 1 .. Len(G) /\ G[rank(m)] = E[m]
    BY <2>1
  <2> QED BY <2>1, <2>2, <2>3 DEF G
<1>3. \A m \in 1 .. n : M2[E[m].id] = <<z[m], Len(S[z[m]]) + rank(m)>> /\ rank(m) \in Nat /\ rank(m) # 0
  <2>1. SUFFICES ASSUME NEW m \in 1 .. n
                 PROVE M2[E[m].id] = <<z[m], Len(S[z[m]]) + rank(m)>> /\ rank(m) \in Nat /\ rank(m) # 0
    OBVIOUS
  <2>2. Cardinality({j \in 1 .. m : z[j] = z[m]}) = rank(m) /\ rank(m) \in Nat /\ rank(m) # 0
    <3> DEFINE c == Cardinality(Below(For(z, n, z[m]), m))
    <3> HIDE DEF n
    <3>1. Cardinality({j \in 1 .. m : z[j] = z[m]}) = c + 1 /\ c \in Nat
      <4>1. n \in Nat /\ m \in 1 .. n
        BY <1>1
      <4> QED BY ONLY <4>1, RankInGroup
    <3> HIDE DEF c
    <3>2. c + 1 \in Nat /\ c + 1 # 0
      BY <3>1
    <3> QED BY <3>1, <3>2 DEF c
  <2> HIDE DEF rank
  <2> QED BY <2>2
<1> HIDE DEF rank, g
<1>4. ASSUME NEW s \in Slot
      PROVE /\ S2[s] = S[s] \o g(s) /\ S[s] \in Seq(TimerEntry) /\ Len(S[s]) \in Nat
            /\ Len(S2[s]) = Len(S[s]) + Len(g(s))
            /\ \A p \in 1 .. Len(S[s]) : S2[s][p] = S[s][p] /\ p \in 1 .. Len(S2[s])
            /\ \A p \in 1 .. Len(g(s)) : /\ S2[s][Len(S[s]) + p] = g(s)[p]
                                         /\ Len(S[s]) + p \in 1 .. Len(S2[s])
            /\ \A p \in 1 .. Len(S2[s]) :
                 p \in 1 .. Len(S[s]) \/ p - Len(S[s]) \in 1 .. Len(g(s))
  <2>1. S2[s] = S[s] \o g(s) /\ S[s] \in Seq(TimerEntry) /\ g(s) \in Seq(TimerEntry)
    BY <1>2, SlotFacts DEF g
  <2> DEFINE A == S[s]
             B == g(s)
  <2> HIDE DEF A, B
  <2>2. S2[s] = A \o B /\ A \in Seq(TimerEntry) /\ B \in Seq(TimerEntry)
    BY <2>1 DEF A, B
  <2>3. /\ Len(A \o B) = Len(A) + Len(B) /\ Len(A) \in Nat /\ Len(B) \in Nat
        /\ \A p \in 1 .. Len(A) : (A \o B)[p] = A[p]
        /\ \A p \in 1 .. Len(B) : (A \o B)[Len(A) + p] = B[p]
    BY <2>2
  <2> QED BY <2>2, <2>3 DEF A, B
<1>5. ASSUME NEW s \in Slot, NEW p \in 1 .. Len(S2[s])
      PROVE \/ p \in 1 .. Len(S[s]) /\ S2[s][p] = S[s][p]
            \/ \E m \in 1 .. n : z[m] = s /\ S2[s][p] = E[m] /\ p = Len(S[s]) + rank(m)
  <2>1. CASE p \in 1 .. Len(S[s])
    BY <2>1, <1>4
  <2>2. CASE p - Len(S[s]) \in 1 .. Len(g(s))
    <3>1. PICK m \in 1 .. n : g(s)[p - Len(S[s])] = E[m] /\ z[m] = s /\ rank(m) = p - Len(S[s])
      BY <2>2, <1>2
    <3>2. Len(S[s]) + (p - Len(S[s])) = p /\ Len(S[s]) \in Nat /\ p \in Nat
      BY <1>4
    <3>3. S2[s][p] = g(s)[p - Len(S[s])]
      BY <2>2, <3>2, <1>4
    <3>4. p = Len(S[s]) + rank(m)
      BY <3>1, <3>2
    <3> QED BY <3>1, <3>3, <3>4
  <2> QED BY <2>1, <2>2, <1>4
<1>6. ASSUME NEW m \in 1 .. n
      PROVE /\ Len(S[z[m]]) + rank(m) \in 1 .. Len(S2[z[m]])
            /\ S2[z[m]][Len(S[z[m]]) + rank(m)] = E[m]
  <2>1. z[m] \in Slot
    BY <1>1
  <2>2. rank(m) \in 1 .. Len(g(z[m])) /\ g(z[m])[rank(m)] = E[m]
    BY <2>1, <1>2
  <2> QED BY <2>1, <2>2, <1>4
<1>7. ASSUME NEW s \in Slot, NEW p \in 1 .. Len(S2[s]) PROVE M2[S2[s][p].id] = <<s, p>>
  <2>1. CASE p \in 1 .. Len(S[s]) /\ S2[s][p] = S[s][p]
    <3>1. M[S[s][p].id] = <<s, p>> /\ M[S[s][p].id] # None /\ S[s][p].id \in TimerId
      <4>1. /\ S \in Slots /\ M \in Index /\ Placed(S, M) /\ s \in Slot
            /\ p \in 1 .. Len(S[s])
        BY <2>1
      <4> QED BY ONLY <4>1, AtPlace
    <3>2. \A m \in 1 .. n : E[m].id # S[s][p].id
      BY <3>1, <1>1
    <3> QED BY <3>1, <3>2, <2>1
  <2>2. CASE \E m \in 1 .. n : z[m] = s /\ S2[s][p] = E[m] /\ p = Len(S[s]) + rank(m)
    BY <2>2, <1>3
  <2> QED BY <2>1, <2>2, <1>5
<1>8. ASSUME NEW i \in TimerId, M2[i] # None
      PROVE M2[i][2] \in 1 .. Len(S2[M2[i][1]]) /\ S2[M2[i][1]][M2[i][2]].id = i
  <2>1. CASE \A m \in 1 .. n : E[m].id # i
    <3>1. M2[i] = M[i] /\ M[i] # None
      BY <2>1, <1>8
    <3>2. M[i][1] \in Slot /\ M[i][2] \in 1 .. Len(S[M[i][1]]) /\ S[M[i][1]][M[i][2]].id = i
      BY <3>1, IndexFacts DEF Placed
    <3>3. M[i][2] \in 1 .. Len(S2[M[i][1]]) /\ S2[M[i][1]][M[i][2]] = S[M[i][1]][M[i][2]]
      BY <3>2, <1>4
    <3> QED BY <3>1, <3>2, <3>3
  <2>2. ASSUME NEW m \in 1 .. n, E[m].id = i
        PROVE M2[i][2] \in 1 .. Len(S2[M2[i][1]]) /\ S2[M2[i][1]][M2[i][2]].id = i
    <3>1. M2[i] = <<z[m], Len(S[z[m]]) + rank(m)>>
      BY <2>2, <1>3
    <3>2. M2[i][1] = z[m] /\ M2[i][2] = Len(S[z[m]]) + rank(m)
      BY <3>1
    <3> QED BY <3>2, <2>2, <1>6
  <2> QED BY <2>1, <2>2
<1>9. Placed(S2, M2)
  BY <1>7, <1>8 DEF Placed
<1>10. InSlot(S2)
  <2>1. SUFFICES ASSUME NEW s \in Slot, NEW p \in 1 .. Len(S2[s])
                 PROVE s = calculate_slot_index(S2[s][p].expiry)
    BY DEF InSlot
  <2>2. CASE p \in 1 .. Len(S[s]) /\ S2[s][p] = S[s][p]
    BY <2>2 DEF InSlot
  <2>3. CASE \E m \in 1 .. n : z[m] = s /\ S2[s][p] = E[m] /\ p = Len(S[s]) + rank(m)
    BY <2>3, <1>1
  <2> QED BY <2>2, <2>3, <1>5
<1>11. Stored(S2) = Stored(S) \cup First(E, n)
  <2>1. ASSUME NEW x \in Stored(S2) PROVE x \in Stored(S) \cup First(E, n)
    <3>0. x \in TimerEntry /\ \E s \in Slot : \E p \in 1 .. Len(S2[s]) : S2[s][p] = x
      BY DEF Stored
    <3>1. PICK s \in Slot : \E p \in 1 .. Len(S2[s]) : S2[s][p] = x
      BY <3>0
    <3>2. PICK p \in 1 .. Len(S2[s]) : S2[s][p] = x
      BY <3>1
    <3>3. CASE p \in 1 .. Len(S[s]) /\ S2[s][p] = S[s][p]
      BY <3>0, <3>2, <3>3 DEF Stored
    <3>4. CASE \E m \in 1 .. n : z[m] = s /\ S2[s][p] = E[m] /\ p = Len(S[s]) + rank(m)
      BY <3>2, <3>4 DEF First
    <3> QED BY <3>3, <3>4, <1>5
  <2>2. ASSUME NEW x \in Stored(S) PROVE x \in Stored(S2)
    <3>0. x \in TimerEntry /\ \E s \in Slot : \E p \in 1 .. Len(S[s]) : S[s][p] = x
      BY DEF Stored
    <3>1. PICK s \in Slot : \E p \in 1 .. Len(S[s]) : S[s][p] = x
      BY <3>0
    <3>2. PICK p \in 1 .. Len(S[s]) : S[s][p] = x
      BY <3>1
    <3>3. p \in 1 .. Len(S2[s]) /\ S2[s][p] = x
      BY <3>2, <1>4
    <3> QED BY <3>0, <3>3 DEF Stored
  <2>3. ASSUME NEW m \in 1 .. n PROVE E[m] \in Stored(S2)
    BY <1>1, <1>6 DEF Stored
  <2> QED BY <2>1, <2>2, <2>3 DEF First
<1> QED BY <1>9, <1>10, <1>11

LEMMA EarliestIs ==
  ASSUME NEW T \in SUBSET Nat, T # {}
  PROVE Earliest(T) \in T /\ Earliest(T) \in Nat /\ \A u \in T : Earliest(T) <= u
<1>1. \E t \in T : \A u \in T : t <= u
  BY LeastNumber
<1> QED BY <1>1 DEF Earliest

\* The cached expiry is not later than that of an entry.
Early(w) == w.cached_next_expiry # None => \A e \in Stored(w.slots) : w.cached_next_expiry <= e.expiry

\* A wheel without a cached expiry is empty.
Full(w) == w.cached_next_expiry = None => Stored(w.slots) = {}

\* The entries E, with the next ids and of connection c, are put on wheel w.
Grown(v, w, E, c) ==
  /\ Sound(v) /\ v.current_slot = w.current_slot /\ v.current_time = w.current_time
  /\ v.next_entry_id = w.next_entry_id + Len(E)
  /\ Stored(v.slots) = Stored(w.slots) \cup First(E, Len(E))
  /\ E \in Seq(TimerEntry)
  /\ \A m \in 1 .. Len(E) : /\ E[m].id = w.next_entry_id + (m - 1) /\ E[m].conn = c
                            /\ E[m].expiry >= w.current_time
  /\ Early(w) /\ Full(w) => Early(v)

Renumbered(w, n, t) == [w EXCEPT !.next_entry_id = n, !.cached_next_expiry = t]

LEMMA RenumberedIs ==
  ASSUME NEW w \in Wheel, NEW n \in 1 .. MaxTimers + 1, NEW t \in Nat \cup {None}
  PROVE /\ Renumbered(w, n, t) \in Wheel /\ Renumbered(w, n, t).slots = w.slots
        /\ Renumbered(w, n, t).timer_map = w.timer_map
        /\ Renumbered(w, n, t).current_slot = w.current_slot
        /\ Renumbered(w, n, t).current_time = w.current_time
        /\ Renumbered(w, n, t).next_entry_id = n /\ Renumbered(w, n, t).cached_next_expiry = t
BY DEF Wheel, Renumbered

Entry(w, delay, c, k) ==
  [id |-> w.next_entry_id, expiry |-> w.current_time + delay, conn |-> c, kind |-> k]

LEMMA AddIs ==
  ASSUME NEW w, Sound(w), NEW delay \in Nat, NEW c \in Conn, NEW k \in Kind,
         w.next_entry_id \in TimerId, w.timer_map[w.next_entry_id] = None
  PROVE Grown(add_timer(w, delay, c, k), w, <<Entry(w, delay, c, k)>>, c)
<1> DEFINE e == Entry(w, delay, c, k)
           u == PushBack(w, e)
           t == EarlierOf(u.cached_next_expiry, e.expiry)
           n == u.next_entry_id + 1
           v == Renumbered(u, n, t)
           E == <<e>>
<1>1. add_timer(w, delay, c, k) = v
  BY DEF add_timer, Renumbered, Entry
<1>2. /\ w \in Wheel /\ w.current_time \in Nat /\ w.cached_next_expiry \in Nat \cup {None}
      /\ w.next_entry_id \in Nat /\ w.next_entry_id <= MaxTimers /\ MaxTimers \in Nat
      /\ w.next_entry_id >= 1
  BY WheelFields, Constants DEF Sound, TimerId
<1>3. /\ e \in TimerEntry /\ e.id = w.next_entry_id /\ e.expiry = w.current_time + delay
      /\ e.conn = c /\ e.expiry \in Nat /\ e.expiry >= w.current_time
  BY <1>2 DEF Entry, TimerEntry
<1>4. w.timer_map[e.id] = None
  BY <1>3
<1> HIDE DEF e
<1>5. /\ Sound(u) /\ SameTurn(u, w) /\ u.cached_next_expiry = w.cached_next_expiry
      /\ Stored(u.slots) = Stored(w.slots) \cup {e}
  BY <1>3, <1>4, PushOneIs
<1> HIDE DEF u
<1>6. t \in Nat /\ t <= e.expiry /\ (w.cached_next_expiry # None => t <= w.cached_next_expiry)
      /\ None \notin Nat
  BY <1>2, <1>3, <1>5, Constants DEF EarlierOf
<1>7. n \in 1 .. MaxTimers + 1 /\ n = w.next_entry_id + 1 /\ u \in Wheel
  BY <1>2, <1>5 DEF SameTurn, Sound
<1> HIDE DEF t, n
<1>8. /\ v \in Wheel /\ v.slots = u.slots /\ v.timer_map = u.timer_map
      /\ v.current_slot = u.current_slot /\ v.current_time = u.current_time
      /\ v.next_entry_id = n /\ v.cached_next_expiry = t
  BY <1>6, <1>7, RenumberedIs
<1> HIDE DEF v
<1>9. Sound(v) /\ v.current_slot = w.current_slot /\ v.current_time = w.current_time
  BY <1>5, <1>8 DEF Sound, SameTurn
<1>10. /\ E \in Seq(TimerEntry) /\ Len(E) = 1 /\ E[1] = e /\ First(E, 1) = {e}
  <2>1. E \in Seq(TimerEntry) /\ Len(E) = 1 /\ E[1] = e
    BY <1>3
  <2>2. 1 .. 1 = {1}
    OBVIOUS
  <2> HIDE DEF E
  <2> QED BY <2>1, <2>2 DEF First
<1> HIDE DEF E
<1>11. Early(w) /\ Full(w) => Early(v)
  <2>1. SUFFICES ASSUME Early(w), Full(w), NEW x \in Stored(v.slots) PROVE t <= x.expiry
    BY <1>8 DEF Early
  <2>2. CASE x = e
    BY <2>2, <1>6
  <2>3. CASE x \in Stored(w.slots)
    <3>1. x.expiry \in Nat
      BY <2>3, EntryFields DEF Stored
    <3>2. CASE w.cached_next_expiry # None
      BY <3>1, <3>2, <2>1, <2>3, <1>2, <1>6 DEF Early
    <3>3. CASE w.cached_next_expiry = None
      BY <3>3, <2>1, <2>3 DEF Full
    <3> QED BY <3>2, <3>3
  <2> QED BY <2>2, <2>3, <1>5, <1>8
<1>12. v.next_entry_id = w.next_entry_id + Len(E)
  BY <1>7, <1>8, <1>10
<1>13. Stored(v.slots) = Stored(w.slots) \cup First(E, Len(E))
  BY <1>5, <1>8, <1>10
<1>14. \A m \in 1 .. Len(E) : /\ E[m].id = w.next_entry_id + (m - 1) /\ E[m].conn = c
                              /\ E[m].expiry >= w.current_time
  <2>1. \A m \in 1 .. 1 : m = 1
    OBVIOUS
  <2>2. w.next_entry_id + (1 - 1) = w.next_entry_id
    BY <1>2
  <2> QED BY <2>1, <2>2, <1>3, <1>10
<1>15. Grown(v, w, E, c)
  BY <1>9, <1>10, <1>11, <1>12, <1>13, <1>14 DEF Grown
<1> QED BY <1>1, <1>15 DEF E, e

LEMMA ModMultiple ==
  ASSUME NEW d \in Nat, d > 0, NEW x \in Nat, NEW r \in Nat
  PROVE (d * x + r) % d = r % d
<1> DEFINE q == r \div d
           s == r % d
           a == d * x + r
<1>1. q \in Nat /\ s \in Nat /\ s < d /\ r = d * q + s
  BY DivMod
<1> HIDE DEF q, s
<1>2. d * x \in Nat /\ d * q \in Nat /\ d * (x + q) = d * x + d * q /\ x + q \in Nat
  BY <1>1, Products
<1> DEFINE A == d * x
           B == d * q
<1>3. A \in Nat /\ B \in Nat /\ d * (x + q) = A + B /\ r = B + s /\ a = A + r
  <2>1. A = d * x /\ B = d * q /\ a = d * x + r
    OBVIOUS
  <2> HIDE DEF A, B, a
  <2> QED BY <1>1, <1>2, <2>1, Zenon
<1> HIDE DEF A, B, a
<1>4. a = d * (x + q) + s /\ a \in Nat
  <2>1. a = (A + B) + s /\ a \in Nat
    BY <1>1, <1>3
  <2> QED BY <2>1, <1>3
<1>5. a % d = s
  BY ONLY <1>1, <1>2, <1>4, d \in Nat, d > 0, DivModUnique
<1> QED BY <1>5 DEF a, s

\* The low bits of an offset give the same slot as the whole of it.
LEMMA LaneSlot ==
  ASSUME NEW o \in Nat
  PROVE (o % LaneRange) % SlotCount = o % SlotCount
<1> DEFINE L == LaneRange
           C == SlotCount
           k == L \div C
           p == o \div L
           r == o % L
<1>1. L \in Nat /\ L > 0 /\ C \in Nat /\ C > 0 /\ L % C = 0
  BY WheelAssumption
<1> HIDE DEF L, C
<1>2. k \in Nat /\ L = C * k + (L % C) /\ p \in Nat /\ r \in Nat /\ o = L * p + r
  BY <1>1, DivMod
<1> HIDE DEF k, p, r
<1>3. C * k \in Nat /\ k * p \in Nat
  BY <1>1, <1>2, Products
<1>4. L = C * k
  <2> DEFINE A == C * k
             z == L % C
  <2>1. L = A + z /\ z = 0 /\ A \in Nat
    BY <1>1, <1>2, <1>3
  <2> HIDE DEF A, z
  <2>2. L = A
    BY <2>1
  <2> QED BY <2>2 DEF A
<1>5. o = C * (k * p) + r
  <2>1. (C * k) * p = C * (k * p)
    BY <1>1, <1>2
  <2> QED BY <2>1, <1>2, <1>4
<1>6. (C * (k * p) + r) % C = r % C
  BY ONLY <1>1, <1>2, <1>3, ModMultiple
<1> QED BY <1>5, <1>6 DEF r, L, C

LEMMA BatchSlots ==
  ASSUME NEW w \in Wheel, NEW c \in Conn, NEW batch \in Seq(Nat \X Kind),
         w.next_entry_id + Len(batch) <= MaxTimers + 1,
         NEW E, E = simd_calculate_batch_metadata(w, c, batch),
         NEW z, z = simd_process_delays(w, batch)
  PROVE /\ E \in Seq(TimerEntry) /\ Len(E) = Len(batch) /\ Len(batch) \in Nat
        /\ DOMAIN E = 1 .. Len(batch)
        /\ \A m \in 1 .. Len(batch) :
             /\ E[m].id = w.next_entry_id + (m - 1) /\ E[m].conn = c
             /\ E[m].expiry \in Nat /\ E[m].expiry >= w.current_time
             /\ z[m] = calculate_slot_index(E[m].expiry) /\ z[m] \in Slot
<1> DEFINE n == Len(batch)
           t == w.current_time
           f == w.next_entry_id
<1>1. /\ n \in Nat /\ t \in Nat /\ f \in Nat /\ f >= 1 /\ f + n <= MaxTimers + 1 /\ MaxTimers \in Nat
      /\ \A m \in 1 .. n : batch[m][1] \in Nat /\ batch[m][2] \in Kind
  BY WheelFields, Constants
<1>2. \A m \in 1 .. n : E[m] = [id |-> f + m - 1, expiry |-> t + batch[m][1], conn |-> c, kind |-> batch[m][2]]
  BY DEF simd_calculate_batch_metadata
<1>3. DOMAIN E = 1 .. n /\ E = [m \in 1 .. n |-> E[m]]
  BY DEF simd_calculate_batch_metadata
<1>4. \A m \in 1 .. n : LET o == (t + batch[m][1]) \div SlotDuration IN
        z[m] = IF m <= Lanes * (n \div Lanes) THEN (o % LaneRange) % SlotCount ELSE o % SlotCount
  BY DEF simd_process_delays
<1> HIDE DEF n, t, f
<1>5. ASSUME NEW m \in 1 .. n
      PROVE /\ E[m] \in TimerEntry /\ E[m].id = f + (m - 1) /\ E[m].conn = c
            /\ E[m].expiry \in Nat /\ E[m].expiry >= t
            /\ z[m] = calculate_slot_index(E[m].expiry) /\ z[m] \in Slot
  <2> DEFINE i == f + m - 1
             x == t + batch[m][1]
  <2>1. i \in TimerId /\ x \in Nat /\ x >= t /\ i = f + (m - 1) /\ batch[m][2] \in Kind
    <3>1. batch[m][1] \in Nat /\ batch[m][2] \in Kind
      BY <1>1
    <3>2. x \in Nat /\ x >= t
      BY <3>1, <1>1
    <3>3. i \in 1 .. MaxTimers /\ i = f + (m - 1)
      BY <1>1
    <3> QED BY <3>1, <3>2, <3>3 DEF TimerId
  <2>2. E[m] = [id |-> i, expiry |-> x, conn |-> c, kind |-> batch[m][2]]
    BY <1>2
  <2> DEFINE o == x \div SlotDuration
  <2>3. z[m] = (o % LaneRange) % SlotCount \/ z[m] = o % SlotCount
    BY <1>4
  <2> HIDE DEF i, x
  <2>4. o \in Nat
    BY <2>1, Constants, DivMod
  <2>5. z[m] = o % SlotCount
    <3> HIDE DEF o
    <3> QED BY <2>3, <2>4, LaneSlot
  <2>6. z[m] = calculate_slot_index(x) /\ calculate_slot_index(x) \in Slot
    BY <2>1, <2>5, SlotOf DEF calculate_slot_index
  <2>7. E[m].expiry = x /\ E[m].id = i /\ E[m].conn = c /\ E[m] \in TimerEntry
    BY <2>1, <2>2 DEF TimerEntry
  <2> QED BY <2>1, <2>6, <2>7
<1>6. E \in Seq(TimerEntry) /\ Len(E) = n
  <2>1. E \in [1 .. n -> TimerEntry]
    BY <1>3, <1>5
  <2> QED BY <2>1, <1>1
<1> QED BY <1>1, <1>3, <1>5, <1>6 DEF n, t, f

Reindexed(w, S, M, n, t) == Renumbered(Refilled(w, S, M), n, t)

LEMMA BatchAddIs ==
  ASSUME NEW w, Sound(w), NEW c \in Conn, NEW batch \in Seq(Nat \X Kind),
         w.next_entry_id + Len(batch) <= MaxTimers + 1,
         \A i \in TimerId : i >= w.next_entry_id => w.timer_map[i] = None
  PROVE Grown(batch_add_timers(w, c, batch), w, simd_calculate_batch_metadata(w, c, batch), c)
<1> DEFINE E == simd_calculate_batch_metadata(w, c, batch)
           z == simd_process_delays(w, batch)
           S == w.slots
           M == w.timer_map
           n == Len(batch)
           f == w.next_entry_id
           T == {e.expiry : e \in Range(E)} \cup ({w.cached_next_expiry} \ {None})
           t == Earliest(T)
           S2 == [s \in Slot |-> S[s] \o AtPositions(E, For(z, n, s))]
           place(m) == <<z[m], Len(S[z[m]]) + Cardinality({j \in 1 .. m : z[j] = z[m]})>>
           M2 == [i \in TimerId |-> IF i \in Ids(E) THEN place(i - f + 1) ELSE M[i]]
           v == Reindexed(w, S2, M2, f + n, t)
<1>1. /\ w \in Wheel /\ S \in Slots /\ M \in Index /\ Placed(S, M) /\ InSlot(S)
      /\ f \in Nat /\ f >= 1 /\ MaxTimers \in Nat /\ w.cached_next_expiry \in Nat \cup {None}
  BY WheelFields, Constants DEF Sound
<1>2. /\ E \in Seq(TimerEntry) /\ Len(E) = n /\ n \in Nat /\ DOMAIN E = 1 .. n
      /\ \A m \in 1 .. n :
           /\ E[m].id = f + (m - 1) /\ E[m].conn = c
           /\ E[m].expiry \in Nat /\ E[m].expiry >= w.current_time
           /\ z[m] = calculate_slot_index(E[m].expiry) /\ z[m] \in Slot
  BY <1>1, BatchSlots
<1>3. CASE batch = <<>>
  <2>1. batch_add_timers(w, c, batch) = w
    BY <1>3 DEF batch_add_timers
  <2>2. n = 0
    BY <1>3
  <2> HIDE DEF E, n
  <2>3. First(E, Len(E)) = {} /\ f + Len(E) = f /\ 1 .. Len(E) = {}
    BY <1>1, <1>2, <2>2 DEF First
  <2> QED BY <1>2, <2>1, <2>3 DEF Grown, E
<1>4. CASE batch # <<>>
  <2>1. batch_add_timers(w, c, batch) = v
    <3>1. DOMAIN batch = 1 .. n
      OBVIOUS
    <3> QED BY <1>4, <3>1 DEF batch_add_timers, Reindexed, Renumbered, Refilled, For
  <2>2. n # 0
    BY <1>4
  <2> HIDE DEF E, z, n, f, S, M
  <2>3. T \in SUBSET Nat /\ T # {} /\ \A m \in 1 .. n : E[m].expiry \in T
    <3>1. \A e \in Range(E) : e.expiry \in Nat
      BY <1>2 DEF Range
    <3>2. \A m \in 1 .. n : E[m] \in Range(E)
      BY <1>2 DEF Range
    <3>3. 1 \in 1 .. n
      BY <2>2, <1>2
    <3>4. \A m \in 1 .. n : E[m].expiry \in T
      BY <3>2
    <3>5. T \in SUBSET Nat
      BY <3>1, <1>1
    <3> HIDE DEF T
    <3> QED BY <3>3, <3>4, <3>5
  <2>4. t \in Nat /\ (\A u \in T : t <= u) /\ (w.cached_next_expiry # None => t <= w.cached_next_expiry)
    <3>1. w.cached_next_expiry # None => w.cached_next_expiry \in T
      OBVIOUS
    <3> HIDE DEF T
    <3> QED BY <2>3, <3>1, EarliestIs
  <2> HIDE DEF T, t
  <2>5. Ids(E) = {E[m].id : m \in 1 .. n}
    BY <1>2 DEF Ids, Range
  <2>6. ASSUME NEW m \in 1 .. n
        PROVE /\ E[m].id \in TimerId /\ M[E[m].id] = None /\ E[m].id - f + 1 = m
              /\ E[m].id \in Ids(E)
    <3>1. E[m] \in TimerEntry
      BY <1>2
    <3>2. E[m].id \in TimerId /\ E[m].id = f + (m - 1)
      BY <3>1, <1>2, EntryFields
    <3>3. E[m].id >= f /\ E[m].id - f + 1 = m
      BY <3>2, <1>1, <1>2
    <3> QED BY <3>2, <3>3, <2>5 DEF f, M
  <2>7. \A m \in 1 .. n : M2[E[m].id] = place(m)
    BY <2>6
  <2>8. \A i \in TimerId : (\A m \in 1 .. n : E[m].id # i) => M2[i] = M[i]
    BY <2>5
  <2>9. \A m \in 1 .. n : place(m) \in Place
    <3>1. SUFFICES ASSUME NEW m \in 1 .. n PROVE place(m) \in Place
      OBVIOUS
    <3>2. z[m] \in Slot /\ Len(S[z[m]]) \in Nat
      BY <1>1, <1>2, SlotFacts
    <3> DEFINE k == Cardinality({j \in 1 .. m : z[j] = z[m]})
    <3>3. k \in Nat /\ k # 0
      <4> DEFINE r == Cardinality(Below(For(z, n, z[m]), m))
      <4>1. n \in Nat /\ m \in 1 .. n
        BY <1>2
      <4>2. k = r + 1 /\ r \in Nat
        BY ONLY <4>1, RankInGroup
      <4> HIDE DEF k, r
      <4> QED BY <4>2
    <3> HIDE DEF k
    <3> QED BY <3>2, <3>3, PlaceIs DEF k
  <2>10. M2 \in Index
    <3>1. ASSUME NEW i \in TimerId PROVE M2[i] \in Place \cup {None}
      <4>1. CASE \A m \in 1 .. n : E[m].id # i
        BY <4>1, <2>8, <1>1, IndexFacts
      <4>2. CASE \E m \in 1 .. n : E[m].id = i
        <5> HIDE DEF place, M2
        <5> QED BY <4>2, <2>7, <2>9
      <4> QED BY <4>1, <4>2
    <3>2. M2 = [i \in TimerId |-> M2[i]]
      OBVIOUS
    <3> HIDE DEF M2
    <3> QED BY <3>1, <3>2 DEF Index
  <2>11. S2 \in Slots
    <3>1. ASSUME NEW s \in Slot PROVE S[s] \o AtPositions(E, For(z, n, s)) \in Seq(TimerEntry)
      <4> DEFINE g == AtPositions(E, For(z, n, s))
      <4>1. g \in Seq(TimerEntry)
        BY <1>2, GroupIs
      <4> HIDE DEF g
      <4>2. S[s] \in Seq(TimerEntry)
        BY <1>1, SlotFacts
      <4>3. S[s] \o g \in Seq(TimerEntry)
        BY <4>1, <4>2
      <4> QED BY <4>3 DEF g
    <3> QED BY <3>1 DEF Slots
  <2>12. \A s \in Slot : S2[s] = S[s] \o AtPositions(E, For(z, Len(E), s))
    BY <1>2
  <2> HIDE DEF S2, M2
  <2>13. /\ Placed(S2, M2) /\ InSlot(S2)
         /\ Stored(S2) = Stored(S) \cup First(E, Len(E))
    <3>1. \A m \in 1 .. Len(E) : z[m] = calculate_slot_index(E[m].expiry) /\ M[E[m].id] = None
      BY <1>2, <2>6
    <3>2. ASSUME NEW m \in 1 .. Len(E), NEW l \in 1 .. Len(E), E[m].id = E[l].id PROVE m = l
      <4>1. m \in 1 .. n /\ l \in 1 .. n /\ E[m].id = f + (m - 1) /\ E[l].id = f + (l - 1)
        BY <1>2
      <4>2. f + (m - 1) = f + (l - 1)
        BY <4>1, <3>2
      <4> QED BY <4>1, <4>2, <1>1, <1>2
    <3>3. \A i \in TimerId : (\A m \in 1 .. Len(E) : E[m].id # i) => M2[i] = M[i]
      BY <2>8, <1>2
    <3>4. \A m \in 1 .. Len(E) :
            M2[E[m].id] = <<z[m], Len(S[z[m]]) + Cardinality({j \in 1 .. m : z[j] = z[m]})>>
      BY <2>7, <1>2
    <3>5. E \in Seq(TimerEntry)
      BY <1>2
    <3> HIDE DEF place
    <3>6. Fresh(E, z, M)
      BY <3>1, <3>2, <3>5 DEF Fresh
    <3>7. Behind(S2, M2, S, M, E, z)
      BY <2>10, <2>11, <2>12, <3>3, <3>4 DEF Behind
    <3> QED BY ONLY <1>1, <3>6, <3>7, AppendTables
  <2> DEFINE u == Refilled(w, S2, M2)
  <2>14. /\ u \in Wheel /\ u.slots = S2 /\ u.timer_map = M2 /\ SameTurn(u, w)
    BY <1>1, <2>10, <2>11, WheelFrom
  <2> HIDE DEF u
  <2>15. f + n \in 1 .. MaxTimers + 1
    BY <1>1, <1>2 DEF f, n
  <2>16. /\ v \in Wheel /\ v.slots = S2 /\ v.timer_map = M2
         /\ v.current_slot = w.current_slot /\ v.current_time = w.current_time
         /\ v.next_entry_id = f + n /\ v.cached_next_expiry = t
    <3>1. v = Renumbered(u, f + n, t)
      BY DEF Reindexed, u
    <3> HIDE DEF v
    <3>2. /\ v \in Wheel /\ v.slots = u.slots /\ v.timer_map = u.timer_map
          /\ v.current_slot = u.current_slot /\ v.current_time = u.current_time
          /\ v.next_entry_id = f + n /\ v.cached_next_expiry = t
      BY <3>1, <2>4, <2>14, <2>15, RenumberedIs
    <3> QED BY <3>2, <2>14 DEF SameTurn
  <2> HIDE DEF v
  <2>17. Sound(v)
    BY <2>13, <2>16 DEF Sound
  <2>18. Stored(v.slots) = Stored(w.slots) \cup First(E, Len(E))
    BY <2>13, <2>16 DEF S
  <2>19. Early(w) /\ Full(w) => Early(v)
    <3>1. SUFFICES ASSUME Early(w), Full(w), NEW x \in Stored(v.slots) PROVE t <= x.expiry
      BY <2>16 DEF Early
    <3>2. CASE x \in First(E, Len(E))
      BY <3>2, <2>3, <2>4, <1>2 DEF First
    <3>3. CASE x \in Stored(w.slots)
      <4>1. x.expiry \in Nat
        BY <3>3, EntryFields DEF Stored
      <4>2. CASE w.cached_next_expiry # None
        BY <4>1, <4>2, <3>1, <3>3, <1>1, <2>4 DEF Early
      <4>3. CASE w.cached_next_expiry = None
        BY <4>3, <3>1, <3>3 DEF Full
      <4> QED BY <4>2, <4>3
    <3> QED BY <3>2, <3>3, <2>18
  <2>20. v.next_entry_id = w.next_entry_id + Len(E)
    BY <2>16, <1>2 DEF f
  <2>21. \A m \in 1 .. Len(E) : /\ E[m].id = w.next_entry_id + (m - 1) /\ E[m].conn = c
                                /\ E[m].expiry >= w.current_time
    BY <1>2 DEF f
  <2>22. Grown(v, w, E, c)
    BY <1>2, <2>16, <2>17, <2>18, <2>19, <2>20, <2>21 DEF Grown
  <2> QED BY <2>1, <2>22 DEF E
<1> QED BY <1>3, <1>4

----------------------------------------------------------------------------
(* The next expiry.                                                        *)

\* How many slots ahead of time ct, at the start of a slot, time t is.
LEMMA SlotAhead ==
  ASSUME NEW ct \in Nat, NEW t \in Nat, ct % SlotDuration = 0, ct <= t
  PROVE \E j \in Nat : /\ calculate_slot_index(t) = (calculate_slot_index(ct) + j) % SlotCount
                       /\ ct + SlotDuration * j <= t
<1> DEFINE D == SlotDuration
           C == SlotCount
           c == ct \div D
           b == t \div D
<1>1. D \in Nat /\ D > 0 /\ C \in Nat /\ C > 0
  BY Constants
<1> HIDE DEF D, C
<1>2. /\ c \in Nat /\ b \in Nat /\ ct = D * c /\ D * c \in Nat
      /\ D * b \in Nat /\ D * b <= t
  <2>1. /\ c \in Nat /\ ct = D * c + (ct % D) /\ ct % D = 0
        /\ b \in Nat /\ t = D * b + (t % D) /\ t % D \in Nat
    BY <1>1, DivMod DEF D
  <2> HIDE DEF c, b
  <2>2. D * c \in Nat /\ D * b \in Nat
    BY <1>1, <2>1, Products
  <2> QED BY <2>1, <2>2
<1> HIDE DEF c
<1>3. c <= b
  BY <1>1, <1>2, DivMonotone
<1> HIDE DEF b
<1> DEFINE j == b - c
<1>4. j \in Nat /\ b = c + j
  BY <1>2, <1>3
<1> HIDE DEF j
<1>5. calculate_slot_index(t) = b % C /\ calculate_slot_index(ct) = c % C
  BY DEF calculate_slot_index, b, c, C, D
<1>6. ((c % C) + j) % C = (c + j) % C
  <2>1. c \in Nat /\ j \in Nat /\ C \in Nat /\ C > 0
    BY <1>1, <1>2, <1>4
  <2> QED BY ONLY <2>1, ModNext, ZenonT(60)
<1>7. ct + D * j <= t
  <2>1. D * (c + j) = D * c + D * j
    BY <1>1, <1>2, <1>4, Products
  <2> QED BY <2>1, <1>2, <1>4
<1> QED BY <1>4, <1>5, <1>6, <1>7 DEF C, D

LEMMA SlotReached ==
  ASSUME NEW s \in Slot, NEW c \in Slot
  PROVE \E o \in Slot : (c + o) % SlotCount = s
<1>1. /\ SlotCount \in Nat /\ SlotCount > 0 /\ s \in Nat /\ c \in Nat
      /\ s < SlotCount /\ c < SlotCount
  BY Constants DEF Slot
<1>2. CASE c <= s
  <2>1. s - c \in Slot /\ c + (s - c) = s
    BY <1>1, <1>2 DEF Slot
  <2>2. s % SlotCount = s
    BY <1>1
  <2> QED BY <2>1, <2>2
<1>3. CASE ~ (c <= s)
  <2> DEFINE o == (SlotCount - c) + s
  <2>1. o \in Slot /\ c + o = SlotCount + s
    BY <1>1, <1>3 DEF Slot
  <2>2. (SlotCount * 1 + s) % SlotCount = s % SlotCount
    BY <1>1, ModMultiple
  <2>3. s % SlotCount = s /\ SlotCount * 1 = SlotCount
    BY <1>1
  <2> HIDE DEF o
  <2> QED BY <2>1, <2>2, <2>3
<1> QED BY <1>2, <1>3

\* The slot o places after the pointer.
From(w, o) == w.slots[(w.current_slot + o) % SlotCount]

LEMMA FromIs ==
  ASSUME NEW w, Sound(w), NEW o \in Nat
  PROVE /\ (w.current_slot + o) % SlotCount \in Slot
        /\ From(w, o) \in Seq(TimerEntry) /\ Len(From(w, o)) \in Nat
        /\ DOMAIN From(w, o) = 1 .. Len(From(w, o))
        /\ \A p \in 1 .. Len(From(w, o)) : From(w, o)[p] \in Stored(w.slots) /\ From(w, o)[p].expiry \in Nat
<1>1. w.slots \in Slots /\ w.timer_map \in Index /\ Placed(w.slots, w.timer_map) /\ w.current_slot \in Nat
  <2>1. w.slots \in Slots /\ w.timer_map \in Index /\ Placed(w.slots, w.timer_map) /\ w.current_slot \in Slot
    BY WheelFields DEF Sound
  <2> QED BY <2>1, Constants
<1> DEFINE s == (w.current_slot + o) % SlotCount
<1>2. s \in Slot
  BY <1>1, Constants DEF Slot
<1> HIDE DEF s
<1>3. /\ w.slots[s] \in Seq(TimerEntry) /\ Len(w.slots[s]) \in Nat /\ DOMAIN w.slots[s] = 1 .. Len(w.slots[s])
      /\ \A p \in 1 .. Len(w.slots[s]) : w.slots[s][p].expiry \in Nat
  BY <1>1, <1>2, SlotFacts
<1>4. \A p \in 1 .. Len(w.slots[s]) : w.slots[s][p] \in Stored(w.slots)
  BY <1>1, <1>2, AtPlace
<1> QED BY <1>2, <1>3, <1>4 DEF From, s

LEMMA SeenIs ==
  ASSUME NEW w, Sound(w), NEW o \in Nat, NEW t
  PROVE t \in SeenUpTo(w, o) <=>
          \E i \in 0 .. o : \E p \in 1 .. Len(From(w, i)) : t = From(w, i)[p].expiry
<1>1. SeenUpTo(w, o) = UNION {{e.expiry : e \in Range(From(w, i))} : i \in 0 .. o}
  BY DEF SeenUpTo, From
<1>2. t \in SeenUpTo(w, o) <=> \E i \in 0 .. o : t \in {e.expiry : e \in Range(From(w, i))}
  BY <1>1, Zenon
<1>3. ASSUME NEW i \in 0 .. o
      PROVE t \in {e.expiry : e \in Range(From(w, i))}
              <=> \E p \in 1 .. Len(From(w, i)) : t = From(w, i)[p].expiry
  <2>1. i \in Nat /\ DOMAIN From(w, i) = 1 .. Len(From(w, i))
    BY FromIs
  <2>2. Range(From(w, i)) = {From(w, i)[p] : p \in 1 .. Len(From(w, i))}
    BY <2>1 DEF Range
  <2> QED BY <2>2
<1> QED BY <1>2, <1>3

\* A time seen is one of an entry; a slot that was looked at has been seen.
LEMMA SeenFacts ==
  ASSUME NEW w, Sound(w), NEW o \in Nat
  PROVE /\ SeenUpTo(w, o) \in SUBSET Nat
        /\ \A e \in Stored(w.slots) : \A i \in 0 .. o :
             calculate_slot_index(e.expiry) = (w.current_slot + i) % SlotCount => e.expiry \in SeenUpTo(w, o)
        /\ From(w, o) # <<>> => SeenUpTo(w, o) # {}
<1>1. ASSUME NEW t \in SeenUpTo(w, o) PROVE t \in Nat
  <2>1. PICK i \in 0 .. o : \E p \in 1 .. Len(From(w, i)) : t = From(w, i)[p].expiry
    BY SeenIs
  <2>2. i \in Nat
    OBVIOUS
  <2> QED BY <2>1, <2>2, FromIs
<1>2. ASSUME NEW e \in Stored(w.slots), NEW i \in 0 .. o,
             calculate_slot_index(e.expiry) = (w.current_slot + i) % SlotCount
      PROVE e.expiry \in SeenUpTo(w, o)
  <2>0. \E s \in Slot : \E p \in 1 .. Len(w.slots[s]) : w.slots[s][p] = e
    BY DEF Stored
  <2>1. PICK s \in Slot : \E p \in 1 .. Len(w.slots[s]) : w.slots[s][p] = e
    BY <2>0
  <2>2. PICK p \in 1 .. Len(w.slots[s]) : w.slots[s][p] = e
    BY <2>1
  <2>3. s = calculate_slot_index(e.expiry)
    BY <2>2 DEF Sound, InSlot
  <2>4. w.slots[s] = From(w, i)
    BY <2>3, <1>2 DEF From
  <2>5. p \in 1 .. Len(From(w, i)) /\ e.expiry = From(w, i)[p].expiry
    BY <2>2, <2>4
  <2> QED BY <2>5, SeenIs
<1>3. ASSUME From(w, o) # <<>> PROVE SeenUpTo(w, o) # {}
  <2>1. 1 \in 1 .. Len(From(w, o)) /\ o \in 0 .. o
    BY <1>3, FromIs
  <2>2. From(w, o)[1].expiry \in SeenUpTo(w, o)
    BY <2>1, SeenIs
  <2> QED BY <2>2
<1> QED BY <1>1, <1>2, <1>3

LEMMA CountIs ==
  ASSUME NEW w, Sound(w)
  PROVE timer_count(w) \in Nat /\ (timer_count(w) = 0 <=> Stored(w.slots) = {})
<1> DEFINE I == {i \in TimerId : w.timer_map[i] # None}
<1>1. IsFiniteSet(I) /\ Cardinality(I) \in Nat
  BY IdsFinite
<1>2. Cardinality(I) = 0 <=> I = {}
  <2> HIDE DEF I
  <2> QED BY <1>1, FS_EmptySet
<1>3. I = {} <=> Stored(w.slots) = {}
  <2>1. \A x \in Stored(w.slots) : x.id \in TimerId /\ w.timer_map[x.id] # None
    <3>1. w.slots \in Slots /\ w.timer_map \in Index /\ Placed(w.slots, w.timer_map)
      BY WheelFields DEF Sound
    <3> QED BY <3>1, OnIndex, EntryFields DEF Stored
  <2>2. \A i \in TimerId : w.timer_map[i] # None => \E x \in Stored(w.slots) : x.id = i
    BY OnHeld
  <2> QED BY <2>1, <2>2
<1> QED BY <1>1, <1>2, <1>3 DEF timer_count

\* The scan stops at the first slot after which nothing earlier can come.
LEMMA ScanStops ==
  ASSUME NEW w, Sound(w), NEW now, Turns(w, now), Ahead(w), NEW o \in Slot, StopsAt(w, o)
  PROVE /\ Earliest(SeenUpTo(w, o)) \in Nat
        /\ \A e \in Stored(w.slots) : Earliest(SeenUpTo(w, o)) <= e.expiry
<1> DEFINE x == Earliest(SeenUpTo(w, o))
           t == w.current_time
           D == SlotDuration
<1>1. o \in Nat /\ t \in Nat /\ D \in Nat /\ t % D = 0 /\ w.current_slot = calculate_slot_index(t)
  BY Constants, WheelFields DEF Sound, Turns
<1>2. From(w, o) # <<>> /\ x <= t + D * (o + 1)
  BY DEF StopsAt, From
<1>3. SeenUpTo(w, o) \in SUBSET Nat /\ SeenUpTo(w, o) # {}
  BY <1>1, <1>2, SeenFacts
<1>4. x \in Nat /\ \A u \in SeenUpTo(w, o) : x <= u
  BY <1>3, EarliestIs
<1>5. ASSUME NEW e \in Stored(w.slots) PROVE x <= e.expiry
  <2>1. e.expiry \in Nat /\ t <= e.expiry
    <3>1. e.expiry \in Nat /\ e.expiry >= t
      BY EntryFields DEF Stored, Ahead
    <3> QED BY <3>1, <1>1
  <2> HIDE DEF t, x
  <2>2. PICK j \in Nat : /\ calculate_slot_index(e.expiry) = (calculate_slot_index(t) + j) % SlotCount
                         /\ t + D * j <= e.expiry
    BY <1>1, <2>1, SlotAhead
  <2>3. CASE j <= o
    <3>1. j \in 0 .. o
      BY <2>3, <1>1
    <3>2. e.expiry \in SeenUpTo(w, o)
      BY <3>1, <2>2, <1>1, SeenFacts
    <3> QED BY <3>2, <1>4
  <2>4. CASE o + 1 <= j
    <3>1. D * (o + 1) <= D * j /\ D * j \in Nat /\ D * (o + 1) \in Nat
      BY <2>4, <1>1, Products
    <3> QED BY <3>1, <2>1, <2>2, <1>1, <1>2, <1>4
  <2> QED BY <2>3, <2>4, <1>1
<1> QED BY <1>4, <1>5

LEMMA ScanAll ==
  ASSUME NEW w, Sound(w), Stored(w.slots) # {}
  PROVE /\ Earliest(SeenUpTo(w, SlotCount - 1)) \in Nat
        /\ \A e \in Stored(w.slots) : Earliest(SeenUpTo(w, SlotCount - 1)) <= e.expiry
<1> DEFINE o == SlotCount - 1
<1>1. o \in Nat /\ w.current_slot \in Slot /\ Slot = 0 .. o
  BY Constants, WheelFields DEF Sound, Slot
<1>2. ASSUME NEW e \in Stored(w.slots) PROVE e.expiry \in SeenUpTo(w, o)
  <2>1. calculate_slot_index(e.expiry) \in Slot
    BY EntryFields, SlotOf DEF Stored
  <2>2. PICK i \in Slot : (w.current_slot + i) % SlotCount = calculate_slot_index(e.expiry)
    BY <1>1, <2>1, SlotReached
  <2>3. i \in 0 .. o
    BY <1>1
  <2> HIDE DEF o
  <2> QED BY <1>1, <2>2, <2>3, SeenFacts
<1>3. SeenUpTo(w, o) \in SUBSET Nat /\ SeenUpTo(w, o) # {}
  <2> HIDE DEF o
  <2> QED BY <1>1, <1>2, SeenFacts
<1>4. Earliest(SeenUpTo(w, o)) \in Nat /\ \A u \in SeenUpTo(w, o) : Earliest(SeenUpTo(w, o)) <= u
  BY <1>3, EarliestIs
<1> QED BY <1>2, <1>4

LEMMA NextIs ==
  ASSUME NEW w, Sound(w), NEW now, Turns(w, now), Ahead(w), Early(w), NEW x, x = next_expiry_time(w)
  PROVE /\ x \in Nat \cup {None}
        /\ x = None => Stored(w.slots) = {}
        /\ x # None => \A e \in Stored(w.slots) : x <= e.expiry
<1> DEFINE stops == {o \in Slot : StopsAt(w, o)}
<1>1. w \in Wheel /\ w.cached_next_expiry \in Nat \cup {None} /\ None \notin Nat
  BY WheelFields, Constants DEF Sound
<1>2. CASE w.cached_next_expiry # None
  BY <1>1, <1>2 DEF next_expiry_time, Early
<1>3. CASE w.cached_next_expiry = None
  <2>1. CASE timer_count(w) = 0
    <3>1. x = None
      BY <1>3, <2>1 DEF next_expiry_time
    <3> QED BY <3>1, <2>1, CountIs
  <2>2. CASE timer_count(w) # 0 /\ stops # {}
    <3>1. x = Earliest(SeenUpTo(w, Earliest(stops)))
      BY <1>3, <2>2 DEF next_expiry_time
    <3>2. stops \in SUBSET Nat
      BY Constants
    <3>3. Earliest(stops) \in stops
      <4> HIDE DEF stops
      <4> QED BY <2>2, <3>2, EarliestIs
    <3>4. Earliest(stops) \in Slot /\ StopsAt(w, Earliest(stops))
      BY <3>3
    <3> DEFINE o == Earliest(stops)
    <3> HIDE DEF o
    <3>5. x \in Nat /\ \A e \in Stored(w.slots) : x <= e.expiry
      BY <3>1, <3>4, ScanStops DEF o
    <3> QED BY <3>5, <1>1
  <2>3. CASE timer_count(w) # 0 /\ stops = {}
    <3>1. Stored(w.slots) # {} /\ Entries(w) = Stored(w.slots)
      BY <2>3, <1>1, CountIs, EntriesAre
    <3>2. x = Earliest(SeenUpTo(w, SlotCount - 1))
      BY <1>3, <2>3, <3>1 DEF next_expiry_time
    <3>3. x \in Nat /\ \A e \in Stored(w.slots) : x <= e.expiry
      BY <3>1, <3>2, ScanAll
    <3> QED BY <3>3, <1>1
  <2> QED BY <2>1, <2>2, <2>3
<1> QED BY <1>2, <1>3

----------------------------------------------------------------------------
(* Counting.                                                               *)

\* The places in the slots are as many as the timers on the index.
LEMMA TotalIs ==
  ASSUME NEW w, Sound(w)
  PROVE wheel_stats(w).total_timers = timer_count(w)
<1> DEFINE S == w.slots
           M == w.timer_map
           I == {i \in TimerId : M[i] # None}
           P == UNION {{s} \X DOMAIN S[s] : s \in Slot}
           f == [i \in I |-> M[i]]
<1>1. S \in Slots /\ M \in Index /\ Placed(S, M)
  BY WheelFields DEF Sound
<1>2. wheel_stats(w).total_timers = Cardinality(P) /\ timer_count(w) = Cardinality(I)
  BY DEF wheel_stats, timer_count
<1> HIDE DEF S, M
<1>3. \A x : x \in P <=> \E s \in Slot : \E p \in 1 .. Len(S[s]) : x = <<s, p>>
  <2>1. \A s \in Slot : DOMAIN S[s] = 1 .. Len(S[s])
    BY <1>1, SlotFacts
  <2> QED BY <2>1
<1>4. \A i \in I : /\ i \in TimerId /\ M[i] = <<M[i][1], M[i][2]>> /\ M[i][1] \in Slot
                   /\ M[i][2] \in 1 .. Len(S[M[i][1]]) /\ S[M[i][1]][M[i][2]].id = i
  BY <1>1, IndexFacts DEF Placed
<1>5. ASSUME NEW i \in I PROVE M[i] \in P
  <2> DEFINE s == M[i][1]
             p == M[i][2]
  <2>1. M[i] = <<s, p>> /\ s \in Slot /\ p \in 1 .. Len(S[s])
    BY <1>4
  <2> HIDE DEF s, p, P
  <2> QED BY <2>1, <1>3
<1>6. \A i, j \in I : M[i] = M[j] => i = j
  BY <1>4
<1>7. ASSUME NEW x \in P PROVE \E i \in I : M[i] = x
  <2>1. PICK s \in Slot : \E p \in 1 .. Len(S[s]) : x = <<s, p>>
    BY <1>3
  <2>2. PICK p \in 1 .. Len(S[s]) : x = <<s, p>>
    BY <2>1
  <2>3. M[S[s][p].id] = <<s, p>> /\ M[S[s][p].id] # None /\ S[s][p].id \in TimerId
    BY <1>1, AtPlace
  <2> QED BY <2>2, <2>3
<1> HIDE DEF P
<1>8. f \in Bijection(I, P)
  <2>1. f \in [I -> P] /\ \A i \in I : f[i] = M[i]
    BY <1>5
  <2> HIDE DEF f, I
  <2> QED BY <2>1, <1>6, <1>7 DEF Bijection, Injection, Surjection, IsInjective
<1>9. Cardinality(P) = Cardinality(I)
  <2>1. IsFiniteSet(I)
    BY IdsFinite
  <2>2. ExistsBijection(I, P)
    BY <1>8 DEF ExistsBijection
  <2> HIDE DEF I
  <2> QED BY <2>1, <2>2, FS_Bijection
<1> QED BY <1>2, <1>9

\* What the commands of q will create.
Wish(q) == UNION {{n} \X (1 .. Wanted(q[n])) : n \in 1 .. Len(q)}

LEMMA WantedIs ==
  ASSUME NEW cmd \in Command
  PROVE Wanted(cmd) \in Nat
<1>1. cmd.op = "batch_register" => cmd.batch \in Seq(Nat \X Kind)
  BY TaskAssumption DEF Command
<1>2. CASE cmd.op = "batch_register"
  BY <1>1, <1>2 DEF Wanted
<1>3. CASE cmd.op = "register"
  BY <1>3 DEF Wanted
<1>4. CASE cmd.op # "batch_register" /\ cmd.op # "register"
  BY <1>4 DEF Wanted
<1> QED BY <1>2, <1>3, <1>4

LEMMA BarIs ==
  ASSUME NEW n, NEW k \in Nat
  PROVE IsFiniteSet({n} \X (1 .. k)) /\ Cardinality({n} \X (1 .. k)) = k
<1> DEFINE f == [j \in 1 .. k |-> <<n, j>>]
           P == {n} \X (1 .. k)
<1>1. f \in [1 .. k -> P] /\ \A j \in 1 .. k : f[j] = <<n, j>>
  OBVIOUS
<1>2. \A x \in P : \E j \in 1 .. k : x = <<n, j>>
  OBVIOUS
<1> HIDE DEF f, P
<1>3. f \in Bijection(1 .. k, P)
  BY <1>1, <1>2 DEF Bijection, Injection, Surjection, IsInjective
<1>4. ExistsBijection(1 .. k, P)
  BY <1>3 DEF ExistsBijection
<1>5. IsFiniteSet(1 .. k) /\ Cardinality(1 .. k) = k
  BY FS_Interval
<1>6. IsFiniteSet(P) /\ Cardinality(P) = k
  BY <1>4, <1>5, FS_Bijection
<1> QED BY <1>6 DEF P

\* The first m commands.
WishOf(q, m) == UNION {{n} \X (1 .. Wanted(q[n])) : n \in 1 .. m}

LEMMA WishOfMore ==
  ASSUME NEW q, NEW m \in Nat, m # 0
  PROVE /\ WishOf(q, m) = WishOf(q, m - 1) \cup ({m} \X (1 .. Wanted(q[m])))
        /\ WishOf(q, m - 1) \cap ({m} \X (1 .. Wanted(q[m]))) = {}
<1> DEFINE bar(n) == {n} \X (1 .. Wanted(q[n]))
<1>1. 1 .. m = (1 .. m - 1) \cup {m} /\ m \notin 1 .. m - 1
  OBVIOUS
<1>2. \A n : \A x \in bar(n) : x[1] = n
  OBVIOUS
<1> HIDE DEF bar
<1>3. WishOf(q, m) = UNION {bar(n) : n \in 1 .. m} /\ WishOf(q, m - 1) = UNION {bar(n) : n \in 1 .. m - 1}
  BY DEF WishOf, bar
<1>4. WishOf(q, m) = WishOf(q, m - 1) \cup bar(m)
  BY <1>1, <1>3
<1>5. WishOf(q, m - 1) \cap bar(m) = {}
  BY <1>1, <1>2, <1>3
<1> QED BY <1>4, <1>5 DEF bar

LEMMA WishFinite ==
  ASSUME NEW q \in Seq(Command)
  PROVE IsFiniteSet(Wish(q)) /\ Cardinality(Wish(q)) \in Nat
<1> DEFINE G == {m \in 0 .. Len(q) : IsFiniteSet(WishOf(q, m))}
<1>1. Len(q) \in Nat /\ \A n \in 1 .. Len(q) : Wanted(q[n]) \in Nat
  BY WantedIs
<1>2. 0 \in G
  <2>1. WishOf(q, 0) = {}
    BY DEF WishOf
  <2>2. IsFiniteSet(WishOf(q, 0))
    BY <2>1, FS_EmptySet
  <2> QED BY <2>2, <1>1
<1>3. ASSUME NEW m \in 1 .. Len(q), m - 1 \in G PROVE m \in G
  <2>1. WishOf(q, m) = WishOf(q, m - 1) \cup ({m} \X (1 .. Wanted(q[m])))
    BY <1>1, WishOfMore
  <2>2. IsFiniteSet({m} \X (1 .. Wanted(q[m])))
    BY <1>1, BarIs
  <2>3. IsFiniteSet(WishOf(q, m - 1))
    BY <1>3
  <2>4. IsFiniteSet(WishOf(q, m - 1) \cup ({m} \X (1 .. Wanted(q[m]))))
    BY ONLY <2>2, <2>3, FS_Union
  <2>5. IsFiniteSet(WishOf(q, m))
    BY <2>1, <2>4
  <2> QED BY <2>5
<1>4. Len(q) \in G
  <2>1. \A m \in 1 .. Len(q) : m - 1 \in G => m \in G
    BY <1>3
  <2> HIDE DEF G
  <2> QED BY <1>1, <1>2, <2>1, CountUp
<1>5. WishOf(q, Len(q)) = Wish(q)
  BY DEF WishOf, Wish
<1> QED BY <1>4, <1>5, FS_CardinalityType


\* The bars of the first m commands have their heights as sizes.
LEMMA WishCount ==
  ASSUME NEW q, NEW k \in Nat, \A n \in 1 .. k : Wanted(q[n]) \in Nat
  PROVE \A m \in 0 .. k :
          /\ IsFiniteSet(WishOf(q, m)) /\ Cardinality(WishOf(q, m)) \in Nat
          /\ m # 0 => Cardinality(WishOf(q, m)) = Cardinality(WishOf(q, m - 1)) + Wanted(q[m])
          /\ m = 0 => Cardinality(WishOf(q, m)) = 0
<1> DEFINE G == {m \in 0 .. k : \A j \in 0 .. m : IsFiniteSet(WishOf(q, j))}
<1>1. WishOf(q, 0) = {} /\ IsFiniteSet(WishOf(q, 0)) /\ Cardinality(WishOf(q, 0)) = 0
  <2>1. WishOf(q, 0) = {}
    BY DEF WishOf
  <2>2. IsFiniteSet({}) /\ Cardinality({}) = 0
    BY FS_EmptySet
  <2> QED BY <2>1, <2>2
<1>2. 0 \in G
  BY <1>1
<1>3. ASSUME NEW m \in 1 .. k, m - 1 \in G PROVE m \in G
  <2>1. WishOf(q, m) = WishOf(q, m - 1) \cup ({m} \X (1 .. Wanted(q[m])))
    BY WishOfMore
  <2>2. IsFiniteSet({m} \X (1 .. Wanted(q[m])))
    BY BarIs
  <2>3. IsFiniteSet(WishOf(q, m - 1))
    BY <1>3
  <2>4. IsFiniteSet(WishOf(q, m - 1) \cup ({m} \X (1 .. Wanted(q[m]))))
    BY ONLY <2>2, <2>3, FS_Union
  <2>5. IsFiniteSet(WishOf(q, m))
    BY <2>1, <2>4
  <2>6. ASSUME NEW j \in 0 .. m PROVE IsFiniteSet(WishOf(q, j))
    <3>1. CASE j = m
      BY <3>1, <2>5
    <3>2. CASE j # m
      <4>1. j \in 0 .. (m - 1)
        BY <3>2
      <4> QED BY <4>1, <1>3
    <3> QED BY <3>1, <3>2
  <2> QED BY <2>6
<1>4. k \in G
  <2>1. \A m \in 1 .. k : m - 1 \in G => m \in G
    BY <1>3
  <2> HIDE DEF G
  <2> QED BY <1>2, <2>1, CountUp
<1>5. \A m \in 0 .. k : IsFiniteSet(WishOf(q, m))
  BY <1>4
<1>6. \A m \in 0 .. k : Cardinality(WishOf(q, m)) \in Nat
  <2> SUFFICES ASSUME NEW m \in 0 .. k PROVE Cardinality(WishOf(q, m)) \in Nat
    OBVIOUS
  <2>1. IsFiniteSet(WishOf(q, m))
    BY <1>5
  <2> QED BY ONLY <2>1, FS_CardinalityType
<1>7. ASSUME NEW m \in 1 .. k
      PROVE Cardinality(WishOf(q, m)) = Cardinality(WishOf(q, m - 1)) + Wanted(q[m])
  <2> DEFINE A == WishOf(q, m - 1)
             B == {m} \X (1 .. Wanted(q[m]))
  <2>1. WishOf(q, m) = A \cup B /\ A \cap B = {}
    BY WishOfMore
  <2>2. IsFiniteSet(B) /\ Cardinality(B) = Wanted(q[m])
    BY BarIs
  <2>3. IsFiniteSet(A) /\ Cardinality(A) \in Nat
    BY <1>5, <1>6
  <2>4. Cardinality(A \cap B) = 0
    <3> HIDE DEF A, B
    <3> QED BY <2>1, FS_EmptySet
  <2> HIDE DEF A, B
  <2>5. Cardinality(A \cup B) = Cardinality(A) + Cardinality(B) - Cardinality(A \cap B)
    BY ONLY <2>2, <2>3, FS_Union
  <2>6. Cardinality(A \cup B) = Cardinality(A) + Wanted(q[m])
    BY <2>2, <2>3, <2>4, <2>5
  <2> QED BY <2>1, <2>6 DEF A
<1>8. \A m \in 0 .. k : m # 0 => m \in 1 .. k
  OBVIOUS
<1> QED BY <1>1, <1>5, <1>6, <1>7, <1>8

LEMMA TailIs ==
  ASSUME NEW T, NEW q \in Seq(T), q # <<>>
  PROVE /\ Head(q) = q[1] /\ Head(q) \in T /\ Tail(q) \in Seq(T)
        /\ Len(q) \in Nat /\ Len(q) # 0 /\ Len(Tail(q)) = Len(q) - 1
        /\ \A n \in 1 .. Len(q) - 1 : Tail(q)[n] = q[n + 1]
  OBVIOUS

LEMMA AppendIs ==
  ASSUME NEW T, NEW q \in Seq(T), NEW x \in T
  PROVE /\ Append(q, x) \in Seq(T) /\ Len(q) \in Nat /\ Len(Append(q, x)) = Len(q) + 1
        /\ \A n \in 1 .. Len(q) : Append(q, x)[n] = q[n]
        /\ Append(q, x)[Len(q) + 1] = x
  OBVIOUS

\* A command that is taken no longer counts.
LEMMA WishTail ==
  ASSUME NEW q \in Seq(Command), q # <<>>
  PROVE /\ Cardinality(Wish(q)) = Wanted(Head(q)) + Cardinality(Wish(Tail(q)))
        /\ Cardinality(Wish(Tail(q))) \in Nat /\ Wanted(Head(q)) \in Nat
<1> DEFINE t == Tail(q)
           k == Len(q) - 1
           G == {m \in 0 .. k : Cardinality(WishOf(q, m + 1)) = Wanted(q[1]) + Cardinality(WishOf(t, m))}
<1>1. /\ Head(q) = q[1] /\ t \in Seq(Command) /\ Len(q) \in Nat /\ Len(q) # 0 /\ Len(t) = k
      /\ \A n \in 1 .. k : t[n] = q[n + 1]
  BY TailIs
<1>2. /\ \A n \in 1 .. Len(q) : Wanted(q[n]) \in Nat
      /\ \A n \in 1 .. k : Wanted(t[n]) \in Nat
      /\ k \in Nat
  BY <1>1, WantedIs
<1> HIDE DEF t
<1>3. /\ \A m \in 0 .. Len(q) :
            /\ Cardinality(WishOf(q, m)) \in Nat
            /\ m # 0 => Cardinality(WishOf(q, m)) = Cardinality(WishOf(q, m - 1)) + Wanted(q[m])
            /\ m = 0 => Cardinality(WishOf(q, m)) = 0
      /\ \A m \in 0 .. k :
            /\ Cardinality(WishOf(t, m)) \in Nat
            /\ m # 0 => Cardinality(WishOf(t, m)) = Cardinality(WishOf(t, m - 1)) + Wanted(t[m])
            /\ m = 0 => Cardinality(WishOf(t, m)) = 0
  BY <1>1, <1>2, WishCount
<1>4. 0 \in G
  <2>1. Cardinality(WishOf(q, 1)) = Cardinality(WishOf(q, 0)) + Wanted(q[1]) /\ Cardinality(WishOf(q, 0)) = 0
    BY <1>1, <1>3
  <2>2. Cardinality(WishOf(t, 0)) = 0 /\ Wanted(q[1]) \in Nat
    BY <1>1, <1>2, <1>3
  <2> QED BY <2>1, <2>2, <1>2
<1>5. ASSUME NEW m \in 1 .. k, m - 1 \in G PROVE m \in G
  <2>1. Cardinality(WishOf(q, m + 1)) = Cardinality(WishOf(q, m)) + Wanted(q[m + 1])
    BY <1>1, <1>3
  <2>2. Cardinality(WishOf(t, m)) = Cardinality(WishOf(t, m - 1)) + Wanted(t[m]) /\ t[m] = q[m + 1]
    BY <1>1, <1>3
  <2>3. Cardinality(WishOf(q, m)) = Wanted(q[1]) + Cardinality(WishOf(t, m - 1))
    BY <1>5
  <2>4. Wanted(q[1]) \in Nat /\ Wanted(q[m + 1]) \in Nat /\ Cardinality(WishOf(t, m - 1)) \in Nat
    BY <1>1, <1>2, <1>3
  <2>5. Cardinality(WishOf(q, m + 1)) = Wanted(q[1]) + Cardinality(WishOf(t, m))
    BY <2>1, <2>2, <2>3, <2>4
  <2> QED BY <2>5
<1>6. k \in G
  <2>1. \A m \in 1 .. k : m - 1 \in G => m \in G
    BY <1>5
  <2> HIDE DEF G
  <2> QED BY <1>2, <1>4, <2>1, CountUp
<1>7. WishOf(q, k + 1) = Wish(q) /\ WishOf(t, k) = Wish(t) /\ k + 1 = Len(q)
  BY <1>1 DEF WishOf, Wish
<1>8. Cardinality(Wish(q)) = Wanted(q[1]) + Cardinality(Wish(t))
  BY <1>6, <1>7
<1> QED BY <1>8, <1>1, <1>2, <1>3, <1>7 DEF t

\* A command that is sent counts from then on.
LEMMA WishAppend ==
  ASSUME NEW q \in Seq(Command), NEW cmd \in Command
  PROVE /\ Cardinality(Wish(Append(q, cmd))) = Cardinality(Wish(q)) + Wanted(cmd)
        /\ Cardinality(Wish(q)) \in Nat /\ Wanted(cmd) \in Nat
<1> DEFINE r == Append(q, cmd)
           k == Len(q)
<1>1. /\ r \in Seq(Command) /\ Len(r) = k + 1 /\ k \in Nat
      /\ r[k + 1] = cmd /\ \A n \in 1 .. k : r[n] = q[n]
  BY AppendIs
<1> HIDE DEF r
<1>2. \A n \in 1 .. k + 1 : Wanted(r[n]) \in Nat
  BY <1>1, WantedIs
<1>3. Cardinality(WishOf(r, k + 1)) = Cardinality(WishOf(r, k)) + Wanted(r[k + 1])
      /\ Cardinality(WishOf(r, k)) \in Nat
  <2>1. k + 1 \in Nat /\ k + 1 \in 0 .. k + 1 /\ k \in 0 .. k + 1 /\ k + 1 # 0 /\ (k + 1) - 1 = k
    BY <1>1
  <2> HIDE DEF k
  <2>2. /\ Cardinality(WishOf(r, k + 1)) = Cardinality(WishOf(r, (k + 1) - 1)) + Wanted(r[k + 1])
        /\ Cardinality(WishOf(r, k)) \in Nat
    BY <2>1, <1>2, WishCount
  <2> QED BY <2>1, <2>2
<1>4. WishOf(r, k) = WishOf(q, k)
  BY <1>1 DEF WishOf
<1>5. WishOf(r, k + 1) = Wish(r) /\ WishOf(q, k) = Wish(q)
  BY <1>1 DEF WishOf, Wish
<1>6. Wanted(cmd) \in Nat
  BY WantedIs
<1> QED BY <1>1, <1>3, <1>4, <1>5, <1>6 DEF r

----------------------------------------------------------------------------
(* What the task's structures say about each other, part by part.          *)

Fates == [TimerId -> [state : {"unused", "live", "cancelled", "fired"}, due : Nat]]
Managers == [Conn -> [at : {"run", "wait", "ended"}, active : [Kind -> TimerId \cup {None}]]]
Channels == [Conn -> Seq(Event)]

\* The entries on the wheel.
Live == Stored(timing_wheel.slots)

\* The two tables know the owner of every entry of X and of nothing else.
Owned(ec, ct, X) ==
  /\ \A x \in X : ec[x.id] = x.conn
  /\ \A i \in TimerId : ec[i] # None => \E x \in X : x.id = i
  /\ \A i \in TimerId, c \in Conn : i \in ct[c] <=> ec[i] = c

\* Ids are given out in turn, and the timers of X are the live ones.
Known(tm, X, next) ==
  \A i \in TimerId : /\ tm[i].state = "unused" <=> i >= next
                     /\ tm[i].state = "live" <=> \E x \in X : x.id = i

With(tm, state) == {i \in TimerId : tm[i].state = state}
Counted(st, tm, at) ==
  /\ st.cancelled = Cardinality(With(tm, "cancelled"))
  /\ at = "select" => st.processed = Cardinality(With(tm, "fired"))

\* Every event is of a timer that has fired, and is in one place.
Noted(rx, u, tm) ==
  /\ \A n \in 1 .. Len(u) : /\ tm[u[n].id].state = "fired"
                            /\ \A m \in 1 .. Len(u) : u[m].id = u[n].id => m = n
                            /\ \A c \in Conn : \A m \in 1 .. Len(rx[c]) : rx[c][m].id # u[n].id
  /\ \A c \in Conn : \A n \in 1 .. Len(rx[c]) :
       /\ tm[rx[c][n].id].state = "fired"
       /\ \A m \in 1 .. Len(rx[c]) : rx[c][m].id = rx[c][n].id => m = n

\* The handles are of different timers, all created.
HandlesApart(mgr, next) ==
  \A c \in Conn, k \in Kind : mgr[c].active[k] # None =>
    /\ mgr[c].active[k] < next
    /\ \A d \in Conn, l \in Kind : mgr[d].active[l] = mgr[c].active[k] => d = c /\ l = k

\* What has the id of a handle has its connection and its kind.
HandlesMatch(mgr, X, rx, u) ==
  \A c \in Conn, k \in Kind : mgr[c].active[k] # None =>
    /\ \A x \in X : x.id = mgr[c].active[k] => x.conn = c /\ x.kind = k
    /\ \A n \in 1 .. Len(u) : u[n].id = mgr[c].active[k] => u[n].conn = c /\ u[n].kind = k
    /\ \A d \in Conn : \A n \in 1 .. Len(rx[d]) : rx[d][n].id = mgr[c].active[k] => rx[d][n].kind = k

\* The timer of a handle is live or its event is on its way.
HandlesUseful(mgr, X, rx, u) ==
  \A c \in Conn, k \in Kind : mgr[c].active[k] # None /\ mgr[c].at # "ended" =>
    \/ \E x \in X : x.id = mgr[c].active[k]
    \/ \E n \in 1 .. Len(rx[c]) : rx[c][n].id = mgr[c].active[k]
    \/ \E n \in 1 .. Len(u) : u[n].id = mgr[c].active[k]

CancelsBy(cmd, i) == \/ cmd.op = "cancel" /\ cmd.id = i
                     \/ cmd.op = "batch_cancel" /\ i \in cmd.ids
CancelsIn(q, i) == \E n \in 1 .. Len(q) : CancelsBy(q[n], i)

\* A cancellation under way is of a created timer without a handle.
HandlesFree(mgr, q, sp, next) ==
  \A i \in TimerId : i \in sp \/ CancelsIn(q, i) =>
    i < next /\ \A c \in Conn, k \in Kind : mgr[c].active[k] # i

ClearsEnded(q, mgr) == \A n \in 1 .. Len(q) : q[n].op = "clear" => mgr[q[n].conn].at = "ended"
Waits(q, mgr) ==
  \A n \in 1 .. Len(q) : Caller(q[n]) # None =>
    /\ mgr[Caller(q[n])].at = "wait"
    /\ \A m \in 1 .. Len(q) : Caller(q[m]) = Caller(q[n]) => m = n
Room(q, next) == next + Cardinality(Wish(q)) <= MaxCreated + 1

\* A wheel that turns with the clock and whose cache is not late.
Good(w, now) == Sound(w) /\ Turns(w, now) /\ Ahead(w) /\ Early(w)

\* While no channel has held the task up, the next tick is near, and no timer is
\* due long before it.  A delay counts from the wheel's time, behind the clock.
Punctual(tick, now, ct, X, tm) ==
  /\ now <= tick /\ tick <= now + AdvanceInterval /\ tick < ct + (AdvanceInterval + SlotDuration)
  /\ \A x \in X : /\ x.expiry <= tm[x.id].due /\ tm[x.id].due < x.expiry + (AdvanceInterval + SlotDuration)
                  /\ tick <= tm[x.id].due + AdvanceInterval
OnTime(t, now, ct, X, tm) ==
  /\ t.at = "trigger" => t.delayed
  /\ t.at = "select" /\ ~t.delayed => Punctual(t.next_tick, now, ct, X, tm)
\* The inductive invariant.
TaskSafe ==
  /\ TTypeOK
  /\ Good(timing_wheel, clock) /\ (task.at = "select" => Full(timing_wheel))
  /\ Owned(entry_to_connection, connection_timers, Live)
  /\ Known(timer, Live, timing_wheel.next_entry_id)
  /\ Counted(stats, timer, task.at)
  /\ Noted(timeout_rx, task.unsent, timer)
  /\ task.at # "trigger" => task.unsent = <<>>
  /\ OnTime(task, clock, timing_wheel.current_time, Live, timer)
  /\ HandlesApart(manager, timing_wheel.next_entry_id)
  /\ HandlesMatch(manager, Live, timeout_rx, task.unsent)
  /\ HandlesUseful(manager, Live, timeout_rx, task.unsent)
  /\ HandlesFree(manager, command_rx, spawned, timing_wheel.next_entry_id)
  /\ ClearsEnded(command_rx, manager)
  /\ task.at # "stopped" =>
       Waits(command_rx, manager) /\ Room(command_rx, timing_wheel.next_entry_id)

----------------------------------------------------------------------------
(* How each part survives a change of what it is about.                    *)

Plus(X, Y) == X \cup Y
Minus(X, G) == {x \in X : x.id \notin G}

LEMMA OwnedLess ==
  ASSUME NEW ec, NEW ct, NEW X \in SUBSET TimerEntry, Owned(ec, ct, X), NEW G, NEW ec2, NEW ct2,
         \A i \in TimerId : ec2[i] = IF i \in G THEN None ELSE ec[i],
         \A c \in Conn : ct2[c] = ct[c] \ G
  PROVE Owned(ec2, ct2, Minus(X, G))
<1> DEFINE X2 == {x \in X : x.id \notin G}
<1>1. \A x \in X2 : x \in X /\ x.id \notin G /\ x.id \in TimerId
  BY EntryFields
<1>2. \A c \in Conn : c # None
  BY WheelAssumption
<1>3. \A x \in X2 : ec2[x.id] = x.conn
  BY <1>1 DEF Owned
<1>4. ASSUME NEW i \in TimerId, ec2[i] # None PROVE \E x \in X2 : x.id = i
  BY <1>4 DEF Owned
<1>5. ASSUME NEW i \in TimerId, NEW c \in Conn PROVE i \in ct2[c] <=> ec2[i] = c
  BY <1>2 DEF Owned
<1>6. Owned(ec2, ct2, X2)
  BY <1>3, <1>4, <1>5 DEF Owned
<1> QED BY <1>6 DEF Minus

\* The entries of Y are d's and have the ids of I.
Newcomers(Y, I, d) == /\ \A y \in Y : y.id \in I /\ y.conn = d
                      /\ \A i \in I : \E y \in Y : y.id = i
\* The tables with the ids of I as d's.
Enlisted(ec2, ct2, ec, ct, I, d) ==
  /\ \A i \in TimerId : ec2[i] = IF i \in I THEN d ELSE ec[i]
  /\ \A c \in Conn : ct2[c] = IF c = d THEN ct[c] \cup I ELSE ct[c]

LEMMA OwnedMore ==
  ASSUME NEW ec, NEW ct, NEW X, Owned(ec, ct, X), NEW I, NEW Y \in SUBSET TimerEntry, NEW ec2, NEW ct2,
         NEW d \in Conn, \A x \in X : x.id \notin I, Newcomers(Y, I, d),
         \A x \in X : x.id \in TimerId,
         Enlisted(ec2, ct2, ec, ct, I, d)
  PROVE Owned(ec2, ct2, Plus(X, Y))
<1> DEFINE X2 == Plus(X, Y)
<1>0. X2 = X \cup Y
  BY DEF Plus
<1> HIDE DEF X2
<1>n. (\A y \in Y : y.id \in I /\ y.conn = d) /\ (\A i \in I : \E y \in Y : y.id = i)
  BY DEF Newcomers
<1>t. /\ \A i \in TimerId : ec2[i] = IF i \in I THEN d ELSE ec[i]
      /\ \A c \in Conn : ct2[c] = IF c = d THEN ct[c] \cup I ELSE ct[c]
  BY DEF Enlisted
<1>1. \A c \in Conn : c # None
  BY WheelAssumption
<1>2. \A y \in Y : y.id \in TimerId
  BY EntryFields
<1>3. \A x \in X2 : ec2[x.id] = x.conn
  BY <1>t, <1>n, <1>0, <1>2 DEF Owned
<1>4. ASSUME NEW i \in TimerId, ec2[i] # None PROVE \E x \in X2 : x.id = i
  <2>1. CASE i \in I
    BY <1>t, <1>n, <1>0, <2>1
  <2>2. CASE i \notin I
    <3>1. ec[i] # None
      BY <1>t, <2>2, <1>4
    <3>2. PICK x \in X : x.id = i
      BY <3>1 DEF Owned
    <3> QED BY <1>t, <1>n, <1>0, <3>2
  <2> QED BY <2>1, <2>2
<1>5. ASSUME NEW i \in TimerId, NEW c \in Conn PROVE i \in ct2[c] <=> ec2[i] = c
  <2>1. i \in ct[c] <=> ec[i] = c
    BY DEF Owned
  <2>2. ASSUME i \in I PROVE i \notin ct[c]
    <3>1. ASSUME ec[i] # None PROVE FALSE
      <4>1. PICK x \in X : x.id = i
        BY <3>1 DEF Owned
      <4> QED BY <4>1, <2>2
    <3> QED BY <3>1, <2>1, <1>1
  <2>3. CASE i \in I
    <3>1. ec2[i] = d /\ i \notin ct[c]
      BY <1>t, <2>2, <2>3
    <3> QED BY <1>t, <3>1, <2>3
  <2>4. CASE i \notin I
    BY <1>t, <2>1, <2>4
  <2> QED BY <2>3, <2>4
<1> QED BY <1>3, <1>4, <1>5 DEF Owned, X2

LEMMA KnownLess ==
  ASSUME NEW tm, NEW X, NEW next, Known(tm, X, next), NEW G, NEW tm2,
         \A i \in G \cap TimerId : \E x \in X : x.id = i,
         \A i \in TimerId : i \in G => tm2[i].state # "unused" /\ tm2[i].state # "live",
         \A i \in TimerId : i \notin G => tm2[i].state = tm[i].state
  PROVE /\ Known(tm2, Minus(X, G), next)
        /\ \A i \in TimerId : i \in G => tm[i].state = "live"
<1> DEFINE X2 == {x \in X : x.id \notin G}
<1>1. \A i \in TimerId : i \in G => tm[i].state = "live"
  BY DEF Known
<1>2. ASSUME NEW i \in TimerId PROVE tm2[i].state = "unused" <=> i >= next
  <2>1. tm[i].state = "unused" <=> i >= next
    BY DEF Known
  <2>2. i \in G => tm[i].state # "unused"
    BY <1>1
  <2> QED BY <2>1, <2>2
<1>3. ASSUME NEW i \in TimerId PROVE tm2[i].state = "live" <=> \E x \in X2 : x.id = i
  <2>1. tm[i].state = "live" <=> \E x \in X : x.id = i
    BY DEF Known
  <2> QED BY <2>1
<1>4. Known(tm2, X2, next)
  BY <1>2, <1>3 DEF Known
<1> QED BY <1>1, <1>4 DEF Minus

LEMMA KnownMore ==
  ASSUME NEW tm, NEW X, NEW next \in Nat, Known(tm, X, next), NEW k \in Nat, NEW Y, NEW tm2,
         \A y \in Y : y.id \in next .. next + k - 1,
         \A i \in next .. next + k - 1 : \E y \in Y : y.id = i,
         \A i \in TimerId : tm2[i].state = IF i \in next .. next + k - 1 THEN "live" ELSE tm[i].state
  PROVE Known(tm2, X \cup Y, next + k)
<1> DEFINE I == next .. next + k - 1
<1>1. \A i \in TimerId : i \in Nat
  BY Constants
<1>2. \A i \in TimerId : i \in I <=> (i >= next /\ ~ (i >= next + k))
  BY <1>1
<1> HIDE DEF I
<1>3. /\ \A y \in Y : y.id \in I
      /\ \A i \in I : \E y \in Y : y.id = i
      /\ \A i \in TimerId : tm2[i].state = IF i \in I THEN "live" ELSE tm[i].state
  BY DEF I
<1>4. ASSUME NEW i \in TimerId PROVE tm2[i].state = "unused" <=> i >= next + k
  <2>1. tm[i].state = "unused" <=> i >= next
    BY DEF Known
  <2>2. i >= next + k => i >= next
    BY <1>1
  <2> QED BY <2>1, <2>2, <1>2, <1>3
<1>5. ASSUME NEW i \in TimerId PROVE tm2[i].state = "live" <=> \E x \in X \cup Y : x.id = i
  <2>1. tm[i].state = "live" <=> \E x \in X : x.id = i
    BY DEF Known
  <2>2. CASE i \in I
    <3>1. PICK y \in Y : y.id = i
      BY <1>3, <2>2
    <3> QED BY <3>1, <1>3, <2>2
  <2>3. CASE i \notin I
    <3>1. \A y \in Y : y.id # i
      BY <1>3, <2>3
    <3> QED BY <3>1, <2>1, <2>3, <1>3
  <2> QED BY <2>2, <2>3
<1> QED BY <1>4, <1>5 DEF Known

LEMMA DisjointCount ==
  ASSUME NEW A \in SUBSET TimerId, NEW B \in SUBSET TimerId, A \cap B = {}
  PROVE /\ Cardinality(A \cup B) = Cardinality(A) + Cardinality(B)
        /\ Cardinality(A) \in Nat /\ Cardinality(B) \in Nat
<1>1. IsFiniteSet(A) /\ IsFiniteSet(B) /\ Cardinality(A) \in Nat /\ Cardinality(B) \in Nat
  BY IdsFinite
<1>2. Cardinality(A \cap B) = 0
  BY FS_EmptySet
<1>3. Cardinality(A \cup B) = Cardinality(A) + Cardinality(B) - Cardinality(A \cap B)
  BY ONLY <1>1, FS_Union
<1> QED BY <1>1, <1>2, <1>3

\* The cancelled ones are counted as they go.
LEMMA CountedCancel ==
  ASSUME NEW st, NEW tm, NEW at, Counted(st, tm, at), NEW G \in SUBSET TimerId, NEW tm2, NEW at2, NEW st2,
         at = "select", \A i \in G : tm[i].state = "live",
         \A i \in TimerId : tm2[i].state = IF i \in G THEN "cancelled" ELSE tm[i].state,
         st2.cancelled = st.cancelled + Cardinality(G), st2.processed = st.processed
  PROVE Counted(st2, tm2, at2) /\ st2.cancelled \in Nat
<1>1. With(tm2, "cancelled") = With(tm, "cancelled") \cup G
  BY DEF With
<1>2. With(tm2, "fired") = With(tm, "fired")
  <2>1. \A i \in TimerId : tm2[i].state = "fired" <=> tm[i].state = "fired"
    OBVIOUS
  <2> QED BY <2>1 DEF With
<1>3. With(tm, "cancelled") \cap G = {} /\ With(tm, "cancelled") \in SUBSET TimerId
  BY DEF With
<1>4. /\ Cardinality(With(tm, "cancelled") \cup G) = Cardinality(With(tm, "cancelled")) + Cardinality(G)
      /\ Cardinality(With(tm, "cancelled")) \in Nat /\ Cardinality(G) \in Nat
  BY <1>3, DisjointCount
<1>5. st2.cancelled = Cardinality(With(tm2, "cancelled")) /\ st2.cancelled \in Nat
  <2>1. st.cancelled = Cardinality(With(tm, "cancelled"))
    BY DEF Counted
  <2>2. st2.cancelled = Cardinality(With(tm, "cancelled")) + Cardinality(G)
    BY <2>1
  <2>3. st2.cancelled = Cardinality(With(tm, "cancelled") \cup G)
    BY ONLY <2>2, <1>4
  <2>4. st2.cancelled \in Nat
    BY ONLY <2>2, <1>4
  <2> QED BY <2>3, <2>4, <1>1
<1>6. st2.processed = Cardinality(With(tm2, "fired"))
  BY <1>2 DEF Counted
<1> QED BY <1>5, <1>6 DEF Counted

\* Those that fired are counted once their events are sent.
LEMMA CountedFired ==
  ASSUME NEW st, NEW tm, NEW at, Counted(st, tm, at), NEW G \in SUBSET TimerId, NEW tm2, NEW at2, NEW st2,
         \A i \in G : tm[i].state = "live",
         \A i \in TimerId : tm2[i].state = IF i \in G THEN "fired" ELSE tm[i].state,
         st2.cancelled = st.cancelled,
         at2 = "select" => st2.processed = Cardinality({i \in TimerId : tm2[i].state = "fired"})
  PROVE Counted(st2, tm2, at2)
<1>1. With(tm2, "cancelled") = With(tm, "cancelled")
  <2>1. \A i \in TimerId : tm2[i].state = "cancelled" <=> tm[i].state = "cancelled"
    OBVIOUS
  <2> QED BY <2>1 DEF With
<1> QED BY <1>1 DEF Counted, With

LEMMA CountedMore ==
  ASSUME NEW st, NEW tm, NEW at, Counted(st, tm, at), at = "select", NEW I, NEW tm2, NEW at2,
         \A i \in I \cap TimerId : tm[i].state = "unused",
         \A i \in TimerId : tm2[i].state = IF i \in I THEN "live" ELSE tm[i].state
  PROVE Counted(st, tm2, at2)
<1>1. \A i \in TimerId : /\ tm2[i].state = "cancelled" <=> tm[i].state = "cancelled"
                         /\ tm2[i].state = "fired" <=> tm[i].state = "fired"
  OBVIOUS
<1>2. With(tm2, "cancelled") = With(tm, "cancelled") /\ With(tm2, "fired") = With(tm, "fired")
  BY <1>1 DEF With
<1> QED BY <1>2 DEF Counted

\* The ids given out are those of live, cancelled and fired timers.
LEMMA AllCounted ==
  ASSUME NEW tm \in Fates, NEW w, Sound(w), Known(tm, Stored(w.slots), w.next_entry_id)
  PROVE w.next_entry_id - 1 = timer_count(w) + Cardinality(With(tm, "fired"))
                                + Cardinality(With(tm, "cancelled"))
<1> DEFINE n == w.next_entry_id
           L == {i \in TimerId : w.timer_map[i] # None}
           F == With(tm, "fired")
           C == With(tm, "cancelled")
<1>1. n \in 1 .. MaxTimers + 1 /\ MaxTimers \in Nat
  BY WheelFields, Constants DEF Sound
<1>2. \A i \in TimerId : tm[i].state \in {"unused", "live", "cancelled", "fired"}
  BY DEF Fates
<1>3. \A i \in TimerId : i \in L <=> tm[i].state = "live"
  BY OnHeld DEF Known
<1>4. L \in SUBSET TimerId /\ F \in SUBSET TimerId /\ C \in SUBSET TimerId /\ L \cup F \in SUBSET TimerId
  BY DEF With
<1>5. L \cap F = {} /\ (L \cup F) \cap C = {}
  BY <1>3 DEF With
<1>6. \A i : i \in TimerId /\ i < n <=> i \in 1 .. n - 1
  BY <1>1 DEF TimerId
<1>7. \A i \in TimerId : i < n <=> tm[i].state # "unused"
  <2>1. \A i \in TimerId : i \in Nat
    BY Constants
  <2> QED BY <2>1, <1>1 DEF Known
<1>8. (L \cup F) \cup C = 1 .. n - 1
  BY <1>2, <1>3, <1>4, <1>6, <1>7 DEF With
<1>9. Cardinality(1 .. n - 1) = n - 1
  BY <1>1, FS_Interval
<1> HIDE DEF n, L, F, C
<1>10. /\ Cardinality((L \cup F) \cup C) = Cardinality(L \cup F) + Cardinality(C)
       /\ Cardinality(L \cup F) = Cardinality(L) + Cardinality(F)
       /\ Cardinality(L) \in Nat /\ Cardinality(F) \in Nat /\ Cardinality(C) \in Nat
  BY <1>4, <1>5, DisjointCount
<1>11. n - 1 = Cardinality(L) + Cardinality(F) + Cardinality(C)
  BY <1>8, <1>9, <1>10
<1> QED BY <1>11 DEF n, L, F, C, timer_count

\* Timers that have not fired have no events.
LEMMA NotedStay ==
  ASSUME NEW rx, NEW u, NEW tm, Noted(rx, u, tm), NEW tm2,
         \A c \in Conn : \A n \in 1 .. Len(rx[c]) : rx[c][n].id \in TimerId,
         \A n \in 1 .. Len(u) : u[n].id \in TimerId,
         \A i \in TimerId : tm[i].state = "fired" => tm2[i].state = "fired"
  PROVE Noted(rx, u, tm2)
  BY DEF Noted

LEMMA ChannelFacts ==
  ASSUME NEW rx \in Channels, NEW c \in Conn
  PROVE /\ rx[c] \in Seq(Event) /\ Len(rx[c]) \in Nat /\ DOMAIN rx[c] = 1 .. Len(rx[c])
        /\ \A n \in 1 .. Len(rx[c]) : /\ rx[c][n] \in Event /\ rx[c][n].id \in TimerId
                                      /\ rx[c][n].kind \in Kind
<1>1. rx[c] \in Seq(Event)
  BY DEF Channels
<1>2. \A n \in 1 .. Len(rx[c]) : rx[c][n] \in Event
  BY <1>1
<1> QED BY <1>1, <1>2 DEF Event

LEMMA ManagerFacts ==
  ASSUME NEW mgr \in Managers, NEW c \in Conn
  PROVE /\ mgr[c].at \in {"run", "wait", "ended"} /\ mgr[c].active \in [Kind -> TimerId \cup {None}]
        /\ \A k \in Kind : mgr[c].active[k] \in TimerId \cup {None}
        /\ \A k \in Kind : mgr[c].active[k] # None => mgr[c].active[k] \in TimerId
  BY DEF Managers

----------------------------------------------------------------------------
(* Sending events.                                                         *)

\* Mine(ev, k, id, c): one of the first k events is of timer id and for c.
Sent(a, rx, ev, k) ==
  /\ a = [rx |-> a.rx, unsent |-> a.unsent] /\ a.rx \in Channels /\ a.unsent \in Seq(TimerEntry)
  /\ \A c \in Conn : \A n \in 1 .. Len(a.rx[c]) :
       \/ \E m \in 1 .. Len(rx[c]) : rx[c][m] = a.rx[c][n]
       \/ \E m \in 1 .. k : a.rx[c][n].id = ev[m].id /\ a.rx[c][n].kind = ev[m].kind
  /\ \A c \in Conn : \A m \in 1 .. Len(rx[c]) : \E n \in 1 .. Len(a.rx[c]) : a.rx[c][n] = rx[c][m]
  /\ \A n \in 1 .. Len(a.unsent) : \E m \in 1 .. k : a.unsent[n] = ev[m]
  /\ \A m \in 1 .. k : \/ manager[ev[m].conn].at = "ended"
                       \/ \E n \in 1 .. Len(a.rx[ev[m].conn]) : a.rx[ev[m].conn][n].id = ev[m].id
                       \/ \E n \in 1 .. Len(a.unsent) : a.unsent[n] = ev[m]
  /\ \A n, m \in 1 .. Len(a.unsent) : a.unsent[m].id = a.unsent[n].id => m = n
  /\ \A c \in Conn : \A n, m \in 1 .. Len(a.rx[c]) : a.rx[c][m].id = a.rx[c][n].id => m = n
  /\ \A c \in Conn : \A n \in 1 .. Len(a.rx[c]) : \A m \in 1 .. Len(a.unsent) : a.rx[c][n].id # a.unsent[m].id

\* Events that may be sent: distinct, and none of them in a channel.
Sendable(rx, ev) ==
  /\ rx \in Channels /\ ev \in Seq(TimerEntry)
  /\ \A m, n \in 1 .. Len(ev) : ev[m].id = ev[n].id => m = n
  /\ \A c \in Conn : \A n \in 1 .. Len(rx[c]) : /\ \A m \in 1 .. Len(ev) : rx[c][n].id # ev[m].id
                                                /\ \A m \in 1 .. Len(rx[c]) : rx[c][m].id = rx[c][n].id => m = n

Extended(rx, c, x) == [rx EXCEPT ![c] = Append(@, x)]

LEMMA ExtendedIs ==
  ASSUME NEW rx \in Channels, NEW c \in Conn, NEW x \in Event
  PROVE /\ Extended(rx, c, x) \in Channels /\ Len(rx[c]) \in Nat
        /\ Len(Extended(rx, c, x)[c]) = Len(rx[c]) + 1
        /\ \A n \in 1 .. Len(rx[c]) : Extended(rx, c, x)[c][n] = rx[c][n]
        /\ Extended(rx, c, x)[c][Len(rx[c]) + 1] = x
        /\ \A d \in Conn : d # c => Extended(rx, c, x)[d] = rx[d]
<1>1. Extended(rx, c, x)[c] = Append(rx[c], x) /\ \A d \in Conn : d # c => Extended(rx, c, x)[d] = rx[d]
  BY DEF Extended, Channels
<1>2. rx[c] \in Seq(Event) /\ Append(rx[c], x) \in Seq(Event)
  BY DEF Channels
<1>3. Extended(rx, c, x) \in Channels
  BY <1>2 DEF Extended, Channels
<1> QED BY <1>1, <1>2, <1>3, AppendIs

\* Trigger by cases.
LEMMA TriggerIs ==
  ASSUME NEW a, NEW e \in TimerEntry, a = [rx |-> a.rx, unsent |-> a.unsent],
         a.rx \in Channels, a.unsent \in Seq(TimerEntry)
  PROVE \/ Trigger(a, e) = a /\ manager[e.conn].at = "ended"
        \/ Trigger(a, e) = [rx |-> Extended(a.rx, e.conn, [id |-> e.id, kind |-> e.kind]), unsent |-> a.unsent]
        \/ Trigger(a, e) = [rx |-> a.rx, unsent |-> Append(a.unsent, e)]
<1>1. CASE manager[e.conn].at = "ended"
  BY <1>1 DEF Trigger
<1>2. CASE manager[e.conn].at # "ended" /\ Len(a.rx[e.conn]) < EventCap
  <2>1. Trigger(a, e) = [a EXCEPT !.rx[e.conn] = Append(@, [id |-> e.id, kind |-> e.kind])]
    BY <1>2 DEF Trigger
  <2>2. Trigger(a, e) = [rx |-> Extended(a.rx, e.conn, [id |-> e.id, kind |-> e.kind]), unsent |-> a.unsent]
    BY <2>1 DEF Extended
  <2> QED BY <2>2
<1>3. CASE manager[e.conn].at # "ended" /\ ~ (Len(a.rx[e.conn]) < EventCap)
  <2>1. Trigger(a, e) = [a EXCEPT !.unsent = Append(@, e)]
    BY <1>3 DEF Trigger
  <2> QED BY <2>1
<1> QED BY <1>1, <1>2, <1>3

LEMMA SentFirst ==
  ASSUME NEW rx, NEW ev, Sendable(rx, ev)
  PROVE Sent([rx |-> rx, unsent |-> <<>>], rx, ev, 0)
<1> DEFINE a == [rx |-> rx, unsent |-> <<>>]
<1>1. a.rx = rx /\ a.unsent = <<>> /\ a = [rx |-> a.rx, unsent |-> a.unsent] /\ Len(a.unsent) = 0
  OBVIOUS
<1> HIDE DEF a
<1>2. Sent(a, rx, ev, 0)
  BY <1>1 DEF Sent, Sendable
<1> QED BY <1>2 DEF a

\* One more event, dropped.
LEMMA SentDropped ==
  ASSUME NEW rx, NEW ev, Sendable(rx, ev), NEW k \in Nat, k + 1 \in 1 .. Len(ev), NEW a,
         Sent(a, rx, ev, k), manager[ev[k + 1].conn].at = "ended"
  PROVE Sent(a, rx, ev, k + 1)
<1>1. \A m \in 1 .. k + 1 : m \in 1 .. k \/ m = k + 1
  OBVIOUS
<1>2. \A m \in 1 .. k : m \in 1 .. k + 1
  OBVIOUS
<1>3. \A c \in Conn : \A n \in 1 .. Len(a.rx[c]) :
       \/ \E m \in 1 .. Len(rx[c]) : rx[c][m] = a.rx[c][n]
       \/ \E m \in 1 .. k + 1 : a.rx[c][n].id = ev[m].id /\ a.rx[c][n].kind = ev[m].kind
  BY <1>2 DEF Sent
<1>4. \A n \in 1 .. Len(a.unsent) : \E m \in 1 .. k + 1 : a.unsent[n] = ev[m]
  BY <1>2 DEF Sent
<1>5. \A m \in 1 .. k + 1 :
        \/ manager[ev[m].conn].at = "ended"
        \/ \E n \in 1 .. Len(a.rx[ev[m].conn]) : a.rx[ev[m].conn][n].id = ev[m].id
        \/ \E n \in 1 .. Len(a.unsent) : a.unsent[n] = ev[m]
  BY <1>1 DEF Sent
<1> QED BY <1>3, <1>4, <1>5 DEF Sent

LEMMA NotYetSent ==
  ASSUME NEW rx, NEW ev, Sendable(rx, ev), NEW k \in Nat, k + 1 \in 1 .. Len(ev), NEW a,
         Sent(a, rx, ev, k)
  PROVE /\ \A c \in Conn : \A n \in 1 .. Len(a.rx[c]) : a.rx[c][n].id # ev[k + 1].id
        /\ \A n \in 1 .. Len(a.unsent) : a.unsent[n].id # ev[k + 1].id
<1>0. /\ \A c \in Conn : \A n \in 1 .. Len(a.rx[c]) :
           \/ \E m \in 1 .. Len(rx[c]) : rx[c][m] = a.rx[c][n]
           \/ \E m \in 1 .. k : a.rx[c][n].id = ev[m].id /\ a.rx[c][n].kind = ev[m].kind
      /\ \A c \in Conn : \A m \in 1 .. Len(rx[c]) : \E n \in 1 .. Len(a.rx[c]) : a.rx[c][n] = rx[c][m]
  BY DEF Sent
<1>1. \A m \in 1 .. k : ev[m].id # ev[k + 1].id
  <2> SUFFICES ASSUME NEW m \in 1 .. k, ev[m].id = ev[k + 1].id PROVE FALSE
    OBVIOUS
  <2>1. m \in 1 .. Len(ev) /\ m # k + 1
    <3>1. Len(ev) \in Nat
      BY DEF Sendable
    <3> QED BY <3>1
  <2> QED BY <2>1 DEF Sendable
<1>2. ASSUME NEW c \in Conn, NEW n \in 1 .. Len(a.rx[c]) PROVE a.rx[c][n].id # ev[k + 1].id
  <2>0. \A e \in Conn : \A i \in 1 .. Len(a.rx[e]) :
          \/ \E m \in 1 .. Len(rx[e]) : rx[e][m] = a.rx[e][i]
          \/ \E m \in 1 .. k : a.rx[e][i].id = ev[m].id /\ a.rx[e][i].kind = ev[m].kind
    BY ONLY <1>0, ZenonT(60)
  <2>1. \/ \E m \in 1 .. Len(rx[c]) : rx[c][m] = a.rx[c][n]
        \/ \E m \in 1 .. k : a.rx[c][n].id = ev[m].id /\ a.rx[c][n].kind = ev[m].kind
    BY ONLY <2>0, c \in Conn, n \in 1 .. Len(a.rx[c]), ZenonT(60)
  <2>2. CASE \E m \in 1 .. Len(rx[c]) : rx[c][m] = a.rx[c][n]
    <3>1. PICK m \in 1 .. Len(rx[c]) : rx[c][m] = a.rx[c][n]
      BY <2>2
    <3>2. rx[c][m].id # ev[k + 1].id
      BY DEF Sendable
    <3> QED BY <3>1, <3>2
  <2>3. CASE \E m \in 1 .. k : a.rx[c][n].id = ev[m].id /\ a.rx[c][n].kind = ev[m].kind
    BY <2>3, <1>1
  <2> QED BY <2>1, <2>2, <2>3
<1>3. ASSUME NEW n \in 1 .. Len(a.unsent) PROVE a.unsent[n].id # ev[k + 1].id
  BY <1>1 DEF Sent
<1> QED BY <1>2, <1>3

\* One more event, sent.
LEMMA SentInto ==
  ASSUME NEW rx, NEW ev, Sendable(rx, ev), NEW k \in Nat, k + 1 \in 1 .. Len(ev), NEW a,
         Sent(a, rx, ev, k), ev[k + 1] \in TimerEntry
  PROVE Sent([rx |-> Extended(a.rx, ev[k + 1].conn, [id |-> ev[k + 1].id, kind |-> ev[k + 1].kind]),
              unsent |-> a.unsent], rx, ev, k + 1)
<1> DEFINE d == ev[k + 1].conn
           x == [id |-> ev[k + 1].id, kind |-> ev[k + 1].kind]
           rx2 == Extended(a.rx, d, x)
           a2 == [rx |-> rx2, unsent |-> a.unsent]
           L == Len(a.rx[d])
<1>0. /\ \A c \in Conn : \A n \in 1 .. Len(a.rx[c]) :
           \/ \E m \in 1 .. Len(rx[c]) : rx[c][m] = a.rx[c][n]
           \/ \E m \in 1 .. k : a.rx[c][n].id = ev[m].id /\ a.rx[c][n].kind = ev[m].kind
      /\ \A c \in Conn : \A m \in 1 .. Len(rx[c]) : \E n \in 1 .. Len(a.rx[c]) : a.rx[c][n] = rx[c][m]
  BY DEF Sent
<1>1. d \in Conn /\ x \in Event /\ x.id = ev[k + 1].id /\ x.kind = ev[k + 1].kind
  BY EntryFields DEF Event
<1>2. a.rx \in Channels /\ a.unsent \in Seq(TimerEntry)
  BY DEF Sent
<1>3. /\ \A c \in Conn : \A n \in 1 .. Len(a.rx[c]) : a.rx[c][n].id # x.id
      /\ \A n \in 1 .. Len(a.unsent) : a.unsent[n].id # x.id
  <2>1. /\ \A c \in Conn : \A n \in 1 .. Len(a.rx[c]) : a.rx[c][n].id # ev[k + 1].id
        /\ \A n \in 1 .. Len(a.unsent) : a.unsent[n].id # ev[k + 1].id
    BY NotYetSent
  <2> HIDE DEF x
  <2> QED BY <1>1, <2>1
<1>4. a2.rx = rx2 /\ a2.unsent = a.unsent /\ a2 = [rx |-> a2.rx, unsent |-> a2.unsent]
  OBVIOUS
<1> HIDE DEF d, x, a2
<1>5. /\ rx2 \in Channels /\ L \in Nat /\ Len(rx2[d]) = L + 1
      /\ \A n \in 1 .. L : rx2[d][n] = a.rx[d][n]
      /\ rx2[d][L + 1] = x
      /\ \A c \in Conn : c # d => rx2[c] = a.rx[c]
  BY <1>1, <1>2, ExtendedIs
<1> HIDE DEF rx2
<1>6. ASSUME NEW c \in Conn, NEW n \in 1 .. Len(rx2[c])
      PROVE \/ n \in 1 .. Len(a.rx[c]) /\ rx2[c][n] = a.rx[c][n]
            \/ c = d /\ n = L + 1 /\ rx2[c][n] = x
  <2>1. CASE c # d
    BY <2>1, <1>5
  <2>2. CASE c = d
    <3>1. n \in 1 .. L \/ n = L + 1
      BY <2>2, <1>5
    <3> QED BY <3>1, <2>2, <1>5
  <2> QED BY <2>1, <2>2
<1>7. ASSUME NEW c \in Conn, NEW n \in 1 .. Len(a.rx[c])
      PROVE n \in 1 .. Len(rx2[c]) /\ rx2[c][n] = a.rx[c][n]
  <2>1. CASE c # d
    BY <2>1, <1>5
  <2>2. CASE c = d
    BY <2>2, <1>5
  <2> QED BY <2>1, <2>2
<1>8. \A m \in 1 .. k + 1 : m \in 1 .. k \/ m = k + 1
  OBVIOUS
<1>9. (\A m \in 1 .. k : m \in 1 .. k + 1) /\ k + 1 \in 1 .. k + 1
  OBVIOUS
<1>10. ASSUME NEW c \in Conn, NEW n \in 1 .. Len(rx2[c])
       PROVE \/ \E m \in 1 .. Len(rx[c]) : rx[c][m] = rx2[c][n]
             \/ \E m \in 1 .. k + 1 : rx2[c][n].id = ev[m].id /\ rx2[c][n].kind = ev[m].kind
  <2>1. CASE n \in 1 .. Len(a.rx[c]) /\ rx2[c][n] = a.rx[c][n]
    <3>1. \/ \E m \in 1 .. Len(rx[c]) : rx[c][m] = a.rx[c][n]
          \/ \E m \in 1 .. k : a.rx[c][n].id = ev[m].id /\ a.rx[c][n].kind = ev[m].kind
      BY <2>1, <1>0
    <3> QED BY <3>1, <2>1, <1>9
  <2>2. CASE rx2[c][n] = x
    BY <2>2, <1>1, <1>9
  <2> QED BY <2>1, <2>2, <1>6
<1>11. ASSUME NEW c \in Conn, NEW m \in 1 .. Len(rx[c]) PROVE \E n \in 1 .. Len(rx2[c]) : rx2[c][n] = rx[c][m]
  <2>1. PICK n \in 1 .. Len(a.rx[c]) : a.rx[c][n] = rx[c][m]
    BY <1>0
  <2> QED BY <2>1, <1>7
<1>12. \A n \in 1 .. Len(a.unsent) : \E m \in 1 .. k + 1 : a.unsent[n] = ev[m]
  BY <1>9 DEF Sent
<1>13. ASSUME NEW m \in 1 .. k + 1
       PROVE \/ manager[ev[m].conn].at = "ended"
             \/ \E n \in 1 .. Len(rx2[ev[m].conn]) : rx2[ev[m].conn][n].id = ev[m].id
             \/ \E n \in 1 .. Len(a.unsent) : a.unsent[n] = ev[m]
  <2>1. CASE m \in 1 .. k
    <3>1. ev[m].conn \in Conn
      <4>1. m \in 1 .. Len(ev) /\ ev \in Seq(TimerEntry)
        <5>1. Len(ev) \in Nat /\ ev \in Seq(TimerEntry)
          BY DEF Sendable
        <5> QED BY <5>1, <2>1
      <4> QED BY <4>1, EntryFields
    <3>2. \/ manager[ev[m].conn].at = "ended"
          \/ \E n \in 1 .. Len(a.rx[ev[m].conn]) : a.rx[ev[m].conn][n].id = ev[m].id
          \/ \E n \in 1 .. Len(a.unsent) : a.unsent[n] = ev[m]
      BY <2>1 DEF Sent
    <3> QED BY <3>1, <3>2, <1>7
  <2>2. CASE m = k + 1
    <3>1. L + 1 \in 1 .. Len(rx2[d]) /\ rx2[d][L + 1].id = ev[k + 1].id /\ d = ev[k + 1].conn
      BY <1>1, <1>5 DEF d
    <3> QED BY <3>1, <2>2
  <2> QED BY <2>1, <2>2, <1>8
<1>14. ASSUME NEW c \in Conn, NEW n \in 1 .. Len(rx2[c]), NEW m \in 1 .. Len(rx2[c]),
              rx2[c][m].id = rx2[c][n].id
       PROVE m = n
  <2> HIDE DEF L
  <2>1. CASE /\ n \in 1 .. Len(a.rx[c]) /\ rx2[c][n] = a.rx[c][n]
             /\ m \in 1 .. Len(a.rx[c]) /\ rx2[c][m] = a.rx[c][m]
    BY <2>1, <1>14 DEF Sent
  <2>2. CASE n \in 1 .. Len(a.rx[c]) /\ rx2[c][n] = a.rx[c][n] /\ rx2[c][m] = x
    BY <2>2, <1>3, <1>14
  <2>3. CASE m \in 1 .. Len(a.rx[c]) /\ rx2[c][m] = a.rx[c][m] /\ rx2[c][n] = x
    BY <2>3, <1>3, <1>14
  <2>4. CASE m = L + 1 /\ n = L + 1
    BY <2>4
  <2> QED BY <2>1, <2>2, <2>3, <2>4, <1>6
<1>15. ASSUME NEW c \in Conn, NEW n \in 1 .. Len(rx2[c]), NEW m \in 1 .. Len(a.unsent)
       PROVE rx2[c][n].id # a.unsent[m].id
  <2>1. CASE n \in 1 .. Len(a.rx[c]) /\ rx2[c][n] = a.rx[c][n]
    BY <2>1 DEF Sent
  <2>2. CASE rx2[c][n] = x
    BY <2>2, <1>3
  <2> QED BY <2>1, <2>2, <1>6
<1>16. \A n, m \in 1 .. Len(a.unsent) : a.unsent[m].id = a.unsent[n].id => m = n
  BY DEF Sent
<1>17. Sent(a2, rx, ev, k + 1)
  BY <1>2, <1>4, <1>5, <1>10, <1>11, <1>12, <1>13, <1>14, <1>15, <1>16 DEF Sent
<1> QED BY <1>17 DEF a2, rx2, d, x

\* One more event, which waits.
LEMMA SentLater ==
  ASSUME NEW rx, NEW ev, Sendable(rx, ev), NEW k \in Nat, k + 1 \in 1 .. Len(ev), NEW a,
         Sent(a, rx, ev, k), ev[k + 1] \in TimerEntry
  PROVE Sent([rx |-> a.rx, unsent |-> Append(a.unsent, ev[k + 1])], rx, ev, k + 1)
<1> DEFINE u == Append(a.unsent, ev[k + 1])
           a2 == [rx |-> a.rx, unsent |-> u]
           L == Len(a.unsent)
<1>0. /\ \A c \in Conn : \A n \in 1 .. Len(a.rx[c]) :
           \/ \E m \in 1 .. Len(rx[c]) : rx[c][m] = a.rx[c][n]
           \/ \E m \in 1 .. k : a.rx[c][n].id = ev[m].id /\ a.rx[c][n].kind = ev[m].kind
      /\ \A c \in Conn : \A m \in 1 .. Len(rx[c]) : \E n \in 1 .. Len(a.rx[c]) : a.rx[c][n] = rx[c][m]
      /\ \A n \in 1 .. L : \E m \in 1 .. k : a.unsent[n] = ev[m]
      /\ \A m \in 1 .. k : \/ manager[ev[m].conn].at = "ended"
                           \/ \E n \in 1 .. Len(a.rx[ev[m].conn]) : a.rx[ev[m].conn][n].id = ev[m].id
                           \/ \E n \in 1 .. L : a.unsent[n] = ev[m]
      /\ \A n, m \in 1 .. L : a.unsent[m].id = a.unsent[n].id => m = n
      /\ \A c \in Conn : \A n, m \in 1 .. Len(a.rx[c]) : a.rx[c][m].id = a.rx[c][n].id => m = n
      /\ \A c \in Conn : \A n \in 1 .. Len(a.rx[c]) : \A m \in 1 .. L : a.rx[c][n].id # a.unsent[m].id
  BY DEF Sent
<1>1. a.rx \in Channels /\ a.unsent \in Seq(TimerEntry)
  BY DEF Sent
<1>2. /\ \A c \in Conn : \A n \in 1 .. Len(a.rx[c]) : a.rx[c][n].id # ev[k + 1].id
      /\ \A n \in 1 .. L : a.unsent[n].id # ev[k + 1].id
  BY NotYetSent
<1>3. a2.rx = a.rx /\ a2.unsent = u /\ a2 = [rx |-> a2.rx, unsent |-> a2.unsent]
  OBVIOUS
<1>4. /\ u \in Seq(TimerEntry) /\ L \in Nat /\ Len(u) = L + 1
      /\ \A n \in 1 .. L : u[n] = a.unsent[n]
      /\ u[L + 1] = ev[k + 1]
  BY <1>1, AppendIs
<1> HIDE DEF u, a2, L
<1>5. /\ \A n \in 1 .. Len(u) : n \in 1 .. L \/ n = L + 1
      /\ \A n \in 1 .. L : n \in 1 .. Len(u)
      /\ L + 1 \in 1 .. Len(u)
  BY <1>4
<1>6. /\ \A m \in 1 .. k + 1 : m \in 1 .. k \/ m = k + 1
      /\ \A m \in 1 .. k : m \in 1 .. k + 1
      /\ k + 1 \in 1 .. k + 1
  OBVIOUS
<1>7. ASSUME NEW c \in Conn, NEW n \in 1 .. Len(a.rx[c])
      PROVE \/ \E m \in 1 .. Len(rx[c]) : rx[c][m] = a.rx[c][n]
            \/ \E m \in 1 .. k + 1 : a.rx[c][n].id = ev[m].id /\ a.rx[c][n].kind = ev[m].kind
  <2>0. \A e \in Conn : \A i \in 1 .. Len(a.rx[e]) :
          \/ \E m \in 1 .. Len(rx[e]) : rx[e][m] = a.rx[e][i]
          \/ \E m \in 1 .. k : a.rx[e][i].id = ev[m].id /\ a.rx[e][i].kind = ev[m].kind
    BY ONLY <1>0, ZenonT(60)
  <2>1. \/ \E m \in 1 .. Len(rx[c]) : rx[c][m] = a.rx[c][n]
        \/ \E m \in 1 .. k : a.rx[c][n].id = ev[m].id /\ a.rx[c][n].kind = ev[m].kind
    BY ONLY <2>0, c \in Conn, n \in 1 .. Len(a.rx[c]), ZenonT(60)
  <2> QED BY ONLY <2>1, <1>6
<1>8. \A n \in 1 .. Len(u) : \E m \in 1 .. k + 1 : u[n] = ev[m]
  BY <1>0, <1>4, <1>5, <1>6
<1>9. ASSUME NEW m \in 1 .. k + 1
      PROVE \/ manager[ev[m].conn].at = "ended"
            \/ \E n \in 1 .. Len(a.rx[ev[m].conn]) : a.rx[ev[m].conn][n].id = ev[m].id
            \/ \E n \in 1 .. Len(u) : u[n] = ev[m]
  <2>1. CASE m \in 1 .. k
    <3>1. \/ manager[ev[m].conn].at = "ended"
          \/ \E n \in 1 .. Len(a.rx[ev[m].conn]) : a.rx[ev[m].conn][n].id = ev[m].id
          \/ \E n \in 1 .. L : a.unsent[n] = ev[m]
      BY <2>1, <1>0
    <3> QED BY ONLY <3>1, <1>4, <1>5
  <2>2. CASE m = k + 1
    BY <2>2, <1>4, <1>5
  <2> QED BY <2>1, <2>2, <1>6
<1>10. ASSUME NEW n \in 1 .. Len(u), NEW m \in 1 .. Len(u), u[m].id = u[n].id PROVE m = n
  <2>1. CASE n \in 1 .. L /\ m \in 1 .. L
    BY <2>1, <1>10, <1>0, <1>4
  <2>2. CASE n \in 1 .. L /\ m = L + 1
    BY <2>2, <1>10, <1>2, <1>4
  <2>3. CASE m \in 1 .. L /\ n = L + 1
    BY <2>3, <1>10, <1>2, <1>4
  <2>4. CASE m = L + 1 /\ n = L + 1
    BY <2>4
  <2> QED BY <2>1, <2>2, <2>3, <2>4, <1>5
<1>11. ASSUME NEW c \in Conn, NEW n \in 1 .. Len(a.rx[c]), NEW m \in 1 .. Len(u)
       PROVE a.rx[c][n].id # u[m].id
  <2>1. CASE m \in 1 .. L
    <3>1. a.rx[c][n].id # a.unsent[m].id
      BY <2>1, <1>0
    <3> QED BY <3>1, <2>1, <1>4
  <2>2. CASE m = L + 1
    BY <2>2, <1>2, <1>4
  <2> QED BY <2>1, <2>2, <1>5
<1>12. Sent(a2, rx, ev, k + 1)
  BY <1>0, <1>1, <1>3, <1>4, <1>7, <1>8, <1>9, <1>10, <1>11 DEF Sent
<1> QED BY <1>12 DEF a2, u

LEMMA SentMore ==
  ASSUME NEW rx, NEW ev, Sendable(rx, ev), NEW k \in Nat, k + 1 \in 1 .. Len(ev), NEW a,
         Sent(a, rx, ev, k)
  PROVE Sent(Trigger(a, ev[k + 1]), rx, ev, k + 1)
<1>1. ev[k + 1] \in TimerEntry
  BY DEF Sendable
<1>2. a = [rx |-> a.rx, unsent |-> a.unsent] /\ a.rx \in Channels /\ a.unsent \in Seq(TimerEntry)
  BY DEF Sent
<1> DEFINE e == ev[k + 1]
           A == [rx |-> Extended(a.rx, e.conn, [id |-> e.id, kind |-> e.kind]), unsent |-> a.unsent]
           B == [rx |-> a.rx, unsent |-> Append(a.unsent, e)]
<1>3. Sent(A, rx, ev, k + 1)
  BY <1>1, SentInto
<1>4. Sent(B, rx, ev, k + 1)
  BY <1>1, SentLater
<1>5. manager[e.conn].at = "ended" => Sent(a, rx, ev, k + 1)
  BY SentDropped
<1>6. \/ Trigger(a, e) = a /\ manager[e.conn].at = "ended"
      \/ Trigger(a, e) = A
      \/ Trigger(a, e) = B
  BY ONLY <1>1, <1>2, TriggerIs
<1> HIDE DEF A, B, e
<1>7. Sent(Trigger(a, e), rx, ev, k + 1)
  BY ONLY <1>3, <1>4, <1>5, <1>6
<1> QED BY <1>7 DEF e

LEMMA SentAll ==
  ASSUME NEW rx, NEW ev, Sendable(rx, ev), NEW a,
         a = FoldLeft(Trigger, [rx |-> rx, unsent |-> <<>>], ev)
  PROVE Sent(a, rx, ev, Len(ev))
<1> DEFINE b == [rx |-> rx, unsent |-> <<>>]
<1>1. Len(ev) \in Nat /\ DOMAIN ev = 1 .. Len(ev)
  BY DEF Sendable
<1>2. a = Folded("trigger", 0, b, ev)
  BY <1>1, TriggerFolded
<1>3. PICK h : Walk(h, "trigger", 0, b, ev) /\ Folded("trigger", 0, b, ev) = h[Len(ev)]
  BY <1>1, FoldedWalks
<1>4. h[0] = b /\ \A i \in 1 .. Len(ev) : h[i] = Trigger(h[i - 1], ev[i])
  BY <1>3 DEF Walk, Step
<1> DEFINE G == {i \in 0 .. Len(ev) : Sent(h[i], rx, ev, i)}
<1>5. 0 \in G
  BY <1>1, <1>4, SentFirst
<1>6. ASSUME NEW i \in 1 .. Len(ev), i - 1 \in G PROVE i \in G
  <2> DEFINE k == i - 1
  <2>1. k \in Nat /\ k + 1 = i /\ k + 1 \in 1 .. Len(ev) /\ Sent(h[k], rx, ev, k)
    BY <1>1, <1>6
  <2>2. h[i] = Trigger(h[k], ev[i])
    BY <1>4
  <2> HIDE DEF k
  <2>3. Sent(Trigger(h[k], ev[k + 1]), rx, ev, k + 1)
    BY <2>1, SentMore
  <2>4. Sent(h[i], rx, ev, i)
    BY <2>1, <2>2, <2>3
  <2> QED BY <2>4, <1>1
<1>7. Len(ev) \in G
  <2>1. \A i \in 1 .. Len(ev) : i - 1 \in G => i \in G
    BY <1>6
  <2> HIDE DEF G
  <2> QED BY <1>1, <1>5, <2>1, CountUp
<1> QED BY <1>2, <1>3, <1>7

----------------------------------------------------------------------------
(* The top of the loop.                                                    *)

Tasks == [at : {"select", "trigger", "stopped"}, next_wakeup : Nat, next_tick : Nat,
          now : Nat, next_update : Nat, unsent : Seq(TimerEntry), delayed : BOOLEAN]

LEMMA TaskFacts ==
  ASSUME NEW t \in Tasks
  PROVE /\ t.at \in {"select", "trigger", "stopped"} /\ t.next_wakeup \in Nat /\ t.next_tick \in Nat
        /\ t.now \in Nat /\ t.next_update \in Nat /\ t.unsent \in Seq(TimerEntry) /\ t.delayed \in BOOLEAN
        /\ Len(t.unsent) \in Nat /\ DOMAIN t.unsent = 1 .. Len(t.unsent)
        /\ \A n \in 1 .. Len(t.unsent) : t.unsent[n] \in TimerEntry /\ t.unsent[n].id \in TimerId
<1>1. t.unsent \in Seq(TimerEntry)
  BY DEF Tasks
<1>2. \A n \in 1 .. Len(t.unsent) : t.unsent[n] \in TimerEntry
  BY <1>1
<1> QED BY <1>1, <1>2, EntryFields DEF Tasks

LEMMA TypeFacts ==
  ASSUME TTypeOK
  PROVE /\ clock \in Nat /\ timing_wheel \in Wheel /\ command_rx \in Seq(Command) /\ task \in Tasks
        /\ manager \in Managers /\ timeout_rx \in Channels /\ timer \in Fates
        /\ spawned \in SUBSET TimerId /\ stats \in [processed : Nat, cancelled : Nat]
        /\ connection_timers \in [Conn -> SUBSET TimerId]
        /\ entry_to_connection \in [TimerId -> Conn \cup {None}]
        /\ timing_wheel.next_entry_id \in Nat
<1>1. timing_wheel \in Wheel
  BY DEF TTypeOK
<1>2. timing_wheel.next_entry_id \in Nat
  BY <1>1, WheelFields, Constants
<1>3. clock \in Nat
  BY TaskAssumption DEF TTypeOK
<1> QED BY <1>1, <1>2, <1>3 DEF TTypeOK, Tasks, Managers, Channels, Fates

\* A wheel with a new cache is as good as the answer is early.
LEMMA RecachedGood ==
  ASSUME NEW w, NEW now, Good(w, now), NEW x, x = next_expiry_time(w), NEW v, v = Recached(w, x)
  PROVE /\ Good(v, now) /\ Full(v) /\ v.slots = w.slots /\ v.next_entry_id = w.next_entry_id /\ v \in Wheel
        /\ v.current_time = w.current_time
<1>1. w \in Wheel /\ Sound(w) /\ Turns(w, now) /\ Ahead(w) /\ Early(w)
  BY DEF Good, Sound
<1>2. /\ x \in Nat \cup {None}
      /\ x = None => Stored(w.slots) = {}
      /\ x # None => \A e \in Stored(w.slots) : x <= e.expiry
  BY <1>1, NextIs
<1>3. /\ v \in Wheel /\ v.slots = w.slots /\ v.timer_map = w.timer_map
      /\ SameTurn(v, w) /\ v.cached_next_expiry = x
  BY <1>1, <1>2, RecachedIs
<1>4. v.current_slot = w.current_slot /\ v.current_time = w.current_time /\ v.next_entry_id = w.next_entry_id
  BY <1>3 DEF SameTurn
<1>5. Sound(v)
  BY <1>1, <1>3 DEF Sound
<1>6. Turns(v, now)
  BY <1>1, <1>4 DEF Turns
<1>7. Ahead(v)
  BY <1>1, <1>3, <1>4 DEF Ahead
<1>8. Early(v) /\ Full(v)
  BY <1>2, <1>3 DEF Early, Full
<1> QED BY <1>3, <1>4, <1>5, <1>6, <1>7, <1>8 DEF Good

LEMMA LoopTopIs ==
  ASSUME TTypeOK, NEW w, Good(w, clock), NEW nt \in Nat, NEW nu \in Nat, LoopTop(w, nt, nu)
  PROVE /\ task'.next_tick = nt /\ task'.delayed = task.delayed
        /\ Good(timing_wheel', clock) /\ Full(timing_wheel') /\ timing_wheel' \in Wheel
        /\ timing_wheel'.slots = w.slots /\ timing_wheel'.next_entry_id = w.next_entry_id
        /\ timing_wheel'.current_time = w.current_time
        /\ task' \in Tasks /\ task'.at = "select" /\ task'.unsent = <<>>
<1> DEFINE x == next_expiry_time(w)
<1>1. timing_wheel' = Recached(w, x)
  BY DEF LoopTop, Recached
<1>2. /\ Good(timing_wheel', clock) /\ Full(timing_wheel') /\ timing_wheel' \in Wheel
      /\ timing_wheel'.slots = w.slots /\ timing_wheel'.next_entry_id = w.next_entry_id
        /\ timing_wheel'.current_time = w.current_time
  BY <1>1, RecachedGood
<1>3. x \in Nat \cup {None}
  BY NextIs DEF Good
<1>4. clock \in Nat /\ task.delayed \in BOOLEAN
  BY TypeFacts, TaskFacts
<1>5. get_next_wakeup_time(w) \in Nat
  <2>1. clock + 10 * AdvanceInterval \in Nat /\ clock + MinWakeup \in Nat
    BY <1>4, TaskAssumption
  <2> HIDE DEF x
  <2>2. get_next_wakeup_time(w) =
          IF x = None THEN clock + 10 * AdvanceInterval
          ELSE IF x <= clock + MinWakeup THEN clock + MinWakeup ELSE x
    BY DEF get_next_wakeup_time, x
  <2> QED BY <2>1, <2>2, <1>3
<1>6. task' = [at |-> "select", next_wakeup |-> get_next_wakeup_time(w),
               next_tick |-> nt, now |-> clock, next_update |-> nu,
               unsent |-> <<>>, delayed |-> task.delayed]
  BY DEF LoopTop
<1>7. task' \in Tasks
  BY <1>4, <1>5, <1>6 DEF Tasks
<1> QED BY <1>2, <1>6, <1>7

LEMMA HandledIs ==
  ASSUME TTypeOK, NEW w, Good(w, clock), Handled(w)
  PROVE /\ task'.next_tick \in {task.next_tick, clock} /\ task'.delayed = task.delayed
        /\ Good(timing_wheel', clock) /\ Full(timing_wheel') /\ timing_wheel' \in Wheel
        /\ timing_wheel'.slots = w.slots /\ timing_wheel'.next_entry_id = w.next_entry_id
        /\ timing_wheel'.current_time = w.current_time
        /\ task' \in Tasks /\ task'.at = "select" /\ task'.unsent = <<>>
<1>1. clock \in Nat /\ task.next_tick \in Nat /\ task.next_update \in Nat /\ task.now \in Nat
  BY TypeFacts, TaskFacts
<1>2. task.now + UpdatePeriod \in Nat
  BY <1>1, TaskAssumption
<1>3. CASE task.now >= task.next_update
  <2>1. LoopTop(w, clock, task.now + UpdatePeriod)
    BY <1>3 DEF Handled, calculate_advance_interval
  <2> QED BY <2>1, <1>1, <1>2, LoopTopIs
<1>4. CASE ~ (task.now >= task.next_update)
  <2>1. LoopTop(w, task.next_tick, task.next_update)
    BY <1>4 DEF Handled
  <2> QED BY <2>1, <1>1, LoopTopIs
<1> QED BY <1>3, <1>4

----------------------------------------------------------------------------
(* What the inductive invariant says.                                      *)

LEMMA SafeCancels ==
  ASSUME TaskSafe, NEW i \in TimerId, Cancels(i)
  PROVE i \in spawned \/ CancelsIn(command_rx, i)
<1>1. DOMAIN command_rx = 1 .. Len(command_rx)
  <2>1. command_rx \in Seq(Command)
    BY TypeFacts DEF TaskSafe
  <2> QED BY <2>1
<1> QED BY <1>1 DEF Cancels, CancelsIn, CancelsBy

LEMMA SafeWheel ==
  ASSUME TaskSafe
  PROVE WheelConsistent /\ WheelTurned /\ CacheNotLate
<1> DEFINE w == timing_wheel
<1>1. w \in Wheel /\ Good(w, clock) /\ (task.at = "select" => Full(w))
  BY TypeFacts DEF TaskSafe
<1>2. Sound(w) /\ Turns(w, clock) /\ Ahead(w) /\ Early(w)
  BY <1>1 DEF Good
<1>3. w.slots \in Slots /\ w.timer_map \in Index /\ Placed(w.slots, w.timer_map) /\ InSlot(w.slots)
  BY <1>1, <1>2, WheelFields DEF Sound
<1>4. Entries(w) = Stored(w.slots)
  BY <1>1, EntriesAre
<1> HIDE DEF w
<1>5. \A s \in Slot : DOMAIN w.slots[s] = 1 .. Len(w.slots[s])
  BY <1>3, SlotFacts
<1>6. ASSUME NEW s \in Slot, NEW p \in DOMAIN w.slots[s]
      PROVE LET e == w.slots[s][p] IN
            /\ w.timer_map[e.id] = <<s, p>>
            /\ s = calculate_slot_index(e.expiry)
            /\ e.expiry >= w.current_time
  <2>1. p \in 1 .. Len(w.slots[s])
    BY <1>5
  <2>2. w.timer_map[w.slots[s][p].id] = <<s, p>> /\ s = calculate_slot_index(w.slots[s][p].expiry)
    BY <2>1, <1>3 DEF Placed, InSlot
  <2>3. w.slots[s][p] \in Stored(w.slots)
    BY <2>1, <1>3, AtPlace
  <2>4. w.slots[s][p].expiry >= w.current_time
    BY <2>3, <1>2 DEF Ahead
  <2> QED BY <2>2, <2>4
<1>7. ASSUME NEW i \in TimerId, w.timer_map[i] # None
      PROVE /\ w.timer_map[i][2] \in DOMAIN w.slots[w.timer_map[i][1]]
            /\ w.slots[w.timer_map[i][1]][w.timer_map[i][2]].id = i
  <2>1. w.timer_map[i][1] \in Slot
    BY <1>3, <1>7, IndexFacts
  <2>2. /\ w.timer_map[i][2] \in 1 .. Len(w.slots[w.timer_map[i][1]])
        /\ w.slots[w.timer_map[i][1]][w.timer_map[i][2]].id = i
    BY <1>3, <1>7 DEF Placed
  <2> QED BY <2>1, <2>2, <1>5
<1>8. WheelConsistent
  BY <1>6, <1>7 DEF WheelConsistent, w
<1>9. WheelTurned
  BY <1>2 DEF WheelTurned, Turns, w
<1>10. CacheNotLate
  BY <1>1, <1>2, <1>4 DEF CacheNotLate, Early, Full, w
<1> QED BY <1>8, <1>9, <1>10

\* The parts of the invariant, with the types they rest on.
LEMMA SafeParts ==
  ASSUME TaskSafe
  PROVE /\ Sound(timing_wheel) /\ Entries(timing_wheel) = Live
        /\ \A i \in TimerId : timing_wheel.timer_map[i] # None <=> \E x \in Live : x.id = i
        /\ Live \in SUBSET TimerEntry
        /\ \A x, y \in Live : x.id = y.id => x = y
        /\ DOMAIN command_rx = 1 .. Len(command_rx) /\ DOMAIN task.unsent = 1 .. Len(task.unsent)
        /\ \A c \in Conn : DOMAIN timeout_rx[c] = 1 .. Len(timeout_rx[c])
        /\ \A i \in TimerId : i \in Nat
        /\ timing_wheel.next_entry_id \in Nat
<1>1. TTypeOK /\ Sound(timing_wheel)
  BY DEF TaskSafe, Good
<1>2. Entries(timing_wheel) = Live
  BY <1>1, EntriesAre, TypeFacts DEF Live
<1>3. \A i \in TimerId : timing_wheel.timer_map[i] # None <=> \E x \in Live : x.id = i
  BY <1>1, OnHeld DEF Live
<1>4. Live \in SUBSET TimerEntry
  BY DEF Live, Stored
<1>5. \A x, y \in Live : x.id = y.id => x = y
  <2>1. timing_wheel.slots \in Slots /\ timing_wheel.timer_map \in Index
        /\ Placed(timing_wheel.slots, timing_wheel.timer_map)
    BY <1>1, WheelFields, TypeFacts DEF Sound
  <2> QED BY <2>1, OnIndex DEF Live
<1>6. DOMAIN command_rx = 1 .. Len(command_rx)
  <2>1. command_rx \in Seq(Command)
    BY <1>1, TypeFacts
  <2> QED BY <2>1
<1>7. DOMAIN task.unsent = 1 .. Len(task.unsent)
  BY <1>1, TypeFacts, TaskFacts
<1>8. \A c \in Conn : DOMAIN timeout_rx[c] = 1 .. Len(timeout_rx[c])
  BY <1>1, TypeFacts, ChannelFacts
<1>9. \A i \in TimerId : i \in Nat
  BY Constants
<1> QED BY <1>1, <1>2, <1>3, <1>4, <1>5, <1>6, <1>7, <1>8, <1>9, TypeFacts

LEMMA SafeIds ==
  ASSUME TaskSafe
  PROVE IdsKnown /\ OwnersAgree
<1>1. /\ Owned(entry_to_connection, connection_timers, Live)
      /\ Known(timer, Live, timing_wheel.next_entry_id)
      /\ Counted(stats, timer, task.at)
      /\ task.at # "stopped" => Room(command_rx, timing_wheel.next_entry_id)
      /\ TTypeOK
  BY DEF TaskSafe
<1>2. /\ Sound(timing_wheel) /\ Entries(timing_wheel) = Live
      /\ \A i \in TimerId : timing_wheel.timer_map[i] # None <=> \E x \in Live : x.id = i
      /\ DOMAIN command_rx = 1 .. Len(command_rx)
      /\ timing_wheel.next_entry_id \in Nat /\ Live \in SUBSET TimerEntry
      /\ \A i \in TimerId : i \in Nat
  BY SafeParts
<1>3. ~Stopped => Created + InFlight <= MaxCreated
  <2>1. InFlight = Cardinality(Wish(command_rx))
    BY <1>2 DEF InFlight, Wish
  <2>2. Cardinality(Wish(command_rx)) \in Nat
    BY <1>1, TypeFacts, WishFinite
  <2>3. MaxCreated \in Nat
    BY TaskAssumption, Constants
  <2>4. Stopped <=> task.at = "stopped"
    BY DEF Stopped
  <2> QED BY <2>1, <2>2, <2>3, <2>4, <1>1, <1>2 DEF Room, Created
<1>4. ASSUME NEW i \in TimerId
      PROVE /\ timer[i].state = "unused" <=> i > Created
            /\ timer[i].state = "live" <=> timing_wheel.timer_map[i] # None
  <2>1. i > Created <=> i >= timing_wheel.next_entry_id
    BY <1>2 DEF Created
  <2> QED BY <2>1, <1>1, <1>2 DEF Known
<1>5. \A e \in Entries(timing_wheel) : entry_to_connection[e.id] = e.conn
  BY <1>1, <1>2 DEF Owned
<1>6. /\ stats.cancelled = Cardinality({i \in TimerId : timer[i].state = "cancelled"})
      /\ task.at = "select" =>
           stats.processed = Cardinality({i \in TimerId : timer[i].state = "fired"})
  BY <1>1 DEF Counted, With
<1>7. IdsKnown
  BY <1>3, <1>4, <1>5, <1>6 DEF IdsKnown
<1>8. ASSUME NEW i \in TimerId
      PROVE /\ entry_to_connection[i] # None <=> timing_wheel.timer_map[i] # None
            /\ \A c \in Conn : i \in connection_timers[c] <=> entry_to_connection[i] = c
  <2>1. \A x \in Live : entry_to_connection[x.id] # None
    <3>1. \A x \in Live : x.conn # None
      BY <1>2, EntryFields, WheelAssumption
    <3> QED BY <3>1, <1>1 DEF Owned
  <2> QED BY <2>1, <1>1, <1>2 DEF Owned
<1>9. ASSUME task.at = "select"
      PROVE /\ Created = timer_count(timing_wheel) + stats.processed + stats.cancelled
            /\ wheel_stats(timing_wheel).total_timers = timer_count(timing_wheel)
  <2>1. timing_wheel.next_entry_id - 1 =
          timer_count(timing_wheel) + Cardinality(With(timer, "fired")) + Cardinality(With(timer, "cancelled"))
    BY <1>1, <1>2, TypeFacts, AllCounted DEF Live
  <2>2. stats.cancelled = Cardinality(With(timer, "cancelled"))
        /\ stats.processed = Cardinality(With(timer, "fired"))
    BY <1>1, <1>9 DEF Counted
  <2>3. wheel_stats(timing_wheel).total_timers = timer_count(timing_wheel)
    BY <1>2, TotalIs
  <2> QED BY <2>1, <2>2, <2>3 DEF Created
<1>10. OwnersAgree
  BY <1>8, <1>9 DEF OwnersAgree
<1> QED BY <1>7, <1>10

LEMMA RangeIs ==
  ASSUME NEW q, DOMAIN q = 1 .. Len(q)
  PROVE \A e : e \in Range(q) <=> \E n \in 1 .. Len(q) : q[n] = e
  BY DEF Range

LEMMA SafeEvents ==
  ASSUME TaskSafe
  PROVE EventsKnown /\ CancelledNeverFires
<1>1. /\ Known(timer, Live, timing_wheel.next_entry_id)
      /\ Noted(timeout_rx, task.unsent, timer)
      /\ task.at # "trigger" => task.unsent = <<>>
  BY DEF TaskSafe
<1>2. /\ Entries(timing_wheel) = Live /\ Live \in SUBSET TimerEntry
      /\ DOMAIN task.unsent = 1 .. Len(task.unsent)
      /\ \A c \in Conn : DOMAIN timeout_rx[c] = 1 .. Len(timeout_rx[c])
  BY SafeParts
<1>3. ASSUME NEW n \in DOMAIN task.unsent
      PROVE /\ timer[task.unsent[n].id].state = "fired"
            /\ \A m \in DOMAIN task.unsent : task.unsent[m].id = task.unsent[n].id => m = n
            /\ \A c \in Conn : \A e \in Range(timeout_rx[c]) : e.id # task.unsent[n].id
  <2>1. n \in 1 .. Len(task.unsent)
    BY <1>2
  <2>2. ASSUME NEW c \in Conn, NEW e \in Range(timeout_rx[c]) PROVE e.id # task.unsent[n].id
    <3>1. PICK m \in 1 .. Len(timeout_rx[c]) : timeout_rx[c][m] = e
      BY <1>2, RangeIs
    <3> QED BY <3>1, <2>1, <1>1 DEF Noted
  <2>3. /\ timer[task.unsent[n].id].state = "fired"
        /\ \A m \in DOMAIN task.unsent : task.unsent[m].id = task.unsent[n].id => m = n
    BY <2>1, <1>1, <1>2 DEF Noted
  <2> QED BY <2>2, <2>3
<1>4. EventsKnown
  BY <1>1, <1>3 DEF EventsKnown
<1>5. \A e \in Entries(timing_wheel) : timer[e.id].state = "live"
  BY <1>1, <1>2, EntryFields DEF Known
<1>6. \A c \in Conn : \A n \in DOMAIN timeout_rx[c] :
       /\ timer[timeout_rx[c][n].id].state = "fired"
       /\ \A m \in DOMAIN timeout_rx[c] :
            timeout_rx[c][m].id = timeout_rx[c][n].id => m = n
  BY <1>1, <1>2 DEF Noted
<1> QED BY <1>4, <1>5, <1>6 DEF CancelledNeverFires

LEMMA SafeHandles ==
  ASSUME TaskSafe
  PROVE HandlesKnown /\ HandleNotDangling /\ CallersWait
<1>1. /\ Known(timer, Live, timing_wheel.next_entry_id)
      /\ HandlesApart(manager, timing_wheel.next_entry_id)
      /\ HandlesMatch(manager, Live, timeout_rx, task.unsent)
      /\ HandlesUseful(manager, Live, timeout_rx, task.unsent)
      /\ HandlesFree(manager, command_rx, spawned, timing_wheel.next_entry_id)
      /\ ClearsEnded(command_rx, manager)
      /\ task.at # "stopped" => Waits(command_rx, manager)
      /\ manager \in Managers
  BY TypeFacts DEF TaskSafe
<1>2. /\ Entries(timing_wheel) = Live /\ Live \in SUBSET TimerEntry
      /\ DOMAIN command_rx = 1 .. Len(command_rx) /\ DOMAIN task.unsent = 1 .. Len(task.unsent)
      /\ \A c \in Conn : DOMAIN timeout_rx[c] = 1 .. Len(timeout_rx[c])
      /\ \A i \in TimerId : i \in Nat
      /\ timing_wheel.next_entry_id \in Nat
  BY SafeParts
<1>3. \A i \in TimerId : i < timing_wheel.next_entry_id <=> i <= Created
  BY <1>2 DEF Created
<1>4. ASSUME NEW c \in Conn, NEW k \in Kind, manager[c].active[k] # None
      PROVE LET i == manager[c].active[k] IN
            /\ i <= Created /\ ~Cancels(i)
            /\ \A d \in Conn, l \in Kind : manager[d].active[l] = i => d = c /\ l = k
            /\ \A e \in Entries(timing_wheel) \cup Range(task.unsent) :
                 e.id = i => e.conn = c /\ e.kind = k
            /\ \A d \in Conn : \A e \in Range(timeout_rx[d]) : e.id = i => e.kind = k
  <2> DEFINE i == manager[c].active[k]
  <2>1. i \in TimerId
    BY <1>1, <1>4, ManagerFacts
  <2>2. i <= Created /\ \A d \in Conn, l \in Kind : manager[d].active[l] = i => d = c /\ l = k
    BY <2>1, <1>1, <1>3, <1>4 DEF HandlesApart
  <2>3. ~Cancels(i)
    <3>1. ASSUME Cancels(i) PROVE FALSE
      <4>1. i \in spawned \/ CancelsIn(command_rx, i)
        BY <3>1, <2>1, SafeCancels
      <4> QED BY <4>1, <2>1, <1>1 DEF HandlesFree
    <3> QED BY <3>1
  <2>4. /\ \A x \in Live : x.id = i => x.conn = c /\ x.kind = k
        /\ \A n \in 1 .. Len(task.unsent) : task.unsent[n].id = i => task.unsent[n].conn = c /\ task.unsent[n].kind = k
        /\ \A d \in Conn : \A n \in 1 .. Len(timeout_rx[d]) : timeout_rx[d][n].id = i => timeout_rx[d][n].kind = k
    BY <1>1, <1>4 DEF HandlesMatch
  <2> HIDE DEF i
  <2>5. ASSUME NEW e \in Entries(timing_wheel) \cup Range(task.unsent), e.id = i
        PROVE e.conn = c /\ e.kind = k
    <3>1. e \in Live \/ \E n \in 1 .. Len(task.unsent) : task.unsent[n] = e
      BY <1>2, RangeIs
    <3> QED BY <3>1, <2>4, <2>5
  <2>6. ASSUME NEW d \in Conn, NEW e \in Range(timeout_rx[d]), e.id = i PROVE e.kind = k
    <3>1. PICK n \in 1 .. Len(timeout_rx[d]) : timeout_rx[d][n] = e
      BY <1>2, RangeIs
    <3> QED BY <3>1, <2>4, <2>6
  <2> QED BY <2>2, <2>3, <2>5, <2>6 DEF i
<1>5. HandlesKnown
  BY <1>4 DEF HandlesKnown
<1>6. ASSUME NEW c \in Conn, NEW k \in Kind, manager[c].active[k] # None, manager[c].at # "ended"
      PROVE LET i == manager[c].active[k] IN
            \/ timer[i].state = "live"
            \/ \E e \in Range(timeout_rx[c]) \cup Range(task.unsent) : e.id = i
  <2> DEFINE i == manager[c].active[k]
  <2>1. i \in TimerId
    BY <1>1, <1>6, ManagerFacts
  <2>2. \/ \E x \in Live : x.id = i
        \/ \E n \in 1 .. Len(timeout_rx[c]) : timeout_rx[c][n].id = i
        \/ \E n \in 1 .. Len(task.unsent) : task.unsent[n].id = i
    BY <1>1, <1>6 DEF HandlesUseful
  <2>3. (\E x \in Live : x.id = i) => timer[i].state = "live"
    BY <2>1, <1>1 DEF Known
  <2>4. \A n \in 1 .. Len(timeout_rx[c]) : timeout_rx[c][n] \in Range(timeout_rx[c])
    BY <1>2, RangeIs
  <2>5. \A n \in 1 .. Len(task.unsent) : task.unsent[n] \in Range(task.unsent)
    BY <1>2, RangeIs
  <2> QED BY <2>2, <2>3, <2>4, <2>5
<1>7. HandleNotDangling
  BY <1>6 DEF HandleNotDangling
<1>8. \A i \in TimerId : Cancels(i) => i <= Created
  BY <1>1, <1>3, SafeCancels DEF HandlesFree
<1>9. \A n \in DOMAIN command_rx :
       /\ command_rx[n].op = "clear" => manager[command_rx[n].conn].at = "ended"
       /\ ~Stopped /\ Caller(command_rx[n]) # None =>
            /\ manager[Caller(command_rx[n])].at = "wait"
            /\ \A m \in DOMAIN command_rx :
                 Caller(command_rx[m]) = Caller(command_rx[n]) => m = n
  BY <1>1, <1>2 DEF ClearsEnded, Waits, Stopped
<1>10. CallersWait
  BY <1>8, <1>9 DEF CallersWait
<1> QED BY <1>5, <1>7, <1>10

LEMMA SafeIsInv ==
  ASSUME TaskSafe
  PROVE TInv /\ CancelledNeverFires
<1>1. TTypeOK
  BY DEF TaskSafe
<1> QED BY <1>1, SafeWheel, SafeIds, SafeEvents, SafeHandles DEF TInv

----------------------------------------------------------------------------
(* The command channel and the handles.                                    *)

LEMMA CommandFacts ==
  ASSUME NEW cmd \in Command
  PROVE /\ cmd.op \in {"register", "cancel", "batch_register", "batch_cancel", "clear", "shutdown"}
        /\ cmd.op = "register" => cmd.conn \in Conn /\ cmd.kind \in Kind /\ cmd.delay \in Delay
        /\ cmd.op = "cancel" => cmd.id \in TimerId /\ cmd.waiter \in Conn \cup {None}
        /\ cmd.op = "batch_register" => cmd.conn \in Conn /\ cmd.batch \in Batch
        /\ cmd.op = "batch_cancel" => cmd.ids \in SUBSET TimerId
        /\ cmd.op = "clear" => cmd.conn \in Conn
        /\ Caller(cmd) \in Conn \cup {None}
<1>1. CASE cmd \in [op : {"register"}, conn : Conn, kind : Kind, delay : Delay]
  BY <1>1 DEF Caller
<1>2. CASE cmd \in [op : {"cancel"}, id : TimerId, waiter : Conn \cup {None}]
  BY <1>2 DEF Caller
<1>3. CASE cmd \in [op : {"batch_register"}, conn : Conn, batch : Batch]
  BY <1>3 DEF Caller
<1>4. CASE cmd \in [op : {"batch_cancel"}, ids : SUBSET TimerId]
  BY <1>4 DEF Caller
<1>5. CASE cmd \in [op : {"clear"}, conn : Conn]
  BY <1>5 DEF Caller
<1>6. CASE cmd \in [op : {"shutdown"}]
  BY <1>6 DEF Caller
<1> QED BY <1>1, <1>2, <1>3, <1>4, <1>5, <1>6 DEF Command

\* A command is sent.
LEMMA QueueMore ==
  ASSUME NEW q \in Seq(Command), NEW cmd \in Command, NEW q2, q2 = Append(q, cmd), NEW m
  PROVE /\ q2 \in Seq(Command)
        /\ \A i : CancelsIn(q2, i) <=> CancelsIn(q, i) \/ CancelsBy(cmd, i)
        /\ ClearsEnded(q, m) /\ (cmd.op = "clear" => m[cmd.conn].at = "ended") => ClearsEnded(q2, m)
        /\ Waits(q, m) /\ Caller(cmd) = None => Waits(q2, m)
<1> DEFINE L == Len(q)
<1>1. /\ q2 \in Seq(Command) /\ L \in Nat /\ Len(q2) = L + 1
      /\ \A n \in 1 .. L : q2[n] = q[n]
      /\ q2[L + 1] = cmd
  BY AppendIs
<1>2. /\ \A n \in 1 .. Len(q2) : n \in 1 .. L \/ n = L + 1
      /\ \A n \in 1 .. L : n \in 1 .. Len(q2)
      /\ L + 1 \in 1 .. Len(q2)
  BY <1>1
<1> HIDE DEF L
<1>3. ASSUME NEW i PROVE CancelsIn(q2, i) <=> CancelsIn(q, i) \/ CancelsBy(cmd, i)
  <2>1. CancelsIn(q, i) <=> \E n \in 1 .. L : CancelsBy(q[n], i)
    BY DEF CancelsIn, L
  <2>2. CancelsIn(q2, i) <=> \E n \in 1 .. Len(q2) : CancelsBy(q2[n], i)
    BY DEF CancelsIn
  <2> QED BY <2>1, <2>2, <1>1, <1>2
<1>4. ASSUME ClearsEnded(q, m), cmd.op = "clear" => m[cmd.conn].at = "ended" PROVE ClearsEnded(q2, m)
  <2>1. \A n \in 1 .. L : q[n].op = "clear" => m[q[n].conn].at = "ended"
    BY <1>4 DEF ClearsEnded, L
  <2> QED BY <2>1, <1>1, <1>2, <1>4 DEF ClearsEnded
<1>5. ASSUME Waits(q, m), Caller(cmd) = None PROVE Waits(q2, m)
  <2>1. \A n \in 1 .. L : Caller(q[n]) # None =>
           /\ m[Caller(q[n])].at = "wait"
           /\ \A j \in 1 .. L : Caller(q[j]) = Caller(q[n]) => j = n
    BY <1>5 DEF Waits, L
  <2>2. ASSUME NEW n \in 1 .. Len(q2), Caller(q2[n]) # None
        PROVE /\ m[Caller(q2[n])].at = "wait"
              /\ \A j \in 1 .. Len(q2) : Caller(q2[j]) = Caller(q2[n]) => j = n
    <3>1. n \in 1 .. L /\ q2[n] = q[n]
      BY <1>1, <1>2, <1>5, <2>2
    <3>2. ASSUME NEW j \in 1 .. Len(q2), Caller(q2[j]) = Caller(q2[n]) PROVE j = n
      <4>1. j \in 1 .. L /\ q2[j] = q[j]
        BY <1>1, <1>2, <1>5, <2>2, <3>2
      <4> QED BY <4>1, <3>1, <3>2, <2>1, <2>2
    <3> QED BY <3>1, <3>2, <2>1, <2>2
  <2> QED BY <2>2 DEF Waits
<1> QED BY <1>1, <1>3, <1>4, <1>5

\* Its caller waits from then on.
LEMMA WaitsMore ==
  ASSUME NEW q \in Seq(Command), NEW cmd \in Command, NEW m, NEW m2,
         Waits(q, m), Caller(cmd) \in Conn, m[Caller(cmd)].at = "run", m2[Caller(cmd)].at = "wait",
         \A d \in Conn : d # Caller(cmd) => m2[d].at = m[d].at
  PROVE Waits(Append(q, cmd), m2)
<1> DEFINE L == Len(q)
           c == Caller(cmd)
           q2 == Append(q, cmd)
<1>1. /\ q2 \in Seq(Command) /\ L \in Nat /\ Len(q2) = L + 1
      /\ \A n \in 1 .. L : q2[n] = q[n]
      /\ q2[L + 1] = cmd
  BY AppendIs
<1>2. /\ \A n \in 1 .. Len(q2) : n \in 1 .. L \/ n = L + 1
      /\ \A n \in 1 .. L : n \in 1 .. Len(q2)
      /\ L + 1 \in 1 .. Len(q2)
  BY <1>1
<1>3. \A n \in 1 .. L : Caller(q[n]) \in Conn \cup {None}
  BY CommandFacts
<1>4. \A n \in 1 .. L : Caller(q[n]) # None =>
         /\ m[Caller(q[n])].at = "wait"
         /\ \A j \in 1 .. L : Caller(q[j]) = Caller(q[n]) => j = n
  BY DEF Waits
<1>c. c \in Conn /\ m[c].at = "run" /\ m2[c].at = "wait" /\ (\A d \in Conn : d # c => m2[d].at = m[d].at)
      /\ Caller(cmd) = c
  OBVIOUS
<1> HIDE DEF L, c, q2
<1>5. \A n \in 1 .. L : Caller(q[n]) # c
  <2>1. c # None
    BY <1>c, WheelAssumption
  <2> QED BY <1>c, <1>4, <2>1
<1>6. ASSUME NEW n \in 1 .. Len(q2), Caller(q2[n]) # None
      PROVE /\ m2[Caller(q2[n])].at = "wait"
            /\ \A j \in 1 .. Len(q2) : Caller(q2[j]) = Caller(q2[n]) => j = n
  <2>1. CASE n \in 1 .. L
    <3>1. q2[n] = q[n] /\ Caller(q[n]) # c /\ Caller(q[n]) \in Conn
      BY <2>1, <1>1, <1>3, <1>5, <1>6
    <3>2. m2[Caller(q2[n])].at = "wait"
      BY <1>c, <3>1, <2>1, <1>4, <1>6
    <3>3. ASSUME NEW j \in 1 .. Len(q2), Caller(q2[j]) = Caller(q2[n]) PROVE j = n
      <4>1. j \in 1 .. L /\ q2[j] = q[j]
        BY <1>c, <1>1, <1>2, <3>1, <3>3
      <4> QED BY <4>1, <3>1, <3>3, <2>1, <1>4, <1>6
    <3> QED BY <3>2, <3>3
  <2>2. CASE n = L + 1
    <3>1. Caller(q2[n]) = c
      BY <1>c, <2>2, <1>1
    <3>2. ASSUME NEW j \in 1 .. Len(q2), Caller(q2[j]) = Caller(q2[n]) PROVE j = n
      BY <3>1, <3>2, <2>2, <1>1, <1>2, <1>5
    <3> QED BY <1>c, <3>1, <3>2
  <2> QED BY <2>1, <2>2, <1>2
<1>7. Waits(q2, m2)
  BY <1>6 DEF Waits
<1> QED BY <1>7 DEF q2

\* A command is taken.
LEMMA QueueLess ==
  ASSUME NEW q \in Seq(Command), q # <<>>, NEW m
  PROVE /\ Tail(q) \in Seq(Command) /\ Head(q) \in Command
        /\ \A i : CancelsIn(Tail(q), i) => CancelsIn(q, i)
        /\ \A i : CancelsBy(Head(q), i) => CancelsIn(q, i)
        /\ ClearsEnded(q, m) => ClearsEnded(Tail(q), m) /\ (Head(q).op = "clear" => m[Head(q).conn].at = "ended")
        /\ Waits(q, m) => Waits(Tail(q), m)
        /\ Waits(q, m) /\ Caller(Head(q)) # None => m[Caller(Head(q))].at = "wait"
        /\ Waits(q, m) => \A n \in 1 .. Len(Tail(q)) : Caller(Tail(q)[n]) # None => Caller(Tail(q)[n]) # Caller(Head(q))
<1> DEFINE t == Tail(q)
<1>1. /\ Head(q) = q[1] /\ Head(q) \in Command /\ t \in Seq(Command)
      /\ Len(q) \in Nat /\ Len(q) # 0 /\ Len(t) = Len(q) - 1
      /\ \A n \in 1 .. Len(q) - 1 : t[n] = q[n + 1]
  BY TailIs
<1> HIDE DEF t
<1>2. \A n \in 1 .. Len(t) : n + 1 \in 1 .. Len(q) /\ t[n] = q[n + 1] /\ n + 1 # 1
  BY <1>1
<1>3. 1 \in 1 .. Len(q)
  BY <1>1
<1>4. ASSUME NEW i PROVE (CancelsIn(t, i) => CancelsIn(q, i)) /\ (CancelsBy(Head(q), i) => CancelsIn(q, i))
  BY <1>1, <1>2, <1>3 DEF CancelsIn
<1>5. ASSUME ClearsEnded(q, m)
      PROVE ClearsEnded(t, m) /\ (Head(q).op = "clear" => m[Head(q).conn].at = "ended")
  BY <1>1, <1>2, <1>3, <1>5 DEF ClearsEnded
<1>6. ASSUME Waits(q, m)
      PROVE /\ Waits(t, m)
            /\ Caller(Head(q)) # None => m[Caller(Head(q))].at = "wait"
            /\ \A n \in 1 .. Len(t) : Caller(t[n]) # None => Caller(t[n]) # Caller(Head(q))
  <2>1. \A n \in 1 .. Len(q) : Caller(q[n]) # None =>
           /\ m[Caller(q[n])].at = "wait"
           /\ \A j \in 1 .. Len(q) : Caller(q[j]) = Caller(q[n]) => j = n
    BY <1>6 DEF Waits
  <2>2. ASSUME NEW n \in 1 .. Len(t), Caller(t[n]) # None
        PROVE /\ m[Caller(t[n])].at = "wait"
              /\ \A j \in 1 .. Len(t) : Caller(t[j]) = Caller(t[n]) => j = n
              /\ Caller(t[n]) # Caller(Head(q))
    <3>1. n + 1 \in 1 .. Len(q) /\ t[n] = q[n + 1] /\ n + 1 # 1 /\ Caller(q[n + 1]) # None
      BY <1>2, <2>2
    <3>2. ASSUME NEW j \in 1 .. Len(t), Caller(t[j]) = Caller(t[n]) PROVE j = n
      <4>1. j + 1 \in 1 .. Len(q) /\ t[j] = q[j + 1]
        BY <1>2
      <4>2. j + 1 = n + 1
        BY <4>1, <3>1, <3>2, <2>1
      <4> QED BY <4>2
    <3>3. m[Caller(t[n])].at = "wait" /\ Caller(t[n]) # Caller(Head(q))
      BY <3>1, <2>1, <1>1, <1>3
    <3> QED BY <3>2, <3>3
  <2>3. Caller(Head(q)) # None => m[Caller(Head(q))].at = "wait"
    BY <2>1, <1>1, <1>3
  <2> QED BY <2>2, <2>3 DEF Waits
<1> QED BY <1>1, <1>4, <1>5, <1>6 DEF t

\* Callers and cleared connections after a change of the managers.
LEMMA QueueKept ==
  ASSUME NEW q \in Seq(Command), NEW m, NEW m2
  PROVE /\ ClearsEnded(q, m) /\ (\A d \in Conn : m[d].at = "ended" => m2[d].at = "ended") => ClearsEnded(q, m2)
        /\ Waits(q, m) /\ (\A d \in Conn : m[d].at = "wait" => m2[d].at = "wait") => Waits(q, m2)
        /\ \A c \in Conn : /\ Waits(q, m) /\ (\A d \in Conn : d # c => m2[d].at = m[d].at)
                           /\ (\A n \in 1 .. Len(q) : Caller(q[n]) # None => Caller(q[n]) # c)
                           => Waits(q, m2)
<1>1. \A n \in 1 .. Len(q) : q[n].op = "clear" => q[n].conn \in Conn
  BY CommandFacts
<1>2. \A n \in 1 .. Len(q) : Caller(q[n]) \in Conn \cup {None}
  BY CommandFacts
<1>3. ClearsEnded(q, m) /\ (\A d \in Conn : m[d].at = "ended" => m2[d].at = "ended") => ClearsEnded(q, m2)
  BY <1>1 DEF ClearsEnded
<1>4. Waits(q, m) /\ (\A d \in Conn : m[d].at = "wait" => m2[d].at = "wait") => Waits(q, m2)
  BY <1>2 DEF Waits
<1>5. ASSUME NEW c \in Conn, Waits(q, m), \A d \in Conn : d # c => m2[d].at = m[d].at,
             \A n \in 1 .. Len(q) : Caller(q[n]) # None => Caller(q[n]) # c
      PROVE Waits(q, m2)
  <2>1. ASSUME NEW n \in 1 .. Len(q), Caller(q[n]) # None
        PROVE /\ m2[Caller(q[n])].at = "wait"
              /\ \A j \in 1 .. Len(q) : Caller(q[j]) = Caller(q[n]) => j = n
    BY <1>2, <1>5, <2>1 DEF Waits
  <2> QED BY <2>1 DEF Waits
<1> QED BY <1>3, <1>4, <1>5

\* Handles are only dropped, and no endpoint comes back.
Fewer(m2, m) ==
  /\ \A d \in Conn, l \in Kind : m2[d].active[l] \in {m[d].active[l], None}
  /\ \A d \in Conn : m2[d].at # "ended" => m[d].at # "ended"

LEMMA FewerHandles ==
  ASSUME NEW m, NEW m2, Fewer(m2, m), NEW next, NEW X, NEW rx, NEW u, NEW q, NEW sp
  PROVE /\ HandlesApart(m, next) => HandlesApart(m2, next)
        /\ HandlesMatch(m, X, rx, u) => HandlesMatch(m2, X, rx, u)
        /\ HandlesUseful(m, X, rx, u) => HandlesUseful(m2, X, rx, u)
        /\ HandlesFree(m, q, sp, next) => HandlesFree(m2, q, sp, next)
<1>1. \A d \in Conn, l \in Kind : m2[d].active[l] # None => m2[d].active[l] = m[d].active[l]
  BY DEF Fewer
<1>2. HandlesApart(m, next) => HandlesApart(m2, next)
  BY <1>1 DEF HandlesApart
<1>3. HandlesMatch(m, X, rx, u) => HandlesMatch(m2, X, rx, u)
  BY <1>1 DEF HandlesMatch
<1>4. ASSUME HandlesUseful(m, X, rx, u) PROVE HandlesUseful(m2, X, rx, u)
  <2> SUFFICES ASSUME NEW c \in Conn, NEW k \in Kind, m2[c].active[k] # None, m2[c].at # "ended"
               PROVE \/ \E x \in X : x.id = m2[c].active[k]
                     \/ \E n \in 1 .. Len(rx[c]) : rx[c][n].id = m2[c].active[k]
                     \/ \E n \in 1 .. Len(u) : u[n].id = m2[c].active[k]
    BY DEF HandlesUseful
  <2>1. m2[c].active[k] = m[c].active[k] /\ m[c].at # "ended"
    BY <1>1 DEF Fewer
  <2> QED BY <2>1, <1>4 DEF HandlesUseful
<1>5. ASSUME HandlesFree(m, q, sp, next) PROVE HandlesFree(m2, q, sp, next)
  <2>1. \A i \in TimerId : i # None
    BY Constants
  <2> QED BY <1>1, <1>5, <2>1 DEF HandlesFree
<1> QED BY <1>2, <1>3, <1>4, <1>5

Readied(m, c, a) == [m EXCEPT ![c].at = a]
Dropped(m, c, k) == [m EXCEPT ![c].at = "wait", ![c].active[k] = None]
Given(m, c, k, i) == [m EXCEPT ![c].at = "run", ![c].active[k] = i]

LEMMA ReadiedIs ==
  ASSUME NEW m \in Managers, NEW c \in Conn, NEW a \in {"run", "wait", "ended"}
  PROVE /\ Readied(m, c, a) \in Managers /\ Readied(m, c, a)[c].at = a
        /\ \A d \in Conn : d # c => Readied(m, c, a)[d] = m[d]
        /\ \A d \in Conn : Readied(m, c, a)[d].active = m[d].active
  BY DEF Readied, Managers

LEMMA DroppedIs ==
  ASSUME NEW m \in Managers, NEW c \in Conn, NEW k \in Kind
  PROVE /\ Dropped(m, c, k) \in Managers /\ Dropped(m, c, k)[c].at = "wait"
        /\ \A d \in Conn : d # c => Dropped(m, c, k)[d] = m[d]
        /\ Dropped(m, c, k)[c].active[k] = None
        /\ \A l \in Kind : l # k => Dropped(m, c, k)[c].active[l] = m[c].active[l]
  BY DEF Dropped, Managers

LEMMA GivenIs ==
  ASSUME NEW m \in Managers, NEW c \in Conn, NEW k \in Kind, NEW i \in TimerId
  PROVE /\ Given(m, c, k, i) \in Managers /\ Given(m, c, k, i)[c].at = "run"
        /\ \A d \in Conn : d # c => Given(m, c, k, i)[d] = m[d]
        /\ Given(m, c, k, i)[c].active[k] = i
        /\ \A l \in Kind : l # k => Given(m, c, k, i)[c].active[l] = m[c].active[l]
  BY DEF Given, Managers

\* New cancellations are of created timers without a handle.
LEMMA FreeKept ==
  ASSUME NEW m, NEW q, NEW sp, NEW next, HandlesFree(m, q, sp, next), NEW q2, NEW sp2,
         \A i \in TimerId : i \in sp2 \/ CancelsIn(q2, i) =>
           \/ i \in sp \/ CancelsIn(q, i)
           \/ i < next /\ \A c \in Conn, k \in Kind : m[c].active[k] # i
  PROVE HandlesFree(m, q2, sp2, next)
  BY DEF HandlesFree

----------------------------------------------------------------------------
(* The steps of the endpoints.                                             *)

\* What such a step leaves alone.
Aside == UNCHANGED <<clock, timing_wheel, owners, task, stats, timer>>

LEMMA AsideSafe ==
  ASSUME TaskSafe, Aside, command_rx' \in Seq(Command), manager' \in Managers, timeout_rx' \in Channels,
         spawned' \in SUBSET TimerId, Noted(timeout_rx', task.unsent, timer),
         HandlesApart(manager', timing_wheel.next_entry_id),
         HandlesMatch(manager', Live, timeout_rx', task.unsent),
         HandlesUseful(manager', Live, timeout_rx', task.unsent),
         HandlesFree(manager', command_rx', spawned', timing_wheel.next_entry_id),
         ClearsEnded(command_rx', manager'),
         task.at # "stopped" =>
           Waits(command_rx', manager') /\ Room(command_rx', timing_wheel.next_entry_id)
  PROVE TaskSafe'
<1>1. TTypeOK'
  BY DEF TaskSafe, TTypeOK, Aside, owners, Managers, Channels
<1>2. /\ timing_wheel' = timing_wheel /\ clock' = clock /\ task' = task /\ stats' = stats /\ timer' = timer
      /\ entry_to_connection' = entry_to_connection /\ connection_timers' = connection_timers
  BY DEF Aside, owners
<1>3. Live' = Live
  BY <1>2 DEF Live
<1>4. /\ Good(timing_wheel', clock') /\ (task'.at = "select" => Full(timing_wheel'))
      /\ Owned(entry_to_connection', connection_timers', Live')
      /\ Known(timer', Live', timing_wheel'.next_entry_id)
      /\ Counted(stats', timer', task'.at)
      /\ task'.at # "trigger" => task'.unsent = <<>>
      /\ OnTime(task', clock', timing_wheel'.current_time, Live', timer')
  BY <1>2, <1>3 DEF TaskSafe
<1> QED BY <1>1, <1>2, <1>3, <1>4 DEF TaskSafe

LEMMA SafeFacts ==
  ASSUME TaskSafe
  PROVE /\ command_rx \in Seq(Command) /\ manager \in Managers /\ timeout_rx \in Channels
        /\ spawned \in SUBSET TimerId /\ task \in Tasks /\ timer \in Fates
        /\ timing_wheel.next_entry_id \in Nat /\ MaxCreated \in Nat
        /\ Noted(timeout_rx, task.unsent, timer)
        /\ HandlesApart(manager, timing_wheel.next_entry_id)
        /\ HandlesMatch(manager, Live, timeout_rx, task.unsent)
        /\ HandlesUseful(manager, Live, timeout_rx, task.unsent)
        /\ HandlesFree(manager, command_rx, spawned, timing_wheel.next_entry_id)
        /\ ClearsEnded(command_rx, manager)
        /\ task.at # "stopped" =>
             Waits(command_rx, manager) /\ Room(command_rx, timing_wheel.next_entry_id)
<1>1. MaxCreated \in Nat
  BY TaskAssumption, Constants
<1> QED BY <1>1, TypeFacts DEF TaskSafe

LEMMA SendIs ==
  ASSUME TaskSafe, NEW cmd \in Command, Send(cmd),
         Wanted(cmd) = 0 \/ Created + InFlight + Wanted(cmd) <= MaxCreated
  PROVE /\ task.at # "stopped" /\ command_rx' = Append(command_rx, cmd)
        /\ Room(command_rx', timing_wheel.next_entry_id)
        /\ Waits(command_rx, manager) /\ command_rx \in Seq(Command)
<1>1. task.at # "stopped" /\ command_rx' = Append(command_rx, cmd)
  BY DEF Send, Stopped
<1>2. /\ command_rx \in Seq(Command) /\ timing_wheel.next_entry_id \in Nat /\ MaxCreated \in Nat
      /\ Waits(command_rx, manager) /\ Room(command_rx, timing_wheel.next_entry_id)
  BY <1>1, SafeFacts
<1>3. /\ Cardinality(Wish(command_rx')) = Cardinality(Wish(command_rx)) + Wanted(cmd)
      /\ Cardinality(Wish(command_rx)) \in Nat /\ Wanted(cmd) \in Nat
  BY <1>1, <1>2, WishAppend
<1>4. InFlight = Cardinality(Wish(command_rx))
  BY SafeParts DEF InFlight, Wish
<1>5. timing_wheel.next_entry_id + Cardinality(Wish(command_rx)) + Wanted(cmd) <= MaxCreated + 1
  <2>1. CASE Wanted(cmd) = 0
    BY <2>1, <1>2, <1>3 DEF Room
  <2>2. CASE Created + InFlight + Wanted(cmd) <= MaxCreated
    BY <2>2, <1>2, <1>3, <1>4 DEF Created
  <2> QED BY <2>1, <2>2
<1>6. Room(command_rx', timing_wheel.next_entry_id)
  BY <1>2, <1>3, <1>5 DEF Room
<1> QED BY <1>1, <1>2, <1>6

LEMMA SafeRegister ==
  ASSUME TaskSafe, NEW c \in Conn, NEW k \in Kind, NEW d \in Delay, register_timer(c, k, d)
  PROVE TaskSafe'
<1> DEFINE cmd == [op |-> "register", conn |-> c, kind |-> k, delay |-> d]
           m2 == Readied(manager, c, "wait")
<1>1. /\ cmd \in Command /\ Wanted(cmd) = 1 /\ Caller(cmd) = c /\ cmd.op # "clear"
      /\ \A i : ~CancelsBy(cmd, i)
  BY DEF Command, Wanted, Caller, CancelsBy
<1>2. /\ Send(cmd) /\ manager[c].at = "run" /\ Created + InFlight < MaxSingle /\ manager' = m2
      /\ timeout_rx' = timeout_rx /\ spawned' = spawned /\ Aside
  BY DEF register_timer, Running, Aside, Readied
<1> HIDE DEF cmd
<1>3. Created + InFlight + Wanted(cmd) <= MaxCreated
  <2>1. InFlight = Cardinality(Wish(command_rx)) /\ timing_wheel.next_entry_id \in Nat
    BY SafeParts DEF InFlight, Wish
  <2>2. InFlight \in Nat
    BY <2>1, SafeFacts, WishFinite
  <2>3. Created \in Int
    BY <2>1 DEF Created
  <2>4. MaxSingle \in Nat /\ MaxSingle <= MaxCreated /\ MaxCreated \in Nat
    BY TaskAssumption, Constants
  <2> QED BY <2>2, <2>3, <2>4, <1>1, <1>2
<1>4. /\ task.at # "stopped" /\ command_rx' = Append(command_rx, cmd)
      /\ Room(command_rx', timing_wheel.next_entry_id)
      /\ Waits(command_rx, manager) /\ command_rx \in Seq(Command)
  BY <1>1, <1>2, <1>3, SendIs
<1>5. /\ m2 \in Managers /\ m2[c].at = "wait" /\ \A e \in Conn : e # c => m2[e] = manager[e]
      /\ \A e \in Conn : m2[e].active = manager[e].active
  BY SafeFacts, ReadiedIs
<1> HIDE DEF m2
<1>6. /\ command_rx' \in Seq(Command)
      /\ \A i : CancelsIn(command_rx', i) <=> CancelsIn(command_rx, i)
      /\ ClearsEnded(command_rx, m2) => ClearsEnded(command_rx', m2)
  BY <1>1, <1>4, QueueMore
<1>7. Waits(command_rx', m2)
  <2>1. /\ command_rx \in Seq(Command) /\ cmd \in Command /\ command_rx' = Append(command_rx, cmd)
        /\ Caller(cmd) \in Conn /\ Waits(command_rx, manager)
        /\ manager[Caller(cmd)].at = "run" /\ m2[Caller(cmd)].at = "wait"
        /\ \A e \in Conn : e # Caller(cmd) => m2[e].at = manager[e].at
    BY <1>1, <1>2, <1>4, <1>5
  <2>2. Waits(Append(command_rx, cmd), m2)
    BY ONLY <2>1, WaitsMore
  <2> QED BY <2>1, <2>2
<1>8. ClearsEnded(command_rx', m2)
  <2>1. \A e \in Conn : manager[e].at = "ended" => m2[e].at = "ended"
    BY <1>2, <1>5
  <2>2. ClearsEnded(command_rx, m2)
    BY <2>1, <1>4, QueueKept, SafeFacts
  <2> QED BY <2>2, <1>6
<1>9. Fewer(m2, manager)
  BY <1>2, <1>5 DEF Fewer
<1>10. /\ HandlesApart(m2, timing_wheel.next_entry_id)
       /\ HandlesMatch(m2, Live, timeout_rx, task.unsent)
       /\ HandlesUseful(m2, Live, timeout_rx, task.unsent)
       /\ HandlesFree(m2, command_rx, spawned, timing_wheel.next_entry_id)
  BY <1>9, SafeFacts, FewerHandles
<1>11. HandlesFree(m2, command_rx', spawned', timing_wheel.next_entry_id)
  BY <1>2, <1>6, <1>10, FreeKept
<1> QED BY <1>2, <1>4, <1>5, <1>6, <1>7, <1>8, <1>10, <1>11, SafeFacts, AsideSafe

LEMMA SafeCancelOf ==
  ASSUME TaskSafe, NEW c \in Conn, NEW k \in Kind, cancel_timer_of(c, k)
  PROVE TaskSafe'
<1> DEFINE id == manager[c].active[k]
           cmd == [op |-> "cancel", id |-> id, waiter |-> c]
           m2 == Dropped(manager, c, k)
<1>1. id # None /\ manager[c].at = "run" /\ Send(cmd) /\ manager' = m2
      /\ timeout_rx' = timeout_rx /\ spawned' = spawned /\ Aside
  BY DEF cancel_timer_of, Running, Aside, Dropped
<1>2. id \in TimerId
  BY <1>1, SafeFacts, ManagerFacts
<1>3. /\ cmd \in Command /\ Wanted(cmd) = 0 /\ Caller(cmd) = c /\ cmd.op # "clear"
      /\ \A i : CancelsBy(cmd, i) => i = id
  BY <1>2 DEF Command, Wanted, Caller, CancelsBy
<1>4. id < timing_wheel.next_entry_id
      /\ \A d \in Conn, l \in Kind : manager[d].active[l] = id => d = c /\ l = k
  BY <1>1, SafeFacts DEF HandlesApart
<1>5. /\ m2 \in Managers /\ m2[c].at = "wait" /\ \A e \in Conn : e # c => m2[e] = manager[e]
      /\ m2[c].active[k] = None /\ \A l \in Kind : l # k => m2[c].active[l] = manager[c].active[l]
  BY SafeFacts, DroppedIs
<1> HIDE DEF cmd, m2, id
<1>6. /\ task.at # "stopped" /\ command_rx' = Append(command_rx, cmd)
      /\ Room(command_rx', timing_wheel.next_entry_id)
      /\ Waits(command_rx, manager) /\ command_rx \in Seq(Command)
  BY <1>1, <1>3, SendIs
<1>7. /\ command_rx' \in Seq(Command)
      /\ \A i : CancelsIn(command_rx', i) <=> CancelsIn(command_rx, i) \/ CancelsBy(cmd, i)
      /\ ClearsEnded(command_rx, m2) => ClearsEnded(command_rx', m2)
  BY <1>3, <1>6, QueueMore
<1>8. Waits(command_rx', m2)
  <2>1. /\ command_rx \in Seq(Command) /\ cmd \in Command /\ command_rx' = Append(command_rx, cmd)
        /\ Caller(cmd) \in Conn /\ Waits(command_rx, manager)
        /\ manager[Caller(cmd)].at = "run" /\ m2[Caller(cmd)].at = "wait"
        /\ \A e \in Conn : e # Caller(cmd) => m2[e].at = manager[e].at
    BY <1>1, <1>3, <1>5, <1>6
  <2>2. Waits(Append(command_rx, cmd), m2)
    BY ONLY <2>1, WaitsMore
  <2> QED BY <2>1, <2>2
<1>9. ClearsEnded(command_rx', m2)
  <2>1. \A e \in Conn : manager[e].at = "ended" => m2[e].at = "ended"
    BY <1>1, <1>5
  <2>2. ClearsEnded(command_rx, m2)
    BY <2>1, <1>6, QueueKept, SafeFacts
  <2> QED BY <2>2, <1>7
<1>10. Fewer(m2, manager)
  <2>1. ASSUME NEW d \in Conn, NEW l \in Kind PROVE m2[d].active[l] \in {manager[d].active[l], None}
    BY <1>5
  <2>2. ASSUME NEW d \in Conn, m2[d].at # "ended" PROVE manager[d].at # "ended"
    BY <1>1, <1>5, <2>2
  <2> QED BY <2>1, <2>2 DEF Fewer
<1>11. /\ HandlesApart(m2, timing_wheel.next_entry_id)
       /\ HandlesMatch(m2, Live, timeout_rx, task.unsent)
       /\ HandlesUseful(m2, Live, timeout_rx, task.unsent)
       /\ HandlesFree(m2, command_rx, spawned, timing_wheel.next_entry_id)
  BY <1>10, SafeFacts, FewerHandles
<1>12. ASSUME NEW d \in Conn, NEW l \in Kind PROVE m2[d].active[l] # id
  <2>1. id # None
    BY <1>1
  <2> QED BY <2>1, <1>4, <1>5, <1>10 DEF Fewer
<1>13. HandlesFree(m2, command_rx', spawned', timing_wheel.next_entry_id)
  <2>1. \A i \in TimerId : i \in spawned' \/ CancelsIn(command_rx', i) =>
          \/ i \in spawned \/ CancelsIn(command_rx, i)
          \/ i < timing_wheel.next_entry_id /\ \A d \in Conn, l \in Kind : m2[d].active[l] # i
    BY <1>1, <1>3, <1>4, <1>7, <1>12
  <2> QED BY <2>1, <1>11, FreeKept
<1> QED BY <1>1, <1>5, <1>6, <1>7, <1>8, <1>9, <1>11, <1>13, SafeFacts, AsideSafe

\* A command nobody waits for.
LEMMA SafeSend ==
  ASSUME TaskSafe, NEW cmd \in Command, Send(cmd), Caller(cmd) = None,
         Wanted(cmd) = 0 \/ Created + InFlight + Wanted(cmd) <= MaxCreated,
         manager' = manager, timeout_rx' = timeout_rx, spawned' \in SUBSET spawned, Aside,
         cmd.op = "clear" => manager[cmd.conn].at = "ended",
         \A i \in TimerId : CancelsBy(cmd, i) =>
           \/ i \in spawned
           \/ i < timing_wheel.next_entry_id /\ \A c \in Conn, k \in Kind : manager[c].active[k] # i
  PROVE TaskSafe'
<1>1. /\ task.at # "stopped" /\ command_rx' = Append(command_rx, cmd)
      /\ Room(command_rx', timing_wheel.next_entry_id)
      /\ Waits(command_rx, manager) /\ command_rx \in Seq(Command)
  BY SendIs
<1>2. /\ command_rx' \in Seq(Command)
      /\ \A i : CancelsIn(command_rx', i) <=> CancelsIn(command_rx, i) \/ CancelsBy(cmd, i)
      /\ ClearsEnded(command_rx, manager) => ClearsEnded(command_rx', manager)
      /\ Waits(command_rx', manager)
  BY <1>1, QueueMore
<1>3. HandlesFree(manager, command_rx', spawned', timing_wheel.next_entry_id)
  <2>1. \A i \in TimerId : i \in spawned' \/ CancelsIn(command_rx', i) =>
          \/ i \in spawned \/ CancelsIn(command_rx, i)
          \/ i < timing_wheel.next_entry_id /\ \A d \in Conn, l \in Kind : manager[d].active[l] # i
    BY <1>2
  <2> QED BY <2>1, SafeFacts, FreeKept
<1>4. spawned' \in SUBSET TimerId
  BY SafeFacts
<1> QED BY <1>1, <1>2, <1>3, <1>4, SafeFacts, AsideSafe

LEMMA SafeBatchRegister ==
  ASSUME TaskSafe, NEW c \in Conn, NEW b \in Batch, HandleBatchRegister(c, b)
  PROVE TaskSafe'
<1> DEFINE cmd == [op |-> "batch_register", conn |-> c, batch |-> b]
<1>1. /\ cmd \in Command /\ Wanted(cmd) = Len(b) /\ Caller(cmd) = None /\ cmd.op # "clear"
      /\ \A i : ~CancelsBy(cmd, i)
  BY DEF Command, Wanted, Caller, CancelsBy
<1>2. /\ Send(cmd) /\ manager' = manager /\ timeout_rx' = timeout_rx /\ spawned' = spawned /\ Aside
      /\ Created + InFlight + Len(b) <= MaxCreated
  BY DEF HandleBatchRegister, Aside
<1> HIDE DEF cmd
<1>3. spawned' \in SUBSET spawned
  BY <1>2
<1> QED BY <1>1, <1>2, <1>3, SafeSend

LEMMA SafeBatchCancel ==
  ASSUME TaskSafe, NEW ids \in SUBSET (1 .. Created), HandleBatchCancel(ids)
  PROVE TaskSafe'
<1> DEFINE cmd == [op |-> "batch_cancel", ids |-> ids]
<1>1. timing_wheel.next_entry_id \in 1 .. MaxTimers + 1 /\ MaxTimers \in Nat
  BY TypeFacts, WheelFields, Constants DEF TaskSafe
<1>2. \A i \in ids : i \in TimerId /\ i < timing_wheel.next_entry_id
  BY <1>1 DEF Created, TimerId
<1>3. /\ cmd \in Command /\ Wanted(cmd) = 0 /\ Caller(cmd) = None /\ cmd.op # "clear"
      /\ \A i : CancelsBy(cmd, i) => i \in ids
  BY <1>2 DEF Command, Wanted, Caller, CancelsBy
<1>4. /\ Send(cmd) /\ manager' = manager /\ timeout_rx' = timeout_rx /\ spawned' = spawned /\ Aside
      /\ ids \cap Held = {}
  BY DEF HandleBatchCancel, Aside
<1>5. \A i \in ids : \A c \in Conn, k \in Kind : manager[c].active[k] # i
  BY <1>4 DEF Held
<1> HIDE DEF cmd
<1>6. spawned' \in SUBSET spawned
  BY <1>4
<1>7. \A i \in TimerId : CancelsBy(cmd, i) =>
           \/ i \in spawned
           \/ i < timing_wheel.next_entry_id /\ \A c \in Conn, k \in Kind : manager[c].active[k] # i
  BY <1>2, <1>3, <1>5
<1> QED BY <1>3, <1>4, <1>6, <1>7, SafeSend

LEMMA SafeHandleClear ==
  ASSUME TaskSafe, NEW c \in Conn, HandleClear(c)
  PROVE TaskSafe'
<1> DEFINE cmd == [op |-> "clear", conn |-> c]
<1>1. /\ cmd \in Command /\ Wanted(cmd) = 0 /\ Caller(cmd) = None /\ cmd.conn = c
      /\ \A i : ~CancelsBy(cmd, i)
  BY DEF Command, Wanted, Caller, CancelsBy
<1>2. /\ Send(cmd) /\ manager' = manager /\ timeout_rx' = timeout_rx /\ spawned' = spawned /\ Aside
      /\ manager[c].at = "ended"
  BY DEF HandleClear, Aside
<1> HIDE DEF cmd
<1>3. spawned' \in SUBSET spawned /\ (cmd.op = "clear" => manager[cmd.conn].at = "ended")
  BY <1>1, <1>2
<1> QED BY <1>1, <1>2, <1>3, SafeSend

LEMMA SafeHandleShutdown ==
  ASSUME TaskSafe, HandleShutdown
  PROVE TaskSafe'
<1> DEFINE cmd == [op |-> "shutdown"]
<1>1. /\ cmd \in Command /\ Wanted(cmd) = 0 /\ Caller(cmd) = None /\ cmd.op # "clear"
      /\ \A i : ~CancelsBy(cmd, i)
  BY DEF Command, Wanted, Caller, CancelsBy
<1>2. /\ Send(cmd) /\ manager' = manager /\ timeout_rx' = timeout_rx /\ spawned' = spawned /\ Aside
  BY DEF HandleShutdown, Aside
<1> HIDE DEF cmd
<1>3. spawned' \in SUBSET spawned
  BY <1>2
<1> QED BY <1>1, <1>2, <1>3, SafeSend

LEMMA SafeSpawned ==
  ASSUME TaskSafe, NEW i \in TimerId, SpawnedCancel(i)
  PROVE TaskSafe'
<1>1. /\ i \in spawned /\ spawned' = spawned \ {i} /\ manager' = manager /\ timeout_rx' = timeout_rx /\ Aside
      /\ IF Stopped THEN command_rx' = command_rx
         ELSE Send([op |-> "cancel", id |-> i, waiter |-> None])
  BY DEF SpawnedCancel, Aside
<1>2. CASE ~Stopped
  <2> DEFINE cmd == [op |-> "cancel", id |-> i, waiter |-> None]
  <2>1. /\ cmd \in Command /\ Wanted(cmd) = 0 /\ Caller(cmd) = None /\ cmd.op # "clear"
        /\ \A j : CancelsBy(cmd, j) => j = i
    BY DEF Command, Wanted, Caller, CancelsBy
  <2>2. Send(cmd)
    BY <1>1, <1>2
  <2> HIDE DEF cmd
  <2>3. spawned' \in SUBSET spawned /\ \A j \in TimerId : CancelsBy(cmd, j) => j \in spawned
    BY <1>1, <2>1
  <2> QED BY <1>1, <2>1, <2>2, <2>3, SafeSend
<1>3. CASE Stopped
  <2>1. task.at = "stopped" /\ command_rx' = command_rx
    BY <1>1, <1>3 DEF Stopped
  <2>2. HandlesFree(manager, command_rx, spawned', timing_wheel.next_entry_id)
    BY <1>1, SafeFacts, FreeKept
  <2>3. spawned' \in SUBSET TimerId
    BY <1>1, SafeFacts
  <2> QED BY <1>1, <2>1, <2>2, <2>3, SafeFacts, AsideSafe
<1> QED BY <1>2, <1>3

\* The handles of the kinds seen are dropped.
LEMMA SafeCheckEvents ==
  ASSUME TaskSafe, NEW c \in Conn, check_timer_events(c)
  PROVE TaskSafe'
<1> DEFINE seen == {e.kind : e \in Range(timeout_rx[c])}
<1>1. /\ manager[c].at = "run"
      /\ manager' = [manager EXCEPT
           ![c].at = IF seen \cap Fatal # {} THEN "ended" ELSE @,
           ![c].active = [k \in Kind |-> IF k \in seen THEN None ELSE @[k]]]
      /\ timeout_rx' = [timeout_rx EXCEPT ![c] = <<>>]
      /\ command_rx' = command_rx /\ spawned' = spawned /\ Aside
  BY DEF check_timer_events, Running, Aside
<1>2. /\ command_rx \in Seq(Command) /\ manager \in Managers /\ timeout_rx \in Channels
      /\ DOMAIN timeout_rx[c] = 1 .. Len(timeout_rx[c])
  BY SafeFacts, ChannelFacts
<1>3. \A n \in 1 .. Len(timeout_rx[c]) : timeout_rx[c][n].kind \in seen
  <2>1. \A n \in 1 .. Len(timeout_rx[c]) : timeout_rx[c][n] \in Range(timeout_rx[c])
    BY <1>2, RangeIs
  <2> QED BY <2>1
<1> HIDE DEF seen
<1>4. /\ manager' \in Managers /\ \A d \in Conn : d # c => manager'[d] = manager[d]
      /\ manager'[c].at \in {"run", "ended"}
      /\ \A k \in Kind : manager'[c].active[k] = IF k \in seen THEN None ELSE manager[c].active[k]
  BY <1>1, <1>2 DEF Managers
<1>5. /\ timeout_rx' \in Channels /\ timeout_rx'[c] = <<>> /\ Len(timeout_rx'[c]) = 0
      /\ \A d \in Conn : d # c => timeout_rx'[d] = timeout_rx[d]
  BY <1>1, <1>2 DEF Channels
<1>6. Fewer(manager', manager)
  <2>1. ASSUME NEW d \in Conn, NEW l \in Kind PROVE manager'[d].active[l] \in {manager[d].active[l], None}
    BY <1>4
  <2>2. ASSUME NEW d \in Conn, manager'[d].at # "ended" PROVE manager[d].at # "ended"
    BY <1>1, <1>4, <2>2
  <2> QED BY <2>1, <2>2 DEF Fewer
<1>7. /\ HandlesApart(manager', timing_wheel.next_entry_id)
      /\ HandlesMatch(manager', Live, timeout_rx, task.unsent)
      /\ HandlesUseful(manager', Live, timeout_rx, task.unsent)
      /\ HandlesFree(manager', command_rx, spawned, timing_wheel.next_entry_id)
  BY <1>6, SafeFacts, FewerHandles
<1>8. ASSUME NEW d \in Conn, NEW n \in 1 .. Len(timeout_rx'[d])
      PROVE timeout_rx'[d] = timeout_rx[d] /\ n \in 1 .. Len(timeout_rx[d])
  BY <1>5
<1>9. Noted(timeout_rx', task.unsent, timer)
  <2>1. Noted(timeout_rx, task.unsent, timer)
    BY SafeFacts
  <2>2. ASSUME NEW n \in 1 .. Len(task.unsent)
        PROVE /\ timer[task.unsent[n].id].state = "fired"
              /\ \A m \in 1 .. Len(task.unsent) : task.unsent[m].id = task.unsent[n].id => m = n
              /\ \A d \in Conn : \A m \in 1 .. Len(timeout_rx'[d]) : timeout_rx'[d][m].id # task.unsent[n].id
    BY <1>8, <2>1 DEF Noted
  <2>3. ASSUME NEW d \in Conn, NEW n \in 1 .. Len(timeout_rx'[d])
        PROVE /\ timer[timeout_rx'[d][n].id].state = "fired"
              /\ \A m \in 1 .. Len(timeout_rx'[d]) : timeout_rx'[d][m].id = timeout_rx'[d][n].id => m = n
    <3>1. timeout_rx'[d] = timeout_rx[d] /\ n \in 1 .. Len(timeout_rx[d])
      BY <1>8
    <3> QED BY <3>1, <2>1 DEF Noted
  <2> QED BY <2>2, <2>3 DEF Noted
<1>10. HandlesMatch(manager', Live, timeout_rx', task.unsent)
  BY <1>7, <1>8 DEF HandlesMatch
<1>11. HandlesUseful(manager', Live, timeout_rx', task.unsent)
  <2> SUFFICES ASSUME NEW d \in Conn, NEW k \in Kind, manager'[d].active[k] # None, manager'[d].at # "ended"
               PROVE \/ \E x \in Live : x.id = manager'[d].active[k]
                     \/ \E n \in 1 .. Len(timeout_rx'[d]) : timeout_rx'[d][n].id = manager'[d].active[k]
                     \/ \E n \in 1 .. Len(task.unsent) : task.unsent[n].id = manager'[d].active[k]
    BY DEF HandlesUseful
  <2>1. \/ \E x \in Live : x.id = manager'[d].active[k]
        \/ \E n \in 1 .. Len(timeout_rx[d]) : timeout_rx[d][n].id = manager'[d].active[k]
        \/ \E n \in 1 .. Len(task.unsent) : task.unsent[n].id = manager'[d].active[k]
    BY <1>7 DEF HandlesUseful
  <2>2. CASE d # c
    BY <2>1, <2>2, <1>5
  <2>3. CASE d = c
    <3>1. k \notin seen
      BY <2>3, <1>4
    <3>2. ASSUME NEW n \in 1 .. Len(timeout_rx[d]), timeout_rx[d][n].id = manager'[d].active[k] PROVE FALSE
      <4>1. timeout_rx[d][n].kind = k
        BY <3>2, <1>7 DEF HandlesMatch
      <4> QED BY <4>1, <3>1, <2>3, <1>3
    <3> QED BY <2>1, <3>2
  <2> QED BY <2>2, <2>3
<1>12. ClearsEnded(command_rx, manager')
  <2>1. \A d \in Conn : manager[d].at = "ended" => manager'[d].at = "ended"
    BY <1>1, <1>4
  <2> QED BY <2>1, <1>2, SafeFacts, QueueKept
<1>13. Waits(command_rx, manager) => Waits(command_rx, manager')
  <2>1. \A d \in Conn : manager[d].at = "wait" => manager'[d].at = "wait"
    BY <1>1, <1>4
  <2> QED BY <2>1, <1>2, QueueKept
<1> QED BY <1>1, <1>2, <1>4, <1>5, <1>7, <1>9, <1>10, <1>11, <1>12, <1>13, SafeFacts, AsideSafe


LEMMA TypesNext ==
  ASSUME TTypeOK, clock' = clock, timing_wheel' \in Wheel, connection_timers' \in [Conn -> SUBSET TimerId],
         entry_to_connection' \in [TimerId -> Conn \cup {None}], command_rx' \in Seq(Command),
         task' \in Tasks, stats' \in [processed : Nat, cancelled : Nat], manager' \in Managers,
         timeout_rx' \in Channels, spawned' \in SUBSET TimerId, timer' \in Fates
  PROVE TTypeOK'
  BY DEF TTypeOK, Tasks, Managers, Channels, Fates

\* The parts of the invariant about the timers.
LEMMA SafeTimers ==
  ASSUME TaskSafe
  PROVE /\ TTypeOK /\ clock \in Nat /\ timing_wheel \in Wheel /\ Good(timing_wheel, clock)
        /\ Sound(timing_wheel)
        /\ task.at = "select" => Full(timing_wheel)
        /\ Owned(entry_to_connection, connection_timers, Live)
        /\ Known(timer, Live, timing_wheel.next_entry_id)
        /\ Counted(stats, timer, task.at)
        /\ task.at # "trigger" => task.unsent = <<>>
        /\ OnTime(task, clock, timing_wheel.current_time, Live, timer)
        /\ Live \in SUBSET TimerEntry
        /\ stats \in [processed : Nat, cancelled : Nat]
        /\ connection_timers \in [Conn -> SUBSET TimerId]
        /\ entry_to_connection \in [TimerId -> Conn \cup {None}]
<1>1. TTypeOK /\ Good(timing_wheel, clock)
  BY DEF TaskSafe
<1>2. Sound(timing_wheel) /\ Live \in SUBSET TimerEntry
  BY SafeParts
<1> QED BY <1>1, <1>2, TypeFacts DEF TaskSafe

\* After a command the next tick is where it was or now; the timers that stay are
\* due when they were, and new ones are due their delay from now.
LEMMA OnTimeKept ==
  ASSUME NEW t \in Tasks, NEW now \in Nat, NEW ct \in Nat, ct <= now, NEW X \in SUBSET TimerEntry, NEW tm \in Fates,
         OnTime(t, now, ct, X, tm), t.at = "select", NEW t2 \in Tasks, NEW X2 \in SUBSET TimerEntry, NEW tm2,
         t2.at = "select", t2.delayed = t.delayed, t2.next_tick \in {t.next_tick, now},
         \A x \in X2 : \/ x \in X /\ tm2[x.id].due = tm[x.id].due
                       \/ x.expiry >= ct /\ tm2[x.id].due = now + x.expiry - ct
  PROVE OnTime(t2, now, ct, X2, tm2)
<1> SUFFICES ASSUME ~t.delayed PROVE Punctual(t2.next_tick, now, ct, X2, tm2)
  BY DEF OnTime
<1>1. Punctual(t.next_tick, now, ct, X, tm)
  BY DEF OnTime
<1>2. AdvanceInterval \in Nat /\ SlotDuration \in Nat /\ SlotDuration > 0 /\ t.next_tick \in Nat /\ t2.next_tick \in Nat
  BY TaskAssumption, Constants, TaskFacts
<1>3. /\ now <= t2.next_tick /\ t2.next_tick <= t.next_tick /\ t2.next_tick <= now + AdvanceInterval
      /\ t2.next_tick < ct + (AdvanceInterval + SlotDuration) /\ now < ct + (AdvanceInterval + SlotDuration)
  BY <1>1, <1>2 DEF Punctual
<1>4. ASSUME NEW x \in X2
      PROVE /\ x.expiry <= tm2[x.id].due /\ tm2[x.id].due < x.expiry + (AdvanceInterval + SlotDuration)
            /\ t2.next_tick <= tm2[x.id].due + AdvanceInterval
  <2>1. x.expiry \in Nat /\ x.id \in TimerId
    BY EntryFields
  <2>2. tm[x.id].due \in Nat
    BY <2>1 DEF Fates
  <2>3. CASE x \in X /\ tm2[x.id].due = tm[x.id].due
    <3>1. /\ x.expiry <= tm[x.id].due /\ tm[x.id].due < x.expiry + (AdvanceInterval + SlotDuration)
          /\ t.next_tick <= tm[x.id].due + AdvanceInterval
      BY <2>3, <1>1 DEF Punctual
    <3> QED BY <3>1, <2>1, <2>2, <2>3, <1>2, <1>3
  <2>4. CASE x.expiry >= ct /\ tm2[x.id].due = now + x.expiry - ct
    BY <2>1, <2>4, <1>2, <1>3
  <2> QED BY <2>3, <2>4
<1> QED BY <1>3, <1>4 DEF Punctual

----------------------------------------------------------------------------
(* The steps of the task.                                                  *)

LEMMA TakeIs ==
  ASSUME TaskSafe, NEW op, Take(op)
  PROVE /\ task.at = "select" /\ command_rx # <<>> /\ Head(command_rx) \in Command /\ Head(command_rx).op = op
        /\ command_rx' = Tail(command_rx) /\ command_rx' \in Seq(Command) /\ task.unsent = <<>>
        /\ ClearsEnded(command_rx', manager) /\ (op = "clear" => manager[Head(command_rx).conn].at = "ended")
        /\ Waits(command_rx', manager)
        /\ Caller(Head(command_rx)) # None => manager[Caller(Head(command_rx))].at = "wait"
        /\ \A n \in 1 .. Len(command_rx') :
             Caller(command_rx'[n]) # None => Caller(command_rx'[n]) # Caller(Head(command_rx))
        /\ HandlesFree(manager, command_rx', spawned, timing_wheel.next_entry_id)
        /\ \A i \in TimerId : CancelsBy(Head(command_rx), i) =>
             \A c \in Conn, k \in Kind : manager[c].active[k] # i
        /\ Room(command_rx', timing_wheel.next_entry_id + Wanted(Head(command_rx)))
        /\ Wanted(Head(command_rx)) \in Nat
<1>1. task.at = "select" /\ command_rx # <<>> /\ Head(command_rx).op = op /\ command_rx' = Tail(command_rx)
  BY DEF Take
<1>2. /\ command_rx \in Seq(Command) /\ Waits(command_rx, manager) /\ ClearsEnded(command_rx, manager)
      /\ Room(command_rx, timing_wheel.next_entry_id) /\ timing_wheel.next_entry_id \in Nat /\ MaxCreated \in Nat
      /\ HandlesFree(manager, command_rx, spawned, timing_wheel.next_entry_id)
  BY <1>1, SafeFacts
<1>3. /\ Tail(command_rx) \in Seq(Command) /\ Head(command_rx) \in Command
      /\ \A i : CancelsIn(Tail(command_rx), i) => CancelsIn(command_rx, i)
      /\ \A i : CancelsBy(Head(command_rx), i) => CancelsIn(command_rx, i)
      /\ ClearsEnded(Tail(command_rx), manager)
      /\ Head(command_rx).op = "clear" => manager[Head(command_rx).conn].at = "ended"
      /\ Waits(Tail(command_rx), manager)
      /\ Caller(Head(command_rx)) # None => manager[Caller(Head(command_rx))].at = "wait"
      /\ \A n \in 1 .. Len(Tail(command_rx)) :
           Caller(Tail(command_rx)[n]) # None => Caller(Tail(command_rx)[n]) # Caller(Head(command_rx))
  BY <1>1, <1>2, QueueLess
<1>4. HandlesFree(manager, command_rx', spawned, timing_wheel.next_entry_id)
  <2>1. \A i \in TimerId : i \in spawned \/ CancelsIn(command_rx', i) => i \in spawned \/ CancelsIn(command_rx, i)
    BY <1>1, <1>3
  <2> QED BY <2>1, <1>2 DEF HandlesFree
<1>5. \A i \in TimerId : CancelsBy(Head(command_rx), i) => \A c \in Conn, k \in Kind : manager[c].active[k] # i
  BY <1>2, <1>3 DEF HandlesFree
<1>6. /\ Cardinality(Wish(command_rx)) = Wanted(Head(command_rx)) + Cardinality(Wish(Tail(command_rx)))
      /\ Cardinality(Wish(Tail(command_rx))) \in Nat /\ Wanted(Head(command_rx)) \in Nat
  BY <1>1, <1>2, WishTail
<1>7. Room(command_rx', timing_wheel.next_entry_id + Wanted(Head(command_rx)))
  BY <1>1, <1>2, <1>6 DEF Room
<1>8. task.unsent = <<>>
  BY <1>1 DEF TaskSafe
<1> QED BY <1>1, <1>3, <1>4, <1>5, <1>6, <1>7, <1>8

LEMMA SafeShutdown ==
  ASSUME TaskSafe, TaskShutdown
  PROVE TaskSafe'
<1>1. /\ Take("shutdown") /\ task' = [task EXCEPT !.at = "stopped"]
      /\ manager' = [c \in Conn |-> IF manager[c].at = "wait" THEN [manager[c] EXCEPT !.at = "run"]
                                    ELSE manager[c]]
      /\ clock' = clock /\ timing_wheel' = timing_wheel /\ connection_timers' = connection_timers
      /\ entry_to_connection' = entry_to_connection /\ stats' = stats /\ timeout_rx' = timeout_rx
      /\ spawned' = spawned /\ timer' = timer
  BY DEF TaskShutdown, owners
<1>2. /\ task.at = "select" /\ command_rx' \in Seq(Command) /\ task.unsent = <<>>
      /\ ClearsEnded(command_rx', manager)
      /\ HandlesFree(manager, command_rx', spawned, timing_wheel.next_entry_id)
  BY <1>1, TakeIs
<1>3. task \in Tasks /\ manager \in Managers
  BY SafeFacts
<1>4. task' \in Tasks /\ task'.at = "stopped" /\ task'.unsent = task.unsent
  BY <1>1, <1>3 DEF Tasks
<1>5. /\ manager' \in Managers /\ \A d \in Conn : manager'[d].active = manager[d].active
      /\ \A d \in Conn : manager[d].at = "ended" <=> manager'[d].at = "ended"
  BY <1>1, <1>3 DEF Managers
<1>6. TTypeOK'
  BY <1>1, <1>2, <1>4, <1>5, SafeFacts, SafeTimers, TypesNext
<1>7. Live' = Live
  BY <1>1 DEF Live
<1>8. Fewer(manager', manager)
  BY <1>5 DEF Fewer
<1>9. /\ HandlesApart(manager', timing_wheel.next_entry_id)
      /\ HandlesMatch(manager', Live, timeout_rx, task.unsent)
      /\ HandlesUseful(manager', Live, timeout_rx, task.unsent)
      /\ HandlesFree(manager', command_rx', spawned, timing_wheel.next_entry_id)
  BY <1>2, <1>8, SafeFacts, FewerHandles
<1>10. ClearsEnded(command_rx', manager')
  BY <1>2, <1>5, QueueKept
<1>11. Counted(stats, timer, "stopped")
  BY SafeTimers DEF Counted
<1>12. /\ Good(timing_wheel', clock') /\ (task'.at = "select" => Full(timing_wheel'))
       /\ Owned(entry_to_connection', connection_timers', Live')
       /\ Known(timer', Live', timing_wheel'.next_entry_id)
       /\ Counted(stats', timer', task'.at)
       /\ Noted(timeout_rx', task'.unsent, timer')
       /\ task'.at # "trigger" => task'.unsent = <<>>
       /\ OnTime(task', clock', timing_wheel'.current_time, Live', timer')
  BY <1>1, <1>2, <1>4, <1>7, <1>11, SafeTimers, SafeFacts DEF OnTime
<1> QED BY <1>1, <1>4, <1>6, <1>7, <1>9, <1>10, <1>12 DEF TaskSafe

LEMMA SafeUpdate ==
  ASSUME TaskSafe, IntervalUpdate
  PROVE TaskSafe'
<1>1. /\ task.at = "select" /\ LoopTop(timing_wheel, clock, task.now + UpdatePeriod)
      /\ clock' = clock /\ connection_timers' = connection_timers
      /\ entry_to_connection' = entry_to_connection /\ stats' = stats /\ timeout_rx' = timeout_rx
      /\ spawned' = spawned /\ timer' = timer /\ manager' = manager /\ command_rx' = command_rx
  BY DEF IntervalUpdate, calculate_advance_interval, owners
<1>2. TTypeOK /\ Good(timing_wheel, clock) /\ clock \in Nat /\ task.now + UpdatePeriod \in Nat
  BY SafeTimers, SafeFacts, TaskFacts, TaskAssumption
<1>3. /\ Good(timing_wheel', clock) /\ Full(timing_wheel') /\ timing_wheel' \in Wheel
      /\ timing_wheel'.slots = timing_wheel.slots /\ timing_wheel'.next_entry_id = timing_wheel.next_entry_id
      /\ task' \in Tasks /\ task'.at = "select" /\ task'.unsent = <<>>
      /\ task'.next_tick = clock /\ task'.delayed = task.delayed
      /\ timing_wheel'.current_time = timing_wheel.current_time
  BY <1>1, <1>2, LoopTopIs
<1>4. task.unsent = <<>>
  BY <1>1 DEF TaskSafe
<1>5. TTypeOK'
  BY <1>1, <1>3, SafeFacts, SafeTimers, TypesNext
<1>6. Live' = Live
  BY <1>3 DEF Live
<1>7. /\ Good(timing_wheel', clock') /\ (task'.at = "select" => Full(timing_wheel'))
      /\ Owned(entry_to_connection', connection_timers', Live')
      /\ Known(timer', Live', timing_wheel'.next_entry_id)
      /\ Counted(stats', timer', task'.at)
      /\ Noted(timeout_rx', task'.unsent, timer')
      /\ task'.at # "trigger" => task'.unsent = <<>>
  BY <1>1, <1>3, <1>4, <1>6, SafeTimers, SafeFacts
<1>8. /\ HandlesApart(manager', timing_wheel'.next_entry_id)
      /\ HandlesMatch(manager', Live', timeout_rx', task'.unsent)
      /\ HandlesUseful(manager', Live', timeout_rx', task'.unsent)
      /\ HandlesFree(manager', command_rx', spawned', timing_wheel'.next_entry_id)
      /\ ClearsEnded(command_rx', manager')
      /\ Waits(command_rx', manager') /\ Room(command_rx', timing_wheel'.next_entry_id)
  BY <1>1, <1>3, <1>4, <1>6, SafeFacts
<1>9. OnTime(task', clock', timing_wheel'.current_time, Live', timer')
  <2>1. /\ task \in Tasks /\ timing_wheel.current_time \in Nat /\ timing_wheel.current_time <= clock
        /\ Live \in SUBSET TimerEntry /\ timer \in Fates
        /\ OnTime(task, clock, timing_wheel.current_time, Live, timer)
    BY SafeTimers, SafeFacts, WheelFields DEF Good, Turns
  <2>2. OnTime(task', clock, timing_wheel.current_time, Live, timer)
    BY <2>1, <1>1, <1>2, <1>3, OnTimeKept
  <2> QED BY <2>2, <1>1, <1>3, <1>6
<1> QED BY <1>5, <1>7, <1>8, <1>9 DEF TaskSafe

LEMMA SafeTick ==
  ASSUME TaskSafe, ClockTick
  PROVE TaskSafe'
<1>0. task.at = "select" => clock < task.next_tick
  BY DEF ClockTick
<1>1. /\ clock < MaxTime /\ clock' = clock + 1
      /\ UNCHANGED <<timing_wheel, connection_timers, entry_to_connection, command_rx, task, stats, manager,
                     timeout_rx, spawned, timer>>
  BY DEF ClockTick, owners
<1>2. clock \in Nat /\ MaxTime \in Nat
  BY SafeTimers, TaskAssumption
<1>3. TTypeOK'
  <2>1. clock' \in 0 .. MaxTime
    BY <1>1, <1>2
  <2> QED BY <2>1, <1>1 DEF TTypeOK, TaskSafe
<1>4. Good(timing_wheel', clock')
  <2>1. timing_wheel.current_time \in Nat
    BY SafeTimers, WheelFields
  <2>2. Turns(timing_wheel, clock)
    BY DEF TaskSafe, Good
  <2>3. Turns(timing_wheel', clock')
    BY <2>1, <2>2, <1>1, <1>2 DEF Turns
  <2> QED BY <2>3, <1>1 DEF TaskSafe, Good
<1>5. Live' = Live
  BY <1>1 DEF Live
<1>6. OnTime(task', clock', timing_wheel'.current_time, Live', timer')
  <2>1. OnTime(task, clock, timing_wheel.current_time, Live, timer) /\ task \in Tasks
    BY SafeTimers, SafeFacts
  <2>2. task.next_tick \in Nat /\ AdvanceInterval \in Nat
    BY <2>1, TaskFacts, TaskAssumption
  <2>3. OnTime(task, clock + 1, timing_wheel.current_time, Live, timer)
    BY <2>1, <2>2, <1>0, <1>2 DEF OnTime, Punctual
  <2> QED BY <2>3, <1>1, <1>5
<1> QED BY <1>1, <1>3, <1>4, <1>5, <1>6 DEF TaskSafe

LEMMA SafeStutter ==
  ASSUME TaskSafe, UNCHANGED vars
  PROVE TaskSafe'
<1>1. UNCHANGED <<clock, timing_wheel, connection_timers, entry_to_connection, command_rx, task, stats, manager,
                  timeout_rx, spawned, timer>>
  BY DEF vars
<1>2. Live' = Live
  BY <1>1 DEF Live
<1>3. TTypeOK'
  BY <1>1 DEF TTypeOK, TaskSafe
<1> QED BY <1>1, <1>2, <1>3 DEF TaskSafe
\* A wheel with fewer entries.
LEMMA LessenedGood ==
  ASSUME NEW w, NEW now, Good(w, now), NEW v, NEW G, Lessened(v, w, G)
  PROVE Good(v, now) /\ v.next_entry_id = w.next_entry_id
<1>1. /\ Sound(v) /\ SameTurn(v, w) /\ Stored(v.slots) = {x \in Stored(w.slots) : x.id \notin G}
      /\ v.cached_next_expiry \in {w.cached_next_expiry, None}
  BY DEF Lessened
<1>2. v.current_slot = w.current_slot /\ v.current_time = w.current_time /\ v.next_entry_id = w.next_entry_id
  BY <1>1 DEF SameTurn
<1>3. Turns(v, now)
  BY <1>2 DEF Good, Turns
<1>4. Ahead(v)
  BY <1>1, <1>2 DEF Good, Ahead
<1>5. Early(v)
  BY <1>1 DEF Good, Early
<1> QED BY <1>1, <1>2, <1>3, <1>4, <1>5 DEF Good

LEMMA BecameIs ==
  ASSUME timer \in Fates, NEW G, NEW st \in {"cancelled", "fired"}
  PROVE /\ Became(G, st) \in Fates
        /\ \A i \in TimerId : i \notin G => Became(G, st)[i] = timer[i]
        /\ \A i \in TimerId : Became(G, st)[i].state = IF i \in G THEN st ELSE timer[i].state
<1>1. \A i \in TimerId : timer[i] \in [state : {"unused", "live", "cancelled", "fired"}, due : Nat]
  BY DEF Fates
<1>2. [state |-> st, due |-> 0] \in [state : {"unused", "live", "cancelled", "fired"}, due : Nat]
  OBVIOUS
<1> QED BY <1>1, <1>2 DEF Became, Fates

\* Handles when entries leave the wheel.
LEMMA HandlesLess ==
  ASSUME NEW m, NEW X, NEW rx, NEW u, NEW G,
         HandlesMatch(m, X, rx, u), HandlesUseful(m, X, rx, u),
         \A i \in G : \A c \in Conn, k \in Kind : m[c].active[k] = i => m[c].at = "ended"
  PROVE HandlesMatch(m, Minus(X, G), rx, u) /\ HandlesUseful(m, Minus(X, G), rx, u)
<1> DEFINE X2 == {x \in X : x.id \notin G}
<1>1. HandlesMatch(m, X2, rx, u)
  BY DEF HandlesMatch
<1>2. ASSUME NEW c \in Conn, NEW k \in Kind, m[c].active[k] # None, m[c].at # "ended"
      PROVE \/ \E x \in X2 : x.id = m[c].active[k]
            \/ \E n \in 1 .. Len(rx[c]) : rx[c][n].id = m[c].active[k]
            \/ \E n \in 1 .. Len(u) : u[n].id = m[c].active[k]
  <2>1. m[c].active[k] \notin G
    BY <1>2
  <2>2. \/ \E x \in X : x.id = m[c].active[k]
        \/ \E n \in 1 .. Len(rx[c]) : rx[c][n].id = m[c].active[k]
        \/ \E n \in 1 .. Len(u) : u[n].id = m[c].active[k]
    BY <1>2 DEF HandlesUseful
  <2> QED BY <2>1, <2>2
<1>3. HandlesUseful(m, X2, rx, u)
  BY <1>2 DEF HandlesUseful
<1> QED BY <1>1, <1>3 DEF Minus

\* The ids that entries of X have.
Found(X, ids) == {i \in ids : \E x \in X : x.id = i}

\* Timers are cancelled and taken off the tables.
LEMMA SafeLeave ==
  ASSUME TaskSafe, task.at = "select", NEW w, Handled(w), NEW ids \in SUBSET TimerId, Lessened(w, timing_wheel, ids),
         connection_timers' \in [Conn -> SUBSET TimerId], \A c \in Conn : connection_timers'[c] = connection_timers[c] \ Found(Live, ids),
         entry_to_connection' \in [TimerId -> Conn \cup {None}],
         \A i \in TimerId : entry_to_connection'[i] = IF i \in Found(Live, ids) THEN None ELSE entry_to_connection[i],
         stats' = [stats EXCEPT !.cancelled = @ + Cardinality(Found(Live, ids))], timer' = Became(Found(Live, ids), "cancelled"),
         clock' = clock, timeout_rx' = timeout_rx, spawned' = spawned, command_rx' \in Seq(Command),
         ClearsEnded(command_rx', manager'), Waits(command_rx', manager'),
         Room(command_rx', timing_wheel.next_entry_id), manager' \in Managers, Fewer(manager', manager),
         HandlesFree(manager, command_rx', spawned, timing_wheel.next_entry_id),
         \A i \in Found(Live, ids) : \A c \in Conn, k \in Kind : manager[c].active[k] = i => manager[c].at = "ended"
  PROVE TaskSafe'
<1> DEFINE G == Found(Live, ids)
<1>g. G = {i \in ids : \E x \in Live : x.id = i}
  BY DEF Found
<1>h. /\ \A c \in Conn : connection_timers'[c] = connection_timers[c] \ G
      /\ \A i \in TimerId : entry_to_connection'[i] = IF i \in G THEN None ELSE entry_to_connection[i]
      /\ stats' = [stats EXCEPT !.cancelled = @ + Cardinality(G)] /\ timer' = Became(G, "cancelled")
      /\ \A i \in G : \A c \in Conn, k \in Kind : manager[c].active[k] = i => manager[c].at = "ended"
  OBVIOUS
<1> HIDE DEF G
<1>1. /\ TTypeOK /\ Good(timing_wheel, clock) /\ Known(timer, Live, timing_wheel.next_entry_id)
      /\ Owned(entry_to_connection, connection_timers, Live) /\ Counted(stats, timer, task.at)
      /\ task.unsent = <<>> /\ Live \in SUBSET TimerEntry /\ stats \in [processed : Nat, cancelled : Nat]
      /\ timer \in Fates
  BY SafeTimers, SafeFacts
<1>2. Good(w, clock) /\ w.next_entry_id = timing_wheel.next_entry_id
  BY <1>1, LessenedGood
<1>3. /\ Good(timing_wheel', clock) /\ Full(timing_wheel') /\ timing_wheel' \in Wheel
      /\ timing_wheel'.slots = w.slots /\ timing_wheel'.next_entry_id = timing_wheel.next_entry_id
      /\ task' \in Tasks /\ task'.at = "select" /\ task'.unsent = <<>>
      /\ task'.next_tick \in {task.next_tick, clock} /\ task'.delayed = task.delayed
      /\ timing_wheel'.current_time = w.current_time
  BY <1>1, <1>2, HandledIs
<1>4. Live' = Minus(Live, G)
  <2>1. Live' = {x \in Live : x.id \notin ids}
    BY <1>3 DEF Lessened, Live
  <2> QED BY <2>1, <1>g DEF Minus
<1>5. G \in SUBSET TimerId /\ \A i \in G \cap TimerId : \E x \in Live : x.id = i
  BY <1>g
<1>6. /\ timer' \in Fates
      /\ \A i \in TimerId : timer'[i].state = IF i \in G THEN "cancelled" ELSE timer[i].state
  BY <1>1, <1>h, BecameIs
<1>7. Owned(entry_to_connection', connection_timers', Live')
  BY <1>1, <1>4, <1>h, OwnedLess
<1>8. /\ Known(timer', Live', timing_wheel.next_entry_id)
      /\ \A i \in TimerId : i \in G => timer[i].state = "live"
  <2>1. /\ Known(timer, Live, timing_wheel.next_entry_id)
        /\ \A i \in G \cap TimerId : \E x \in Live : x.id = i
        /\ \A i \in TimerId : i \in G => timer'[i].state # "unused" /\ timer'[i].state # "live"
        /\ \A i \in TimerId : i \notin G => timer'[i].state = timer[i].state
    BY <1>1, <1>5, <1>6
  <2>2. /\ Known(timer', Minus(Live, G), timing_wheel.next_entry_id)
        /\ \A i \in TimerId : i \in G => timer[i].state = "live"
    BY ONLY <2>1, KnownLess
  <2> QED BY <2>2, <1>4
<1>9. stats'.cancelled = stats.cancelled + Cardinality(G) /\ stats'.processed = stats.processed
      /\ stats'.processed \in Nat /\ (stats'.cancelled \in Nat => stats' \in [processed : Nat, cancelled : Nat])
  BY <1>1, <1>h
<1>10. Counted(stats', timer', task'.at) /\ stats'.cancelled \in Nat
  <2>1. /\ Counted(stats, timer, task.at) /\ G \in SUBSET TimerId /\ task.at = "select"
        /\ \A i \in G : timer[i].state = "live"
        /\ \A i \in TimerId : timer'[i].state = IF i \in G THEN "cancelled" ELSE timer[i].state
        /\ stats'.cancelled = stats.cancelled + Cardinality(G) /\ stats'.processed = stats.processed
    BY <1>1, <1>5, <1>6, <1>8, <1>9
  <2> QED BY ONLY <2>1, CountedCancel
<1>11. Noted(timeout_rx', task'.unsent, timer')
  <2>1. /\ Noted(timeout_rx, task.unsent, timer)
        /\ \A c \in Conn : \A n \in 1 .. Len(timeout_rx[c]) : timeout_rx[c][n].id \in TimerId
        /\ \A n \in 1 .. Len(task.unsent) : task.unsent[n].id \in TimerId
    BY SafeFacts, ChannelFacts, TaskFacts
  <2>2. \A i \in TimerId : timer[i].state = "fired" => timer'[i].state = "fired"
    BY <1>6, <1>8
  <2>3. Noted(timeout_rx, task.unsent, timer')
    BY ONLY <2>1, <2>2, NotedStay
  <2> QED BY <2>3, <1>1, <1>3
<1>12. TTypeOK'
  BY <1>1, <1>3, <1>6, <1>9, <1>10, SafeFacts, TypesNext
<1>13. HandlesMatch(manager, Live', timeout_rx, task.unsent) /\ HandlesUseful(manager, Live', timeout_rx, task.unsent)
  BY <1>4, <1>h, SafeFacts, HandlesLess
<1>14. /\ HandlesApart(manager', timing_wheel.next_entry_id)
       /\ HandlesMatch(manager', Live', timeout_rx, task.unsent)
       /\ HandlesUseful(manager', Live', timeout_rx, task.unsent)
       /\ HandlesFree(manager', command_rx', spawned, timing_wheel.next_entry_id)
  BY <1>13, SafeFacts, FewerHandles
<1>15. OnTime(task', clock', timing_wheel'.current_time, Live', timer')
  <2>1. /\ task \in Tasks /\ clock \in Nat /\ timing_wheel.current_time \in Nat /\ timing_wheel.current_time <= clock
        /\ Live \in SUBSET TimerEntry /\ timer \in Fates
        /\ OnTime(task, clock, timing_wheel.current_time, Live, timer)
    BY SafeTimers, SafeFacts, WheelFields DEF Good, Turns
  <2>2. w.current_time = timing_wheel.current_time
    BY DEF Lessened, SameTurn
  <2>3. Live' \in SUBSET TimerEntry /\ \A x \in Live' : x \in Live /\ timer'[x.id].due = timer[x.id].due
    <3>1. \A x \in Live' : x \in Live /\ x.id \notin G /\ x.id \in TimerId
      BY <2>1, <1>4, EntryFields DEF Minus
    <3>2. \A i \in TimerId : i \notin G => timer'[i] = timer[i]
      BY <2>1, <1>h, BecameIs
    <3> QED BY <3>1, <3>2, <2>1
  <2>4. task' \in Tasks /\ task'.at = "select" /\ task'.next_tick \in {task.next_tick, clock} /\ task'.delayed = task.delayed
    BY <1>3
  <2>5. OnTime(task', clock, timing_wheel.current_time, Live', timer')
    BY <2>1, <2>3, <2>4, OnTimeKept
  <2> QED BY <2>2, <2>5, <1>3
<1> QED BY <1>1, <1>3, <1>7, <1>8, <1>10, <1>11, <1>12, <1>14, <1>15 DEF TaskSafe

LEMMA SafeCancel ==
  ASSUME TaskSafe, TaskCancel
  PROVE TaskSafe'
<1> DEFINE cmd == Head(command_rx)
           d == cancel_timer(timing_wheel, cmd.id)
           gone == IF d.cancelled THEN {cmd.id} ELSE {}
<1>1. /\ Take("cancel") /\ Handled(d.wheel) /\ Forget(gone) /\ timer' = Became(gone, "cancelled")
      /\ stats' = [stats EXCEPT !.cancelled = @ + Cardinality(gone)]
      /\ manager' = IF cmd.waiter = None THEN manager ELSE Readied(manager, cmd.waiter, "run")
      /\ clock' = clock /\ timeout_rx' = timeout_rx /\ spawned' = spawned
  BY DEF TaskCancel, Readied
<1>2. /\ task.at = "select" /\ cmd \in Command /\ cmd.op = "cancel" /\ command_rx' \in Seq(Command)
      /\ ClearsEnded(command_rx', manager) /\ Waits(command_rx', manager)
      /\ Caller(cmd) # None => manager[Caller(cmd)].at = "wait"
      /\ \A n \in 1 .. Len(command_rx') : Caller(command_rx'[n]) # None => Caller(command_rx'[n]) # Caller(cmd)
      /\ HandlesFree(manager, command_rx', spawned, timing_wheel.next_entry_id)
      /\ \A i \in TimerId : CancelsBy(cmd, i) => \A c \in Conn, k \in Kind : manager[c].active[k] # i
      /\ Room(command_rx', timing_wheel.next_entry_id + Wanted(cmd))
  BY <1>1, TakeIs
<1>3. cmd.id \in TimerId /\ cmd.waiter \in Conn \cup {None} /\ Caller(cmd) = cmd.waiter
      /\ CancelsBy(cmd, cmd.id) /\ Wanted(cmd) = 0
  BY <1>2, CommandFacts DEF Caller, CancelsBy, Wanted
<1>4. Sound(timing_wheel) /\ timing_wheel.next_entry_id \in Nat /\ manager \in Managers
      /\ connection_timers \in [Conn -> SUBSET TimerId]
      /\ entry_to_connection \in [TimerId -> Conn \cup {None}]
  BY SafeTimers, SafeFacts
<1>5. /\ Without(d.wheel, timing_wheel, cmd.id) /\ (d.cancelled <=> timing_wheel.timer_map[cmd.id] # None)
      /\ d.wheel.cached_next_expiry \in {timing_wheel.cached_next_expiry, None}
  BY <1>3, <1>4, CancelIs
<1> HIDE DEF d, cmd
<1>6. Lessened(d.wheel, timing_wheel, {cmd.id})
  <2>1. Lessened(timing_wheel, timing_wheel, {})
    BY <1>4, LessenedNone
  <2>2. Lessened(d.wheel, timing_wheel, {} \cup {cmd.id})
    BY <2>1, <1>5, LessenedMore
  <2>3. {} \cup {cmd.id} = {cmd.id}
    OBVIOUS
  <2> QED BY <2>2, <2>3
<1>7. gone = Found(Live, {cmd.id})
  <2>1. d.cancelled <=> \E x \in Live : x.id = cmd.id
    BY <1>3, <1>5, SafeParts
  <2> QED BY <2>1 DEF Found
<1> HIDE DEF gone
<1>8. /\ connection_timers' \in [Conn -> SUBSET TimerId]
      /\ \A c \in Conn : connection_timers'[c] = connection_timers[c] \ gone
      /\ entry_to_connection' \in [TimerId -> Conn \cup {None}]
      /\ \A i \in TimerId : entry_to_connection'[i] = IF i \in gone THEN None ELSE entry_to_connection[i]
  BY <1>1, <1>4 DEF Forget
<1>9. Room(command_rx', timing_wheel.next_entry_id)
  BY <1>2, <1>3, <1>4
<1>10. /\ manager' \in Managers /\ Fewer(manager', manager)
       /\ ClearsEnded(command_rx', manager') /\ Waits(command_rx', manager')
  <2>1. CASE cmd.waiter = None
    <3>1. manager' = manager
      BY <2>1, <1>1
    <3> QED BY <3>1, <1>2, <1>4 DEF Fewer
  <2>2. CASE cmd.waiter # None
    <3>1. manager' = Readied(manager, cmd.waiter, "run") /\ cmd.waiter \in Conn /\ manager[cmd.waiter].at = "wait"
      BY <2>2, <1>1, <1>2, <1>3
    <3>2. /\ manager' \in Managers /\ manager'[cmd.waiter].at = "run"
          /\ \A c \in Conn : c # cmd.waiter => manager'[c] = manager[c]
          /\ \A c \in Conn : manager'[c].active = manager[c].active
      <4> DEFINE m2 == Readied(manager, cmd.waiter, "run")
      <4>1. /\ m2 \in Managers /\ m2[cmd.waiter].at = "run"
            /\ \A c \in Conn : c # cmd.waiter => m2[c] = manager[c]
            /\ \A c \in Conn : m2[c].active = manager[c].active
        BY <3>1, <1>4, ReadiedIs
      <4> HIDE DEF m2
      <4>2. manager' = m2
        BY <3>1 DEF m2
      <4> QED BY <4>1, <4>2
    <3>3. Fewer(manager', manager)
      BY <3>1, <3>2 DEF Fewer
    <3>4. \A c \in Conn : manager[c].at = "ended" => manager'[c].at = "ended"
      BY <3>1, <3>2
    <3>5. \A c \in Conn : c # cmd.waiter => manager'[c].at = manager[c].at
      BY <3>2
    <3>6. \A n \in 1 .. Len(command_rx') : Caller(command_rx'[n]) # None => Caller(command_rx'[n]) # cmd.waiter
      BY <1>2, <1>3
    <3>7. ClearsEnded(command_rx', manager')
      BY <3>4, <1>2, QueueKept
    <3>8. Waits(command_rx', manager')
      <4>1. /\ command_rx' \in Seq(Command) /\ cmd.waiter \in Conn /\ Waits(command_rx', manager)
            /\ \A c \in Conn : c # cmd.waiter => manager'[c].at = manager[c].at
            /\ \A n \in 1 .. Len(command_rx') :
                 Caller(command_rx'[n]) # None => Caller(command_rx'[n]) # cmd.waiter
        BY <3>1, <3>5, <3>6, <1>2
      <4> QED BY ONLY <4>1, QueueKept
    <3> QED BY <3>2, <3>3, <3>7, <3>8
  <2> QED BY <2>1, <2>2
<1>11. \A i \in gone : \A c \in Conn, k \in Kind : manager[c].active[k] = i => manager[c].at = "ended"
  <2>1. \A i \in gone : i = cmd.id
    BY <1>7 DEF Found
  <2> QED BY <2>1, <1>2, <1>3
<1>12. {cmd.id} \in SUBSET TimerId
  BY <1>3
<1> QED BY <1>1, <1>2, <1>6, <1>7, <1>8, <1>9, <1>10, <1>11, <1>12, SafeLeave

LEMMA SafeTaskBatchCancel ==
  ASSUME TaskSafe, TaskBatchCancel
  PROVE TaskSafe'
<1> DEFINE cmd == Head(command_rx)
           ids == cmd.ids
           gone == {i \in ids : entry_to_connection[i] # None}
<1>1. /\ Take("batch_cancel")
      /\ \E jobs \in slot_groups(timing_wheel, ids) : Handled(batch_cancel_timers(timing_wheel, jobs))
      /\ Forget(gone) /\ timer' = Became(gone, "cancelled")
      /\ stats' = [stats EXCEPT !.cancelled = @ + Cardinality(gone)]
      /\ manager' = manager /\ clock' = clock /\ timeout_rx' = timeout_rx /\ spawned' = spawned
  BY DEF TaskBatchCancel
<1>2. /\ task.at = "select" /\ cmd \in Command /\ cmd.op = "batch_cancel" /\ command_rx' \in Seq(Command)
      /\ ClearsEnded(command_rx', manager) /\ Waits(command_rx', manager)
      /\ HandlesFree(manager, command_rx', spawned, timing_wheel.next_entry_id)
      /\ \A i \in TimerId : CancelsBy(cmd, i) => \A c \in Conn, k \in Kind : manager[c].active[k] # i
      /\ Room(command_rx', timing_wheel.next_entry_id + Wanted(cmd))
  BY <1>1, TakeIs
<1> HIDE DEF cmd
<1>3. ids \in SUBSET TimerId /\ (\A i \in ids : CancelsBy(cmd, i)) /\ Wanted(cmd) = 0
  BY <1>2, CommandFacts DEF CancelsBy, Wanted
<1>4. Sound(timing_wheel) /\ timing_wheel.next_entry_id \in Nat /\ manager \in Managers
      /\ connection_timers \in [Conn -> SUBSET TimerId]
      /\ entry_to_connection \in [TimerId -> Conn \cup {None}]
  BY SafeTimers, SafeFacts
<1> HIDE DEF ids
<1>5. PICK jobs \in slot_groups(timing_wheel, ids) : Handled(batch_cancel_timers(timing_wheel, jobs))
  BY <1>1
<1> DEFINE w == batch_cancel_timers(timing_wheel, jobs)
<1>6. Lessened(w, timing_wheel, ids) /\ Handled(w)
  BY <1>3, <1>4, <1>5, BatchCancelIs
<1> HIDE DEF w
<1>7. gone = Found(Live, ids)
  <2>1. \A i \in ids : entry_to_connection[i] # None <=> \E x \in Live : x.id = i
    <3>1. OwnersAgree
      BY SafeIds
    <3>2. \A i \in TimerId : entry_to_connection[i] # None <=> timing_wheel.timer_map[i] # None
      BY <3>1 DEF OwnersAgree
    <3> QED BY <3>2, <1>3, SafeParts
  <2> QED BY <2>1 DEF Found
<1> HIDE DEF gone
<1>8. /\ connection_timers' \in [Conn -> SUBSET TimerId]
      /\ \A c \in Conn : connection_timers'[c] = connection_timers[c] \ gone
      /\ entry_to_connection' \in [TimerId -> Conn \cup {None}]
      /\ \A i \in TimerId : entry_to_connection'[i] = IF i \in gone THEN None ELSE entry_to_connection[i]
  BY <1>1, <1>4 DEF Forget
<1>9. Room(command_rx', timing_wheel.next_entry_id)
  BY <1>2, <1>3, <1>4
<1>10. /\ manager' \in Managers /\ Fewer(manager', manager)
       /\ ClearsEnded(command_rx', manager') /\ Waits(command_rx', manager')
  BY <1>1, <1>2, <1>4 DEF Fewer
<1>11. \A i \in gone : \A c \in Conn, k \in Kind : manager[c].active[k] = i => manager[c].at = "ended"
  <2>1. \A i \in gone : i \in ids
    BY <1>7 DEF Found
  <2> QED BY <2>1, <1>2, <1>3
<1> QED BY <1>1, <1>2, <1>3, <1>6, <1>7, <1>8, <1>9, <1>10, <1>11, SafeLeave

LEMMA SafeClear ==
  ASSUME TaskSafe, TaskClear
  PROVE TaskSafe'
<1> DEFINE cmd == Head(command_rx)
           c == cmd.conn
           S == connection_timers[c]
<1>1. Take("clear") /\ clock' = clock /\ manager' = manager /\ timeout_rx' = timeout_rx /\ spawned' = spawned
  BY DEF TaskClear
<1>2. /\ task.at = "select" /\ cmd \in Command /\ cmd.op = "clear" /\ command_rx' \in Seq(Command)
      /\ ClearsEnded(command_rx', manager) /\ Waits(command_rx', manager)
      /\ manager[cmd.conn].at = "ended"
      /\ HandlesFree(manager, command_rx', spawned, timing_wheel.next_entry_id)
      /\ Room(command_rx', timing_wheel.next_entry_id + Wanted(cmd))
  BY <1>1, TakeIs
<1>3. PICK q \in SetToSeqs(S) :
        LET all == FoldLeft(ClearOne, [wheel |-> timing_wheel, gone |-> {}], q)
        IN /\ Handled(all.wheel)
           /\ connection_timers' = [connection_timers EXCEPT ![c] = {}]
           /\ entry_to_connection' =
                [i \in TimerId |-> IF i \in all.gone THEN None ELSE entry_to_connection[i]]
           /\ stats' = [stats EXCEPT !.cancelled = @ + Cardinality(all.gone)]
           /\ timer' = Became(all.gone, "cancelled")
  BY DEF TaskClear
<1> HIDE DEF cmd
<1>4. c \in Conn /\ Wanted(cmd) = 0
  BY <1>2, CommandFacts DEF Wanted
<1>5. Sound(timing_wheel) /\ timing_wheel.next_entry_id \in Nat /\ manager \in Managers
      /\ connection_timers \in [Conn -> SUBSET TimerId]
      /\ entry_to_connection \in [TimerId -> Conn \cup {None}]
      /\ Owned(entry_to_connection, connection_timers, Live)
      /\ HandlesMatch(manager, Live, timeout_rx, task.unsent)
  BY SafeTimers, SafeFacts
<1> HIDE DEF c
<1>6. S \in SUBSET TimerId
  BY <1>4, <1>5
<1> DEFINE all == FoldLeft(ClearOne, [wheel |-> timing_wheel, gone |-> {}], q)
           gone == all.gone
<1>7. /\ Handled(all.wheel) /\ connection_timers' = [connection_timers EXCEPT ![c] = {}]
      /\ entry_to_connection' = [i \in TimerId |-> IF i \in gone THEN None ELSE entry_to_connection[i]]
      /\ stats' = [stats EXCEPT !.cancelled = @ + Cardinality(gone)]
      /\ timer' = Became(gone, "cancelled")
  BY <1>3
<1>8. q \in Seq(TimerId) /\ First(q, Len(q)) = S
  <2>1. IsFiniteSet(S)
    BY <1>6, IdsFinite
  <2> HIDE DEF S
  <2>2. q \in Seq(S) /\ {q[m] : m \in 1 .. Len(q)} = S
    BY <2>1, SetSeq
  <2>3. q \in Seq(TimerId)
    BY <2>2, <1>6
  <2> QED BY <2>2, <2>3 DEF First
<1>9. /\ Lessened(all.wheel, timing_wheel, First(q, Len(q)))
      /\ gone = {i \in First(q, Len(q)) : timing_wheel.timer_map[i] # None}
  BY <1>5, <1>8, ClearIs
<1> HIDE DEF all
<1>10. Lessened(all.wheel, timing_wheel, S) /\ gone = {i \in S : timing_wheel.timer_map[i] # None}
  BY <1>8, <1>9
<1>11. gone = Found(Live, S)
  <2>1. \A i \in S : timing_wheel.timer_map[i] # None <=> \E x \in Live : x.id = i
    BY <1>6, SafeParts
  <2> QED BY <2>1, <1>10 DEF Found
<1> HIDE DEF gone
<1>12. \A i \in S : entry_to_connection[i] = c /\ i \in gone
  <2> SUFFICES ASSUME NEW i \in S PROVE entry_to_connection[i] = c /\ i \in gone
    OBVIOUS
  <2>1. i \in TimerId /\ entry_to_connection[i] = c
    BY <1>4, <1>5, <1>6 DEF Owned
  <2>2. c # None
    BY <1>4, WheelAssumption
  <2>3. \E x \in Live : x.id = i
    BY <2>1, <2>2, <1>5 DEF Owned
  <2> QED BY <2>1, <2>3, <1>11 DEF Found
<1>13. gone \in SUBSET S
  BY <1>11 DEF Found
<1>14. ASSUME NEW d \in Conn PROVE connection_timers'[d] = connection_timers[d] \ gone
  <2>1. CASE d = c
    <3>1. connection_timers'[d] = {}
      BY <2>1, <1>4, <1>5, <1>7
    <3>2. connection_timers[d] \in SUBSET gone
      BY <2>1, <1>12
    <3> QED BY <3>1, <3>2
  <2>2. CASE d # c
    <3>1. connection_timers'[d] = connection_timers[d]
      BY <2>2, <1>4, <1>5, <1>7
    <3>2. \A i \in gone : i \notin connection_timers[d]
      <4> SUFFICES ASSUME NEW i \in gone, i \in connection_timers[d] PROVE FALSE
        OBVIOUS
      <4>1. i \in TimerId /\ entry_to_connection[i] = c
        BY <1>6, <1>12, <1>13
      <4>2. entry_to_connection[i] = d
        BY <4>1, <1>5 DEF Owned
      <4> QED BY <4>1, <4>2, <2>2
    <3> QED BY <3>1, <3>2
  <2> QED BY <2>1, <2>2
<1>15. /\ connection_timers' \in [Conn -> SUBSET TimerId]
       /\ entry_to_connection' \in [TimerId -> Conn \cup {None}]
       /\ \A i \in TimerId : entry_to_connection'[i] = IF i \in gone THEN None ELSE entry_to_connection[i]
  BY <1>4, <1>5, <1>7
<1>16. Room(command_rx', timing_wheel.next_entry_id)
  BY <1>2, <1>4, <1>5
<1>17. /\ manager' \in Managers /\ Fewer(manager', manager)
       /\ ClearsEnded(command_rx', manager') /\ Waits(command_rx', manager')
  BY <1>1, <1>2, <1>5 DEF Fewer
<1>18. ASSUME NEW i \in gone, NEW d \in Conn, NEW k \in Kind, manager[d].active[k] = i
       PROVE manager[d].at = "ended"
  <2>1. PICK x \in Live : x.id = i
    BY <1>11 DEF Found
  <2>2. i # None
    BY <1>6, <1>13, Constants
  <2>3. x.conn = d
    BY <2>1, <2>2, <1>5, <1>18 DEF HandlesMatch
  <2>4. entry_to_connection[x.id] = x.conn
    BY <1>5 DEF Owned
  <2>5. d = c
    BY <2>1, <2>3, <2>4, <1>12, <1>13
  <2> QED BY <2>5, <1>2 DEF c
<1> HIDE DEF S
<1> QED BY <1>1, <1>2, <1>6, <1>7, <1>10, <1>11, <1>14, <1>15, <1>16, <1>17, <1>18, SafeLeave

\* A wheel with more entries.
LEMMA GrownGood ==
  ASSUME NEW w, NEW now, Good(w, now), Full(w), NEW v, NEW E, NEW c, Grown(v, w, E, c)
  PROVE Good(v, now)
<1>1. /\ Sound(v) /\ v.current_slot = w.current_slot /\ v.current_time = w.current_time
      /\ Stored(v.slots) = Stored(w.slots) \cup First(E, Len(E))
      /\ \A m \in 1 .. Len(E) : E[m].expiry >= w.current_time
      /\ Early(w) /\ Full(w) => Early(v)
  BY DEF Grown
<1>2. Turns(v, now)
  BY <1>1 DEF Good, Turns
<1>3. Ahead(v)
  <2>1. \A x \in First(E, Len(E)) : x.expiry >= w.current_time
    BY <1>1 DEF First
  <2> QED BY <2>1, <1>1 DEF Good, Ahead
<1> QED BY <1>1, <1>2, <1>3 DEF Good

NewIds(next, k) == next .. next + k - 1

\* The new entries have the new ids.
LEMMA NewEntries ==
  ASSUME NEW w \in Wheel, NEW v, NEW E, NEW c, Grown(v, w, E, c)
  PROVE /\ First(E, Len(E)) \in SUBSET TimerEntry /\ Len(E) \in Nat
        /\ \A y \in First(E, Len(E)) : y.id \in NewIds(w.next_entry_id, Len(E)) /\ y.conn = c
        /\ \A i \in NewIds(w.next_entry_id, Len(E)) : \E y \in First(E, Len(E)) : y.id = i
        /\ NewIds(w.next_entry_id, Len(E)) \in SUBSET TimerId
        /\ v.next_entry_id = w.next_entry_id + Len(E)
<1> DEFINE n == w.next_entry_id
           k == Len(E)
<1>1. /\ E \in Seq(TimerEntry) /\ v.next_entry_id = n + k /\ v \in Wheel
      /\ \A m \in 1 .. k : E[m].id = n + (m - 1) /\ E[m].conn = c
  BY DEF Grown, Sound
<1>2. n \in 1 .. MaxTimers + 1 /\ n + k \in 1 .. MaxTimers + 1 /\ k \in Nat /\ MaxTimers \in Nat
  <2>1. k \in Nat
    BY <1>1
  <2>2. n \in 1 .. MaxTimers + 1 /\ v.next_entry_id \in 1 .. MaxTimers + 1
    BY <1>1, WheelFields
  <2> QED BY <2>1, <2>2, <1>1, Constants
<1>3. First(E, k) \in SUBSET TimerEntry
  <2>1. \A m \in 1 .. k : E[m] \in TimerEntry
    BY <1>1
  <2> QED BY <2>1 DEF First
<1> HIDE DEF n, k
<1>4. \A y \in First(E, k) : y.id \in NewIds(n, k) /\ y.conn = c
  <2>1. \A m \in 1 .. k : E[m].id \in NewIds(n, k) /\ E[m].conn = c
    BY <1>1, <1>2 DEF NewIds
  <2> QED BY <2>1 DEF First
<1>5. ASSUME NEW i \in NewIds(n, k) PROVE \E y \in First(E, k) : y.id = i
  <2>1. i - n + 1 \in 1 .. k /\ n + ((i - n + 1) - 1) = i
    BY <1>2 DEF NewIds
  <2>2. E[i - n + 1].id = i
    BY <2>1, <1>1
  <2>3. E[i - n + 1] \in First(E, k)
    BY <2>1 DEF First
  <2> QED BY <2>2, <2>3
<1>6. NewIds(n, k) \in SUBSET TimerId
  BY <1>2 DEF NewIds, TimerId
<1> QED BY <1>1, <1>2, <1>3, <1>4, <1>5, <1>6 DEF n, k

LEMMA RegisteredIs ==
  ASSUME timer \in Fates, clock \in Nat, NEW w \in Wheel, Sound(w), Ahead(w), NEW I \in SUBSET TimerId,
         \A i \in I : \E x \in Stored(w.slots) : x.id = i
  PROVE /\ Registered(w, I) \in Fates
        /\ \A x \in Stored(w.slots) : x.id \in I => Registered(w, I)[x.id].due = clock + x.expiry - w.current_time
        /\ \A i \in TimerId : i \notin I => Registered(w, I)[i] = timer[i]
        /\ \A i \in TimerId : Registered(w, I)[i].state = IF i \in I THEN "live" ELSE timer[i].state
<1> DEFINE due(i) == clock + (CHOOSE e \in Entries(w) : e.id = i).expiry - w.current_time
<1>1. ASSUME NEW i \in I PROVE due(i) \in Nat
  <2>1. \E x \in Entries(w) : x.id = i
    BY EntriesAre
  <2> DEFINE e == CHOOSE x \in Entries(w) : x.id = i
  <2>2. e \in Entries(w)
    BY <2>1
  <2> HIDE DEF e
  <2>3. e \in Stored(w.slots) /\ e \in TimerEntry
    BY <2>2, EntriesAre DEF Stored
  <2>4. e.expiry >= w.current_time /\ e.expiry \in Nat /\ w.current_time \in Nat
    BY <2>3, EntryFields, WheelFields DEF Ahead
  <2>5. clock + e.expiry - w.current_time \in Nat
    BY <2>4
  <2> QED BY <2>5 DEF e
<1>2. Registered(w, I) = [i \in TimerId |-> IF i \in I THEN [state |-> "live", due |-> due(i)] ELSE timer[i]]
  BY DEF Registered
<1>5. ASSUME NEW x \in Stored(w.slots), x.id \in I PROVE due(x.id) = clock + x.expiry - w.current_time
  <2>1. x \in Entries(w)
    BY EntriesAre
  <2> DEFINE e == CHOOSE y \in Entries(w) : y.id = x.id
  <2>2. e \in Entries(w) /\ e.id = x.id
    BY <2>1
  <2>3. due(x.id) = clock + e.expiry - w.current_time
    OBVIOUS
  <2> HIDE DEF e, due
  <2>4. e \in Stored(w.slots)
    BY <2>2, EntriesAre
  <2>5. e = x
    BY <2>2, <2>4, WheelFields, OnIndex DEF Sound
  <2> QED BY <2>3, <2>5
<1> HIDE DEF due
<1>3. \A i \in TimerId : timer[i] \in [state : {"unused", "live", "cancelled", "fired"}, due : Nat]
  BY DEF Fates
<1>4. \A i \in I : [state |-> "live", due |-> due(i)] \in [state : {"unused", "live", "cancelled", "fired"}, due : Nat]
  BY <1>1
<1>6. \A x \in Stored(w.slots) : x.id \in I => Registered(w, I)[x.id].due = clock + x.expiry - w.current_time
  BY <1>2, <1>5
<1> QED BY <1>2, <1>3, <1>4, <1>6 DEF Fates

\* Timers are created and put on the tables.
LEMMA SafeEnter ==
  ASSUME TaskSafe, task.at = "select", NEW w, Handled(w), NEW E, NEW c \in Conn, Grown(w, timing_wheel, E, c),
         connection_timers' \in [Conn -> SUBSET TimerId],
         \A d \in Conn : connection_timers'[d] = 
           IF d = c THEN connection_timers[d] \cup NewIds(timing_wheel.next_entry_id, Len(E)) ELSE connection_timers[d],
         entry_to_connection' \in [TimerId -> Conn \cup {None}],
         \A i \in TimerId : entry_to_connection'[i] = IF i \in NewIds(timing_wheel.next_entry_id, Len(E)) THEN c ELSE entry_to_connection[i],
         timer' = Registered(w, NewIds(timing_wheel.next_entry_id, Len(E))), stats' = stats, clock' = clock, timeout_rx' = timeout_rx,
         command_rx' \in Seq(Command), Room(command_rx', timing_wheel.next_entry_id + Len(E)), manager' \in Managers,
         spawned' \in SUBSET TimerId, ClearsEnded(command_rx', manager'), Waits(command_rx', manager'),
         HandlesApart(manager', timing_wheel.next_entry_id + Len(E)),
         HandlesMatch(manager', Live \cup First(E, Len(E)), timeout_rx, <<>>),
         HandlesUseful(manager', Live \cup First(E, Len(E)), timeout_rx, <<>>),
         HandlesFree(manager', command_rx', spawned', timing_wheel.next_entry_id + Len(E))
  PROVE TaskSafe'
<1> DEFINE n == timing_wheel.next_entry_id
           k == Len(E)
           I == NewIds(n, k)
           Y == First(E, k)
<1>h. /\ \A d \in Conn : connection_timers'[d] = IF d = c THEN connection_timers[d] \cup I ELSE connection_timers[d]
      /\ \A i \in TimerId : entry_to_connection'[i] = IF i \in I THEN c ELSE entry_to_connection[i]
      /\ timer' = Registered(w, I) /\ Room(command_rx', n + k)
      /\ HandlesApart(manager', n + k)
      /\ HandlesMatch(manager', Live \cup Y, timeout_rx, <<>>)
      /\ HandlesUseful(manager', Live \cup Y, timeout_rx, <<>>)
      /\ HandlesFree(manager', command_rx', spawned', n + k)
  OBVIOUS
<1>1. /\ TTypeOK /\ Good(timing_wheel, clock) /\ Known(timer, Live, n) /\ Full(timing_wheel)
      /\ Owned(entry_to_connection, connection_timers, Live) /\ Counted(stats, timer, task.at)
      /\ task.unsent = <<>> /\ Live \in SUBSET TimerEntry /\ stats \in [processed : Nat, cancelled : Nat]
      /\ timer \in Fates /\ clock \in Nat /\ timing_wheel \in Wheel /\ n \in Nat
  BY SafeTimers, SafeFacts
<1>g. Grown(w, timing_wheel, E, c)
  OBVIOUS
<1>2. Good(w, clock) /\ Sound(w) /\ w \in Wheel /\ Ahead(w)
  <2>1. Good(w, clock)
    BY <1>1, GrownGood
  <2> QED BY <2>1 DEF Good, Sound
<1>3. /\ Y \in SUBSET TimerEntry /\ k \in Nat /\ (\A y \in Y : y.id \in I /\ y.conn = c)
      /\ (\A i \in I : \E y \in Y : y.id = i) /\ I \in SUBSET TimerId /\ w.next_entry_id = n + k
  BY <1>1, <1>g, NewEntries
<1> HIDE DEF n, k
<1>4. Stored(w.slots) = Live \cup Y
  BY <1>g DEF Grown, Live, k, Y
<1>5. /\ Good(timing_wheel', clock) /\ Full(timing_wheel') /\ timing_wheel' \in Wheel
      /\ timing_wheel'.slots = w.slots /\ timing_wheel'.next_entry_id = w.next_entry_id
      /\ task' \in Tasks /\ task'.at = "select" /\ task'.unsent = <<>>
      /\ task'.next_tick \in {task.next_tick, clock} /\ task'.delayed = task.delayed
      /\ timing_wheel'.current_time = w.current_time
  BY <1>1, <1>2, HandledIs
<1>6. Live' = Live \cup Y
  BY <1>4, <1>5 DEF Live
<1> HIDE DEF Y
<1>7. /\ timer' \in Fates
      /\ \A i \in TimerId : timer'[i].state = IF i \in I THEN "live" ELSE timer[i].state
  <2>1. \A i \in I : \E x \in Stored(w.slots) : x.id = i
    BY <1>3, <1>4
  <2> QED BY <2>1, <1>1, <1>2, <1>3, <1>h, RegisteredIs
<1>8. \A i \in I : timer[i].state = "unused"
  <2>1. \A i \in I : i \in TimerId /\ i >= n
    BY <1>1, <1>3 DEF NewIds
  <2> QED BY <2>1, <1>1 DEF Known
<1>9. \A x \in Live : x.id \notin I /\ x.id \in TimerId
  <2>1. \A x \in Live : x.id \in TimerId
    BY <1>1, EntryFields
  <2>2. \A x \in Live : timer[x.id].state = "live"
    BY <2>1, <1>1 DEF Known
  <2> QED BY <2>1, <2>2, <1>8
<1>10. Owned(entry_to_connection', connection_timers', Live \cup Y)
  <2> HIDE DEF I
  <2>1. /\ Owned(entry_to_connection, connection_timers, Live) /\ Y \in SUBSET TimerEntry /\ c \in Conn
        /\ (\A x \in Live : x.id \notin I) /\ Newcomers(Y, I, c) /\ (\A x \in Live : x.id \in TimerId)
    BY <1>1, <1>3, <1>9 DEF Newcomers
  <2>2. Enlisted(entry_to_connection', connection_timers', entry_to_connection, connection_timers, I, c)
    BY <1>h DEF Enlisted
  <2>3. Owned(entry_to_connection', connection_timers', Plus(Live, Y))
    BY ONLY <2>1, <2>2, OwnedMore
  <2> QED BY <2>3 DEF Plus
<1>11. Known(timer', Live \cup Y, n + k)
  <2>1. /\ Known(timer, Live, n) /\ n \in Nat /\ k \in Nat
        /\ \A y \in Y : y.id \in n .. n + k - 1
        /\ \A i \in n .. n + k - 1 : \E y \in Y : y.id = i
        /\ \A i \in TimerId : timer'[i].state = IF i \in n .. n + k - 1 THEN "live" ELSE timer[i].state
    BY <1>1, <1>3, <1>7 DEF NewIds
  <2> QED BY ONLY <2>1, KnownMore
<1>12. Counted(stats, timer', task'.at)
  <2> HIDE DEF I
  <2>1. /\ Counted(stats, timer, task.at) /\ task.at = "select"
        /\ \A i \in I \cap TimerId : timer[i].state = "unused"
        /\ \A i \in TimerId : timer'[i].state = IF i \in I THEN "live" ELSE timer[i].state
    BY <1>1, <1>7, <1>8
  <2> QED BY ONLY <2>1, CountedMore
<1>13. Noted(timeout_rx, <<>>, timer')
  <2>1. /\ Noted(timeout_rx, task.unsent, timer)
        /\ \A d \in Conn : \A j \in 1 .. Len(timeout_rx[d]) : timeout_rx[d][j].id \in TimerId
        /\ \A j \in 1 .. Len(task.unsent) : task.unsent[j].id \in TimerId
    BY SafeFacts, ChannelFacts, TaskFacts
  <2>2. \A i \in TimerId : timer[i].state = "fired" => timer'[i].state = "fired"
    BY <1>7, <1>8
  <2>3. Noted(timeout_rx, task.unsent, timer')
    BY ONLY <2>1, <2>2, NotedStay
  <2> QED BY <2>3, <1>1
<1>14. TTypeOK'
  BY <1>1, <1>5, <1>7, SafeFacts, TypesNext
<1>15. OnTime(task', clock', timing_wheel'.current_time, Live', timer')
  <2>1. /\ task \in Tasks /\ clock \in Nat /\ timing_wheel.current_time \in Nat /\ timing_wheel.current_time <= clock
        /\ Live \in SUBSET TimerEntry /\ timer \in Fates
        /\ OnTime(task, clock, timing_wheel.current_time, Live, timer)
    BY SafeTimers, SafeFacts, WheelFields DEF Good, Turns
  <2>2. w.current_time = timing_wheel.current_time
    BY <1>g DEF Grown
  <2>3. Live' \in SUBSET TimerEntry
    BY <2>1, <1>3, <1>6
  <2>4. ASSUME NEW x \in Live'
        PROVE \/ x \in Live /\ timer'[x.id].due = timer[x.id].due
              \/ x.expiry >= timing_wheel.current_time /\ timer'[x.id].due = clock + x.expiry - timing_wheel.current_time
    <3>1. x \in Stored(w.slots) /\ x.id \in TimerId
      BY <2>3, <1>4, <1>6, EntryFields
    <3>2. \A i \in I : \E y \in Stored(w.slots) : y.id = i
      BY <1>3, <1>4
    <3>3. CASE x.id \in I
      <4>1. timer'[x.id].due = clock + x.expiry - w.current_time
        BY <3>1, <3>2, <3>3, <2>1, <1>2, <1>3, <1>h, RegisteredIs
      <4>2. x.expiry >= w.current_time
        BY <3>1, <1>2 DEF Ahead
      <4> QED BY <4>1, <4>2, <2>2
    <3>4. CASE x.id \notin I
      <4>1. timer'[x.id] = timer[x.id]
        BY <3>1, <3>2, <3>4, <2>1, <1>2, <1>3, <1>h, RegisteredIs
      <4>2. x \in Live
        BY <3>4, <1>3, <1>6
      <4> QED BY <4>1, <4>2
    <3> QED BY <3>3, <3>4
  <2>5. task' \in Tasks /\ task'.at = "select" /\ task'.next_tick \in {task.next_tick, clock} /\ task'.delayed = task.delayed
    BY <1>5
  <2>6. OnTime(task', clock, timing_wheel.current_time, Live', timer')
    BY <2>1, <2>3, <2>4, <2>5, OnTimeKept
  <2> QED BY <2>2, <2>6, <1>5
<1> QED BY <1>h, <1>3, <1>5, <1>6, <1>10, <1>11, <1>12, <1>13, <1>14, <1>15 DEF TaskSafe

\* New entries do not touch the handles there are.
LEMMA HandlesGrow ==
  ASSUME NEW m \in Managers, NEW X, NEW rx, NEW u, NEW q, NEW sp, NEW next \in Nat, NEW k \in Nat, NEW Y,
         \A y \in Y : y.id \in NewIds(next, k),
         HandlesApart(m, next), HandlesMatch(m, X, rx, u), HandlesUseful(m, X, rx, u), HandlesFree(m, q, sp, next)
  PROVE /\ HandlesApart(m, next + k) /\ HandlesMatch(m, X \cup Y, rx, u)
        /\ HandlesUseful(m, X \cup Y, rx, u) /\ HandlesFree(m, q, sp, next + k)
<1>1. TimerId \in SUBSET Nat
  BY Constants
<1>2. ASSUME NEW c \in Conn, NEW l \in Kind, m[c].active[l] # None
      PROVE m[c].active[l] \in Nat /\ m[c].active[l] < next
  BY <1>1, <1>2, ManagerFacts DEF HandlesApart
<1>3. HandlesApart(m, next + k)
  BY <1>2 DEF HandlesApart
<1>4. ASSUME NEW c \in Conn, NEW l \in Kind, m[c].active[l] # None, NEW y \in Y
      PROVE y.id # m[c].active[l]
  <2>1. y.id \in Nat /\ y.id >= next
    BY DEF NewIds
  <2> QED BY <2>1, <1>2, <1>4
<1>5. HandlesMatch(m, X \cup Y, rx, u)
  BY <1>4 DEF HandlesMatch
<1>6. HandlesUseful(m, X \cup Y, rx, u)
  BY DEF HandlesUseful
<1>7. HandlesFree(m, q, sp, next + k)
  BY <1>1 DEF HandlesFree
<1> QED BY <1>3, <1>5, <1>6, <1>7

LEMMA FreshIds ==
  ASSUME TaskSafe
  PROVE \A i \in TimerId : i >= timing_wheel.next_entry_id => timing_wheel.timer_map[i] = None
<1>1. \A i \in TimerId : i >= timing_wheel.next_entry_id => ~\E x \in Live : x.id = i
  BY SafeTimers DEF Known
<1> QED BY <1>1, SafeParts

LEMMA WishIsNat ==
  ASSUME NEW q \in Seq(Command)
  PROVE Cardinality(Wish(q)) \in Nat
<1>1. [op |-> "shutdown"] \in Command
  BY DEF Command
<1> QED BY <1>1, WishAppend

LEMMA SafeTaskBatchRegister ==
  ASSUME TaskSafe, TaskBatchRegister
  PROVE TaskSafe'
<1> DEFINE cmd == Head(command_rx)
           n == timing_wheel.next_entry_id
           batch == cmd.batch
           w == batch_add_timers(timing_wheel, cmd.conn, batch)
           E == simd_calculate_batch_metadata(timing_wheel, cmd.conn, batch)
           I == NewIds(n, Len(batch))
<1>1. /\ Take("batch_register") /\ Handled(w)
      /\ connection_timers' = [connection_timers EXCEPT ![cmd.conn] = @ \cup I]
      /\ entry_to_connection' = [i \in TimerId |-> IF i \in I THEN cmd.conn ELSE entry_to_connection[i]]
      /\ timer' = Registered(w, I)
      /\ manager' = manager /\ clock' = clock /\ timeout_rx' = timeout_rx /\ spawned' = spawned /\ stats' = stats
  BY DEF TaskBatchRegister, NewIds
<1>2. /\ task.at = "select" /\ cmd \in Command /\ cmd.op = "batch_register" /\ command_rx' \in Seq(Command)
      /\ task.unsent = <<>>
      /\ ClearsEnded(command_rx', manager) /\ Waits(command_rx', manager)
      /\ HandlesFree(manager, command_rx', spawned, n)
      /\ Room(command_rx', n + Wanted(cmd))
  BY <1>1, TakeIs
<1> HIDE DEF cmd
<1>3. cmd.conn \in Conn /\ batch \in Seq(Nat \X Kind) /\ Wanted(cmd) = Len(batch)
  BY <1>2, CommandFacts, TaskAssumption DEF Wanted
<1> HIDE DEF batch
<1>4. /\ Sound(timing_wheel) /\ timing_wheel \in Wheel /\ n \in Nat /\ manager \in Managers
      /\ connection_timers \in [Conn -> SUBSET TimerId]
      /\ entry_to_connection \in [TimerId -> Conn \cup {None}] /\ spawned \in SUBSET TimerId
      /\ HandlesApart(manager, n) /\ HandlesMatch(manager, Live, timeout_rx, task.unsent)
      /\ HandlesUseful(manager, Live, timeout_rx, task.unsent)
  BY SafeTimers, SafeFacts
<1>5. Len(batch) \in Nat /\ n + Len(batch) <= MaxTimers + 1
  <2>1. Len(batch) \in Nat
    BY <1>3
  <2>2. n + Len(batch) + Cardinality(Wish(command_rx')) <= MaxCreated + 1
    BY <1>2, <1>3 DEF Room
  <2>3. Cardinality(Wish(command_rx')) \in Nat
    BY <1>2, WishIsNat
  <2>4. MaxCreated \in Nat /\ MaxCreated <= MaxTimers /\ MaxTimers \in Nat
    BY TaskAssumption, WheelAssumption
  <2> HIDE DEF n
  <2> QED BY <2>1, <2>2, <2>3, <2>4, <1>4
<1>6. Grown(w, timing_wheel, E, cmd.conn) /\ Len(E) = Len(batch)
  <2>1. \A i \in TimerId : i >= n => timing_wheel.timer_map[i] = None
    BY FreshIds
  <2>2. Grown(w, timing_wheel, E, cmd.conn)
    BY <2>1, <1>3, <1>4, <1>5, BatchAddIs
  <2>3. Len(E) = Len(batch)
    BY <1>3, <1>4, <1>5, BatchSlots
  <2> QED BY <2>2, <2>3
<1> HIDE DEF w, E
<1>7. I = NewIds(n, Len(E)) /\ I \in SUBSET TimerId /\ \A y \in First(E, Len(E)) : y.id \in I
  BY <1>4, <1>6, NewEntries
<1> HIDE DEF n, I
<1>8. /\ connection_timers' \in [Conn -> SUBSET TimerId]
      /\ \A d \in Conn : connection_timers'[d] = IF d = cmd.conn THEN connection_timers[d] \cup I ELSE connection_timers[d]
      /\ entry_to_connection' \in [TimerId -> Conn \cup {None}]
      /\ \A i \in TimerId : entry_to_connection'[i] = IF i \in I THEN cmd.conn ELSE entry_to_connection[i]
  BY <1>1, <1>3, <1>4, <1>7
<1>9. /\ HandlesApart(manager', n + Len(E))
      /\ HandlesMatch(manager', Live \cup First(E, Len(E)), timeout_rx, <<>>)
      /\ HandlesUseful(manager', Live \cup First(E, Len(E)), timeout_rx, <<>>)
      /\ HandlesFree(manager', command_rx', spawned', n + Len(E))
  <2>1. \A y \in First(E, Len(E)) : y.id \in NewIds(n, Len(E))
    BY <1>7
  <2>2. /\ manager \in Managers /\ n \in Nat /\ Len(E) \in Nat /\ HandlesApart(manager, n)
        /\ HandlesMatch(manager, Live, timeout_rx, <<>>) /\ HandlesUseful(manager, Live, timeout_rx, <<>>)
        /\ HandlesFree(manager, command_rx', spawned, n)
    BY <1>2, <1>4, <1>5, <1>6
  <2>3. /\ HandlesApart(manager, n + Len(E))
        /\ HandlesMatch(manager, Live \cup First(E, Len(E)), timeout_rx, <<>>)
        /\ HandlesUseful(manager, Live \cup First(E, Len(E)), timeout_rx, <<>>)
        /\ HandlesFree(manager, command_rx', spawned, n + Len(E))
    BY ONLY <2>1, <2>2, HandlesGrow
  <2> QED BY <2>3, <1>1
<1>10. /\ Room(command_rx', n + Len(E)) /\ manager' \in Managers /\ spawned' \in SUBSET TimerId
       /\ ClearsEnded(command_rx', manager') /\ Waits(command_rx', manager')
  BY <1>1, <1>2, <1>3, <1>4, <1>6
<1> QED BY <1>1, <1>2, <1>3, <1>6, <1>7, <1>8, <1>9, <1>10, SafeEnter DEF n, I

\* An entry with id i for kind k of connection c.
IsFor(e, i, c, k) == e.id = i /\ e.conn = c /\ e.kind = k
\* A new handle, of a new entry.
LEMMA HandlesGiven ==
  ASSUME NEW m \in Managers, NEW X, NEW rx \in Channels, NEW q, NEW sp, NEW next \in TimerId, NEW e,
         NEW c \in Conn, NEW k \in Kind, IsFor(e, next, c, k), m[c].at # "ended",
         \A x \in X : x.id # next,
         \A d \in Conn : \A n \in 1 .. Len(rx[d]) : rx[d][n].id # next,
         HandlesApart(m, next), HandlesMatch(m, X, rx, <<>>), HandlesUseful(m, X, rx, <<>>), HandlesFree(m, q, sp, next)
  PROVE /\ HandlesApart(Given(m, c, k, next), next + 1)
        /\ HandlesMatch(Given(m, c, k, next), X \cup {e}, rx, <<>>)
        /\ HandlesUseful(Given(m, c, k, next), X \cup {e}, rx, <<>>)
        /\ HandlesFree(Given(m, c, k, next), q, sp \cup ({m[c].active[k]} \ {None}), next + 1)
<1> DEFINE g == Given(m, c, k, next)
<1>0. e.id = next /\ e.conn = c /\ e.kind = k
  BY DEF IsFor
<1>1. TimerId \in SUBSET Nat /\ None \notin Nat /\ next \in Nat
  BY Constants
<1>2. /\ \A d \in Conn, l \in Kind : g[d].active[l] = IF d = c /\ l = k THEN next ELSE m[d].active[l]
      /\ \A d \in Conn : g[d].at # "ended" => m[d].at # "ended"
  BY GivenIs
<1> HIDE DEF g
<1>3. ASSUME NEW d \in Conn, NEW l \in Kind, m[d].active[l] # None
      PROVE m[d].active[l] \in Nat /\ m[d].active[l] < next /\ m[d].active[l] # next
  <2>1. m[d].active[l] \in Nat /\ m[d].active[l] < next
    BY <1>1, <1>3, ManagerFacts DEF HandlesApart
  <2> QED BY <2>1, <1>1
<1>4. HandlesApart(g, next + 1)
  <2> SUFFICES ASSUME NEW d \in Conn, NEW l \in Kind, g[d].active[l] # None
               PROVE /\ g[d].active[l] < next + 1
                     /\ \A d2 \in Conn, l2 \in Kind : g[d2].active[l2] = g[d].active[l] => d2 = d /\ l2 = l
    BY DEF HandlesApart
  <2>1. CASE d = c /\ l = k
    <3>1. g[d].active[l] = next
      BY <2>1, <1>0, <1>2
    <3>2. ASSUME NEW d2 \in Conn, NEW l2 \in Kind, g[d2].active[l2] = next PROVE d2 = c /\ l2 = k
      BY <3>2, <1>1, <1>2, <1>3
    <3>3. next < next + 1
      BY <1>1
    <3> QED BY <3>1, <3>2, <3>3, <2>1
  <2>2. CASE ~(d = c /\ l = k)
    <3>1. g[d].active[l] = m[d].active[l] /\ m[d].active[l] # None
      BY <2>2, <1>2
    <3>2. m[d].active[l] \in Nat /\ m[d].active[l] < next /\ m[d].active[l] # next
      BY <3>1, <1>3
    <3>3. ASSUME NEW d2 \in Conn, NEW l2 \in Kind, g[d2].active[l2] = m[d].active[l] PROVE d2 = d /\ l2 = l
      <4>1. m[d2].active[l2] = m[d].active[l]
        BY <3>3, <3>2, <1>2
      <4> QED BY <4>1, <3>1 DEF HandlesApart
    <3>4. m[d].active[l] < next + 1
      BY <3>2, <1>1
    <3> QED BY <3>1, <3>3, <3>4
  <2> QED BY <2>1, <2>2
<1>5. HandlesMatch(g, X \cup {e}, rx, <<>>)
  <2> SUFFICES ASSUME NEW d \in Conn, NEW l \in Kind, g[d].active[l] # None
               PROVE /\ \A x \in X \cup {e} : x.id = g[d].active[l] => x.conn = d /\ x.kind = l
                     /\ \A f \in Conn : \A n \in 1 .. Len(rx[f]) : rx[f][n].id = g[d].active[l] => rx[f][n].kind = l
    BY DEF HandlesMatch
  <2>1. CASE d = c /\ l = k
    BY <2>1, <1>0, <1>2
  <2>2. CASE ~(d = c /\ l = k)
    <3>1. g[d].active[l] = m[d].active[l] /\ m[d].active[l] # None
      BY <2>2, <1>2
    <3>2. m[d].active[l] # next
      BY <3>1, <1>3
    <3>3. /\ \A x \in X : x.id = m[d].active[l] => x.conn = d /\ x.kind = l
          /\ \A f \in Conn : \A n \in 1 .. Len(rx[f]) : rx[f][n].id = m[d].active[l] => rx[f][n].kind = l
      BY <3>1 DEF HandlesMatch
    <3> QED BY <1>0, <3>1, <3>2, <3>3
  <2> QED BY <2>1, <2>2
<1>6. HandlesUseful(g, X \cup {e}, rx, <<>>)
  <2> SUFFICES ASSUME NEW d \in Conn, NEW l \in Kind, g[d].active[l] # None, g[d].at # "ended"
               PROVE \/ \E x \in X \cup {e} : x.id = g[d].active[l]
                     \/ \E n \in 1 .. Len(rx[d]) : rx[d][n].id = g[d].active[l]
    BY DEF HandlesUseful
  <2>1. CASE d = c /\ l = k
    BY <2>1, <1>0, <1>2
  <2>2. CASE ~(d = c /\ l = k)
    <3>1. g[d].active[l] = m[d].active[l] /\ m[d].active[l] # None /\ m[d].at # "ended"
      BY <2>2, <1>2
    <3>2. \/ \E x \in X : x.id = m[d].active[l]
          \/ \E n \in 1 .. Len(rx[d]) : rx[d][n].id = m[d].active[l]
      BY <3>1 DEF HandlesUseful
    <3> QED BY <3>1, <3>2
  <2> QED BY <2>1, <2>2
<1>7. HandlesFree(g, q, sp \cup ({m[c].active[k]} \ {None}), next + 1)
  <2> SUFFICES ASSUME NEW i \in TimerId, i \in sp \cup ({m[c].active[k]} \ {None}) \/ CancelsIn(q, i)
               PROVE i < next + 1 /\ \A d \in Conn, l \in Kind : g[d].active[l] # i
    BY DEF HandlesFree
  <2>1. CASE i \in sp \/ CancelsIn(q, i)
    <3>1. i < next /\ \A d \in Conn, l \in Kind : m[d].active[l] # i
      BY <2>1 DEF HandlesFree
    <3>2. i \in Nat /\ i # next /\ i < next + 1
      BY <3>1, <1>1
    <3> QED BY <3>1, <3>2, <1>2
  <2>2. CASE i = m[c].active[k] /\ i # None
    <3>1. i < next /\ i \in Nat /\ i # next
      BY <2>2, <1>3
    <3>2. i < next + 1
      BY <3>1, <1>1
    <3>3. ASSUME NEW d \in Conn, NEW l \in Kind, g[d].active[l] = i PROVE FALSE
      <4>1. m[d].active[l] = i /\ ~(d = c /\ l = k)
        BY <3>1, <3>3, <1>2
      <4> QED BY <4>1, <2>2 DEF HandlesApart
    <3> QED BY <3>2, <3>3
  <2> QED BY <2>1, <2>2
<1> QED BY <1>4, <1>5, <1>6, <1>7 DEF g

\* Ids not given out are of no entry and no event.
LEMMA NextIsNew ==
  ASSUME TaskSafe
  PROVE /\ \A x \in Live : x.id # timing_wheel.next_entry_id
        /\ \A d \in Conn : \A n \in 1 .. Len(timeout_rx[d]) : timeout_rx[d][n].id # timing_wheel.next_entry_id
<1>1. /\ Known(timer, Live, timing_wheel.next_entry_id) /\ Live \in SUBSET TimerEntry
      /\ Noted(timeout_rx, task.unsent, timer) /\ timeout_rx \in Channels /\ timing_wheel.next_entry_id \in Nat
  BY SafeTimers, SafeFacts
<1>2. \A x \in Live : x.id \in TimerId /\ timer[x.id].state = "live"
  <2>1. \A x \in Live : x.id \in TimerId
    BY <1>1, EntryFields
  <2> QED BY <2>1, <1>1 DEF Known
<1>3. \A d \in Conn : \A n \in 1 .. Len(timeout_rx[d]) :
        timeout_rx[d][n].id \in TimerId /\ timer[timeout_rx[d][n].id].state = "fired"
  BY <1>1, ChannelFacts DEF Noted
<1>4. \A i \in TimerId : timer[i].state \in {"live", "fired"} => i # timing_wheel.next_entry_id
  BY <1>1, Constants DEF Known
<1> QED BY <1>2, <1>3, <1>4

LEMMA SafeTaskRegister ==
  ASSUME TaskSafe, TaskRegister
  PROVE TaskSafe'
<1> DEFINE cmd == Head(command_rx)
           n == timing_wheel.next_entry_id
           c == cmd.conn
           k == cmd.kind
           w == add_timer(timing_wheel, cmd.delay, c, k)
           e == Entry(timing_wheel, cmd.delay, c, k)
           E == <<e>>
           old == manager[c].active[k]
<1>1. /\ Take("register") /\ Handled(w)
      /\ connection_timers' = [connection_timers EXCEPT ![c] = @ \cup {n}]
      /\ entry_to_connection' = [entry_to_connection EXCEPT ![n] = c]
      /\ timer' = Registered(w, {n}) /\ manager' = Given(manager, c, k, n)
      /\ spawned' = spawned \cup ({old} \ {None})
      /\ clock' = clock /\ timeout_rx' = timeout_rx /\ stats' = stats
  BY DEF TaskRegister, Given
<1>2. /\ task.at = "select" /\ cmd \in Command /\ cmd.op = "register" /\ command_rx' \in Seq(Command)
      /\ task.unsent = <<>>
      /\ ClearsEnded(command_rx', manager) /\ Waits(command_rx', manager)
      /\ HandlesFree(manager, command_rx', spawned, n)
      /\ Room(command_rx', n + Wanted(cmd))
      /\ Caller(cmd) # None => manager[Caller(cmd)].at = "wait"
      /\ \A j \in 1 .. Len(command_rx') : Caller(command_rx'[j]) # None => Caller(command_rx'[j]) # Caller(cmd)
  BY <1>1, TakeIs
<1> HIDE DEF cmd
<1>3. c \in Conn /\ k \in Kind /\ cmd.delay \in Nat /\ Wanted(cmd) = 1 /\ Caller(cmd) = c /\ c # None
  BY <1>2, CommandFacts, TaskAssumption, WheelAssumption DEF Wanted, Caller
<1>4. /\ Sound(timing_wheel) /\ timing_wheel \in Wheel /\ n \in Nat /\ manager \in Managers
      /\ connection_timers \in [Conn -> SUBSET TimerId] /\ timeout_rx \in Channels
      /\ entry_to_connection \in [TimerId -> Conn \cup {None}] /\ spawned \in SUBSET TimerId
      /\ HandlesApart(manager, n) /\ HandlesMatch(manager, Live, timeout_rx, task.unsent)
      /\ HandlesUseful(manager, Live, timeout_rx, task.unsent)
  BY SafeTimers, SafeFacts
<1>5. n \in TimerId
  <2>1. n + 1 + Cardinality(Wish(command_rx')) <= MaxCreated + 1
    BY <1>2, <1>3 DEF Room
  <2>2. Cardinality(Wish(command_rx')) \in Nat
    BY <1>2, WishIsNat
  <2>3. MaxCreated \in Nat /\ MaxCreated <= MaxTimers /\ MaxTimers \in Nat
    BY TaskAssumption, WheelAssumption
  <2>4. n \in 1 .. MaxTimers + 1
    BY <1>4, WheelFields
  <2> HIDE DEF n
  <2> QED BY <2>1, <2>2, <2>3, <2>4, <1>4 DEF TimerId
<1>6. Grown(w, timing_wheel, E, c)
  <2>1. timing_wheel.timer_map[n] = None
    BY <1>4, <1>5, FreshIds
  <2> HIDE DEF k, c
  <2> QED BY <2>1, <1>3, <1>4, <1>5, AddIs
<1>7. Len(E) = 1 /\ First(E, Len(E)) = {e} /\ e.id = n /\ e.conn = c /\ e.kind = k
  BY DEF First, Entry
<1>8. {n} = NewIds(n, Len(E))
  BY <1>4, <1>7 DEF NewIds
<1> HIDE DEF w, e, E, n, k, c
<1>9. /\ connection_timers' \in [Conn -> SUBSET TimerId]
      /\ \A d \in Conn : connection_timers'[d] = IF d = c THEN connection_timers[d] \cup {n} ELSE connection_timers[d]
      /\ entry_to_connection' \in [TimerId -> Conn \cup {None}]
      /\ \A i \in TimerId : entry_to_connection'[i] = IF i \in {n} THEN c ELSE entry_to_connection[i]
  BY <1>1, <1>3, <1>4, <1>5
<1>10. manager[c].at = "wait"
  BY <1>2, <1>3
<1>11. /\ manager' \in Managers /\ ClearsEnded(command_rx', manager') /\ Waits(command_rx', manager')
       /\ spawned' \in SUBSET TimerId /\ Room(command_rx', n + Len(E))
  <2>1. /\ manager' \in Managers /\ manager'[c].at = "run" /\ \A d \in Conn : d # c => manager'[d] = manager[d]
    BY <1>1, <1>3, <1>4, <1>5, GivenIs
  <2>2. ClearsEnded(command_rx', manager')
    <3>1. \A d \in Conn : manager[d].at = "ended" => manager'[d].at = "ended"
      BY <2>1, <1>10
    <3> QED BY <3>1, <1>2, QueueKept
  <2>3. Waits(command_rx', manager')
    <3>1. /\ Waits(command_rx', manager) /\ (\A d \in Conn : d # c => manager'[d].at = manager[d].at)
          /\ (\A j \in 1 .. Len(command_rx') : Caller(command_rx'[j]) # None => Caller(command_rx'[j]) # c)
          /\ c \in Conn /\ command_rx' \in Seq(Command)
      BY <2>1, <1>2, <1>3
    <3> QED BY ONLY <3>1, QueueKept
  <2>4. spawned' \in SUBSET TimerId
    BY <1>1, <1>3, <1>4, ManagerFacts
  <2>5. Room(command_rx', n + Len(E))
    BY <1>2, <1>3, <1>7
  <2> QED BY <2>1, <2>2, <2>3, <2>4, <2>5
<1>12. /\ HandlesApart(manager', n + Len(E))
       /\ HandlesMatch(manager', Live \cup First(E, Len(E)), timeout_rx, <<>>)
       /\ HandlesUseful(manager', Live \cup First(E, Len(E)), timeout_rx, <<>>)
       /\ HandlesFree(manager', command_rx', spawned', n + Len(E))
  <2>1. /\ manager \in Managers /\ timeout_rx \in Channels /\ n \in TimerId /\ c \in Conn /\ k \in Kind
        /\ IsFor(e, n, c, k) /\ manager[c].at # "ended"
        /\ (\A x \in Live : x.id # n)
        /\ (\A d \in Conn : \A j \in 1 .. Len(timeout_rx[d]) : timeout_rx[d][j].id # n)
        /\ HandlesApart(manager, n) /\ HandlesMatch(manager, Live, timeout_rx, <<>>)
        /\ HandlesUseful(manager, Live, timeout_rx, <<>>) /\ HandlesFree(manager, command_rx', spawned, n)
    BY <1>2, <1>3, <1>4, <1>5, <1>7, <1>10, NextIsNew DEF n, IsFor
  <2>2. /\ HandlesApart(Given(manager, c, k, n), n + 1)
        /\ HandlesMatch(Given(manager, c, k, n), Live \cup {e}, timeout_rx, <<>>)
        /\ HandlesUseful(Given(manager, c, k, n), Live \cup {e}, timeout_rx, <<>>)
        /\ HandlesFree(Given(manager, c, k, n), command_rx', spawned \cup ({old} \ {None}), n + 1)
    BY ONLY <2>1, HandlesGiven
  <2> QED BY <2>2, <1>1, <1>7
<1> QED BY <1>1, <1>2, <1>3, <1>6, <1>8, <1>9, <1>11, <1>12, SafeEnter DEF n

----------------------------------------------------------------------------
(* Expiries.                                                               *)
\* Events that go to their channels, or wait, are still noted.
LEMMA NotedSent ==
  ASSUME NEW rx, NEW ev, NEW tm, Noted(rx, ev, tm), NEW a, Sent(a, rx, ev, Len(ev))
  PROVE Noted(a.rx, a.unsent, tm)
<1>1. /\ \A n \in 1 .. Len(a.unsent) : \E m \in 1 .. Len(ev) : a.unsent[n] = ev[m]
      /\ \A n, m \in 1 .. Len(a.unsent) : a.unsent[m].id = a.unsent[n].id => m = n
      /\ \A c \in Conn : \A n, m \in 1 .. Len(a.rx[c]) : a.rx[c][m].id = a.rx[c][n].id => m = n
      /\ \A c \in Conn : \A n \in 1 .. Len(a.rx[c]) : \A m \in 1 .. Len(a.unsent) : a.rx[c][n].id # a.unsent[m].id
  BY DEF Sent
<1>2. \A c \in Conn : \A n \in 1 .. Len(a.rx[c]) :
        \/ \E m \in 1 .. Len(rx[c]) : rx[c][m] = a.rx[c][n]
        \/ \E m \in 1 .. Len(ev) : a.rx[c][n].id = ev[m].id
  BY DEF Sent
<1>3. \A m \in 1 .. Len(ev) : tm[ev[m].id].state = "fired"
  BY DEF Noted
<1>4. \A c \in Conn : \A n \in 1 .. Len(rx[c]) : tm[rx[c][n].id].state = "fired"
  BY DEF Noted
<1>5. \A n \in 1 .. Len(a.unsent) : tm[a.unsent[n].id].state = "fired"
  BY <1>1, <1>3
<1>6. ASSUME NEW c \in Conn, NEW n \in 1 .. Len(a.rx[c]) PROVE tm[a.rx[c][n].id].state = "fired"
  <2>1. CASE \E m \in 1 .. Len(rx[c]) : rx[c][m] = a.rx[c][n]
    BY <2>1, <1>4
  <2>2. CASE \E m \in 1 .. Len(ev) : a.rx[c][n].id = ev[m].id
    BY <2>2, <1>3
  <2> QED BY <2>1, <2>2, <1>2
<1> QED BY <1>1, <1>5, <1>6 DEF Noted

LEMMA MatchSent ==
  ASSUME NEW m, NEW X, NEW rx, NEW ev, HandlesMatch(m, X, rx, ev), NEW a, Sent(a, rx, ev, Len(ev))
  PROVE HandlesMatch(m, X, a.rx, a.unsent)
<1>1. \A n \in 1 .. Len(a.unsent) : \E j \in 1 .. Len(ev) : a.unsent[n] = ev[j]
  BY DEF Sent
<1>2. \A c \in Conn : \A n \in 1 .. Len(a.rx[c]) :
        \/ \E j \in 1 .. Len(rx[c]) : rx[c][j] = a.rx[c][n]
        \/ \E j \in 1 .. Len(ev) : a.rx[c][n].id = ev[j].id /\ a.rx[c][n].kind = ev[j].kind
  BY DEF Sent
<1> SUFFICES ASSUME NEW c \in Conn, NEW k \in Kind, m[c].active[k] # None
             PROVE /\ \A x \in X : x.id = m[c].active[k] => x.conn = c /\ x.kind = k
                   /\ \A n \in 1 .. Len(a.unsent) :
                        a.unsent[n].id = m[c].active[k] => a.unsent[n].conn = c /\ a.unsent[n].kind = k
                   /\ \A d \in Conn : \A n \in 1 .. Len(a.rx[d]) :
                        a.rx[d][n].id = m[c].active[k] => a.rx[d][n].kind = k
  BY DEF HandlesMatch
<1>3. /\ \A x \in X : x.id = m[c].active[k] => x.conn = c /\ x.kind = k
      /\ \A n \in 1 .. Len(ev) : ev[n].id = m[c].active[k] => ev[n].conn = c /\ ev[n].kind = k
      /\ \A d \in Conn : \A n \in 1 .. Len(rx[d]) : rx[d][n].id = m[c].active[k] => rx[d][n].kind = k
  BY DEF HandlesMatch
<1>4. ASSUME NEW d \in Conn, NEW n \in 1 .. Len(a.rx[d]), a.rx[d][n].id = m[c].active[k]
      PROVE a.rx[d][n].kind = k
  <2>1. CASE \E j \in 1 .. Len(rx[d]) : rx[d][j] = a.rx[d][n]
    BY <2>1, <1>3, <1>4
  <2>2. CASE \E j \in 1 .. Len(ev) : a.rx[d][n].id = ev[j].id /\ a.rx[d][n].kind = ev[j].kind
    BY <2>2, <1>3, <1>4
  <2> QED BY <2>1, <2>2, <1>2
<1>5. ASSUME NEW n \in 1 .. Len(a.unsent), a.unsent[n].id = m[c].active[k]
      PROVE a.unsent[n].conn = c /\ a.unsent[n].kind = k
  <2>1. PICK j \in 1 .. Len(ev) : a.unsent[n] = ev[j]
    BY <1>1
  <2>2. ev[j].id = m[c].active[k]
    BY <2>1, <1>5
  <2>3. ev[j].conn = c /\ ev[j].kind = k
    BY <2>2, <1>3
  <2> QED BY <2>1, <2>3
<1> QED BY <1>3, <1>4, <1>5

LEMMA UsefulSent ==
  ASSUME NEW X, NEW rx, NEW ev, HandlesMatch(manager, X, rx, ev), HandlesUseful(manager, X, rx, ev),
         NEW a, Sent(a, rx, ev, Len(ev))
  PROVE HandlesUseful(manager, X, a.rx, a.unsent)
<1>1. \A c \in Conn : \A j \in 1 .. Len(rx[c]) : \E n \in 1 .. Len(a.rx[c]) : a.rx[c][n] = rx[c][j]
  BY DEF Sent
<1>2. \A j \in 1 .. Len(ev) : \/ manager[ev[j].conn].at = "ended"
                              \/ \E n \in 1 .. Len(a.rx[ev[j].conn]) : a.rx[ev[j].conn][n].id = ev[j].id
                              \/ \E n \in 1 .. Len(a.unsent) : a.unsent[n] = ev[j]
  BY DEF Sent
<1> SUFFICES ASSUME NEW c \in Conn, NEW k \in Kind, manager[c].active[k] # None, manager[c].at # "ended"
             PROVE \/ \E x \in X : x.id = manager[c].active[k]
                   \/ \E n \in 1 .. Len(a.rx[c]) : a.rx[c][n].id = manager[c].active[k]
                   \/ \E n \in 1 .. Len(a.unsent) : a.unsent[n].id = manager[c].active[k]
  BY DEF HandlesUseful
<1>3. \/ \E x \in X : x.id = manager[c].active[k]
      \/ \E n \in 1 .. Len(rx[c]) : rx[c][n].id = manager[c].active[k]
      \/ \E n \in 1 .. Len(ev) : ev[n].id = manager[c].active[k]
  BY DEF HandlesUseful
<1>4. CASE \E n \in 1 .. Len(rx[c]) : rx[c][n].id = manager[c].active[k]
  BY <1>1, <1>4
<1>5. CASE \E n \in 1 .. Len(ev) : ev[n].id = manager[c].active[k]
  <2>1. PICK j \in 1 .. Len(ev) : ev[j].id = manager[c].active[k]
    BY <1>5
  <2>2. ev[j].conn = c
    BY <2>1 DEF HandlesMatch
  <2> QED BY <2>1, <2>2, <1>2
<1> QED BY <1>3, <1>4, <1>5

LEMMA SafeTrigger ==
  ASSUME TaskSafe, task.at # "stopped", NEW ev, NEW w, NEW nt \in Nat, TriggerAll(ev, w, nt), Good(w, clock),
         w.next_entry_id = timing_wheel.next_entry_id, Sendable(timeout_rx, ev),
         NEW G \in SUBSET TimerId, \A i \in G : \E x \in Live : x.id = i, Stored(w.slots) = Minus(Live, G),
         timer' \in Fates, \A i \in TimerId : timer'[i].state = IF i \in G THEN "fired" ELSE timer[i].state,
         connection_timers' \in [Conn -> SUBSET TimerId], \A c \in Conn : connection_timers'[c] = connection_timers[c] \ G,
         entry_to_connection' \in [TimerId -> Conn \cup {None}],
         \A i \in TimerId : entry_to_connection'[i] = IF i \in G THEN None ELSE entry_to_connection[i],
         Noted(timeout_rx, ev, timer'), HandlesMatch(manager, Minus(Live, G), timeout_rx, ev),
         HandlesUseful(manager, Minus(Live, G), timeout_rx, ev),
         clock' = clock, command_rx' = command_rx, manager' = manager, spawned' = spawned,
         ~task.delayed => Punctual(nt, clock, w.current_time, Minus(Live, G), timer')
  PROVE TaskSafe'
<1> DEFINE a == FoldLeft(Trigger, [rx |-> timeout_rx, unsent |-> <<>>], ev)
           n == timing_wheel.next_entry_id
<1>1. /\ TTypeOK /\ clock \in Nat /\ Known(timer, Live, n) /\ Counted(stats, timer, task.at)
      /\ Owned(entry_to_connection, connection_timers, Live) /\ Live \in SUBSET TimerEntry
      /\ stats \in [processed : Nat, cancelled : Nat] /\ timer \in Fates /\ task \in Tasks
      /\ command_rx \in Seq(Command) /\ manager \in Managers /\ spawned \in SUBSET TimerId
      /\ HandlesApart(manager, n) /\ HandlesFree(manager, command_rx, spawned, n) /\ ClearsEnded(command_rx, manager)
      /\ Waits(command_rx, manager) /\ Room(command_rx, n)
  BY SafeTimers, SafeFacts
<1>2. Sent(a, timeout_rx, ev, Len(ev))
  BY SentAll
<1>3. /\ timeout_rx' = a.rx
      /\ \/ /\ a.unsent = <<>> /\ LoopTop(w, nt, task.next_update)
            /\ stats' = [stats EXCEPT !.processed = Cardinality({i \in TimerId : timer'[i].state = "fired"})]
         \/ /\ a.unsent # <<>> /\ timing_wheel' = w /\ stats' = stats
            /\ task' = [task EXCEPT !.at = "trigger", !.unsent = a.unsent, !.next_tick = nt, !.delayed = TRUE]
  BY DEF TriggerAll
<1> HIDE DEF a
<1>4. a.rx \in Channels /\ a.unsent \in Seq(TimerEntry)
  BY <1>2 DEF Sent
<1>5. /\ Noted(a.rx, a.unsent, timer') /\ HandlesMatch(manager, Minus(Live, G), a.rx, a.unsent)
      /\ HandlesUseful(manager, Minus(Live, G), a.rx, a.unsent)
  BY <1>2, NotedSent, MatchSent, UsefulSent
<1>6. Owned(entry_to_connection', connection_timers', Minus(Live, G))
  BY <1>1, OwnedLess
<1>7. Known(timer', Minus(Live, G), n) /\ \A i \in G : timer[i].state = "live"
  <2>1. /\ Known(timer, Live, n) /\ (\A i \in G \cap TimerId : \E x \in Live : x.id = i)
        /\ (\A i \in TimerId : i \in G => timer'[i].state # "unused" /\ timer'[i].state # "live")
        /\ (\A i \in TimerId : i \notin G => timer'[i].state = timer[i].state)
    BY <1>1
  <2>2. Known(timer', Minus(Live, G), n) /\ \A i \in TimerId : i \in G => timer[i].state = "live"
    BY ONLY <2>1, KnownLess
  <2> QED BY <2>2
<1>8. Cardinality({i \in TimerId : timer'[i].state = "fired"}) \in Nat
  <2> DEFINE A == {i \in TimerId : timer'[i].state = "fired"}
  <2>1. A \in SUBSET TimerId /\ A \cap {} = {} /\ {} \in SUBSET TimerId
    OBVIOUS
  <2> HIDE DEF A
  <2>2. Cardinality(A) \in Nat
    BY <2>1, DisjointCount
  <2> QED BY <2>2 DEF A
<1>9. /\ task' \in Tasks /\ task'.unsent = a.unsent /\ task'.at \in {"select", "trigger"}
      /\ task'.at = "select" => a.unsent = <<>>
      /\ task'.at = "trigger" => task'.delayed
      /\ task'.at = "select" => task'.delayed = task.delayed /\ task'.next_tick = nt
      /\ timing_wheel'.current_time = w.current_time
      /\ Good(timing_wheel', clock) /\ (task'.at = "select" => Full(timing_wheel')) /\ timing_wheel' \in Wheel
      /\ timing_wheel'.slots = w.slots /\ timing_wheel'.next_entry_id = n
      /\ stats' \in [processed : Nat, cancelled : Nat] /\ stats'.cancelled = stats.cancelled
      /\ task'.at = "select" => stats'.processed = Cardinality({i \in TimerId : timer'[i].state = "fired"})
  <2>1. CASE a.unsent = <<>>
    <3>1. /\ LoopTop(w, nt, task.next_update) /\ task.next_update \in Nat
          /\ stats' = [stats EXCEPT !.processed = Cardinality({i \in TimerId : timer'[i].state = "fired"})]
      BY <2>1, <1>1, <1>3, TaskFacts
    <3>2. /\ Good(timing_wheel', clock) /\ Full(timing_wheel') /\ timing_wheel' \in Wheel
          /\ timing_wheel'.slots = w.slots /\ timing_wheel'.next_entry_id = w.next_entry_id
          /\ task' \in Tasks /\ task'.at = "select" /\ task'.unsent = <<>>
          /\ task'.next_tick = nt /\ task'.delayed = task.delayed /\ timing_wheel'.current_time = w.current_time
      BY <3>1, <1>1, LoopTopIs
    <3>3. /\ stats' \in [processed : Nat, cancelled : Nat] /\ stats'.cancelled = stats.cancelled
          /\ stats'.processed = Cardinality({i \in TimerId : timer'[i].state = "fired"})
      BY <3>1, <1>1, <1>8
    <3> QED BY <3>2, <3>3, <2>1
  <2>2. CASE a.unsent # <<>>
    <3>1. /\ timing_wheel' = w /\ stats' = stats
          /\ task' = [task EXCEPT !.at = "trigger", !.unsent = a.unsent, !.next_tick = nt, !.delayed = TRUE]
      BY <2>2, <1>3
    <3>2. task' \in Tasks /\ task'.unsent = a.unsent /\ task'.at = "trigger" /\ task'.delayed
      BY <3>1, <1>1, <1>4 DEF Tasks
    <3>3. w \in Wheel
      BY DEF Good, Sound
    <3> QED BY <3>1, <3>2, <3>3, <1>1
  <2> QED BY <2>1, <2>2
<1>10. Live' = Minus(Live, G)
  BY <1>9 DEF Live
<1>11. Counted(stats', timer', task'.at)
  <2>1. /\ Counted(stats, timer, task.at) /\ G \in SUBSET TimerId /\ (\A i \in G : timer[i].state = "live")
        /\ (\A i \in TimerId : timer'[i].state = IF i \in G THEN "fired" ELSE timer[i].state)
        /\ stats'.cancelled = stats.cancelled
        /\ (task'.at = "select" => stats'.processed = Cardinality({i \in TimerId : timer'[i].state = "fired"}))
    BY <1>1, <1>7, <1>9
  <2> QED BY ONLY <2>1, CountedFired
<1>12. TTypeOK'
  <2>1. timeout_rx' \in Channels /\ command_rx' \in Seq(Command) /\ manager' \in Managers /\ spawned' \in SUBSET TimerId
    BY <1>1, <1>3, <1>4
  <2> QED BY <2>1, <1>1, <1>9, TypesNext
<1>13. Noted(timeout_rx', task'.unsent, timer') /\ HandlesMatch(manager', Live', timeout_rx', task'.unsent)
       /\ HandlesUseful(manager', Live', timeout_rx', task'.unsent)
  BY <1>3, <1>5, <1>9, <1>10
<1>14. OnTime(task', clock', timing_wheel'.current_time, Live', timer')
  BY <1>9, <1>10 DEF OnTime
<1> QED BY <1>1, <1>6, <1>7, <1>9, <1>10, <1>11, <1>12, <1>13, <1>14 DEF TaskSafe

LEMMA AdvanceGood ==
  ASSUME NEW w, NEW now \in Nat, Good(w, now), NEW d, d = advance(w, now)
  PROVE /\ Good(d.wheel, now) /\ Fired(d.wheel, d.expired, w, now)
        /\ \A e \in Stored(d.wheel.slots) : e.expiry > now
<1>1. Sound(w) /\ Turns(w, now) /\ Ahead(w) /\ Early(w)
  BY DEF Good
<1>2. /\ Fired(d.wheel, d.expired, w, now) /\ Turns(d.wheel, now)
      /\ \A e \in Stored(d.wheel.slots) : e.expiry > now
  BY <1>1, AdvanceIs
<1>3. /\ Sound(d.wheel) /\ d.wheel \in Wheel /\ d.wheel.cached_next_expiry \in {w.cached_next_expiry, None}
      /\ \A e \in Stored(d.wheel.slots) : e \in Stored(w.slots)
  BY <1>2 DEF Fired, Sound
<1>4. Early(d.wheel)
  BY <1>1, <1>3 DEF Early
<1>5. Ahead(d.wheel)
  <2>1. d.wheel.current_time \in Nat /\ d.wheel.current_time <= now
    BY <1>2, <1>3, WheelFields DEF Turns
  <2>2. \A e \in Stored(d.wheel.slots) : e.expiry \in Nat /\ e.expiry > now
    <3>1. \A e \in Stored(d.wheel.slots) : e \in TimerEntry
      <4>1. d.wheel.slots \in Slots
        BY <1>3, WheelFields
      <4> QED BY <4>1, SlotFacts DEF Stored
    <3> QED BY <3>1, <1>2, EntryFields
  <2> QED BY <2>1, <2>2 DEF Ahead
<1> QED BY <1>2, <1>3, <1>4, <1>5 DEF Good

\* An advance of no more than a turn reaches the slot of the present.
LEMMA AdvanceTime ==
  ASSUME NEW w, Sound(w), NEW now \in Nat, Turns(w, now), NEW d, d = advance(w, now)
  PROVE /\ d.wheel.current_time >= w.current_time
        /\ now < w.current_time + SlotDuration * (SlotCount + 1) => now < d.wheel.current_time + SlotDuration
<1> DEFINE t == w.current_time
           q == (now - t) \div SlotDuration
           k == IF SlotCount < q THEN SlotCount ELSE q
           b == check_current_slot_for_expired_timers(w, now)
           seq == [n \in 1 .. k |-> n]
           a == FoldLeft(LAMBDA v, x : AdvanceOneSlot(v, now), b, seq)
<1>1. /\ t \in Nat /\ t <= now /\ now - t \in Nat /\ q \in Nat /\ SlotDuration * q <= now - t
      /\ now - t < SlotDuration * q + SlotDuration
  <2>1. t \in Nat /\ t <= now /\ SlotDuration \in Nat /\ SlotDuration > 0
    BY Constants, WheelFields DEF Sound, Turns
  <2> HIDE DEF t
  <2>2. now - t \in Nat
    BY <2>1
  <2> DEFINE n == now - t
  <2> HIDE DEF n
  <2>3. /\ n \div SlotDuration \in Nat /\ n % SlotDuration \in Nat /\ n % SlotDuration < SlotDuration
        /\ n = SlotDuration * (n \div SlotDuration) + (n % SlotDuration)
    BY <2>1, <2>2, DivMod DEF n
  <2> DEFINE p == SlotDuration * (n \div SlotDuration)
  <2>4. p \in Int
    BY <2>1, <2>3
  <2> HIDE DEF p
  <2>5. n = p + (n % SlotDuration)
    BY <2>3 DEF p
  <2> DEFINE o == n % SlotDuration
  <2>5a. o \in Nat /\ o < SlotDuration /\ n = p + o
    BY <2>3, <2>5
  <2> HIDE DEF o
  <2>6. p <= n /\ n < p + SlotDuration
    BY <2>1, <2>4, <2>5a
  <2> QED BY <2>1, <2>2, <2>3, <2>6 DEF n, p
<1>2. k \in Nat /\ k <= q /\ SlotCount \in Nat /\ SlotDuration \in Nat /\ SlotDuration > 0
  <2> HIDE DEF q
  <2> QED BY <1>1, Constants
<1>3. now < t + SlotDuration * (SlotCount + 1) => k = q
  <2> HIDE DEF q, t
  <2> SUFFICES ASSUME now < t + SlotDuration * (SlotCount + 1), SlotCount < q PROVE FALSE
    OBVIOUS
  <2>1. SlotDuration * (SlotCount + 1) <= SlotDuration * q
    BY <1>1, <1>2
  <2>2. SlotDuration * (SlotCount + 1) \in Nat /\ SlotDuration * q \in Nat
    BY <1>1, <1>2
  <2> DEFINE x == SlotDuration * (SlotCount + 1)
             y == SlotDuration * q
  <2>3. x <= y /\ x \in Nat /\ y \in Nat /\ y <= now - t /\ now < t + x
    BY <2>1, <2>2, <1>1
  <2> HIDE DEF x, y
  <2> QED BY <2>3, <1>1
<1>4. d.wheel.current_time = t + SlotDuration * k
  <2>1. ~ (now < t)
    BY <1>1
  <2>2. CASE q = 0
    <3>1. d = b
      BY <2>1, <2>2 DEF advance
    <3>2. Passed(d, w, now, 0) /\ k = 0
      BY <3>1, <2>2, <1>2, PassedFirst
    <3> QED BY <3>2 DEF Passed
  <2>3. CASE q # 0
    <3>1. d = [a EXCEPT !.wheel.cached_next_expiry = IF a.expired = <<>> THEN @ ELSE None]
      BY <2>1, <2>3 DEF advance
    <3>2. Passed(a, w, now, k)
      <4> HIDE DEF k
      <4> QED BY <1>2, PassedAll
    <3> HIDE DEF a, k
    <3>3. a = [wheel |-> a.wheel, expired |-> a.expired] /\ a.wheel \in Wheel /\ a.wheel.current_time = t + SlotDuration * k
      BY <3>2 DEF Passed, Leaves, Sound
    <3>4. d.wheel = [a.wheel EXCEPT !.cached_next_expiry = IF a.expired = <<>> THEN @ ELSE None]
      BY <3>1, <3>3
    <3>5. d.wheel.current_time = a.wheel.current_time
      BY <3>3, <3>4 DEF Wheel
    <3> QED BY <3>3, <3>5
  <2> QED BY <2>2, <2>3
<1> DEFINE m == SlotDuration * k
<1>5. m \in Nat
  <2> HIDE DEF k
  <2> QED BY <1>2
<1>6. now < t + SlotDuration * (SlotCount + 1) => now - t < m + SlotDuration
  <2> HIDE DEF q, k, t
  <2> QED BY <1>1, <1>3
<1> HIDE DEF m, t
<1>7. d.wheel.current_time = t + m
  BY <1>4 DEF m
<1>8. d.wheel.current_time >= t
  BY <1>1, <1>5, <1>7
<1>9. now < t + SlotDuration * (SlotCount + 1) => now < d.wheel.current_time + SlotDuration
  BY <1>1, <1>2, <1>5, <1>6, <1>7
<1> QED BY <1>8, <1>9 DEF t

LEMMA PunctualAfter ==
  ASSUME NEW tick \in Nat, NEW nt, NEW now \in Nat, NEW ct \in Nat, NEW ct2 \in Nat, NEW X \in SUBSET TimerEntry,
         NEW X2 \in SUBSET X, NEW tm \in Fates, NEW tm2,
         Punctual(tick, now, ct, X, tm), nt = tick \/ (now >= tick /\ nt = tick + AdvanceInterval),
         ct2 >= ct, now < ct + SlotDuration * (SlotCount + 1) => now < ct2 + SlotDuration,
         \A x \in X2 : x.expiry > now /\ tm2[x.id].due = tm[x.id].due
  PROVE Punctual(nt, now, ct2, X2, tm2)
<1>1. AdvanceInterval \in Nat /\ SlotDuration \in Nat /\ SlotDuration > 0
  BY TaskAssumption, Constants
<1>2. /\ now <= tick /\ tick <= now + AdvanceInterval /\ tick < ct + (AdvanceInterval + SlotDuration)
      /\ \A x \in X : /\ x.expiry <= tm[x.id].due /\ tm[x.id].due < x.expiry + (AdvanceInterval + SlotDuration)
                      /\ tick <= tm[x.id].due + AdvanceInterval
  BY DEF Punctual
<1>3. now < ct2 + SlotDuration
  <2>1. AdvanceInterval + SlotDuration <= SlotDuration * (SlotCount + 1)
    <3>1. AdvanceInterval <= SlotCount * SlotDuration /\ SlotCount \in Nat
      BY TaskAssumption, Constants
    <3>2. SlotDuration * (SlotCount + 1) = SlotCount * SlotDuration + SlotDuration /\ SlotCount * SlotDuration \in Nat
      BY <3>1, <1>1
    <3> QED BY <3>1, <3>2, <1>1
  <2>2. SlotDuration * (SlotCount + 1) \in Nat
    BY <1>1, Constants
  <2> DEFINE z == SlotDuration * (SlotCount + 1)
  <2>3. z \in Nat /\ AdvanceInterval + SlotDuration <= z /\ (now < ct + z => now < ct2 + SlotDuration)
    BY <2>1, <2>2
  <2> HIDE DEF z
  <2> QED BY <2>3, <1>1, <1>2
<1>4. /\ nt \in Nat /\ now <= nt /\ nt <= now + AdvanceInterval /\ nt < ct2 + (AdvanceInterval + SlotDuration)
  BY <1>1, <1>2, <1>3
<1>5. ASSUME NEW x \in X2
      PROVE /\ x.expiry <= tm2[x.id].due /\ tm2[x.id].due < x.expiry + (AdvanceInterval + SlotDuration)
            /\ nt <= tm2[x.id].due + AdvanceInterval
  <2>1. x \in X /\ x.expiry \in Nat /\ x.id \in TimerId /\ x.expiry > now /\ tm2[x.id].due = tm[x.id].due
    BY EntryFields
  <2>2. tm[x.id].due \in Nat
    BY <2>1 DEF Fates
  <2>3. /\ x.expiry <= tm[x.id].due /\ tm[x.id].due < x.expiry + (AdvanceInterval + SlotDuration)
        /\ tick <= tm[x.id].due + AdvanceInterval
    BY <2>1, <1>2
  <2> QED BY <2>1, <2>2, <2>3, <1>1, <1>2, <1>4
<1> QED BY <1>4, <1>5 DEF Punctual

LEMMA SafeAdvance ==
  ASSUME TaskSafe, task.at = "select", NEW nt \in Nat, advance_timing_wheel(nt),
         nt = task.next_tick \/ (clock >= task.next_tick /\ nt = task.next_tick + AdvanceInterval)
  PROVE TaskSafe'
<1> DEFINE d == advance(timing_wheel, clock)
           ev == d.expired
           w == d.wheel
           G == Ids(ev)
<1>1. /\ Forget(G) /\ timer' = Became(G, "fired") /\ TriggerAll(ev, w, nt)
      /\ clock' = clock /\ command_rx' = command_rx /\ manager' = manager /\ spawned' = spawned
  BY DEF advance_timing_wheel
<1>2. /\ Good(timing_wheel, clock) /\ clock \in Nat /\ Known(timer, Live, timing_wheel.next_entry_id)
      /\ Live \in SUBSET TimerEntry /\ task.unsent = <<>>
      /\ timer \in Fates /\ timeout_rx \in Channels /\ Noted(timeout_rx, task.unsent, timer)
      /\ connection_timers \in [Conn -> SUBSET TimerId]
      /\ entry_to_connection \in [TimerId -> Conn \cup {None}]
      /\ HandlesMatch(manager, Live, timeout_rx, task.unsent) /\ HandlesUseful(manager, Live, timeout_rx, task.unsent)
  BY SafeTimers, SafeFacts
<1>3. /\ Good(w, clock) /\ Fired(w, ev, timing_wheel, clock)
      /\ \A e \in Stored(w.slots) : e.expiry > clock
  BY <1>2, AdvanceGood
<1>t. /\ w.current_time >= timing_wheel.current_time
      /\ clock < timing_wheel.current_time + SlotDuration * (SlotCount + 1) => clock < w.current_time + SlotDuration
  BY <1>2, AdvanceTime DEF Good
<1> HIDE DEF d
<1>4. /\ w.next_entry_id = timing_wheel.next_entry_id /\ ev \in Seq(TimerEntry)
      /\ \A m, n \in 1 .. Len(ev) : ev[m].id = ev[n].id => m = n
      /\ \A n \in 1 .. Len(ev) : ev[n] \in Live
      /\ Stored(w.slots) = {e \in Live : e.id \notin Gone(ev)}
  BY <1>3 DEF Fired, Live
<1> HIDE DEF w, ev
<1>5. G = Gone(ev)
  <2>1. DOMAIN ev = 1 .. Len(ev)
    BY <1>4
  <2> QED BY <2>1, IdsAre
<1>6. Stored(w.slots) = Minus(Live, G)
  BY <1>4, <1>5 DEF Minus
<1> HIDE DEF G
<1>7. /\ \A i \in G : \E n \in 1 .. Len(ev) : ev[n].id = i
      /\ \A n \in 1 .. Len(ev) : ev[n].id \in G /\ ev[n] \in Live /\ ev[n].id \in TimerId
      /\ G \in SUBSET TimerId
  <2>1. /\ \A i \in G : \E n \in 1 .. Len(ev) : ev[n].id = i
        /\ \A n \in 1 .. Len(ev) : ev[n].id \in G
    BY <1>5 DEF Gone
  <2>2. \A n \in 1 .. Len(ev) : ev[n].id \in TimerId
    BY <1>2, <1>4, EntryFields
  <2> QED BY <2>1, <2>2, <1>4
<1>8. \A i \in G : \E x \in Live : x.id = i
  BY <1>7
<1>9. timer' \in Fates /\ \A i \in TimerId : timer'[i].state = IF i \in G THEN "fired" ELSE timer[i].state
  BY <1>1, <1>2, BecameIs
<1>10. /\ connection_timers' \in [Conn -> SUBSET TimerId]
       /\ \A c \in Conn : connection_timers'[c] = connection_timers[c] \ G
       /\ entry_to_connection' \in [TimerId -> Conn \cup {None}]
       /\ \A i \in TimerId : entry_to_connection'[i] = IF i \in G THEN None ELSE entry_to_connection[i]
  BY <1>1, <1>2 DEF Forget
<1>11. \A n \in 1 .. Len(ev) : timer[ev[n].id].state = "live"
  BY <1>2, <1>7 DEF Known
<1>12. \A c \in Conn : \A n \in 1 .. Len(timeout_rx[c]) :
         /\ timer[timeout_rx[c][n].id].state = "fired" /\ timeout_rx[c][n].id \in TimerId
         /\ \A m \in 1 .. Len(timeout_rx[c]) : timeout_rx[c][m].id = timeout_rx[c][n].id => m = n
  BY <1>2, ChannelFacts DEF Noted
<1>13. Sendable(timeout_rx, ev)
  <2>1. \A c \in Conn : \A n \in 1 .. Len(timeout_rx[c]) : \A m \in 1 .. Len(ev) : timeout_rx[c][n].id # ev[m].id
    BY <1>11, <1>12
  <2> QED BY <2>1, <1>2, <1>4, <1>12 DEF Sendable
<1>14. Noted(timeout_rx, ev, timer')
  <2>1. \A n \in 1 .. Len(ev) : timer'[ev[n].id].state = "fired"
    BY <1>7, <1>9
  <2>2. \A c \in Conn : \A n \in 1 .. Len(timeout_rx[c]) : timer'[timeout_rx[c][n].id].state = "fired"
    BY <1>9, <1>12
  <2>3. \A n \in 1 .. Len(ev) : \A c \in Conn : \A m \in 1 .. Len(timeout_rx[c]) : timeout_rx[c][m].id # ev[n].id
    BY <1>11, <1>12
  <2> QED BY <2>1, <2>2, <2>3, <1>4, <1>12 DEF Noted
<1>15. HandlesMatch(manager, Minus(Live, G), timeout_rx, ev)
  <2> SUFFICES ASSUME NEW c \in Conn, NEW k \in Kind, manager[c].active[k] # None
               PROVE /\ \A x \in Minus(Live, G) : x.id = manager[c].active[k] => x.conn = c /\ x.kind = k
                     /\ \A n \in 1 .. Len(ev) : ev[n].id = manager[c].active[k] => ev[n].conn = c /\ ev[n].kind = k
                     /\ \A f \in Conn : \A n \in 1 .. Len(timeout_rx[f]) :
                          timeout_rx[f][n].id = manager[c].active[k] => timeout_rx[f][n].kind = k
    BY DEF HandlesMatch
  <2>1. /\ \A x \in Live : x.id = manager[c].active[k] => x.conn = c /\ x.kind = k
        /\ \A f \in Conn : \A n \in 1 .. Len(timeout_rx[f]) :
             timeout_rx[f][n].id = manager[c].active[k] => timeout_rx[f][n].kind = k
    BY <1>2 DEF HandlesMatch
  <2> QED BY <2>1, <1>7 DEF Minus
<1>16. HandlesUseful(manager, Minus(Live, G), timeout_rx, ev)
  <2> SUFFICES ASSUME NEW c \in Conn, NEW k \in Kind, manager[c].active[k] # None, manager[c].at # "ended"
               PROVE \/ \E x \in Minus(Live, G) : x.id = manager[c].active[k]
                     \/ \E n \in 1 .. Len(timeout_rx[c]) : timeout_rx[c][n].id = manager[c].active[k]
                     \/ \E n \in 1 .. Len(ev) : ev[n].id = manager[c].active[k]
    BY DEF HandlesUseful
  <2>1. \/ \E x \in Live : x.id = manager[c].active[k]
        \/ \E n \in 1 .. Len(timeout_rx[c]) : timeout_rx[c][n].id = manager[c].active[k]
    BY <1>2 DEF HandlesUseful
  <2>2. ASSUME NEW x \in Live, x.id = manager[c].active[k]
        PROVE \/ x \in Minus(Live, G)
              \/ \E n \in 1 .. Len(ev) : ev[n].id = manager[c].active[k]
    BY <2>2, <1>7 DEF Minus
  <2> QED BY <2>1, <2>2
<1>17. ~task.delayed => Punctual(nt, clock, w.current_time, Minus(Live, G), timer')
  <2>1. OnTime(task, clock, timing_wheel.current_time, Live, timer) /\ task \in Tasks
    BY SafeTimers, SafeFacts
  <2>2. task.next_tick \in Nat /\ timing_wheel.current_time \in Nat /\ w.current_time \in Nat
    BY <2>1, <1>2, <1>3, TaskFacts, WheelFields DEF Good, Sound
  <2>3. /\ Minus(Live, G) \in SUBSET Live
        /\ \A x \in Minus(Live, G) : x.expiry > clock /\ timer'[x.id].due = timer[x.id].due
    <3>1. \A x \in Minus(Live, G) : x \in Live /\ x.id \notin G /\ x.id \in TimerId
      BY <1>2, EntryFields DEF Minus
    <3>2. \A i \in TimerId : i \notin G => timer'[i] = timer[i]
      BY <1>1, <1>2, BecameIs
    <3> QED BY <3>1, <3>2, <1>3, <1>6
  <2>4. ASSUME ~task.delayed PROVE Punctual(task.next_tick, clock, timing_wheel.current_time, Live, timer)
    BY <2>1, <2>4 DEF OnTime
  <2>5. /\ Live \in SUBSET TimerEntry /\ timer \in Fates /\ clock \in Nat
        /\ (nt = task.next_tick \/ (clock >= task.next_tick /\ nt = task.next_tick + AdvanceInterval))
    BY <1>2
  <2> QED BY ONLY <2>2, <2>3, <2>4, <2>5, <1>t, PunctualAfter
<1> QED BY <1>1, <1>3, <1>4, <1>6, <1>7, <1>8, <1>9, <1>10, <1>13, <1>14, <1>15, <1>16, <1>17, SafeTrigger

LEMMA SafeTicks ==
  ASSUME TaskSafe, AdvanceTick \/ AdvanceWakeup
  PROVE TaskSafe'
<1>1. task \in Tasks
  BY SafeFacts
<1>2. task.next_tick \in Nat /\ task.next_tick + AdvanceInterval \in Nat
  BY <1>1, TaskFacts, TaskAssumption
<1>3. CASE AdvanceTick
  BY <1>2, <1>3, SafeAdvance DEF AdvanceTick
<1>4. CASE AdvanceWakeup
  BY <1>2, <1>4, SafeAdvance DEF AdvanceWakeup
<1> QED BY <1>3, <1>4

LEMMA SafeRest ==
  ASSUME TaskSafe, TriggerRest
  PROVE TaskSafe'
<1> DEFINE ev == task.unsent
<1>1. /\ task.at = "trigger" /\ TriggerAll(ev, timing_wheel, task.next_tick)
      /\ clock' = clock /\ command_rx' = command_rx /\ manager' = manager /\ spawned' = spawned
      /\ timer' = timer /\ connection_timers' = connection_timers /\ entry_to_connection' = entry_to_connection
  BY DEF TriggerRest, owners
<1>2. /\ Good(timing_wheel, clock) /\ timer \in Fates /\ timeout_rx \in Channels /\ Noted(timeout_rx, ev, timer)
      /\ connection_timers \in [Conn -> SUBSET TimerId]
      /\ entry_to_connection \in [TimerId -> Conn \cup {None}] /\ task \in Tasks
      /\ HandlesMatch(manager, Live, timeout_rx, ev) /\ HandlesUseful(manager, Live, timeout_rx, ev)
  BY SafeTimers, SafeFacts
<1>3. task.next_tick \in Nat /\ ev \in Seq(TimerEntry)
  BY <1>2, TaskFacts
<1> HIDE DEF ev
<1>4. Sendable(timeout_rx, ev)
  <2>1. \A m, n \in 1 .. Len(ev) : ev[m].id = ev[n].id => m = n
    BY <1>2 DEF Noted
  <2>2. \A c \in Conn : \A n \in 1 .. Len(timeout_rx[c]) :
          /\ \A m \in 1 .. Len(ev) : timeout_rx[c][n].id # ev[m].id
          /\ \A m \in 1 .. Len(timeout_rx[c]) : timeout_rx[c][m].id = timeout_rx[c][n].id => m = n
    BY <1>2 DEF Noted
  <2> QED BY <2>1, <2>2, <1>2, <1>3 DEF Sendable
<1>5. Minus(Live, {}) = Live /\ Stored(timing_wheel.slots) = Live
  BY DEF Minus, Live
<1>6. /\ task.at # "stopped" /\ {} \in SUBSET TimerId /\ (\A i \in {} : \E x \in Live : x.id = i)
      /\ Stored(timing_wheel.slots) = Minus(Live, {}) /\ timer' \in Fates
      /\ (\A i \in TimerId : timer'[i].state = IF i \in {} THEN "fired" ELSE timer[i].state)
      /\ connection_timers' \in [Conn -> SUBSET TimerId]
      /\ (\A c \in Conn : connection_timers'[c] = connection_timers[c] \ {})
      /\ entry_to_connection' \in [TimerId -> Conn \cup {None}]
      /\ (\A i \in TimerId : entry_to_connection'[i] = IF i \in {} THEN None ELSE entry_to_connection[i])
      /\ Noted(timeout_rx, ev, timer') /\ HandlesMatch(manager, Minus(Live, {}), timeout_rx, ev)
      /\ HandlesUseful(manager, Minus(Live, {}), timeout_rx, ev) /\ task.delayed
  BY <1>1, <1>2, <1>5, SafeTimers DEF OnTime
<1> QED BY <1>1, <1>2, <1>3, <1>4, <1>6, SafeTrigger

----------------------------------------------------------------------------
(* The theorems.                                                           *)

LEMMA EmptyIsGood ==
  /\ EmptyWheel \in Wheel /\ Good(EmptyWheel, 0) /\ Full(EmptyWheel) /\ Stored(EmptyWheel.slots) = {}
  /\ EmptyWheel.next_entry_id = 1
<1>1. /\ EmptyWheel.slots = [s \in Slot |-> <<>>] /\ EmptyWheel.timer_map = [i \in TimerId |-> None]
      /\ EmptyWheel.current_slot = 0 /\ EmptyWheel.current_time = 0 /\ EmptyWheel.next_entry_id = 1
      /\ EmptyWheel.cached_next_expiry = None
  BY DEF EmptyWheel
<1>2. EmptyWheel \in Wheel
  <2>1. 0 \in Slot /\ 1 \in 1 .. MaxTimers + 1
    BY Constants
  <2>2. [s \in Slot |-> <<>>] \in [Slot -> Seq(TimerEntry)]
    OBVIOUS
  <2> QED BY <2>1, <2>2 DEF EmptyWheel, Wheel
<1>3. Stored(EmptyWheel.slots) = {}
  BY <1>1 DEF Stored
<1>4. Placed(EmptyWheel.slots, EmptyWheel.timer_map) /\ InSlot(EmptyWheel.slots)
  BY <1>1 DEF Placed, InSlot
<1>5. Sound(EmptyWheel)
  BY <1>2, <1>4 DEF Sound
<1>6. Turns(EmptyWheel, 0)
  <2>1. 0 % SlotDuration = 0 /\ 0 \div SlotDuration = 0 /\ 0 % SlotCount = 0
    BY Constants
  <2> QED BY <2>1, <1>1 DEF Turns, calculate_slot_index
<1>7. Ahead(EmptyWheel) /\ Early(EmptyWheel) /\ Full(EmptyWheel)
  BY <1>1, <1>3 DEF Ahead, Early, Full
<1> QED BY <1>1, <1>2, <1>3, <1>5, <1>6, <1>7 DEF Good

LEMMA SafeInit ==
  ASSUME TInit
  PROVE TaskSafe
<1>1. /\ clock = 0 /\ timing_wheel = EmptyWheel /\ connection_timers = [c \in Conn |-> {}]
      /\ entry_to_connection = [i \in TimerId |-> None] /\ command_rx = <<>>
      /\ task = [at |-> "select", next_wakeup |-> 10 * AdvanceInterval, next_tick |-> 0, now |-> 0,
                 next_update |-> UpdatePeriod, unsent |-> <<>>, delayed |-> FALSE]
      /\ stats = [processed |-> 0, cancelled |-> 0]
      /\ manager = [c \in Conn |-> [at |-> "run", active |-> [k \in Kind |-> None]]]
      /\ timeout_rx = [c \in Conn |-> <<>>] /\ spawned = {} /\ timer = [i \in TimerId |-> Unused]
  BY DEF TInit
<1>2. task \in Tasks /\ task.at = "select" /\ task.unsent = <<>>
  <2>1. 10 * AdvanceInterval \in Nat /\ UpdatePeriod \in Nat
    BY TaskAssumption
  <2> QED BY <2>1, <1>1 DEF Tasks
<1>3. manager \in Managers /\ \A c \in Conn, k \in Kind : manager[c].active[k] = None
  BY <1>1 DEF Managers
<1>4. timeout_rx \in Channels /\ \A c \in Conn : Len(timeout_rx[c]) = 0
  BY <1>1 DEF Channels
<1>5. timer \in Fates /\ \A i \in TimerId : timer[i].state = "unused"
  BY <1>1 DEF Fates, Unused
<1>6. TTypeOK
  <2>1. clock \in 0 .. MaxTime /\ command_rx \in Seq(Command) /\ spawned \in SUBSET TimerId
    BY <1>1, TaskAssumption
  <2>2. /\ connection_timers \in [Conn -> SUBSET TimerId] /\ entry_to_connection \in [TimerId -> Conn \cup {None}]
        /\ stats \in [processed : Nat, cancelled : Nat] /\ timing_wheel \in Wheel
    BY <1>1, EmptyIsGood
  <2> QED BY <2>1, <2>2, <1>2, <1>3, <1>4, <1>5 DEF TTypeOK, Tasks, Managers, Channels, Fates
<1>7. Live = {} /\ timing_wheel.next_entry_id = 1 /\ Good(timing_wheel, clock) /\ Full(timing_wheel)
  BY <1>1, EmptyIsGood DEF Live
<1>8. Owned(entry_to_connection, connection_timers, Live)
  <2>1. \A c \in Conn : None # c
    BY WheelAssumption
  <2> QED BY <2>1, <1>1, <1>7 DEF Owned
<1>9. Known(timer, Live, timing_wheel.next_entry_id)
  <2>1. \A i \in TimerId : i >= 1
    BY Constants DEF TimerId
  <2> QED BY <2>1, <1>5, <1>7 DEF Known
<1>10. Counted(stats, timer, task.at)
  <2>1. With(timer, "cancelled") = {} /\ With(timer, "fired") = {}
    BY <1>5 DEF With
  <2> QED BY <2>1, <1>1, FS_EmptySet DEF Counted
<1>11. Noted(timeout_rx, task.unsent, timer)
  BY <1>2, <1>4 DEF Noted
<1>12. /\ HandlesApart(manager, timing_wheel.next_entry_id)
       /\ HandlesMatch(manager, Live, timeout_rx, task.unsent)
       /\ HandlesUseful(manager, Live, timeout_rx, task.unsent)
  BY <1>3 DEF HandlesApart, HandlesMatch, HandlesUseful
<1>13. HandlesFree(manager, command_rx, spawned, timing_wheel.next_entry_id)
  BY <1>1 DEF HandlesFree, CancelsIn
<1>14. ClearsEnded(command_rx, manager) /\ Waits(command_rx, manager)
  BY <1>1 DEF ClearsEnded, Waits
<1>15. Room(command_rx, timing_wheel.next_entry_id)
  <2>1. Wish(command_rx) = {}
    BY <1>1 DEF Wish
  <2> QED BY <2>1, <1>7, FS_EmptySet, TaskAssumption DEF Room
<1>16. OnTime(task, clock, timing_wheel.current_time, Live, timer)
  <2>1. /\ clock = 0 /\ timing_wheel.current_time = 0 /\ task.next_tick = 0 /\ AdvanceInterval \in Nat
        /\ SlotDuration \in Nat /\ SlotDuration > 0
    BY <1>1, TaskAssumption, Constants DEF EmptyWheel
  <2>2. Punctual(0, 0, 0, {}, timer)
    BY <2>1 DEF Punctual
  <2> QED BY <2>1, <2>2, <1>2, <1>7 DEF OnTime
<1> QED BY <1>2, <1>6, <1>7, <1>8, <1>9, <1>10, <1>11, <1>12, <1>13, <1>14, <1>15, <1>16 DEF TaskSafe

LEMMA SafeNext ==
  ASSUME TaskSafe, [TNext]_vars
  PROVE TaskSafe'
<1>1. CASE \E c \in Conn, k \in Kind, d \in Delay : register_timer(c, k, d)
  BY <1>1, SafeRegister
<1>2. CASE \E c \in Conn, k \in Kind : cancel_timer_of(c, k)
  BY <1>2, SafeCancelOf
<1>3. CASE \E c \in Conn, b \in Batch : HandleBatchRegister(c, b)
  BY <1>3, SafeBatchRegister
<1>4. CASE \E ids \in SUBSET (1 .. Created) : HandleBatchCancel(ids)
  BY <1>4, SafeBatchCancel
<1>5. CASE \E c \in Conn : HandleClear(c) \/ check_timer_events(c)
  BY <1>5, SafeHandleClear, SafeCheckEvents
<1>6. CASE HandleShutdown
  BY <1>6, SafeHandleShutdown
<1>7. CASE \E i \in TimerId : SpawnedCancel(i)
  BY <1>7, SafeSpawned
<1>8. CASE TaskRegister \/ TaskBatchRegister \/ TaskCancel \/ TaskBatchCancel \/ TaskClear \/ TaskShutdown
  BY <1>8, SafeTaskRegister, SafeTaskBatchRegister, SafeCancel, SafeTaskBatchCancel, SafeClear, SafeShutdown
<1>9. CASE AdvanceTick \/ AdvanceWakeup \/ TriggerRest \/ IntervalUpdate \/ ClockTick
  BY <1>9, SafeTicks, SafeRest, SafeUpdate, SafeTick
<1>10. CASE UNCHANGED vars
  BY <1>10, SafeStutter
<1> QED BY <1>1, <1>2, <1>3, <1>4, <1>5, <1>6, <1>7, <1>8, <1>9, <1>10 DEF TNext

\* The invariant of GlobalTimerTask: every step of the task and of the endpoints
\* keeps the wheel's slots, index and cached expiry, the task's tables and
\* counters, the channels and the handles in agreement, whatever the order in
\* which commands, ticks and wake-ups are taken.
THEOREM TaskStaysSafe == TSpec => []TaskSafe
<1>1. TInit => TaskSafe
  BY SafeInit
<1>2. TaskSafe /\ [TNext]_vars => TaskSafe'
  BY SafeNext
<1> QED BY <1>1, <1>2, PTL DEF TSpec

\* The structures of global.rs and wheel/core.rs that describe the same timers
\* agree: no swap, shift, move or re-insertion of an entry loses or doubles one.
THEOREM TimersAgree == TSpec => []TInv
<1>1. TaskSafe => TInv
  BY SafeIsInv
<1> QED BY <1>1, TaskStaysSafe, PTL

\* A timer whose cancellation was confirmed sends no event, and no timer sends
\* two, whichever of a cancellation and an expiry reaches the task first.
THEOREM CancelledTimersStaySilent == TSpec => []CancelledNeverFires
<1>1. TaskSafe => CancelledNeverFires
  BY SafeIsInv
<1> QED BY <1>1, TaskStaysSafe, PTL

\* TimingWheel::advance takes out every timer that is due, in the current slot
\* and in all the slots it passes, also after more than a full turn.
THEOREM AdvanceLeavesNothingDue == TSpec => NothingDueIsLeft
<1>1. ASSUME TaskSafe, [TNext]_vars
      PROVE [(AdvanceTick \/ AdvanceWakeup) => \A e \in Entries(timing_wheel') : e.expiry > clock]_vars
  <2> SUFFICES ASSUME AdvanceTick \/ AdvanceWakeup, NEW e \in Entries(timing_wheel') PROVE e.expiry > clock
    OBVIOUS
  <2> DEFINE d == advance(timing_wheel, clock)
  <2>1. \E nt : TriggerAll(d.expired, d.wheel, nt)
    BY DEF AdvanceTick, AdvanceWakeup, advance_timing_wheel
  <2>2. Good(timing_wheel, clock) /\ clock \in Nat
    BY <1>1, SafeTimers
  <2>3. Good(d.wheel, clock) /\ \A x \in Stored(d.wheel.slots) : x.expiry > clock
    BY <2>2, AdvanceGood
  <2>4. d.wheel \in Wheel
    BY <2>3 DEF Good, Sound
  <2> HIDE DEF d
  <2>5. timing_wheel'.slots = d.wheel.slots
    <3>1. timing_wheel' = d.wheel \/ timing_wheel' = [d.wheel EXCEPT !.cached_next_expiry = next_expiry_time(d.wheel)]
      BY <2>1 DEF TriggerAll, LoopTop
    <3> QED BY <3>1, <2>4 DEF Wheel
  <2>6. TaskSafe'
    BY <1>1, SafeNext
  <2>7. timing_wheel' \in Wheel
    BY <2>6 DEF TaskSafe, TTypeOK
  <2>8. Entries(timing_wheel') = Stored(timing_wheel'.slots)
    BY <2>7, EntriesAre
  <2> QED BY <2>3, <2>5, <2>8
<1> QED BY <1>1, TaskStaysSafe, PTL DEF TSpec, NothingDueIsLeft

\* What makes a live timer's entry on time.
LEMMA LiveOnTime ==
  ASSUME TaskSafe, task.at = "select", ~task.delayed, NEW i \in TimerId, timer[i].state = "live"
  PROVE /\ clock <= task.next_tick /\ task.next_tick <= timer[i].due + AdvanceInterval
        /\ \A x \in Live : x.id = i => timer[i].due < x.expiry + (AdvanceInterval + SlotDuration)
        /\ clock \in Nat /\ task.next_tick \in Nat /\ timer[i].due \in Nat
        /\ AdvanceInterval \in Nat /\ SlotDuration \in Nat
<1>1. /\ OnTime(task, clock, timing_wheel.current_time, Live, timer) /\ Known(timer, Live, timing_wheel.next_entry_id)
      /\ clock \in Nat /\ timer \in Fates /\ task \in Tasks
  BY SafeTimers, SafeFacts
<1>2. Punctual(task.next_tick, clock, timing_wheel.current_time, Live, timer)
  BY <1>1 DEF OnTime
<1>3. PICK x \in Live : x.id = i
  BY <1>1 DEF Known
<1>4. task.next_tick \in Nat /\ timer[i].due \in Nat /\ AdvanceInterval \in Nat /\ SlotDuration \in Nat
  BY <1>1, TaskFacts, TaskAssumption, Constants DEF Fates
<1> QED BY <1>1, <1>2, <1>3, <1>4 DEF Punctual

LEMMA FiredOnTime ==
  ASSUME TaskSafe, AdvanceTick \/ AdvanceWakeup, ~task.delayed, NEW i \in TimerId, timer[i].state = "live",
         timer'[i].state = "fired"
  PROVE clock <= timer[i].due + AdvanceInterval /\ timer[i].due < clock + AdvanceInterval + SlotDuration
<1> DEFINE d == advance(timing_wheel, clock)
<1>1. task.at = "select" /\ timer' = Became(Ids(d.expired), "fired")
  BY DEF AdvanceTick, AdvanceWakeup, advance_timing_wheel
<1>2. Good(timing_wheel, clock) /\ clock \in Nat /\ timer \in Fates /\ Live \in SUBSET TimerEntry
  BY SafeTimers, SafeFacts
<1>3. Fired(d.wheel, d.expired, timing_wheel, clock)
  BY <1>2, AdvanceGood
<1> HIDE DEF d
<1>4. d.expired \in Seq(TimerEntry) /\ \A n \in 1 .. Len(d.expired) : d.expired[n] \in Live /\ d.expired[n].expiry <= clock
  BY <1>3 DEF Fired, Live
<1>5. i \in Ids(d.expired)
  BY <1>1, <1>2, BecameIs
<1>6. PICK n \in 1 .. Len(d.expired) : d.expired[n].id = i
  <2>1. DOMAIN d.expired = 1 .. Len(d.expired)
    BY <1>4
  <2> QED BY <2>1, <1>5, IdsAre DEF Gone
<1> DEFINE x == d.expired[n]
<1>7. x \in Live /\ x.id = i /\ x.expiry <= clock /\ x.expiry \in Nat
  BY <1>2, <1>4, <1>6, EntryFields
<1> HIDE DEF x
<1>8. /\ clock <= task.next_tick /\ task.next_tick <= timer[i].due + AdvanceInterval
      /\ timer[i].due < x.expiry + (AdvanceInterval + SlotDuration)
      /\ clock \in Nat /\ task.next_tick \in Nat /\ timer[i].due \in Nat
      /\ AdvanceInterval \in Nat /\ SlotDuration \in Nat
  BY <1>1, <1>7, LiveOnTime
<1> DEFINE u == timer[i].due
<1>9. clock <= u + AdvanceInterval /\ u < clock + AdvanceInterval + SlotDuration
  <2> HIDE DEF u
  <2>1. clock <= task.next_tick /\ task.next_tick <= u + AdvanceInterval /\ u < x.expiry + (AdvanceInterval + SlotDuration) /\ u \in Nat
    BY <1>8 DEF u
  <2> QED BY <2>1, <1>7, <1>8
<1> QED BY <1>9

\* Only an advance makes a live timer fire, and only the clock passes.
LEMMA NothingElseFires ==
  ASSUME TaskSafe, TNext, ~AdvanceTick, ~AdvanceWakeup, NEW i \in TimerId, timer[i].state = "live"
  PROVE timer'[i].state # "fired" /\ (ClockTick \/ clock' = clock)
<1>1. timer \in Fates
  BY SafeFacts
<1>2. CASE TaskRegister \/ TaskBatchRegister
  <2>1. clock' = clock /\ \E w, I : timer' = Registered(w, I)
    BY <1>2 DEF TaskRegister, TaskBatchRegister
  <2>2. PICK w, I : timer' = Registered(w, I)
    BY <2>1
  <2>3. timer'[i].state = "live"
    BY <2>2 DEF Registered
  <2> QED BY <2>1, <2>3
<1>3. CASE TaskCancel \/ TaskBatchCancel \/ TaskClear
  <2>1. clock' = clock /\ \E G : timer' = Became(G, "cancelled")
    BY <1>3 DEF TaskCancel, TaskBatchCancel, TaskClear
  <2>2. PICK G : timer' = Became(G, "cancelled")
    BY <2>1
  <2>3. timer'[i].state \in {"cancelled", "live"}
    BY <2>2, <1>1, BecameIs
  <2> QED BY <2>1, <2>3
<1>4. CASE TaskShutdown \/ TriggerRest \/ IntervalUpdate \/ ClockTick
  BY <1>4 DEF TaskShutdown, TriggerRest, IntervalUpdate, ClockTick
<1>5. CASE \/ \E c \in Conn, k \in Kind, d \in Delay : register_timer(c, k, d)
           \/ \E c \in Conn, k \in Kind : cancel_timer_of(c, k)
           \/ \E c \in Conn, b \in Batch : HandleBatchRegister(c, b)
           \/ \E ids \in SUBSET (1 .. Created) : HandleBatchCancel(ids)
           \/ \E c \in Conn : HandleClear(c) \/ check_timer_events(c)
           \/ HandleShutdown
           \/ \E j \in TimerId : SpawnedCancel(j)
  <2>1. timer' = timer /\ clock' = clock
    BY <1>5 DEF register_timer, cancel_timer_of, HandleBatchRegister, HandleBatchCancel, HandleClear,
                check_timer_events, HandleShutdown, SpawnedCancel
  <2> QED BY <2>1
<1> QED BY <1>2, <1>3, <1>4, <1>5 DEF TNext

\* A timer fires at most one advance interval late and less than an interval and
\* a slot early, while no full channel has held the task up: whatever commands
\* move the tick, GlobalTimerTask::run looks at the wheel in time.
THEOREM TimersFireOnTime == TSpec => FiresOnTime
<1> DEFINE Punctually ==
      \A i \in TimerId : timer[i].state = "live" /\ ~task.delayed =>
        /\ timer'[i].state = "fired" =>
             /\ clock <= timer[i].due + AdvanceInterval
             /\ timer[i].due < clock + AdvanceInterval + SlotDuration
        /\ task.at = "select" /\ clock' > clock => clock' <= timer[i].due + AdvanceInterval
<1>1. ASSUME TaskSafe, [TNext]_vars PROVE [Punctually]_vars
  <2> SUFFICES ASSUME TNext, NEW i \in TimerId, timer[i].state = "live", ~task.delayed
               PROVE /\ timer'[i].state = "fired" =>
                          /\ clock <= timer[i].due + AdvanceInterval
                          /\ timer[i].due < clock + AdvanceInterval + SlotDuration
                     /\ task.at = "select" /\ clock' > clock => clock' <= timer[i].due + AdvanceInterval
    BY <1>1
  <2>1. clock \in Nat
    BY <1>1, SafeTimers
  <2>2. CASE AdvanceTick \/ AdvanceWakeup
    <3>1. clock' = clock
      BY <2>2 DEF AdvanceTick, AdvanceWakeup, advance_timing_wheel
    <3> QED BY <3>1, <2>1, <2>2, <1>1, FiredOnTime
  <2>3. CASE ~AdvanceTick /\ ~AdvanceWakeup
    <3>1. timer'[i].state # "fired" /\ (ClockTick \/ clock' = clock)
      BY <2>3, <1>1, NothingElseFires
    <3>2. ASSUME ClockTick, task.at = "select" PROVE clock' <= timer[i].due + AdvanceInterval
      <4>1. clock' = clock + 1 /\ clock < task.next_tick
        BY <3>2 DEF ClockTick
      <4>2. /\ task.next_tick <= timer[i].due + AdvanceInterval /\ task.next_tick \in Nat
            /\ timer[i].due \in Nat /\ AdvanceInterval \in Nat
        BY <3>2, <1>1, LiveOnTime
      <4> QED BY <4>1, <4>2, <2>1
    <3> QED BY <3>1, <3>2, <2>1
  <2> QED BY <2>2, <2>3
<1> QED BY <1>1, TaskStaysSafe, PTL DEF TSpec, FiresOnTime

=============================================================================
