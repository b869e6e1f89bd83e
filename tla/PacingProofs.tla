---------------------------- MODULE PacingProofs ----------------------------
(***************************************************************************)
(* Proofs about Pacing, for every value of the constants.                  *)
(***************************************************************************)
EXTENDS Pacing, FiniteSetTheorems, WellFoundedInduction, TLAPS

----------------------------------------------------------------------------
(* Least and greatest numbers.                                             *)

LEMMA Least ==
  ASSUME NEW T \in SUBSET Nat, T # {}
  PROVE \E n \in T : \A m \in T : n <= m
<1> DEFINE Down == {1..n : n \in T}
           R == StrictSubsetOrdering(Nat)
<1>1. ASSUME NEW n \in T PROVE 1..n \in FiniteSubsetsOf(Nat)
  BY FS_Interval DEF FiniteSubsetsOf
<1>2. Down \subseteq FiniteSubsetsOf(Nat) /\ Down # {}
  BY <1>1
<1>3. IsWellFoundedOn(R, FiniteSubsetsOf(Nat))
  BY FS_StrictSubsetOrderingWellFounded
<1>4. PICK x \in Down : \A y \in Down : ~ (<<y, x>> \in R)
  <2> HIDE DEF Down, R
  <2> QED BY <1>2, <1>3, WFMin
<1>5. PICK n \in T : x = 1..n
  BY <1>4
<1>6. ASSUME NEW m \in T, m < n PROVE FALSE
  <2>1. 1..m \in Down
    OBVIOUS
  <2>2. 1..m \in SUBSET Nat /\ 1..n \in SUBSET Nat /\ 1..m \subseteq 1..n
    BY <1>6
  <2>3. n \in 1..n /\ n \notin 1..m
    BY <1>6
  <2>4. <<1..m, x>> \in R
    BY <1>5, <2>2, <2>3 DEF StrictSubsetOrdering
  <2> QED BY <1>4, <2>1, <2>4
<1>7. \A m \in T : n <= m
  BY <1>6
<1> QED BY <1>7

\* Min and Max of the library are what their names say.
LEMMA MinIsLeast ==
  ASSUME NEW S \in SUBSET Nat, S # {}
  PROVE Min(S) \in S /\ \A x \in S : Min(S) <= x
<1>1. \E n \in S : \A m \in S : n <= m
  BY Least
<1> QED BY <1>1 DEF Min

LEMMA MaxIsGreatest ==
  ASSUME NEW b \in Nat, NEW S \in SUBSET (0 .. b), S # {}
  PROVE Max(S) \in S /\ \A x \in S : Max(S) >= x
<1> DEFINE U == {u \in Nat : \A x \in S : x <= u}
<1>1. b \in U /\ U \in SUBSET Nat
  OBVIOUS
<1>2. PICK u \in U : \A v \in U : u <= v
  <2> HIDE DEF U
  <2> QED BY <1>1, Least
<1>3. u \in S
  <2>1. SUFFICES ASSUME u \notin S PROVE FALSE
    OBVIOUS
  <2>2. \A x \in S : x \in Nat /\ x < u
    BY <2>1, <1>2
  <2> u \in Nat /\ \E y \in S : TRUE
    OBVIOUS
  <2> HIDE DEF U
  <2>3. u - 1 \in Nat /\ \A x \in S : x <= u - 1
    BY <2>2
  <2>4. u - 1 \in U
    BY <2>3 DEF U
  <2>5. u \in Nat
    OBVIOUS
  <2> QED BY <2>4, <2>5, <1>2
<1>4. \E n \in S : \A m \in S : n >= m
  BY <1>2, <1>3
<1> QED BY <1>4 DEF Max

----------------------------------------------------------------------------
(* Sets in ascending order.                                                *)

Below(S, s) == {u \in S : u < s}

\* The ranks of the elements are 0, 1, and so on.
LEMMA Ranks ==
  ASSUME NEW S \in SUBSET Nat, IsFiniteSet(S)
  PROVE /\ Cardinality(S) \in Nat
        /\ \A s \in S : Cardinality(Below(S, s)) \in 0 .. Cardinality(S) - 1
        /\ \A s, u \in S : s < u => Cardinality(Below(S, s)) < Cardinality(Below(S, u))
        /\ \A k \in 1 .. Cardinality(S) : \E s \in S : Cardinality(Below(S, s)) = k - 1
<1> DEFINE n == Cardinality(S)
           rank == [s \in S |-> Cardinality(Below(S, s))]
<1>1. n \in Nat
  BY FS_CardinalityType
<1>2. ASSUME NEW T \in SUBSET S, NEW x \in S, x \notin T
      PROVE Cardinality(T) \in Nat /\ Cardinality(T) < n
  <2>1. T # S
    BY <1>2
  <2>2. IsFiniteSet(T)
    BY FS_Subset
  <2>3. Cardinality(T) \in Nat
    BY <2>2, FS_CardinalityType
  <2>4. Cardinality(T) <= n /\ (Cardinality(S) = Cardinality(T) => S = T)
    BY FS_Subset
  <2> QED BY <2>1, <2>3, <2>4, <1>1
<1>3. ASSUME NEW s \in S PROVE rank[s] \in 0 .. n - 1
  <2>1. Below(S, s) \in SUBSET S /\ s \notin Below(S, s)
    BY DEF Below
  <2>2. Cardinality(Below(S, s)) \in Nat /\ Cardinality(Below(S, s)) < n
    BY <2>1, <1>2
  <2> HIDE DEF n
  <2> QED BY <2>2, <1>1
<1>4. ASSUME NEW s \in S, NEW u \in S, s < u PROVE rank[s] < rank[u]
  <2>1. Below(S, s) \in SUBSET Below(S, u) /\ s \in Below(S, u) /\ s \notin Below(S, s)
    <3>1. \A x \in S : x < s => x < u
      BY <1>4
    <3>2. ~ (s < s)
      BY s \in Nat
    <3>3. Below(S, s) \in SUBSET Below(S, u)
      BY <3>1, Zenon DEF Below
    <3>4. s \in Below(S, u) /\ s \notin Below(S, s)
      BY <3>2, <1>4, Zenon DEF Below
    <3> QED BY <3>3, <3>4
  <2>2. IsFiniteSet(Below(S, u))
    <3>1. Below(S, u) \in SUBSET S
      BY DEF Below
    <3> QED BY <3>1, FS_Subset
  <2>3. Below(S, s) # Below(S, u)
    BY <2>1
  <2>4. Cardinality(Below(S, s)) < Cardinality(Below(S, u))
    BY <2>1, <2>2, <2>3, FS_Subset, FS_CardinalityType, <1>3
  <2> QED BY <2>4
<1>5. rank \in Injection(S, 0 .. n - 1)
  <2>1. rank \in [S -> 0 .. n - 1]
    BY <1>3
  <2>2. \A a, b \in S : rank[a] = rank[b] => a = b
    <3>1. \A a \in S : rank[a] \in Nat
      BY <1>3
    <3>2. \A a, b \in S : a < b \/ b < a \/ a = b
      OBVIOUS
    <3> HIDE DEF rank
    <3> QED BY <1>4, <3>1, <3>2
  <2> HIDE DEF rank
  <2> QED BY <2>1, <2>2 DEF Injection, IsInjective
<1>6. IsFiniteSet(0 .. n - 1) /\ Cardinality(0 .. n - 1) = n
  <2>1. 0 \in Int /\ n - 1 \in Int
    BY <1>1
  <2>2. /\ IsFiniteSet(0 .. n - 1)
        /\ Cardinality(0 .. n - 1) = IF 0 > n - 1 THEN 0 ELSE n - 1 - 0 + 1
    <3> HIDE DEF n
    <3> QED BY <2>1, FS_Interval
  <2> QED BY <2>2, <1>1
<1>7. rank \in Surjection(S, 0 .. n - 1)
  <2> HIDE DEF rank
  <2> QED BY <1>5, <1>6, FS_Injection
<1>8. ASSUME NEW k \in 1 .. n PROVE \E s \in S : rank[s] = k - 1
  <2>1. k - 1 \in 0 .. n - 1
    BY <1>1
  <2> HIDE DEF rank
  <2> QED BY <2>1, <1>7 DEF Surjection
<1>9. \A s \in S : rank[s] = Cardinality(Below(S, s))
  OBVIOUS
<1> HIDE DEF rank
<1> QED BY <1>1, <1>3, <1>4, <1>8, <1>9

LEMMA AscendingIs ==
  ASSUME NEW S \in SUBSET Nat, IsFiniteSet(S)
  PROVE /\ Cardinality(S) \in Nat
        /\ DOMAIN Ascending(S) = 1 .. Cardinality(S)
        /\ Ascending(S) \in Seq(S) /\ Len(Ascending(S)) = Cardinality(S)
        /\ \A i, j \in 1 .. Cardinality(S) : i < j => Ascending(S)[i] < Ascending(S)[j]
<1> DEFINE n == Cardinality(S)
           P(k, s) == Cardinality(Below(S, s)) = k - 1
<1>1. n \in Nat
  BY Ranks
<1>2. Ascending(S) = [k \in 1 .. n |-> CHOOSE s \in S : P(k, s)]
  BY DEF Ascending, Below
<1>3. ASSUME NEW k \in 1 .. n PROVE Ascending(S)[k] \in S /\ P(k, Ascending(S)[k])
  <2>1. \E s \in S : P(k, s)
    BY Ranks
  <2>2. Ascending(S)[k] = CHOOSE s \in S : P(k, s)
    BY <1>2
  <2> HIDE DEF P
  <2> QED BY <2>1, <2>2
<1>4. DOMAIN Ascending(S) = 1 .. n
  BY <1>2
<1>5. Ascending(S) \in [1 .. n -> S]
  BY <1>2, <1>3
<1>6. Ascending(S) \in Seq(S) /\ Len(Ascending(S)) = n
  BY <1>1, <1>5
<1>7. ASSUME NEW i \in 1 .. n, NEW j \in 1 .. n, i < j
      PROVE Ascending(S)[i] < Ascending(S)[j]
  <2> DEFINE a == Ascending(S)[i]
             b == Ascending(S)[j]
  <2>1. a \in S /\ b \in S /\ Cardinality(Below(S, a)) = i - 1 /\ Cardinality(Below(S, b)) = j - 1
    BY <1>3
  <2> HIDE DEF a, b
  <2>2. a # b
    BY <2>1, <1>7, <1>1
  <2>3. ~ (b < a)
    <3>1. b < a => Cardinality(Below(S, b)) < Cardinality(Below(S, a))
      BY <2>1, Ranks
    <3> QED BY <2>1, <3>1, <1>7, <1>1
  <2>4. a < b
    BY <2>1, <2>2, <2>3
  <2> QED BY <2>4 DEF a, b
<1> QED BY <1>1, <1>4, <1>6, <1>7

InOrder(q) == \A i, j \in DOMAIN q : i < j => q[i] <= q[j]
Among(q, p) == \A i \in DOMAIN q : \E k \in DOMAIN p : q[i] = p[k]

LEMMA LaterThanIs ==
  ASSUME NEW times \in Seq(Nat), NEW since \in Int, NEW L, L = LaterThan(times, since)
  PROVE /\ L \in Seq(Nat) /\ Len(L) <= Len(times)
        /\ Among(L, times) /\ (InOrder(times) => InOrder(L))
<1> DEFINE K == {i \in DOMAIN times : times[i] > since}
           A == Ascending(K)
           c == Cardinality(K)
<1>1. DOMAIN times = 1 .. Len(times) /\ Len(times) \in Nat
  OBVIOUS
<1>2. K \in SUBSET (1 .. Len(times))
  BY <1>1
<1>3. K \in SUBSET Nat /\ IsFiniteSet(K) /\ c <= Len(times)
  <2> HIDE DEF K
  <2> DEFINE m == Len(times)
  <2> HIDE DEF m
  <2>1. m \in Nat /\ K \in SUBSET (1 .. m)
    BY <1>1, <1>2 DEF m
  <2>2. IsFiniteSet(1 .. m) /\ Cardinality(1 .. m) = IF 1 > m THEN 0 ELSE m - 1 + 1
    BY <2>1, FS_Interval
  <2>3. Cardinality(1 .. m) = m
    BY <2>1, <2>2
  <2>4. IsFiniteSet(K) /\ c <= Cardinality(1 .. m)
    BY <2>1, <2>2, FS_Subset
  <2> QED BY <2>1, <2>3, <2>4 DEF m
<1>4. /\ c \in Nat /\ DOMAIN A = 1 .. c
      /\ \A i \in 1 .. c : A[i] \in K
      /\ \A i, j \in 1 .. c : i < j => A[i] < A[j]
  <2> HIDE DEF K
  <2> QED BY <1>3, AscendingIs
<1>5. L = [k \in 1 .. c |-> times[A[k]]]
  BY <1>4 DEF LaterThan
<1>6. \A i \in 1 .. c : A[i] \in 1 .. Len(times) /\ times[A[i]] \in Nat
  BY <1>4, <1>2
<1> HIDE DEF K, A, c
<1>7. L \in [1 .. c -> Nat]
  BY <1>5, <1>6
<1>8. L \in Seq(Nat) /\ Len(L) = c /\ DOMAIN L = 1 .. c
  BY <1>7, <1>4
<1>9. \A i \in DOMAIN L : \E k \in DOMAIN times : L[i] = times[k]
  BY <1>5, <1>6, <1>8, <1>1
<1>10. ASSUME \A i, j \in DOMAIN times : i < j => times[i] <= times[j],
             NEW i \in DOMAIN L, NEW j \in DOMAIN L, i < j
       PROVE L[i] <= L[j]
  <2>1. A[i] \in DOMAIN times /\ A[j] \in DOMAIN times /\ A[i] < A[j]
    BY <1>1, <1>4, <1>6, <1>8, <1>10
  <2>2. times[A[i]] <= times[A[j]]
    BY <2>1, <1>10
  <2> QED BY <2>2, <1>5, <1>8
<1>11. Among(L, times) /\ (InOrder(times) => InOrder(L))
  BY <1>9, <1>10 DEF Among, InOrder
<1> QED BY <1>3, <1>8, <1>11

----------------------------------------------------------------------------
(* Samples.                                                                *)

Sampled(m, x) == [est |-> update(m.est, x), cc |-> on_ack(m.cc, x)]

\* f goes through the first n samples.
Goes(f, r, q, n) ==
  f = [i \in 0 .. n |-> IF i = 0 THEN [est |-> r.est, cc |-> r.cc] ELSE Sampled(f[i - 1], q[i])]

LEMMA GoesOn ==
  ASSUME NEW r, NEW q, NEW n \in Nat
  PROVE \E f : Goes(f, r, q, n)
<1> DEFINE T == {k \in Nat : ~ \E f : Goes(f, r, q, k)}
           start == [est |-> r.est, cc |-> r.cc]
<1>1. SUFFICES T = {}
  OBVIOUS
<1>2. SUFFICES ASSUME T # {} PROVE FALSE
  OBVIOUS
<1>3. PICK k \in T : \A m \in T : k <= m
  <2>1. T \in SUBSET Nat
    OBVIOUS
  <2> HIDE DEF T
  <2> QED BY <1>2, <2>1, Least
<1>4. k # 0
  <2> HIDE DEF start
  <2>1. [i \in 0 .. 0 |-> start][0] = start
    OBVIOUS
  <2>2. Goes([i \in 0 .. 0 |-> start], r, q, 0)
    BY DEF Goes, start
  <2> QED BY <2>2
<1>5. k \in Nat /\ k - 1 \in Nat /\ k - 1 \notin T
  BY <1>3, <1>4
<1>6. PICK f : Goes(f, r, q, k - 1)
  BY <1>5
<1> DEFINE g == [i \in 0 .. k |-> IF i = k THEN Sampled(f[k - 1], q[k]) ELSE f[i]]
<1>7. \A i \in 0 .. k - 1 : f[i] = IF i = 0 THEN start ELSE Sampled(f[i - 1], q[i])
  BY <1>6, <1>5, Zenon DEF Goes
<1>8. \A i \in 0 .. k - 1 : g[i] = f[i]
  BY <1>5
<1>9. g[k] = Sampled(f[k - 1], q[k])
  BY <1>5
<1>10. DOMAIN g = 0 .. k /\ g = [i \in 0 .. k |-> g[i]]
  OBVIOUS
<1> HIDE DEF g, start, T
<1>11. ASSUME NEW i \in 0 .. k
       PROVE g[i] = IF i = 0 THEN start ELSE Sampled(g[i - 1], q[i])
  <2>1. CASE i = k
    <3>1. k - 1 \in 0 .. k - 1
      BY <1>5
    <3> QED BY <2>1, <1>8, <1>9, <1>4, <3>1
  <2>2. CASE i # k
    <3>1. i \in 0 .. k - 1
      BY <2>2, <1>5
    <3>2. i # 0 => i - 1 \in 0 .. k - 1
      BY <3>1, <1>5
    <3> QED BY <3>1, <3>2, <1>7, <1>8
  <2> QED BY <2>1, <2>2
<1>12. g = [i \in 0 .. k |-> IF i = 0 THEN start ELSE Sampled(g[i - 1], q[i])]
  BY <1>10, <1>11
<1>13. Goes(g, r, q, k)
  BY <1>12 DEF Goes, start
<1> QED BY <1>3, <1>13 DEF T

LEMMA MeasuredGoes ==
  ASSUME NEW r, NEW q, Len(q) \in Nat
  PROVE \E f : Goes(f, r, q, Len(q)) /\ Measured(r, q) = f[Len(q)]
<1> DEFINE g == CHOOSE f : Goes(f, r, q, Len(q))
<1>1. Goes(g, r, q, Len(q))
  BY GoesOn
<1>2. Measured(r, q) = g[Len(q)]
  BY DEF Measured, Goes, Sampled
<1> QED BY <1>1, <1>2

Estimator == [srtt : Nat, rttvar : Nat, rto : Nat]
Window == [cwnd : Nat, ssthresh : Nat, slow : BOOLEAN, min_rtt : Nat, last_rtt : Nat]

\* An estimator and a window that samples up to max have made.
Fits(m, max) ==
  /\ m.est \in Estimator /\ m.cc \in Window
  /\ m.cc.cwnd >= MinCwnd /\ m.cc.ssthresh >= MinCwnd /\ m.est.rto >= MinRto
  /\ \/ m.est.srtt \in m.cc.min_rtt .. max
     \/ m.est.srtt = 0 /\ m.cc.min_rtt = Unsampled

LEMMA Floor ==
  /\ MinCwnd \in Nat \ {0} /\ MinRto \in Nat \ {0} /\ Unsampled \in Nat
  /\ \A a, b \in Nat : /\ Larger(a, b) \in Nat /\ Larger(a, b) >= a /\ Larger(a, b) >= b
                       /\ Smaller(a, b) \in Nat /\ Smaller(a, b) <= a /\ Smaller(a, b) <= b
  BY PacingAssumption DEF Larger, Smaller, Unsampled

LEMMA Updated ==
  ASSUME NEW est \in Estimator, NEW x \in Nat
  PROVE /\ update(est, x) \in Estimator /\ update(est, x).rto >= MinRto
        /\ est.srtt = 0 => update(est, x).srtt = x
        /\ \A a, b \in Nat : est.srtt \in a .. b /\ x \in a .. b /\ est.srtt # 0
             => update(est, x).srtt \in a .. b
<1> DEFINE first == est.srtt = 0
           rttvar == IF first THEN x \div 2 ELSE (3 * est.rttvar + AbsDiff(est.srtt, x)) \div 4
           srtt == IF first THEN x ELSE (7 * est.srtt + x) \div 8
           rto == Larger(srtt + 4 * rttvar, MinRto)
<1>1. est.srtt \in Nat /\ est.rttvar \in Nat
  BY DEF Estimator
<1>2. AbsDiff(est.srtt, x) \in Nat
  BY <1>1 DEF AbsDiff
<1>3. rttvar \in Nat
  <2>1. 3 * est.rttvar + AbsDiff(est.srtt, x) \in Nat
    BY <1>1, <1>2
  <2>2. (3 * est.rttvar + AbsDiff(est.srtt, x)) \div 4 \in Nat
    <3> DEFINE y == 3 * est.rttvar + AbsDiff(est.srtt, x)
    <3> HIDE DEF y
    <3>1. y \in Nat
      BY <2>1 DEF y
    <3>2. y \div 4 \in Nat
      BY <3>1
    <3> QED BY <3>2 DEF y
  <2>3. x \div 2 \in Nat
    OBVIOUS
  <2> QED BY <2>2, <2>3
<1>4. srtt \in Nat
  BY <1>1
<1>5. update(est, x) = [srtt |-> srtt, rttvar |-> rttvar, rto |-> rto]
  BY DEF update
<1>6. est.srtt = 0 => srtt = x
  OBVIOUS
<1>7. ASSUME NEW a \in Nat, NEW b \in Nat, est.srtt \in a .. b, x \in a .. b, est.srtt # 0
      PROVE srtt \in a .. b
  BY <1>1, <1>7
<1> HIDE DEF srtt, rttvar, first
<1>8. rto \in Nat /\ rto >= MinRto
  <2>1. srtt + 4 * rttvar \in Nat
    BY <1>3, <1>4
  <2> QED BY <2>1, Floor
<1> HIDE DEF rto
<1>9. update(est, x) \in Estimator
  BY <1>3, <1>4, <1>5, <1>8 DEF Estimator
<1> QED BY <1>5, <1>6, <1>7, <1>8, <1>9

LEMMA Acked ==
  ASSUME NEW cc \in Window, cc.cwnd >= MinCwnd, NEW x \in Nat
  PROVE /\ on_ack(cc, x) \in Window
        /\ on_ack(cc, x).cwnd >= MinCwnd /\ on_ack(cc, x).cwnd >= cc.cwnd - 1
        /\ on_ack(cc, x).ssthresh = cc.ssthresh
        /\ on_ack(cc, x).min_rtt = Smaller(cc.min_rtt, x)
<1> DEFINE min == Smaller(cc.min_rtt, x)
           s == [cc EXCEPT !.last_rtt = x, !.min_rtt = min]
           less == Larger(cc.cwnd - 1, MinCwnd)
           few == Fewer(cc.cwnd, x, min, Alpha)
           many == More(cc.cwnd, x, min, Beta)
<1>1. /\ cc.cwnd \in Nat /\ cc.ssthresh \in Nat /\ cc.slow \in BOOLEAN
      /\ cc.min_rtt \in Nat /\ cc.last_rtt \in Nat
  BY DEF Window
<1>m. MinCwnd \in Nat /\ MinCwnd >= 1 /\ cc.cwnd >= MinCwnd
  BY PacingAssumption
<1>2. min \in Nat
  BY <1>1, Floor
<1>3. less \in Nat /\ less >= MinCwnd /\ less >= cc.cwnd - 1
  <2>1. cc.cwnd - 1 \in Nat
    BY <1>1, <1>m
  <2> QED BY <2>1, Floor
<1>4. (cc.cwnd + 1 < cc.ssthresh) \in BOOLEAN
  OBVIOUS
<1> HIDE DEF min, few, many, less
<1>5. s \in Window /\ s.cwnd = cc.cwnd /\ s.ssthresh = cc.ssthresh /\ s.min_rtt = min
  BY <1>1, <1>2 DEF Window
<1>6. on_ack(cc, x) =
        IF cc.slow THEN [s EXCEPT !.cwnd = @ + 1, !.slow = cc.cwnd + 1 < cc.ssthresh]
        ELSE IF few THEN [s EXCEPT !.cwnd = @ + 1]
        ELSE IF many THEN [s EXCEPT !.cwnd = Larger(@ - 1, MinCwnd)]
        ELSE s
  BY DEF on_ack, few, many, min
<1> HIDE DEF s
<1>7. CASE cc.slow
  <2> DEFINE go == cc.cwnd + 1 < cc.ssthresh
             up == cc.cwnd + 1
  <2>1. go \in BOOLEAN /\ up \in Nat /\ up >= MinCwnd /\ up >= cc.cwnd - 1
    BY <1>1, <1>m
  <2>2. on_ack(cc, x) = [s EXCEPT !.cwnd = up, !.slow = go]
    BY <1>7, <1>6, <1>5
  <2> HIDE DEF go, up
  <2> QED BY <2>1, <2>2, <1>5 DEF Window, min
<1>8. CASE ~cc.slow /\ few
  <2> DEFINE up == cc.cwnd + 1
  <2>1. up \in Nat /\ up >= MinCwnd /\ up >= cc.cwnd - 1
    BY <1>1, <1>m
  <2>2. on_ack(cc, x) = [s EXCEPT !.cwnd = up]
    BY <1>8, <1>6, <1>5
  <2> HIDE DEF up
  <2> QED BY <2>1, <2>2, <1>5 DEF Window, min
<1>9. CASE ~cc.slow /\ ~few /\ many
  <2>1. on_ack(cc, x) = [s EXCEPT !.cwnd = less]
    BY <1>9, <1>6, <1>5 DEF less
  <2> QED BY <2>1, <1>3, <1>5 DEF Window, min
<1>10. CASE ~cc.slow /\ ~few /\ ~many
  <2>1. on_ack(cc, x) = s
    BY <1>10, <1>6
  <2> QED BY <2>1, <1>1, <1>5, <1>m DEF min
<1> QED BY <1>7, <1>8, <1>9, <1>10

LEMMA OneSample ==
  ASSUME NEW m, NEW max \in Nat, NEW x \in 0 .. max, Fits(m, max)
  PROVE Fits(Sampled(m, x), max) /\ Sampled(m, x).cc.cwnd >= m.cc.cwnd - 1
<1> DEFINE e == update(m.est, x)
           c == on_ack(m.cc, x)
<1>1. /\ m.est \in Estimator /\ m.cc \in Window /\ m.cc.cwnd >= MinCwnd
      /\ m.cc.ssthresh >= MinCwnd
      /\ m.est.srtt \in Nat /\ m.cc.min_rtt \in Nat /\ x \in Nat
  BY DEF Fits, Estimator, Window
<1>2. /\ e \in Estimator /\ e.rto >= MinRto /\ (m.est.srtt = 0 => e.srtt = x)
      /\ \A a, b \in Nat : m.est.srtt \in a .. b /\ x \in a .. b /\ m.est.srtt # 0
             => e.srtt \in a .. b
  BY <1>1, Updated
<1>3. /\ c \in Window /\ c.cwnd >= MinCwnd /\ c.cwnd >= m.cc.cwnd - 1
      /\ c.ssthresh = m.cc.ssthresh /\ c.min_rtt = Smaller(m.cc.min_rtt, x)
  BY <1>1, Acked
<1>4. Sampled(m, x).est = e /\ Sampled(m, x).cc = c
  BY DEF Sampled
<1> HIDE DEF e, c
<1>5. c.min_rtt \in Nat /\ c.min_rtt <= m.cc.min_rtt /\ c.min_rtt <= x
  BY <1>1, <1>3, Floor
<1>6. e.srtt \in c.min_rtt .. max
  <2>1. CASE m.est.srtt = 0
    BY <2>1, <1>1, <1>2, <1>5
  <2>2. CASE m.est.srtt # 0
    <3>1. m.est.srtt \in m.cc.min_rtt .. max
      BY <2>2 DEF Fits
    <3>2. m.est.srtt \in c.min_rtt .. max /\ x \in c.min_rtt .. max
      BY <3>1, <1>5, <1>1
    <3> QED BY <2>2, <3>2, <1>2, <1>5
  <2> QED BY <2>1, <2>2
<1> QED BY <1>1, <1>2, <1>3, <1>4, <1>6 DEF Fits

LEMMA AllSamples ==
  ASSUME NEW r, NEW max \in Nat, NEW q \in Seq(0 .. max), Fits(r, max)
  PROVE /\ Fits(Measured(r, q), max)
        /\ Measured(r, q).cc.cwnd >= r.cc.cwnd - Len(q)
<1> DEFINE N == Len(q)
           P(m, n) == Fits(m, max) /\ m.cc.cwnd >= r.cc.cwnd - n
<1>1. N \in Nat
  OBVIOUS
<1>2. PICK f : Goes(f, r, q, N) /\ Measured(r, q) = f[N]
  BY <1>1, MeasuredGoes
<1>3. \A i \in 0 .. N : f[i] = IF i = 0 THEN [est |-> r.est, cc |-> r.cc]
                               ELSE Sampled(f[i - 1], q[i])
  BY <1>2, Zenon DEF Goes
<1>4. r.cc.cwnd \in Nat
  BY DEF Fits, Window
<1>5. P(f[0], 0)
  <2>1. f[0] = [est |-> r.est, cc |-> r.cc]
    BY <1>3, <1>1
  <2>2. f[0].est = r.est /\ f[0].cc = r.cc
    BY <2>1
  <2> QED BY <2>2, <1>4 DEF Fits
<1>6. ASSUME NEW n \in 1 .. N, P(f[n - 1], n - 1) PROVE P(f[n], n)
  <2>1. f[n] = Sampled(f[n - 1], q[n])
    BY <1>3
  <2>2. q[n] \in 0 .. max
    OBVIOUS
  <2>3. Fits(f[n], max) /\ f[n].cc.cwnd >= f[n - 1].cc.cwnd - 1
    BY <2>1, <2>2, <1>6, OneSample
  <2>4. f[n].cc.cwnd \in Nat /\ f[n - 1].cc.cwnd \in Nat
    BY <2>3, <1>6 DEF Fits, Window
  <2>5. f[n].cc.cwnd >= r.cc.cwnd - n
    BY <2>3, <2>4, <1>4, <1>6
  <2> QED BY <2>3, <2>5
<1> DEFINE T == {n \in 0 .. N : ~P(f[n], n)}
<1>7. T = {}
  <2>1. SUFFICES ASSUME T # {} PROVE FALSE
    OBVIOUS
  <2> T \in SUBSET Nat
    BY <1>1
  <2> HIDE DEF P
  <2>2. PICK k \in T : \A j \in T : k <= j
    <3> HIDE DEF T
    <3> QED BY <2>1, Least
  <2>3. k # 0 /\ k \in 0 .. N /\ ~P(f[k], k)
    BY <1>5
  <2>4. k \in 1 .. N /\ k - 1 \in 0 .. N /\ k - 1 \notin T
    BY <2>3, <2>2, <1>1
  <2>5. P(f[k - 1], k - 1)
    BY <2>4
  <2> QED BY <2>3, <2>4, <2>5, <1>6
<1>8. P(f[N], N)
  BY <1>7, <1>1
<1> QED BY <1>8, <1>2

----------------------------------------------------------------------------
(* The reliability layer, as a value.                                      *)

SackEntry == [sent : Nat, skips : Nat]
SimpleEntry == [sent : Nat, retries : 0 .. MaxRetries, first : Nat]

Punctual(e, t) ==
  /\ e.sent % Step = 0 /\ e.sent <= t
  /\ e.sent = e.first + e.retries * RetryInterval
  /\ t - e.sent <= RetryInterval

\* What the loop keeps of its layer at a time t, while it runs.
Sound(r, t) ==
  /\ r \in Reliability(DOMAIN r.sack, DOMAIN r.simple)
  /\ DOMAIN r.sack \subseteq 0 .. r.next - 1
  /\ DOMAIN r.simple \subseteq (0 .. r.next - 1) \ DOMAIN r.sack
  /\ r.cc.cwnd >= MinCwnd /\ r.cc.ssthresh >= MinCwnd /\ r.est.rto >= MinRto
  /\ \A s \in DOMAIN r.sack : r.sack[s].sent <= t
  /\ \A s \in DOMAIN r.simple : Punctual(r.simple[s], t)

\* From r to f, frames were only sent, or sent again, at t.
Ages(r, f, t) ==
  /\ \A s \in DOMAIN f.sack : \/ f.sack[s].sent = t
                              \/ s \in DOMAIN r.sack /\ f.sack[s].sent = r.sack[s].sent
  /\ \A s \in DOMAIN f.simple : \/ f.simple[s].sent = t
                                \/ s \in DOMAIN r.simple /\ f.simple[s].sent = r.simple[s].sent

LEMMA LayerFields ==
  ASSUME NEW r, NEW t, Sound(r, t)
  PROVE /\ r.next \in Nat /\ r.buf \in Nat /\ r.est \in Estimator /\ r.cc \in Window
        /\ \A s \in DOMAIN r.sack : r.sack[s] \in SackEntry
        /\ \A s \in DOMAIN r.simple : r.simple[s] \in SimpleEntry
        /\ r.est.rto \in Nat /\ r.cc.cwnd \in Nat
<1>1. /\ r.next \in Nat /\ r.buf \in Nat /\ r.est \in Estimator /\ r.cc \in Window
      /\ r.sack \in [DOMAIN r.sack -> SackEntry] /\ r.simple \in [DOMAIN r.simple -> SimpleEntry]
  BY DEF Sound, Reliability, SackEntry, SimpleEntry, Estimator, Window
<1>2. r.est.rto \in Nat /\ r.cc.cwnd \in Nat
  BY <1>1 DEF Estimator, Window
<1> QED BY <1>1, <1>2

\* A layer put together from its parts.
LEMMA Assembled ==
  ASSUME NEW r, NEW t, NEW f,
         f.next \in Nat, f.buf \in Nat, f.est \in Estimator, f.cc \in Window,
         f = [next |-> f.next, buf |-> f.buf, sack |-> f.sack, simple |-> f.simple,
              est |-> f.est, cc |-> f.cc],
         f.sack \in [DOMAIN f.sack -> SackEntry], f.simple \in [DOMAIN f.simple -> SimpleEntry],
         DOMAIN f.sack \subseteq 0 .. f.next - 1,
         DOMAIN f.simple \subseteq (0 .. f.next - 1) \ DOMAIN f.sack,
         f.cc.cwnd >= MinCwnd, f.cc.ssthresh >= MinCwnd, f.est.rto >= MinRto,
         \A s \in DOMAIN f.sack : f.sack[s].sent <= t,
         \A s \in DOMAIN f.simple : Punctual(f.simple[s], t)
  PROVE Sound(f, t)
<1>1. f \in Reliability(DOMAIN f.sack, DOMAIN f.simple)
  BY DEF Reliability, SackEntry, SimpleEntry, Estimator, Window
<1> QED BY <1>1 DEF Sound

LEMMA Lost ==
  ASSUME NEW cc \in Window, cc.cwnd >= MinCwnd, cc.ssthresh >= MinCwnd
  PROVE /\ on_packet_loss(cc) \in Window
        /\ on_packet_loss(cc).cwnd >= MinCwnd /\ on_packet_loss(cc).ssthresh >= MinCwnd
        /\ 2 * on_packet_loss(cc).cwnd + 1 >= cc.cwnd
        /\ on_packet_loss(cc).min_rtt = cc.min_rtt
<1> DEFINE half == Larger(cc.cwnd \div 2, MinCwnd)
           most == Larger((4 * cc.cwnd) \div 5, MinCwnd)
<1>1. cc.cwnd \in Nat /\ MinCwnd \in Nat
  BY PacingAssumption DEF Window
<1>2. half \in Nat /\ half >= MinCwnd /\ 2 * half + 1 >= cc.cwnd
  <2>1. cc.cwnd \div 2 \in Nat /\ 2 * (cc.cwnd \div 2) + 1 >= cc.cwnd
    BY <1>1
  <2>2. half \in Nat /\ half >= MinCwnd /\ half >= cc.cwnd \div 2
    BY <1>1, <2>1, Floor
  <2> HIDE DEF half
  <2> QED BY <2>1, <2>2, <1>1
<1>3. most \in Nat /\ most >= MinCwnd /\ 2 * most + 1 >= cc.cwnd
  <2>1. (4 * cc.cwnd) \div 5 \in Nat /\ 2 * ((4 * cc.cwnd) \div 5) + 1 >= cc.cwnd
    BY <1>1
  <2>2. most \in Nat /\ most >= MinCwnd /\ most >= (4 * cc.cwnd) \div 5
    BY <1>1, <2>1, Floor
  <2> HIDE DEF most
  <2> QED BY <2>1, <2>2, <1>1
<1>4. on_packet_loss(cc) = IF Congestive(cc)
        THEN [cc EXCEPT !.ssthresh = half, !.cwnd = half, !.slow = TRUE]
        ELSE [cc EXCEPT !.cwnd = most]
  BY DEF on_packet_loss
<1> HIDE DEF half, most
<1>5. CASE Congestive(cc)
  BY <1>2, <1>4, <1>5 DEF Window
<1>6. CASE ~Congestive(cc)
  BY <1>3, <1>4, <1>6 DEF Window
<1> QED BY <1>5, <1>6

LEMMA Interval ==
  /\ RetryInterval \in Nat \ {0} /\ Step \in Nat \ {0} /\ MaxRetries \in Nat
  /\ \A k \in Nat : /\ k * RetryInterval \in Nat
                    /\ (k + 1) * RetryInterval = k * RetryInterval + RetryInterval
<1>1. RetryInterval \in Nat \ {0} /\ Step \in Nat \ {0} /\ MaxRetries \in Nat
  BY PacingAssumption
<1>2. \A k \in Nat : k * RetryInterval \in Nat
  BY <1>1
<1>3. \A k \in Nat : (k + 1) * RetryInterval = k * RetryInterval + RetryInterval
  BY <1>1
<1> QED BY <1>1, <1>2, <1>3

LEMMA CheckSimpleIs ==
  ASSUME NEW r, NEW t \in Nat, t % Step = 0, Sound(r, t), NEW B, B = check_simple(r, t)
  PROVE /\ DOMAIN B \subseteq DOMAIN r.simple /\ B \in [DOMAIN B -> SimpleEntry]
        /\ \A s \in DOMAIN B :
             /\ Punctual(B[s], t) /\ t - B[s].sent < RetryInterval
             /\ B[s].sent = t \/ B[s].sent = r.simple[s].sent
<1> DEFINE D == DOMAIN r.simple \ Expired(r, t)
           again == [s \in SimpleDue(r, t) |->
                       [r.simple[s] EXCEPT !.sent = t, !.retries = @ + 1]]
<1>1. B = [s \in D |-> IF s \in SimpleDue(r, t)
                       THEN [r.simple[s] EXCEPT !.sent = t, !.retries = @ + 1] ELSE r.simple[s]]
  <2>1. DOMAIN again = SimpleDue(r, t)
    OBVIOUS
  <2>2. B = [s \in D |-> IF s \in DOMAIN again THEN again[s] ELSE r.simple[s]]
    BY DEF check_simple, Entries
  <2> QED BY <2>1, <2>2
<1>2. DOMAIN B = D /\ D \subseteq DOMAIN r.simple
  BY <1>1
<1>3. ASSUME NEW s \in D
      PROVE /\ B[s] \in SimpleEntry
            /\ Punctual(B[s], t) /\ t - B[s].sent < RetryInterval
            /\ B[s].sent = t \/ B[s].sent = r.simple[s].sent
  <2> DEFINE e == r.simple[s]
  <2>1. e \in SimpleEntry /\ Punctual(e, t) /\ s \in DOMAIN r.simple
    BY LayerFields DEF Sound
  <2>2. /\ e.sent \in Nat /\ e.retries \in 0 .. MaxRetries /\ e.retries \in Nat /\ e.first \in Nat
        /\ e = [sent |-> e.sent, retries |-> e.retries, first |-> e.first]
    BY <2>1, Interval DEF SimpleEntry
  <2>3. CASE s \in SimpleDue(r, t)
    <3>1. t - e.sent >= RetryInterval /\ ~ (e.retries >= MaxRetries)
      BY <2>3, <2>1 DEF SimpleDue, Expired
    <3>2. e.retries + 1 \in 0 .. MaxRetries
      BY <3>1, <2>2, Interval
    <3>3. B[s] = [sent |-> t, retries |-> e.retries + 1, first |-> e.first]
      BY <1>1, <2>3, <2>2
    <3> HIDE DEF e
    <3>4. B[s] \in SimpleEntry /\ B[s].sent = t /\ B[s].retries = e.retries + 1 /\ B[s].first = e.first
      BY <3>2, <3>3, <2>2 DEF SimpleEntry
    <3>5. t = e.first + (e.retries + 1) * RetryInterval
      <4> DEFINE p == e.retries * RetryInterval
      <4>1. p \in Nat /\ (e.retries + 1) * RetryInterval = p + RetryInterval
        BY <2>2, Interval
      <4>2. e.sent = e.first + p /\ t - e.sent <= RetryInterval
        BY <2>1 DEF Punctual
      <4> HIDE DEF p
      <4>3. t = e.first + (p + RetryInterval)
        BY <4>1, <4>2, <3>1, <2>2, Interval
      <4> QED BY <4>3, <4>1
    <3>6. Punctual(B[s], t)
      BY <3>4, <3>5, Interval DEF Punctual
    <3> QED BY <3>4, <3>6, Interval
  <2>4. CASE s \notin SimpleDue(r, t)
    <3>1. B[s] = e
      BY <1>1, <2>4
    <3>2. ~ (t - e.sent >= RetryInterval)
      BY <2>1, <2>4 DEF SimpleDue
    <3> QED BY <3>1, <3>2, <2>1, <2>2, Interval
  <2> QED BY <2>3, <2>4
<1> HIDE DEF D
<1>4. B \in [D -> SimpleEntry]
  BY <1>1, <1>3
<1> QED BY <1>2, <1>3, <1>4

LEMMA CheckIs ==
  ASSUME NEW r, NEW t \in Nat, t % Step = 0, Sound(r, t), NEW f, f = check_retransmissions(r, t)
  PROVE /\ Sound(f, t) /\ Ages(r, f, t)
        /\ f.next = r.next /\ f.buf = r.buf /\ DOMAIN f.sack = DOMAIN r.sack
        /\ f.est.rto >= r.est.rto /\ f.est.srtt = r.est.srtt /\ f.cc.min_rtt = r.cc.min_rtt
        /\ 2 * f.cc.cwnd + 1 >= r.cc.cwnd
        /\ RtoDue(f, t) = {} /\ SimpleDue(f, t) = {}
<1> DEFINE any == Resent(r, t) # {}
           A == Entries(r.sack, DOMAIN r.sack, [s \in RtoDue(r, t) |-> [r.sack[s] EXCEPT !.sent = t]])
           B == check_simple(r, t)
           c == IF any THEN on_packet_loss(r.cc) ELSE r.cc
           e == IF any THEN backoff(r.est) ELSE r.est
<1>1. /\ r.next \in Nat /\ r.buf \in Nat /\ r.est \in Estimator /\ r.cc \in Window
      /\ \A s \in DOMAIN r.sack : r.sack[s] \in SackEntry
      /\ r.est.rto \in Nat /\ r.cc.cwnd \in Nat
  BY LayerFields
<1>2. /\ DOMAIN B \subseteq DOMAIN r.simple /\ B \in [DOMAIN B -> SimpleEntry]
      /\ \A s \in DOMAIN B :
             /\ Punctual(B[s], t) /\ t - B[s].sent < RetryInterval
             /\ B[s].sent = t \/ B[s].sent = r.simple[s].sent
  BY CheckSimpleIs
<1>3. /\ c \in Window /\ c.cwnd >= MinCwnd /\ c.ssthresh >= MinCwnd
      /\ 2 * c.cwnd + 1 >= r.cc.cwnd /\ c.min_rtt = r.cc.min_rtt
  <2> r.cc.cwnd >= MinCwnd /\ r.cc.ssthresh >= MinCwnd
    BY DEF Sound
  <2>1. CASE any
    <3>1. c = on_packet_loss(r.cc)
      BY <2>1
    <3> QED BY <3>1, <1>1, Lost
  <2>2. CASE ~any
    <3>1. c = r.cc
      BY <2>2
    <3> QED BY <3>1, <1>1
  <2> QED BY <2>1, <2>2
<1>4. /\ e \in Estimator /\ e.rto >= r.est.rto /\ e.rto >= MinRto /\ e.srtt = r.est.srtt
      /\ e.rto \in Nat
  <2>1. r.est.rto >= MinRto /\ MinRto \in Nat
    BY PacingAssumption DEF Sound
  <2>2. 2 * r.est.rto \in Nat /\ 2 * r.est.rto >= r.est.rto /\ 2 * r.est.rto >= MinRto
    BY <1>1, <2>1
  <2>3. CASE any
    <3> DEFINE d == 2 * r.est.rto
    <3>1. e = [r.est EXCEPT !.rto = d]
      BY <2>3 DEF backoff
    <3> HIDE DEF e, d
    <3>2. d \in Nat /\ d >= r.est.rto /\ d >= MinRto
      BY <2>2 DEF d
    <3> QED BY <3>1, <3>2, <1>1 DEF Estimator
  <2>4. CASE ~any
    <3>1. e = r.est
      BY <2>4
    <3> QED BY <3>1, <1>1, <2>1
  <2> QED BY <2>3, <2>4
<1>5. /\ DOMAIN A = DOMAIN r.sack
      /\ \A s \in DOMAIN r.sack :
           A[s] = IF s \in RtoDue(r, t) THEN [r.sack[s] EXCEPT !.sent = t] ELSE r.sack[s]
  BY DEF Entries
<1>6. r = [next |-> r.next, buf |-> r.buf, sack |-> r.sack, simple |-> r.simple,
           est |-> r.est, cc |-> r.cc]
  BY DEF Sound, Reliability
<1>7. f = [r EXCEPT !.sack = A, !.simple = B, !.cc = c, !.est = e]
  BY DEF check_retransmissions
<1> HIDE DEF A, B, c, e
<1>8. f = [next |-> r.next, buf |-> r.buf, sack |-> A, simple |-> B, est |-> e, cc |-> c]
  BY <1>6, <1>7
<1>9. f.next = r.next /\ f.buf = r.buf /\ f.sack = A /\ f.simple = B /\ f.est = e /\ f.cc = c
  BY <1>8
<1>10. ASSUME NEW s \in DOMAIN r.sack
       PROVE /\ A[s] \in SackEntry /\ A[s].sent <= t /\ ~ (t - A[s].sent > e.rto)
             /\ A[s].sent = t \/ A[s].sent = r.sack[s].sent
  <2>1. /\ r.sack[s] \in SackEntry /\ r.sack[s].sent \in Nat /\ r.sack[s].skips \in Nat
        /\ r.sack[s] = [sent |-> r.sack[s].sent, skips |-> r.sack[s].skips]
        /\ r.sack[s].sent <= t
    BY <1>1 DEF SackEntry, Sound
  <2>2. CASE s \in RtoDue(r, t)
    <3>1. A[s] = [sent |-> t, skips |-> r.sack[s].skips]
      BY <1>5, <2>1, <2>2
    <3>2. A[s] \in SackEntry /\ A[s].sent = t
      BY <3>1, <2>1 DEF SackEntry
    <3> QED BY <3>2, <1>4
  <2>3. CASE s \notin RtoDue(r, t)
    <3>1. A[s] = r.sack[s]
      BY <1>5, <2>3
    <3>2. ~ (t - r.sack[s].sent > r.est.rto)
      BY <2>3 DEF RtoDue
    <3> QED BY <3>1, <3>2, <2>1, <1>4, <1>1
  <2> QED BY <2>2, <2>3
<1>11. A \in [DOMAIN A -> SackEntry]
  <2>1. A = [s \in DOMAIN r.sack |->
               IF s \in RtoDue(r, t) THEN [r.sack[s] EXCEPT !.sent = t] ELSE r.sack[s]]
    BY DEF A, Entries
  <2> QED BY <2>1, <1>5, <1>10
<1>12. Sound(f, t)
  <2>1. /\ f.next \in Nat /\ f.buf \in Nat /\ f.est \in Estimator /\ f.cc \in Window
        /\ f.sack \in [DOMAIN f.sack -> SackEntry] /\ f.simple \in [DOMAIN f.simple -> SimpleEntry]
        /\ f.cc.cwnd >= MinCwnd /\ f.cc.ssthresh >= MinCwnd /\ f.est.rto >= MinRto
    BY <1>1, <1>2, <1>3, <1>4, <1>9, <1>11
  <2>2. f = [next |-> f.next, buf |-> f.buf, sack |-> f.sack, simple |-> f.simple,
              est |-> f.est, cc |-> f.cc]
    BY <1>8
  <2>3. /\ DOMAIN f.sack \subseteq 0 .. f.next - 1
        /\ DOMAIN f.simple \subseteq (0 .. f.next - 1) \ DOMAIN f.sack
    BY <1>2, <1>5, <1>9 DEF Sound
  <2>4. \A s \in DOMAIN f.sack : f.sack[s].sent <= t
    BY <1>5, <1>9, <1>10
  <2>5. \A s \in DOMAIN f.simple : Punctual(f.simple[s], t)
    BY <1>2, <1>9
  <2> QED BY <2>1, <2>2, <2>3, <2>4, <2>5, Assembled
<1>13. Ages(r, f, t)
  BY <1>2, <1>5, <1>9, <1>10 DEF Ages
<1>14. RtoDue(f, t) = {}
  BY <1>5, <1>9, <1>10 DEF RtoDue
<1>15. SimpleDue(f, t) = {}
  <2>1. \A s \in DOMAIN B : ~ (t - B[s].sent >= RetryInterval)
    <3> TAKE s \in DOMAIN B
    <3>1. B[s].sent \in Nat /\ t - B[s].sent < RetryInterval
      BY <1>2 DEF SimpleEntry
    <3> QED BY <3>1, Interval
  <2> QED BY <2>1, <1>9 DEF SimpleDue
<1> QED BY <1>3, <1>4, <1>5, <1>9, <1>12, <1>13, <1>14, <1>15

LEMMA AfterTimeoutsIs ==
  ASSUME NEW r, NEW t \in Nat, t % Step = 0, Sound(r, t), NEW f, f = AfterTimeouts(r, t)
  PROVE /\ Sound(f, t) /\ Ages(r, f, t)
        /\ f.next = r.next /\ f.buf = r.buf /\ DOMAIN f.sack = DOMAIN r.sack
        /\ f.est.rto >= r.est.rto /\ f.est.srtt = r.est.srtt /\ f.cc.min_rtt = r.cc.min_rtt
        /\ 2 * f.cc.cwnd + 1 >= r.cc.cwnd
        /\ RtoDue(f, t) = {} /\ SimpleDue(f, t) = {}
<1>1. CASE has_retransmission_timeout(r, t)
  <2>1. f = check_retransmissions(r, t)
    BY <1>1 DEF AfterTimeouts
  <2> QED BY <2>1, CheckIs
<1>2. CASE ~has_retransmission_timeout(r, t)
  <2>1. f = r
    BY <1>2 DEF AfterTimeouts
  <2>2. /\ r.est.rto \in Nat /\ r.cc.cwnd \in Nat
        /\ \A s \in DOMAIN r.sack : r.sack[s].sent \in Nat
        /\ \A s \in DOMAIN r.simple : r.simple[s].sent \in Nat
    BY LayerFields DEF SackEntry, SimpleEntry
  <2>3. Ages(r, f, t)
    BY <2>1 DEF Ages
  <2>4. \A d \in sack_deadlines(r) \cup simple_deadlines(r) : ~ (t >= d)
    BY <1>2 DEF has_retransmission_timeout
  <2>5. ASSUME NEW s \in DOMAIN r.sack PROVE ~ (t - r.sack[s].sent > r.est.rto)
    <3>1. r.sack[s].sent + r.est.rto \in sack_deadlines(r)
      BY DEF sack_deadlines
    <3>2. ~ (t >= r.sack[s].sent + r.est.rto)
      BY <3>1, <2>4
    <3> QED BY <3>2, <2>2
  <2>6. ASSUME NEW s \in DOMAIN r.simple PROVE ~ (t - r.simple[s].sent >= RetryInterval)
    <3>1. r.simple[s].sent + RetryInterval \in simple_deadlines(r)
      BY DEF simple_deadlines
    <3>2. ~ (t >= r.simple[s].sent + RetryInterval)
      BY <3>1, <2>4
    <3>3. RetryInterval \in Nat
      BY Interval
    <3> QED BY <3>2, <3>3, <2>2
  <2>7. RtoDue(f, t) = {} /\ SimpleDue(f, t) = {}
    BY <2>1, <2>5, <2>6 DEF RtoDue, SimpleDue
  <2> QED BY <2>1, <2>2, <2>3, <2>7
<1> QED BY <1>1, <1>2

Remaining(r, next, sack) == DOMAIN r.sack \ (CumulativeAcked(r, next) \cup sack)

LEMMA ProcessAckIs ==
  ASSUME NEW r, NEW t \in Nat, Sound(r, t), NEW next, NEW sack,
         NEW A, A = process_ack(r, next, sack, t)
  PROVE /\ DOMAIN A = Remaining(r, next, sack)
        /\ A \in [DOMAIN A -> SackEntry]
        /\ \A s \in DOMAIN A : A[s].sent <= t /\ (A[s].sent = t \/ A[s].sent = r.sack[s].sent)
<1> DEFINE D == DOMAIN r.sack \ (CumulativeAcked(r, next) \cup sack)
           S == Skipped(r, next, sack)
           fast == FastRetransmitted(r, next, sack)
           new == [s \in S |-> IF s \in fast THEN [r.sack[s] EXCEPT !.sent = t, !.skips = 0]
                                             ELSE [r.sack[s] EXCEPT !.skips = @ + 1]]
<1>1. A = Entries(r.sack, D, new)
  BY DEF process_ack
<1>2. DOMAIN new = S
  OBVIOUS
<1>3. \A s \in S : new[s] = IF s \in fast THEN [r.sack[s] EXCEPT !.sent = t, !.skips = 0]
                                          ELSE [r.sack[s] EXCEPT !.skips = @ + 1]
  OBVIOUS
<1>4. D \subseteq DOMAIN r.sack
  OBVIOUS
<1> HIDE DEF D, S, fast, new
<1>5. A = [s \in D |-> IF s \in S THEN new[s] ELSE r.sack[s]]
  BY <1>1, <1>2 DEF Entries
<1>6. ASSUME NEW s \in D
      PROVE A[s] \in SackEntry /\ A[s].sent <= t /\ (A[s].sent = t \/ A[s].sent = r.sack[s].sent)
  <2>1. /\ r.sack[s] \in SackEntry /\ r.sack[s].sent \in Nat /\ r.sack[s].skips \in Nat
        /\ r.sack[s] = [sent |-> r.sack[s].sent, skips |-> r.sack[s].skips]
        /\ r.sack[s].sent <= t
    BY <1>4, LayerFields DEF SackEntry, Sound
  <2>2. CASE s \in S /\ s \in fast
    <3>1. A[s] = [sent |-> t, skips |-> 0]
      BY <1>3, <1>5, <2>1, <2>2
    <3>2. A[s] \in SackEntry /\ A[s].sent = t
      BY <3>1 DEF SackEntry
    <3> QED BY <3>2
  <2>3. CASE s \in S /\ s \notin fast
    <3> DEFINE k == r.sack[s].skips + 1
    <3>1. A[s] = [sent |-> r.sack[s].sent, skips |-> k]
      BY <1>3, <1>5, <2>1, <2>3
    <3>2. k \in Nat
      BY <2>1
    <3> HIDE DEF k
    <3>3. A[s] \in SackEntry /\ A[s].sent = r.sack[s].sent
      BY <3>1, <3>2, <2>1 DEF SackEntry
    <3> QED BY <3>3, <2>1
  <2>4. CASE s \notin S
    <3>1. A[s] = r.sack[s]
      BY <1>5, <2>4
    <3> QED BY <3>1, <2>1
  <2> QED BY <2>2, <2>3, <2>4
<1>7. DOMAIN A = D /\ A \in [D -> SackEntry]
  BY <1>5, <1>6
<1> QED BY <1>6, <1>7 DEF D, Remaining

\* One sample for every number that leaves the book.
LEMMA SamplesAre ==
  ASSUME NEW r, NEW t \in Nat, Sound(r, t), NEW next, NEW sack,
         NEW q, q = Samples(r, next, sack, t)
  PROVE /\ q \in Seq(0 .. t)
        /\ LET gone == DOMAIN r.sack \cap (CumulativeAcked(r, next) \cup sack) IN
           IsFiniteSet(gone) /\ Len(q) = Cardinality(gone)
<1> DEFINE D == DOMAIN r.sack
           C == CumulativeAcked(r, next)
           S == SackAcked(r, next, sack)
           order == Ascending(C) \o Ascending(S)
           gone == D \cap (C \cup sack)
<1>1. C \subseteq D /\ S \subseteq D /\ C \cap S = {} /\ gone = C \cup S
  BY DEF CumulativeAcked, SackAcked
<1>2. r.next \in Nat /\ D \subseteq 0 .. r.next - 1
  BY LayerFields DEF Sound
<1>3. D \in SUBSET Nat /\ IsFiniteSet(D)
  <2>1. IsFiniteSet(0 .. r.next - 1)
    BY <1>2, FS_Interval
  <2> QED BY <2>1, <1>2, FS_Subset
<1> HIDE DEF D, C, S
<1>4. IsFiniteSet(C) /\ IsFiniteSet(S) /\ C \in SUBSET Nat /\ S \in SUBSET Nat
  BY <1>1, <1>3, FS_Subset
<1>5. /\ Cardinality(C) \in Nat /\ Ascending(C) \in Seq(C) /\ Len(Ascending(C)) = Cardinality(C)
      /\ Cardinality(S) \in Nat /\ Ascending(S) \in Seq(S) /\ Len(Ascending(S)) = Cardinality(S)
  BY <1>4, AscendingIs
<1>6. order \in Seq(D) /\ Len(order) = Cardinality(C) + Cardinality(S)
  <2> DEFINE a == Ascending(C)
             b == Ascending(S)
  <2> HIDE DEF a, b
  <2>1. a \in Seq(D) /\ b \in Seq(D)
    BY <1>1, <1>5 DEF a, b
  <2>2. a \o b \in Seq(D) /\ Len(a \o b) = Len(a) + Len(b)
    BY <2>1
  <2> QED BY <2>2, <1>5 DEF a, b
<1>7. IsFiniteSet(gone) /\ Cardinality(gone) = Cardinality(C) + Cardinality(S)
  <2>1. /\ IsFiniteSet(C \cup S)
        /\ Cardinality(C \cup S) = Cardinality(C) + Cardinality(S) - Cardinality(C \cap S)
    BY <1>4, FS_Union
  <2>2. Cardinality(C \cap S) = 0
    BY <1>1, FS_EmptySet
  <2> HIDE DEF gone
  <2> QED BY <2>1, <2>2, <1>1, <1>5
<1>8. q = [i \in DOMAIN order |-> t - r.sack[order[i]].sent]
  BY DEF Samples, C, S
<1>9. \A s \in D : t - r.sack[s].sent \in 0 .. t
  <2> TAKE s \in D
  <2>1. r.sack[s].sent \in Nat /\ r.sack[s].sent <= t
    BY LayerFields DEF D, Sound, SackEntry
  <2> QED BY <2>1
<1> HIDE DEF order
<1>10. DOMAIN order = 1 .. Len(order) /\ Len(order) \in Nat /\ \A i \in DOMAIN order : order[i] \in D
  BY <1>6
<1>11. q \in [1 .. Len(order) -> 0 .. t]
  BY <1>8, <1>9, <1>10
<1>12. q \in Seq(0 .. t) /\ Len(q) = Len(order)
  BY <1>10, <1>11
<1> QED BY <1>6, <1>7, <1>12 DEF D, C

LEMMA HandleAckIs ==
  ASSUME NEW r, NEW t \in Nat, Sound(r, t), NEW next, NEW sack,
         NEW max \in Nat, Samples(r, next, sack, t) \in Seq(0 .. max), Fits(r, max),
         NEW f, f = handle_ack(r, next, sack, t)
  PROVE /\ Sound(f, t) /\ Ages(r, f, t) /\ Fits(f, max)
        /\ f.next = r.next /\ f.buf = r.buf /\ DOMAIN f.sack \subseteq DOMAIN r.sack
        /\ IsFiniteSet(DOMAIN r.sack \ DOMAIN f.sack)
        /\ 2 * f.cc.cwnd + Cardinality(DOMAIN r.sack \ DOMAIN f.sack) + 1 >= r.cc.cwnd
<1> DEFINE q == Samples(r, next, sack, t)
           m == Measured(r, q)
           A == process_ack(r, next, sack, t)
           C == {s \in DOMAIN r.simple : s >= next /\ s \notin sack}
           B == Entries(r.simple, C, EmptyBook)
           c == IF FastRetransmitted(r, next, sack) # {} THEN on_packet_loss(m.cc) ELSE m.cc
           gone == DOMAIN r.sack \cap (CumulativeAcked(r, next) \cup sack)
<1>1. /\ r.next \in Nat /\ r.buf \in Nat /\ r.cc.cwnd \in Nat
      /\ \A s \in DOMAIN r.simple : r.simple[s] \in SimpleEntry
  BY LayerFields
<1>2. /\ DOMAIN A = Remaining(r, next, sack)
      /\ A \in [DOMAIN A -> SackEntry]
      /\ \A s \in DOMAIN A : A[s].sent <= t /\ (A[s].sent = t \/ A[s].sent = r.sack[s].sent)
  <2>1. A = process_ack(r, next, sack, t)
    OBVIOUS
  <2> HIDE DEF A
  <2> QED BY <2>1, ProcessAckIs
<1>3. IsFiniteSet(gone) /\ Len(q) = Cardinality(gone)
  BY SamplesAre
<1>4. gone = DOMAIN r.sack \ DOMAIN A /\ DOMAIN A \subseteq DOMAIN r.sack
  BY <1>2 DEF Remaining
<1>5. Fits(m, max) /\ m.cc.cwnd >= r.cc.cwnd - Len(q)
  <2> q \in Seq(0 .. max)
    OBVIOUS
  <2> HIDE DEF q
  <2> QED BY AllSamples
<1>6. B = [s \in C |-> r.simple[s]]
  BY DEF Entries, EmptyBook
<1>7. DOMAIN B = C /\ C \subseteq DOMAIN r.simple /\ B \in [C -> SimpleEntry]
  BY <1>1, <1>6
<1>8. \A s \in C : B[s] = r.simple[s]
  BY <1>6
<1>9. r = [next |-> r.next, buf |-> r.buf, sack |-> r.sack, simple |-> r.simple,
           est |-> r.est, cc |-> r.cc]
  BY DEF Sound, Reliability
<1>10. f = [r EXCEPT !.sack = A, !.simple = B, !.est = m.est, !.cc = c]
  BY DEF handle_ack
<1>11. /\ m.cc \in Window /\ m.cc.cwnd >= MinCwnd /\ m.cc.ssthresh >= MinCwnd
       /\ m.est \in Estimator /\ m.est.rto >= MinRto /\ m.cc.cwnd \in Nat
  BY <1>5 DEF Fits, Window
<1> HIDE DEF m, A, B, C, gone, q
<1>12. /\ c \in Window /\ c.cwnd >= MinCwnd /\ c.ssthresh >= MinCwnd
       /\ 2 * c.cwnd + 1 >= m.cc.cwnd /\ c.min_rtt = m.cc.min_rtt
  <2>1. CASE FastRetransmitted(r, next, sack) # {}
    <3>1. c = on_packet_loss(m.cc)
      BY <2>1
    <3> QED BY <3>1, <1>11, Lost
  <2>2. CASE FastRetransmitted(r, next, sack) = {}
    <3>1. c = m.cc
      BY <2>2
    <3> QED BY <3>1, <1>11
  <2> QED BY <2>1, <2>2
<1> HIDE DEF c
<1>13. f = [next |-> r.next, buf |-> r.buf, sack |-> A, simple |-> B, est |-> m.est, cc |-> c]
  BY <1>9, <1>10
<1>14. /\ f.next = r.next /\ f.buf = r.buf /\ f.sack = A /\ f.simple = B
       /\ f.est = m.est /\ f.cc = c
  BY <1>13
<1>15. Sound(f, t)
  <2>1. /\ f.next \in Nat /\ f.buf \in Nat /\ f.est \in Estimator /\ f.cc \in Window
        /\ f.sack \in [DOMAIN f.sack -> SackEntry] /\ f.simple \in [DOMAIN f.simple -> SimpleEntry]
        /\ f.cc.cwnd >= MinCwnd /\ f.cc.ssthresh >= MinCwnd /\ f.est.rto >= MinRto
    BY <1>1, <1>2, <1>7, <1>11, <1>12, <1>14
  <2>2. f = [next |-> f.next, buf |-> f.buf, sack |-> f.sack, simple |-> f.simple,
              est |-> f.est, cc |-> f.cc]
    BY <1>13
  <2>3. /\ DOMAIN f.sack \subseteq 0 .. f.next - 1
        /\ DOMAIN f.simple \subseteq (0 .. f.next - 1) \ DOMAIN f.sack
    BY <1>4, <1>7, <1>14 DEF Sound
  <2>4. \A s \in DOMAIN f.sack : f.sack[s].sent <= t
    BY <1>2, <1>14
  <2>5. \A s \in DOMAIN f.simple : Punctual(f.simple[s], t)
    BY <1>7, <1>8, <1>14 DEF Sound
  <2> QED BY <2>1, <2>2, <2>3, <2>4, <2>5, Assembled
<1>16. Ages(r, f, t)
  BY <1>2, <1>4, <1>7, <1>8, <1>14 DEF Ages
<1>17. Fits(f, max)
  BY <1>5, <1>11, <1>12, <1>14 DEF Fits
<1>18. 2 * c.cwnd + Cardinality(gone) + 1 >= r.cc.cwnd
  <2>1. Cardinality(gone) \in Nat
    BY <1>3, FS_CardinalityType
  <2>2. c.cwnd \in Nat
    BY <1>12 DEF Window
  <2> QED BY <2>1, <2>2, <1>1, <1>3, <1>5, <1>11, <1>12
<1> QED BY <1>3, <1>4, <1>14, <1>15, <1>16, <1>17, <1>18

----------------------------------------------------------------------------
(* Packetizing.                                                            *)

LEMMA Permitted ==
  ASSUME NEW r, NEW t, Sound(r, t)
  PROVE /\ IsFiniteSet(DOMAIN r.sack) /\ InFlight(r) \in Nat /\ permit(r) \in Nat
        /\ permit(r) > 0 => InFlight(r) + permit(r) <= Smaller(r.cc.cwnd, PeerWindow)
<1> DEFINE n == Cardinality(DOMAIN r.sack)
<1>1. r.next \in Nat /\ r.cc.cwnd \in Nat /\ PeerWindow \in Nat
  BY LayerFields, PacingAssumption
<1>2. IsFiniteSet(DOMAIN r.sack)
  <2>1. IsFiniteSet(0 .. r.next - 1)
    BY <1>1, FS_Interval
  <2> QED BY <2>1, FS_Subset DEF Sound
<1>3. n \in Nat
  BY <1>2, FS_CardinalityType
<1>4. permit(r) = Smaller(SaturatingSub(r.cc.cwnd, n), SaturatingSub(PeerWindow, n))
  BY DEF permit
<1> HIDE DEF n
<1>5. /\ permit(r) \in Nat
      /\ permit(r) > 0 => n + permit(r) <= Smaller(r.cc.cwnd, PeerWindow)
  BY <1>1, <1>3, <1>4 DEF Smaller, SaturatingSub
<1> QED BY <1>2, <1>3, <1>5 DEF InFlight, n

\* What packetize adds to the book has numbers not yet given away.
NewNumbers(r, f) == \A s \in DOMAIN f.sack : s \in DOMAIN r.sack \/ s >= r.next

LEMMA PacketizeIs ==
  ASSUME NEW r, NEW t \in Nat, Sound(r, t), NEW f, f = packetize(r, t)
  PROVE /\ Sound(f, t) /\ Ages(r, f, t)
        /\ f.next \in Nat /\ f.next >= r.next /\ f.est = r.est /\ f.cc = r.cc
        /\ f.simple = r.simple
        /\ DOMAIN r.sack \subseteq DOMAIN f.sack /\ NewNumbers(r, f)
        /\ DOMAIN f.sack # DOMAIN r.sack => InFlight(f) <= Smaller(f.cc.cwnd, PeerWindow)
        /\ RtoDue(r, t) = {} => RtoDue(f, t) = {}
<1> DEFINE n == Smaller(permit(r), r.buf)
           N == r.next .. r.next + n - 1
           new == [s \in N |-> [sent |-> t, skips |-> 0]]
           D == DOMAIN r.sack \cup N
           A == Entries(r.sack, DOMAIN r.sack \cup DOMAIN new, new)
<1>1. /\ r.next \in Nat /\ r.buf \in Nat /\ r.est \in Estimator /\ r.cc \in Window
      /\ \A s \in DOMAIN r.sack : r.sack[s] \in SackEntry
      /\ r.est.rto \in Nat /\ r.cc.cwnd \in Nat
  BY LayerFields
<1>2. n \in Nat /\ n <= r.buf /\ n <= permit(r)
  BY <1>1, Permitted, Floor
<1>3. A = [s \in D |-> IF s \in N THEN [sent |-> t, skips |-> 0] ELSE r.sack[s]]
  BY DEF Entries
<1>4. r = [next |-> r.next, buf |-> r.buf, sack |-> r.sack, simple |-> r.simple,
           est |-> r.est, cc |-> r.cc]
  BY DEF Sound, Reliability
<1> DEFINE next == r.next + n
           buf == r.buf - n
<1>5. f = [r EXCEPT !.next = next, !.buf = buf, !.sack = A]
  BY DEF packetize
<1> HIDE DEF n, A
<1>6. next \in Nat /\ next >= r.next /\ buf \in Nat
  BY <1>1, <1>2
<1>7. N \subseteq 0 .. next - 1 /\ N \cap (0 .. r.next - 1) = {}
  BY <1>1, <1>2
<1>8. D \subseteq 0 .. next - 1 /\ N \cap DOMAIN r.sack = {} /\ N \cap DOMAIN r.simple = {}
  <2>1. DOMAIN r.sack \subseteq 0 .. r.next - 1 /\ DOMAIN r.simple \subseteq 0 .. r.next - 1
    BY DEF Sound
  <2>2. 0 .. r.next - 1 \subseteq 0 .. next - 1
    BY <1>1, <1>6
  <2> HIDE DEF N, next
  <2> QED BY <2>1, <2>2, <1>7
<1>9. 0 .. r.next - 1 \subseteq 0 .. next - 1
  BY <1>1, <1>6
<1>10. /\ IsFiniteSet(N) /\ Cardinality(N) = n
  <2> DEFINE a == r.next
             b == r.next + n - 1
  <2>1. a \in Int /\ b \in Int /\ N = a .. b
    BY <1>1, <1>2
  <2> HIDE DEF a, b
  <2>2. IsFiniteSet(N) /\ Cardinality(N) = IF a > b THEN 0 ELSE b - a + 1
    BY <2>1, FS_Interval
  <2> QED BY <2>2, <1>1, <1>2 DEF a, b
<1> HIDE DEF N, next, buf
<1>11. f = [next |-> next, buf |-> buf, sack |-> A, simple |-> r.simple, est |-> r.est, cc |-> r.cc]
  BY <1>4, <1>5
<1>12. /\ f.next = next /\ f.buf = buf /\ f.sack = A /\ f.simple = r.simple
       /\ f.est = r.est /\ f.cc = r.cc
  BY <1>11
<1>13. ASSUME NEW s \in D
       PROVE /\ A[s] \in SackEntry /\ A[s].sent <= t
             /\ A[s].sent = t \/ (s \in DOMAIN r.sack /\ A[s] = r.sack[s])
  <2>1. CASE s \in N
    <3>1. A[s] = [sent |-> t, skips |-> 0]
      BY <1>3, <2>1
    <3>2. A[s] \in SackEntry /\ A[s].sent = t
      BY <3>1 DEF SackEntry
    <3> QED BY <3>2
  <2>2. CASE s \notin N
    <3>1. A[s] = r.sack[s] /\ s \in DOMAIN r.sack
      BY <1>3, <2>2
    <3> QED BY <3>1, <1>1 DEF Sound
  <2> QED BY <2>1, <2>2
<1>14. DOMAIN A = D /\ A \in [D -> SackEntry]
  BY <1>3, <1>13
<1>15. Sound(f, t)
  <2>1. /\ f.next \in Nat /\ f.buf \in Nat /\ f.est \in Estimator /\ f.cc \in Window
        /\ f.sack \in [DOMAIN f.sack -> SackEntry]
    BY <1>1, <1>6, <1>12, <1>14
  <2>2. /\ f.cc.cwnd >= MinCwnd /\ f.cc.ssthresh >= MinCwnd /\ f.est.rto >= MinRto
        /\ \A s \in DOMAIN f.simple : Punctual(f.simple[s], t)
    BY <1>12 DEF Sound
  <2>3. f.simple \in [DOMAIN f.simple -> SimpleEntry]
    BY <1>12 DEF Sound, Reliability, SimpleEntry
  <2>4. f = [next |-> f.next, buf |-> f.buf, sack |-> f.sack, simple |-> f.simple,
              est |-> f.est, cc |-> f.cc]
    BY <1>11
  <2>5. DOMAIN f.sack \subseteq 0 .. f.next - 1
    BY <1>8, <1>12, <1>14
  <2>6. DOMAIN f.simple \subseteq (0 .. f.next - 1) \ DOMAIN f.sack
    BY <1>8, <1>9, <1>12, <1>14 DEF Sound
  <2>7. \A s \in DOMAIN f.sack : f.sack[s].sent <= t
    BY <1>12, <1>13, <1>14
  <2> QED BY <2>1, <2>2, <2>3, <2>4, <2>5, <2>6, <2>7, Assembled
<1>16. Ages(r, f, t)
  BY <1>12, <1>13, <1>14 DEF Ages
<1>17. DOMAIN f.sack # DOMAIN r.sack => InFlight(f) <= Smaller(f.cc.cwnd, PeerWindow)
  <2>1. SUFFICES ASSUME D # DOMAIN r.sack PROVE Cardinality(D) <= Smaller(r.cc.cwnd, PeerWindow)
    BY <1>12, <1>14 DEF InFlight
  <2>2. n # 0
    <3>1. N # {}
      BY <2>1
    <3> QED BY <3>1, <1>1, <1>2 DEF N
  <2>3. /\ IsFiniteSet(DOMAIN r.sack) /\ Cardinality(DOMAIN r.sack) \in Nat /\ permit(r) \in Nat
        /\ permit(r) > 0 => Cardinality(DOMAIN r.sack) + permit(r) <= Smaller(r.cc.cwnd, PeerWindow)
    BY Permitted DEF InFlight
  <2>4. /\ Cardinality(D) = Cardinality(DOMAIN r.sack) + Cardinality(N)
                              - Cardinality(DOMAIN r.sack \cap N)
    BY <2>3, <1>10, FS_Union
  <2>5. Cardinality(DOMAIN r.sack \cap N) = 0
    BY <1>8, FS_EmptySet
  <2>6. Smaller(r.cc.cwnd, PeerWindow) \in Nat
    BY <1>1, Floor, PacingAssumption
  <2> HIDE DEF D
  <2> QED BY <2>2, <2>3, <2>4, <2>5, <2>6, <1>2, <1>10
<1>18. RtoDue(r, t) = {} => RtoDue(f, t) = {}
  <2>1. SUFFICES ASSUME RtoDue(r, t) = {}, NEW s \in D PROVE ~ (t - A[s].sent > r.est.rto)
    BY <1>12, <1>14 DEF RtoDue
  <2>2. CASE A[s].sent = t
    BY <2>2, <1>1
  <2>3. CASE s \in DOMAIN r.sack /\ A[s] = r.sack[s]
    BY <2>1, <2>3 DEF RtoDue
  <2> QED BY <2>2, <2>3, <1>13
<1>19. NewNumbers(r, f)
  <2>1. \A s \in N : s >= r.next
    BY <1>1, <1>2 DEF N
  <2> QED BY <2>1, <1>12, <1>14 DEF NewNumbers
<1> QED BY <1>6, <1>12, <1>14, <1>15, <1>16, <1>17, <1>18, <1>19

LEMMA WithFinIs ==
  ASSUME NEW r, NEW t \in Nat, t % Step = 0, Sound(r, t), NEW f, f = WithFin(r, t)
  PROVE /\ Sound(f, t) /\ Ages(r, f, t)
        /\ f.next \in Nat /\ f.next >= r.next /\ f.est = r.est /\ f.cc = r.cc
        /\ f.sack = r.sack
        /\ SimpleDue(r, t) = {} => SimpleDue(f, t) = {}
<1>1. /\ r.next \in Nat /\ r.buf \in Nat /\ r.est \in Estimator /\ r.cc \in Window
      /\ r.sack \in [DOMAIN r.sack -> SackEntry]
  BY LayerFields DEF Sound, Reliability, SackEntry
<1>2. CASE DOMAIN r.simple # {}
  <2>1. f = r
    BY <1>2 DEF WithFin
  <2> QED BY <2>1, <1>1 DEF Ages
<1>3. CASE DOMAIN r.simple = {}
  <2> DEFINE e == [sent |-> t, retries |-> 0, first |-> t]
             B == [s \in {r.next} |-> e]
             next == r.next + 1
  <2>1. Entries(r.simple, DOMAIN r.simple \cup {r.next}, B) = B
    <3>1. DOMAIN r.simple \cup {r.next} = {r.next} /\ DOMAIN B = {r.next}
      BY <1>3
    <3> QED BY <3>1 DEF Entries
  <2>2. f = [r EXCEPT !.next = next, !.simple = B]
    BY <1>3, <2>1 DEF WithFin
  <2>3. e \in SimpleEntry /\ e.sent = t /\ e.retries = 0 /\ e.first = t
    BY Interval DEF SimpleEntry
  <2>4. Punctual(e, t)
    <3> HIDE DEF e
    <3>1. e.retries * RetryInterval = 0
      BY <2>3, Interval
    <3> QED BY <2>3, <3>1, Interval DEF Punctual
  <2> HIDE DEF e
  <2>5. DOMAIN B = {r.next} /\ B[r.next] = e /\ B \in [{r.next} -> SimpleEntry]
    BY <2>3
  <2> HIDE DEF B
  <2>6. next \in Nat /\ next >= r.next /\ r.next \in 0 .. next - 1
        /\ 0 .. r.next - 1 \subseteq 0 .. next - 1 /\ r.next \notin 0 .. r.next - 1
    BY <1>1
  <2> HIDE DEF next
  <2>7. r = [next |-> r.next, buf |-> r.buf, sack |-> r.sack, simple |-> r.simple,
             est |-> r.est, cc |-> r.cc]
    BY DEF Sound, Reliability
  <2>8. f = [next |-> next, buf |-> r.buf, sack |-> r.sack, simple |-> B, est |-> r.est, cc |-> r.cc]
    BY <2>2, <2>7
  <2>9. /\ f.next = next /\ f.buf = r.buf /\ f.sack = r.sack /\ f.simple = B
        /\ f.est = r.est /\ f.cc = r.cc
    BY <2>8
  <2>10. Sound(f, t)
    <3>1. /\ f.next \in Nat /\ f.buf \in Nat /\ f.est \in Estimator /\ f.cc \in Window
          /\ f.sack \in [DOMAIN f.sack -> SackEntry] /\ f.simple \in [DOMAIN f.simple -> SimpleEntry]
      BY <1>1, <2>5, <2>6, <2>9
    <3>2. /\ f.cc.cwnd >= MinCwnd /\ f.cc.ssthresh >= MinCwnd /\ f.est.rto >= MinRto
          /\ \A s \in DOMAIN f.sack : f.sack[s].sent <= t
      BY <2>9 DEF Sound
    <3>3. f = [next |-> f.next, buf |-> f.buf, sack |-> f.sack, simple |-> f.simple,
                est |-> f.est, cc |-> f.cc]
      BY <2>8
    <3>4. /\ DOMAIN f.sack \subseteq 0 .. f.next - 1
          /\ DOMAIN f.simple \subseteq (0 .. f.next - 1) \ DOMAIN f.sack
      BY <2>5, <2>6, <2>9 DEF Sound
    <3>5. \A s \in DOMAIN f.simple : Punctual(f.simple[s], t)
      BY <2>4, <2>5, <2>9
    <3> QED BY <3>1, <3>2, <3>3, <3>4, <3>5, Assembled
  <2>11. Ages(r, f, t)
    BY <2>3, <2>5, <2>9 DEF Ages
  <2>12. SimpleDue(f, t) = {}
    <3>1. \A s \in DOMAIN f.simple : f.simple[s].sent = t
      BY <2>3, <2>5, <2>9
    <3>2. ~ (t - t >= RetryInterval)
      BY Interval
    <3> QED BY <3>1, <3>2 DEF SimpleDue
  <2> QED BY <2>6, <2>9, <2>10, <2>11, <2>12
<1> QED BY <1>2, <1>3

LEMMA AgesOn ==
  ASSUME NEW r, NEW g, NEW f, NEW t, Ages(r, g, t), Ages(g, f, t)
  PROVE Ages(r, f, t)
<1>1. \A s \in DOMAIN f.sack : \/ f.sack[s].sent = t
                               \/ s \in DOMAIN r.sack /\ f.sack[s].sent = r.sack[s].sent
  BY DEF Ages
<1>2. \A s \in DOMAIN f.simple : \/ f.simple[s].sent = t
                                 \/ s \in DOMAIN r.simple /\ f.simple[s].sent = r.simple[s].sent
  BY DEF Ages
<1> QED BY <1>1, <1>2 DEF Ages

LEMMA SendIs ==
  ASSUME NEW r, NEW t \in Nat, t % Step = 0, Sound(r, t), NEW st,
         NEW f, f = packetize_and_send(r, st, t)
  PROVE /\ Sound(f, t) /\ Ages(r, f, t)
        /\ f.next \in Nat /\ f.next >= r.next /\ f.est = r.est /\ f.cc = r.cc
        /\ DOMAIN r.sack \subseteq DOMAIN f.sack /\ NewNumbers(r, f)
        /\ DOMAIN f.sack # DOMAIN r.sack => InFlight(f) <= Smaller(f.cc.cwnd, PeerWindow)
        /\ RtoDue(r, t) = {} => RtoDue(f, t) = {}
        /\ SimpleDue(r, t) = {} => SimpleDue(f, t) = {}
<1> DEFINE g == packetize(r, t)
<1>1. /\ Sound(g, t) /\ Ages(r, g, t)
      /\ g.next \in Nat /\ g.next >= r.next /\ g.est = r.est /\ g.cc = r.cc
      /\ g.simple = r.simple
      /\ DOMAIN r.sack \subseteq DOMAIN g.sack /\ NewNumbers(r, g)
      /\ DOMAIN g.sack # DOMAIN r.sack => InFlight(g) <= Smaller(g.cc.cwnd, PeerWindow)
      /\ RtoDue(r, t) = {} => RtoDue(g, t) = {}
  BY PacketizeIs
<1>2. SimpleDue(r, t) = {} => SimpleDue(g, t) = {}
  BY <1>1 DEF SimpleDue
<1>3. r.next \in Nat
  BY LayerFields
<1>4. f = (IF st = "Closing" THEN WithFin(g, t) ELSE g)
  BY DEF packetize_and_send
<1> HIDE DEF g
<1>5. CASE st = "Closing"
  <2>1. f = WithFin(g, t)
    BY <1>4, <1>5
  <2>2. /\ Sound(f, t) /\ Ages(g, f, t)
        /\ f.next \in Nat /\ f.next >= g.next /\ f.est = g.est /\ f.cc = g.cc
        /\ f.sack = g.sack
        /\ SimpleDue(g, t) = {} => SimpleDue(f, t) = {}
    BY <2>1, <1>1, WithFinIs
  <2>3. Ages(r, f, t)
    BY <1>1, <2>2, AgesOn
  <2>4. RtoDue(g, t) = {} => RtoDue(f, t) = {}
    BY <2>2 DEF RtoDue
  <2>5. InFlight(f) = InFlight(g)
    BY <2>2 DEF InFlight
  <2>6. f.next >= r.next
    BY <1>1, <1>3, <2>2
  <2>7. NewNumbers(r, f)
    BY <1>1, <2>2 DEF NewNumbers
  <2> QED BY <1>1, <1>2, <2>2, <2>3, <2>4, <2>5, <2>6, <2>7
<1>6. CASE st # "Closing"
  BY <1>1, <1>2, <1>4, <1>6
<1> QED BY <1>5, <1>6

----------------------------------------------------------------------------
(* The wake-up is not after any deadline.                                  *)

Deadlines(r) == sack_deadlines(r) \cup simple_deadlines(r)

LEMMA EarliestDeadline ==
  ASSUME NEW r, NEW t, Sound(r, t)
  PROVE /\ next_retransmission_deadline(r) \subseteq Nat
        /\ \A d \in Deadlines(r) :
             d \in Nat /\ \E n \in next_retransmission_deadline(r) : n <= d
<1> DEFINE all == Deadlines(r)
<1>1. all \subseteq Nat
  <2>1. /\ r.est.rto \in Nat
        /\ \A s \in DOMAIN r.sack : r.sack[s].sent \in Nat
        /\ \A s \in DOMAIN r.simple : r.simple[s].sent \in Nat
    BY LayerFields DEF SackEntry, SimpleEntry
  <2>2. RetryInterval \in Nat
    BY Interval
  <2>3. sack_deadlines(r) \subseteq Nat
    BY <2>1 DEF sack_deadlines
  <2>4. simple_deadlines(r) \subseteq Nat
    BY <2>1, <2>2 DEF simple_deadlines
  <2> QED BY <2>3, <2>4 DEF Deadlines
<1>2. next_retransmission_deadline(r) = IF all = {} THEN {} ELSE {Min(all)}
  BY DEF next_retransmission_deadline, Deadlines
<1>3. ASSUME all # {} PROVE Min(all) \in Nat /\ \A d \in all : Min(all) <= d
  <2> HIDE DEF all
  <2> QED BY <1>1, <1>3, MinIsLeast
<1> HIDE DEF all
<1>4. all \subseteq Nat /\ next_retransmission_deadline(r) \subseteq Nat
  BY <1>1, <1>2, <1>3
<1>5. \A d \in all : \E n \in next_retransmission_deadline(r) : n <= d
  BY <1>2, <1>3
<1> QED BY <1>4, <1>5 DEF all

LEMMA WakesInTime ==
  ASSUME NEW r, NEW t \in Nat, Sound(r, t), NEW recv \in Nat,
         NEW w, w = calculate_next_wakeup_time(r, recv, t)
  PROVE w \in Nat /\ \A d \in Deadlines(r) : w <= d
<1> DEFINE S == next_retransmission_deadline(r) \cup {recv + IdleTimeout, t + Fallback}
<1>1. /\ next_retransmission_deadline(r) \subseteq Nat
      /\ \A d \in Deadlines(r) :
           d \in Nat /\ \E n \in next_retransmission_deadline(r) : n <= d
  BY EarliestDeadline
<1>2. recv + IdleTimeout \in Nat /\ t + Fallback \in Nat
  BY PacingAssumption, SchedulerAssumption
<1>3. S \in SUBSET Nat /\ S # {} /\ next_retransmission_deadline(r) \subseteq S
  BY <1>1, <1>2
<1>4. w = Min(S)
  BY DEF calculate_next_wakeup_time, next_connection_timeout_deadline
<1> HIDE DEF S
<1>5. w \in Nat /\ \A x \in S : x \in Nat /\ w <= x
  <2>1. S \in SUBSET Nat /\ S # {}
    BY <1>3
  <2>2. Min(S) \in S /\ \A x \in S : Min(S) <= x
    BY <2>1, MinIsLeast
  <2> QED BY <2>1, <2>2, <1>4
<1>6. ASSUME NEW d \in Deadlines(r) PROVE w <= d
  <2>1. PICK n \in next_retransmission_deadline(r) : n <= d
    BY <1>1
  <2>2. d \in Nat /\ n \in Nat /\ w <= n
    BY <1>1, <1>3, <1>5
  <2> QED BY <2>1, <2>2, <1>5
<1> QED BY <1>5, <1>6

----------------------------------------------------------------------------
(* The scheduler, as a value.                                              *)

\* Recorded times are few, not after the cached clock, and in order.
Recorded(q, clock) ==
  /\ Len(q) <= PatternCap
  /\ \A i \in DOMAIN q : q[i] <= clock
  /\ InOrder(q)

LEMMA SchedulerFields ==
  ASSUME NEW s \in Scheduler
  PROVE /\ s.cached_now \in Nat /\ s.valid_until \in Nat /\ s.patterns \in Seq(Nat)
        /\ s.computed_at \in Nat \cup {NoInstant} /\ s.deadline \in Nat \cup {NoInstant}
        /\ s = [cached_now |-> s.cached_now, valid_until |-> s.valid_until,
                computed_at |-> s.computed_at, deadline |-> s.deadline, patterns |-> s.patterns]
        /\ NoInstant \in Int /\ NoInstant < 0
  BY DEF Scheduler, NoInstant

LEMMA CleanupIs ==
  ASSUME NEW s \in Scheduler, NEW t \in Nat, Recorded(s.patterns, s.cached_now),
         NEW f, f = cleanup_expired_data(s, t)
  PROVE /\ f \in Scheduler /\ f.cached_now = s.cached_now /\ f.valid_until = s.valid_until
        /\ \/ f.computed_at = NoInstant
           \/ f.computed_at = s.computed_at /\ f.deadline = s.deadline
        /\ Recorded(f.patterns, f.cached_now)
<1> DEFINE q == LaterThan(s.patterns, t - PatternKeep)
           stale == s.computed_at # NoInstant /\ t - s.computed_at > DropAfter
           a == IF stale THEN NoInstant ELSE s.computed_at
           d == IF stale THEN NoInstant ELSE s.deadline
<1>1. f = [s EXCEPT !.computed_at = a, !.deadline = d, !.patterns = q]
  BY DEF cleanup_expired_data
<1>2. a \in Nat \cup {NoInstant} /\ d \in Nat \cup {NoInstant}
      /\ (a = NoInstant \/ (a = s.computed_at /\ d = s.deadline))
  <2>1. s.computed_at \in Nat \cup {NoInstant} /\ s.deadline \in Nat \cup {NoInstant}
    BY SchedulerFields
  <2>2. CASE stale
    <3>1. a = NoInstant /\ d = NoInstant
      BY <2>2
    <3> HIDE DEF a, d, stale
    <3>2. a \in Nat \cup {NoInstant} /\ d \in Nat \cup {NoInstant}
      BY <3>1, Zenon
    <3> QED BY <3>1, <3>2, Zenon
  <2>3. CASE ~stale
    <3>1. a = s.computed_at /\ d = s.deadline
      BY <2>3
    <3> HIDE DEF a, d
    <3> QED BY <3>1, <2>1
  <2> QED BY <2>2, <2>3
<1>3. s.patterns \in Seq(Nat) /\ s.cached_now \in Nat /\ t - PatternKeep \in Int
      /\ PatternCap \in Nat
  BY SchedulerFields, SchedulerAssumption
<1>4. /\ q \in Seq(Nat) /\ Len(q) <= Len(s.patterns)
      /\ Among(q, s.patterns) /\ (InOrder(s.patterns) => InOrder(q))
  <2> DEFINE p == s.patterns
             since == t - PatternKeep
  <2>1. p \in Seq(Nat) /\ since \in Int /\ q = LaterThan(p, since)
    BY <1>3
  <2> HIDE DEF p, since, q
  <2>2. /\ q \in Seq(Nat) /\ Len(q) <= Len(p)
        /\ Among(q, p) /\ (InOrder(p) => InOrder(q))
    BY <2>1, LaterThanIs
  <2> QED BY <2>2 DEF p
<1> HIDE DEF q, a, d
<1>5. f = [cached_now |-> s.cached_now, valid_until |-> s.valid_until,
           computed_at |-> a, deadline |-> d, patterns |-> q]
  BY <1>1, SchedulerFields
<1>6. /\ f.cached_now = s.cached_now /\ f.valid_until = s.valid_until
      /\ f.computed_at = a /\ f.deadline = d /\ f.patterns = q
  BY <1>5
<1>7. f \in Scheduler
  BY <1>5, <1>2, <1>4, SchedulerFields DEF Scheduler
<1>8. Recorded(q, s.cached_now)
  <2>1. Len(q) <= PatternCap
    <3>1. Len(q) \in Nat /\ Len(s.patterns) \in Nat /\ Len(s.patterns) <= PatternCap
      BY <1>3, <1>4 DEF Recorded
    <3> QED BY <3>1, <1>3, <1>4
  <2>2. \A i \in DOMAIN q : q[i] <= s.cached_now
    BY <1>4 DEF Recorded, Among
  <2>3. InOrder(q)
    BY <1>4 DEF Recorded
  <2> QED BY <2>1, <2>2, <2>3 DEF Recorded
<1> QED BY <1>2, <1>6, <1>7, <1>8

----------------------------------------------------------------------------
(* The state.                                                              *)

LEMMA Running ==
  ASSUME PInv, open
  PROVE Sound(rel, now) /\ Fits(rel, maxRtt) /\ now \in Nat /\ now % Step = 0
<1>1. PTypeOK /\ Floors /\ SrttKnown /\ SentOnTime
  BY DEF PInv
<1>2. \A s \in DOMAIN rel.simple : Punctual(rel.simple[s], now)
  BY <1>1 DEF SentOnTime, Punctual
<1>3. Sound(rel, now)
  BY <1>1, <1>2 DEF PTypeOK, Floors, SentOnTime, Sound
<1>4. Fits(rel, maxRtt)
  BY <1>1, <1>3, LayerFields DEF Floors, SrttKnown, Fits
<1> QED BY <1>1, <1>3, <1>4 DEF PTypeOK, SentOnTime

LEMMA GivenUp ==
  ASSUME NEW e \in SimpleEntry, NEW t \in Nat, Punctual(e, t)
  PROVE t - e.first <= (MaxRetries + 1) * RetryInterval
<1> DEFINE p == e.retries * RetryInterval
           m == MaxRetries * RetryInterval
<1>1. e.sent \in Nat /\ e.first \in Nat /\ e.retries \in Nat /\ e.retries <= MaxRetries
  BY Interval DEF SimpleEntry
<1>2. p \in Nat /\ m \in Nat /\ (MaxRetries + 1) * RetryInterval = m + RetryInterval
  BY <1>1, Interval
<1>3. p <= m
  <2>1. (MaxRetries - e.retries) * RetryInterval >= 0
    <3>1. MaxRetries - e.retries \in Nat
      BY <1>1, Interval
    <3> QED BY <3>1, Interval
  <2> QED BY <2>1, <1>1, Interval
<1>4. e.sent = e.first + p /\ t - e.sent <= RetryInterval
  BY DEF Punctual
<1> HIDE DEF p, m
<1> QED BY <1>1, <1>2, <1>3, <1>4, Interval

LEMMA LoopStep ==
  ASSUME PInv, open, NEW r, NEW st, NEW recv \in 0 .. now, NEW resent \in SUBSET (0 .. r.next - 1),
         Sound(r, now), Ages(rel, r, now), r.next >= rel.next, FollowUp(r, st, recv, resent)
  PROVE /\ Sound(rel', now) /\ Ages(rel, rel', now) /\ rel'.next >= rel.next
        /\ rel'.est = r.est /\ rel'.cc = r.cc
        /\ wake' \in Nat /\ \A d \in Deadlines(rel') : wake' <= d
        /\ net' \subseteq [seq : 0 .. rel'.next - 1, at : 0 .. now] /\ (mute => net' = net)
        /\ DOMAIN r.sack \subseteq DOMAIN rel'.sack /\ NewNumbers(r, rel')
        /\ DOMAIN rel'.sack # DOMAIN r.sack => InFlight(rel') <= Smaller(rel'.cc.cwnd, PeerWindow)
        /\ RtoDue(r, now) = {} => RtoDue(rel', now) = {}
        /\ SimpleDue(r, now) = {} => SimpleDue(rel', now) = {}
<1> DEFINE f == packetize_and_send(r, st, now)
<1>1. now \in Nat /\ now % Step = 0 /\ Sound(rel, now) /\ recv \in Nat
  BY Running
<1>2. rel' = f /\ wake' = calculate_next_wakeup_time(f, recv, now)
      /\ Transmit(resent \cup (r.next .. f.next - 1))
  BY DEF FollowUp
<1>3. /\ Sound(f, now) /\ Ages(r, f, now)
      /\ f.next \in Nat /\ f.next >= r.next /\ f.est = r.est /\ f.cc = r.cc
      /\ DOMAIN r.sack \subseteq DOMAIN f.sack /\ NewNumbers(r, f)
      /\ DOMAIN f.sack # DOMAIN r.sack => InFlight(f) <= Smaller(f.cc.cwnd, PeerWindow)
      /\ RtoDue(r, now) = {} => RtoDue(f, now) = {}
      /\ SimpleDue(r, now) = {} => SimpleDue(f, now) = {}
  BY <1>1, SendIs
<1> HIDE DEF f
<1>4. wake' \in Nat /\ \A d \in Deadlines(f) : wake' <= d
  BY <1>1, <1>2, <1>3, WakesInTime
<1>5. Ages(rel, f, now)
  BY <1>3, AgesOn
<1>6. r.next \in Nat /\ rel.next \in Nat /\ f.next >= rel.next
  <2>1. r.next \in Nat /\ rel.next \in Nat
    BY <1>1, LayerFields
  <2> QED BY <2>1, <1>3
<1>7. resent \cup (r.next .. f.next - 1) \subseteq 0 .. f.next - 1
  <2>1. 0 .. r.next - 1 \subseteq 0 .. f.next - 1 /\ r.next .. f.next - 1 \subseteq 0 .. f.next - 1
    BY <1>3, <1>6
  <2> QED BY <2>1
<1>8. net' \subseteq [seq : 0 .. f.next - 1, at : 0 .. now] /\ (mute => net' = net)
  <2>1. net \subseteq [seq : 0 .. rel.next - 1, at : 0 .. now]
    BY DEF PInv, PTypeOK
  <2>2. 0 .. rel.next - 1 \subseteq 0 .. f.next - 1
    BY <1>3, <1>6
  <2>3. net \subseteq [seq : 0 .. f.next - 1, at : 0 .. now]
    BY <2>1, <2>2
  <2>4. PICK kept \in IF mute THEN {{}} ELSE SUBSET (resent \cup (r.next .. f.next - 1)) :
          net' = net \cup {[seq |-> s, at |-> now] : s \in kept}
    BY <1>2 DEF Transmit
  <2>5. kept \subseteq 0 .. f.next - 1 /\ (mute => kept = {})
    BY <2>4, <1>7
  <2>6. now \in 0 .. now
    BY <1>1
  <2>7. {[seq |-> s, at |-> now] : s \in kept} \subseteq [seq : 0 .. f.next - 1, at : 0 .. now]
    BY <2>5, <2>6
  <2>8. mute => net' = net
    BY <2>4, <2>5
  <2> QED BY <2>3, <2>4, <2>7, <2>8
<1> QED BY <1>2, <1>3, <1>4, <1>5, <1>6, <1>8

LEMMA LoopKeeps ==
  ASSUME PInv, open, now' = now, mute' = mute, got' = got, acks' \subseteq acks, calls' = calls,
         Sound(rel', now), Ages(rel, rel', now), rel'.next >= rel.next,
         Fits(rel', maxRtt'), maxRtt' \in 0 .. now,
         mute => rel'.est.rto >= rel.est.rto,
         last_recv_time' \in 0 .. now, state' \in {"Established", "Closing"},
         open' \in BOOLEAN, checked' \in BOOLEAN, wake' \in Nat,
         net' \subseteq [seq : 0 .. rel'.next - 1, at : 0 .. now], mute => net' = net,
         open' => \A d \in Deadlines(rel') : wake' <= d,
         open' /\ checked' => RtoDue(rel', now) = {} /\ SimpleDue(rel', now) = {},
         sch' = sch \/ sch' = cleanup_expired_data(sch, now)
  PROVE PInv'
<1>1. /\ PTypeOK /\ CacheKnown /\ PatternsInOrder /\ now \in Nat /\ now % Step = 0
      /\ sch \in Scheduler /\ Sound(rel, now)
  BY Running DEF PInv, PTypeOK
<1>2. /\ rel'.next \in Nat /\ rel.next \in Nat /\ rel'.est.rto \in Nat /\ rel.est.rto \in Nat
      /\ \A s \in DOMAIN rel'.simple : rel'.simple[s] \in SimpleEntry
      /\ \A s \in DOMAIN rel'.sack : rel'.sack[s] \in SackEntry
  BY <1>1, LayerFields
<1>3. /\ sch' \in Scheduler /\ sch'.cached_now = sch.cached_now
      /\ sch'.valid_until = sch.valid_until
      /\ \/ sch'.computed_at = NoInstant
         \/ sch'.computed_at = sch.computed_at /\ sch'.deadline = sch.deadline
      /\ Recorded(sch'.patterns, sch'.cached_now)
  <2>1. Recorded(sch.patterns, sch.cached_now)
    BY <1>1 DEF PatternsInOrder, Recorded, InOrder
  <2>2. CASE sch' = sch
    BY <2>1, <2>2, <1>1
  <2>3. CASE sch' = cleanup_expired_data(sch, now)
    BY <2>1, <2>3, <1>1, CleanupIs
  <2> QED BY <2>2, <2>3
<1>4. PTypeOK'
  <2>1. 0 .. rel.next - 1 \subseteq 0 .. rel'.next - 1
    BY <1>2
  <2>2. got' \subseteq 0 .. rel'.next - 1 /\ acks' \subseteq SUBSET got'
    BY <1>1, <2>1 DEF PTypeOK
  <2>3. mute' \in BOOLEAN /\ calls' \in Nat
    BY <1>1 DEF PTypeOK
  <2> QED BY <1>1, <1>3, <2>2, <2>3 DEF PTypeOK, Sound
<1>5. Floors' /\ SrttKnown'
  BY DEF Sound, Floors, Fits, SrttKnown
<1>6. SrttWithinSamples'
  BY <1>5 DEF SrttKnown, SrttWithinSamples
<1>7. SentOnTime'
  BY <1>1 DEF Sound, SentOnTime, Punctual
<1>8. GivesUpInTime'
  BY <1>1, <1>2, GivenUp DEF Sound, GivesUpInTime
<1>9. AwakeInTime'
  BY DEF AwakeInTime, Deadlines
<1>10. PatternsInOrder'
  BY <1>3 DEF PatternsInOrder, Recorded, InOrder
<1>11. CacheKnown'
  <2>1. IF mute' THEN net' = {} /\ acks' = {} ELSE calls' = 0 /\ sch'.computed_at = NoInstant
    BY <1>1, <1>3 DEF CacheKnown
  <2>2. /\ sch'.cached_now <= now' /\ sch'.valid_until <= sch'.cached_now + CacheFor
        /\ sch'.computed_at <= sch'.cached_now
    <3>1. NoInstant <= sch.cached_now
      BY <1>1, SchedulerFields
    <3> QED BY <3>1, <1>1, <1>3 DEF CacheKnown
  <2>3. ASSUME sch'.computed_at # NoInstant
        PROVE /\ sch'.deadline # NoInstant
              /\ \A s \in DOMAIN rel'.sack : rel'.sack[s].sent < sch'.computed_at
                   => sch'.deadline <= rel'.sack[s].sent + rel'.est.rto
              /\ \A s \in DOMAIN rel'.simple : rel'.simple[s].sent < sch'.computed_at
                   => sch'.deadline <= rel'.simple[s].sent + RetryInterval
    <3>1. sch'.computed_at = sch.computed_at /\ sch'.deadline = sch.deadline
          /\ sch.computed_at # NoInstant
      BY <2>3, <1>3
    <3>2. sch.computed_at \in Nat /\ sch.computed_at <= now /\ sch.deadline \in Nat
      <4>1. sch.computed_at \in Nat /\ sch.cached_now \in Nat
        BY <3>1, <1>1, SchedulerFields
      <4>2. sch.deadline \in Nat
        BY <3>1, <1>1, SchedulerFields DEF CacheKnown
      <4> QED BY <4>1, <4>2, <1>1 DEF CacheKnown
    <3>3. mute /\ rel'.est.rto >= rel.est.rto
      BY <3>1, <1>1 DEF CacheKnown
    <3>4. ASSUME NEW s \in DOMAIN rel'.sack, rel'.sack[s].sent < sch.computed_at
          PROVE sch.deadline <= rel'.sack[s].sent + rel'.est.rto
      <4>1. rel'.sack[s].sent \in Nat
        BY <1>2 DEF SackEntry
      <4>2. rel'.sack[s].sent # now
        BY <3>2, <3>4, <4>1, <1>1
      <4>3. s \in DOMAIN rel.sack /\ rel'.sack[s].sent = rel.sack[s].sent
        BY <4>2 DEF Ages
      <4>4. sch.deadline <= rel.sack[s].sent + rel.est.rto
        BY <4>3, <3>1, <3>4, <1>1 DEF CacheKnown
      <4> QED BY <4>1, <4>3, <4>4, <3>2, <3>3, <1>2
    <3>5. ASSUME NEW s \in DOMAIN rel'.simple, rel'.simple[s].sent < sch.computed_at
          PROVE sch.deadline <= rel'.simple[s].sent + RetryInterval
      <4>1. rel'.simple[s].sent \in Nat
        BY <1>2 DEF SimpleEntry
      <4>2. rel'.simple[s].sent # now
        BY <3>2, <3>5, <4>1, <1>1
      <4>3. s \in DOMAIN rel.simple /\ rel'.simple[s].sent = rel.simple[s].sent
        BY <4>2 DEF Ages
      <4>4. sch.deadline <= rel.simple[s].sent + RetryInterval
        BY <4>3, <3>1, <3>5, <1>1 DEF CacheKnown
      <4> QED BY <4>3, <4>4
    <3> QED BY <3>1, <3>4, <3>5, <1>1 DEF CacheKnown
  <2> QED BY <2>1, <2>2, <2>3 DEF CacheKnown
<1> QED BY <1>4, <1>5, <1>6, <1>7, <1>8, <1>9, <1>10, <1>11 DEF PInv

----------------------------------------------------------------------------
(* The actions of the loop.                                                *)

LEMMA AgesSame ==
  ASSUME NEW r, NEW f, NEW t, f.sack = r.sack, f.simple = r.simple
  PROVE Ages(r, f, t)
  BY DEF Ages

LEMMA FitsSame ==
  ASSUME NEW r, NEW f, NEW max, Fits(r, max), f.est = r.est, f.cc = r.cc
  PROVE Fits(f, max)
  BY DEF Fits

LEMMA BooleansAre ==
  ASSUME PInv
  PROVE /\ open \in BOOLEAN /\ checked \in BOOLEAN /\ mute \in BOOLEAN
        /\ state \in {"Established", "Closing"} /\ last_recv_time \in 0 .. now
        /\ maxRtt \in 0 .. now /\ wake \in Nat
        /\ net \subseteq [seq : 0 .. rel.next - 1, at : 0 .. now]
  BY DEF PInv, PTypeOK

\* A step that leaves estimator, window and scheduler alone.
LEMMA QuietStep ==
  ASSUME PInv, open, NEW r, NEW st \in {"Established", "Closing"},
         Sound(r, now), Ages(rel, r, now), r.next = rel.next, r.est = rel.est, r.cc = rel.cc,
         FollowUp(r, st, last_recv_time, {}), state' = st, checked' = FALSE,
         UNCHANGED <<now, last_recv_time, open, mute, got, acks, schVars, maxRtt>>
  PROVE PInv'
<1>1. /\ Sound(rel, now) /\ Fits(rel, maxRtt) /\ now \in Nat
      /\ last_recv_time \in 0 .. now /\ maxRtt \in 0 .. now
  BY Running, BooleansAre
<1>2. r.next >= rel.next /\ rel.est.rto \in Nat
  <2>1. rel.next \in Nat /\ rel.est.rto \in Nat
    BY <1>1, LayerFields
  <2> QED BY <2>1
<1>3. {} \in SUBSET (0 .. r.next - 1)
  OBVIOUS
<1>4. /\ Sound(rel', now) /\ Ages(rel, rel', now) /\ rel'.next >= rel.next
      /\ rel'.est = r.est /\ rel'.cc = r.cc
      /\ wake' \in Nat /\ \A d \in Deadlines(rel') : wake' <= d
      /\ net' \subseteq [seq : 0 .. rel'.next - 1, at : 0 .. now] /\ (mute => net' = net)
  BY <1>1, <1>2, <1>3, LoopStep
<1>5. Fits(rel', maxRtt')
  <2>1. rel'.est = rel.est /\ rel'.cc = rel.cc /\ maxRtt' = maxRtt
    BY <1>4
  <2> QED BY <2>1, <1>1, FitsSame
<1>6. mute => rel'.est.rto >= rel.est.rto
  BY <1>2, <1>4
<1>7. /\ now' = now /\ mute' = mute /\ got' = got /\ acks' \subseteq acks /\ calls' = calls
      /\ sch' = sch /\ maxRtt' \in 0 .. now /\ last_recv_time' \in 0 .. now
      /\ state' \in {"Established", "Closing"} /\ open' \in BOOLEAN /\ checked' \in BOOLEAN
      /\ ~checked'
  BY <1>1, BooleansAre DEF schVars
<1> QED BY <1>4, <1>5, <1>6, <1>7, LoopKeeps

\* A write puts chunks into the send buffer.
LEMMA WriteIs ==
  ASSUME NEW g, NEW t, Sound(g, t), NEW n \in Writes, NEW r, r = [g EXCEPT !.buf = @ + n]
  PROVE /\ Sound(r, t) /\ r.next = g.next /\ r.sack = g.sack /\ r.simple = g.simple
        /\ r.est = g.est /\ r.cc = g.cc
<1> DEFINE b == g.buf + n
<1>1. /\ g.next \in Nat /\ g.buf \in Nat /\ g.est \in Estimator /\ g.cc \in Window
      /\ g.sack \in [DOMAIN g.sack -> SackEntry]
      /\ g.simple \in [DOMAIN g.simple -> SimpleEntry]
      /\ g = [next |-> g.next, buf |-> g.buf, sack |-> g.sack, simple |-> g.simple,
              est |-> g.est, cc |-> g.cc]
  BY DEF Sound, Reliability, SackEntry, SimpleEntry, Estimator, Window
<1>2. b \in Nat
  BY <1>1, PacingAssumption
<1>3. r = [g EXCEPT !.buf = b]
  OBVIOUS
<1> HIDE DEF b
<1>4. r = [next |-> g.next, buf |-> b, sack |-> g.sack, simple |-> g.simple,
           est |-> g.est, cc |-> g.cc]
  BY <1>1, <1>3
<1>5. /\ r.next = g.next /\ r.buf = b /\ r.sack = g.sack /\ r.simple = g.simple
      /\ r.est = g.est /\ r.cc = g.cc
  BY <1>4
<1>6. r = [next |-> r.next, buf |-> r.buf, sack |-> r.sack, simple |-> r.simple,
           est |-> r.est, cc |-> r.cc]
  BY <1>4, <1>5
<1>7. /\ DOMAIN g.sack \subseteq 0 .. g.next - 1
      /\ DOMAIN g.simple \subseteq (0 .. g.next - 1) \ DOMAIN g.sack
      /\ g.cc.cwnd >= MinCwnd /\ g.cc.ssthresh >= MinCwnd /\ g.est.rto >= MinRto
      /\ \A s \in DOMAIN g.sack : g.sack[s].sent <= t
      /\ \A s \in DOMAIN g.simple : Punctual(g.simple[s], t)
  BY DEF Sound
<1>8. Sound(r, t)
  BY <1>1, <1>2, <1>5, <1>6, <1>7, Assembled
<1> QED BY <1>5, <1>8

LEMMA WriteKeeps ==
  ASSUME PInv, NEW n \in Writes, Write(n)
  PROVE PInv'
<1> DEFINE r == [rel EXCEPT !.buf = @ + n]
<1>1. /\ open /\ FollowUp(r, state, last_recv_time, {}) /\ checked' = FALSE
      /\ UNCHANGED <<now, last_recv_time, open, mute, got, acks, schVars, maxRtt>>
      /\ state' = state /\ state \in {"Established", "Closing"}
  BY DEF Write
<1>2. r = [rel EXCEPT !.buf = @ + n]
  OBVIOUS
<1> HIDE DEF r
<1>3. /\ Sound(r, now) /\ r.next = rel.next /\ r.sack = rel.sack /\ r.simple = rel.simple
      /\ r.est = rel.est /\ r.cc = rel.cc
  BY <1>1, <1>2, Running, WriteIs
<1>4. Ages(rel, r, now)
  BY <1>3, AgesSame
<1> QED BY <1>1, <1>3, <1>4, QuietStep

LEMMA CloseKeeps ==
  ASSUME PInv, Close
  PROVE PInv'
<1>1. /\ open /\ state' = "Closing" /\ FollowUp(rel, "Closing", last_recv_time, {})
      /\ checked' = FALSE
      /\ UNCHANGED <<now, last_recv_time, open, mute, got, acks, schVars, maxRtt>>
  BY DEF Close
<1>2. Sound(rel, now) /\ Ages(rel, rel, now)
  BY <1>1, Running, AgesSame
<1> QED BY <1>1, <1>2, QuietStep

LEMMA FitsMore ==
  ASSUME NEW m, NEW a \in Nat, NEW b \in Nat, Fits(m, a), a <= b
  PROVE Fits(m, b)
<1>1. m.est.srtt \in Nat /\ m.cc.min_rtt \in Nat
  BY DEF Fits, Estimator, Window
<1> QED BY <1>1 DEF Fits

\* The layer after an acknowledgement.
AckedLayer(a) == handle_ack(rel, NextOf(a), {s \in a : s > NextOf(a)}, now)

AckResent(a) == FastRetransmitted(rel, NextOf(a), {s \in a : s > NextOf(a)})

LEMMA ElementsOf ==
  ASSUME NEW S, NEW q \in Seq(S)
  PROVE /\ DOMAIN q = 1 .. Len(q) /\ Len(q) \in Nat
        /\ \A i \in DOMAIN q : q[i] \in S
  OBVIOUS

LEMMA AckIs ==
  ASSUME PInv, NEW a \in acks, HandleAck(a), NEW r, r = AckedLayer(a)
  PROVE /\ open /\ ~mute /\ maxRtt' \in 0 .. now
        /\ Sound(r, now) /\ Ages(rel, r, now) /\ Fits(r, maxRtt')
        /\ r.next = rel.next /\ DOMAIN r.sack \subseteq DOMAIN rel.sack
        /\ IsFiniteSet(DOMAIN rel.sack \ DOMAIN r.sack)
        /\ 2 * r.cc.cwnd + Cardinality(DOMAIN rel.sack \ DOMAIN r.sack) + 1 >= rel.cc.cwnd
        /\ AckResent(a) \in SUBSET (0 .. r.next - 1)
        /\ FollowUp(r, state, now, AckResent(a))
<1> DEFINE next == NextOf(a)
           sack == {s \in a : s > next}
           q == Samples(rel, next, sack, now)
<1>1. open /\ FollowUp(r, state, now, AckResent(a)) /\ maxRtt' = Max({maxRtt} \cup Range(q))
  BY DEF HandleAck, AckedLayer, AckResent
<1>2. Sound(rel, now) /\ Fits(rel, maxRtt) /\ now \in Nat /\ maxRtt \in 0 .. now
  BY <1>1, Running, BooleansAre
<1>3. ~mute
  BY DEF PInv, CacheKnown
<1>4. r = handle_ack(rel, next, sack, now)
  BY DEF AckedLayer
<1>5. AckResent(a) \subseteq DOMAIN rel.sack
  BY DEF AckResent, FastRetransmitted, Skipped
<1> HIDE DEF next, sack
<1>6. q = Samples(rel, next, sack, now)
  OBVIOUS
<1> HIDE DEF q
<1>7. q \in Seq(0 .. now)
  BY <1>2, <1>6, SamplesAre
<1>8. /\ maxRtt' \in 0 .. now /\ maxRtt <= maxRtt'
      /\ \A i \in DOMAIN q : q[i] <= maxRtt'
  <2> DEFINE S == {maxRtt} \cup Range(q)
  <2>1. \A i \in DOMAIN q : q[i] \in 0 .. now
    BY <1>7, ElementsOf
  <2>2. S \in SUBSET (0 .. now) /\ S # {}
    BY <2>1, <1>2 DEF Range
  <2>3. maxRtt \in S /\ \A i \in DOMAIN q : q[i] \in S
    BY DEF Range
  <2>4. maxRtt' = Max(S)
    BY <1>1
  <2> HIDE DEF S
  <2>5. Max(S) \in S /\ \A x \in S : Max(S) >= x
    BY <2>2, <1>2, MaxIsGreatest
  <2>6. \A x \in S : x \in 0 .. now
    BY <2>2
  <2>7. maxRtt' \in 0 .. now
    BY <2>4, <2>5, <2>6
  <2>8. \A x \in S : x <= maxRtt'
    BY <2>4, <2>5, <2>6, <2>7, <1>2
  <2> QED BY <2>3, <2>7, <2>8
<1>9. q \in Seq(0 .. maxRtt')
  <2> DEFINE z == maxRtt'
  <2>1. z \in Nat /\ Len(q) \in Nat /\ DOMAIN q = 1 .. Len(q)
    BY <1>2, <1>7, <1>8
  <2>2. \A i \in 1 .. Len(q) : q[i] \in 0 .. now
    BY <1>7, ElementsOf
  <2>3. \A i \in 1 .. Len(q) : q[i] <= z
    BY <1>8, <2>1
  <2> HIDE DEF z
  <2>4. \A i \in 1 .. Len(q) : q[i] \in 0 .. z
    BY <2>1, <2>2, <2>3, <1>2
  <2>5. q = [i \in 1 .. Len(q) |-> q[i]]
    BY <1>7
  <2>6. q \in Seq(0 .. z)
    BY <2>1, <2>4, <2>5
  <2> QED BY <2>6 DEF z
<1>10. Fits(rel, maxRtt') /\ maxRtt' \in Nat
  <2>1. maxRtt \in Nat /\ maxRtt' \in Nat
    BY <1>2, <1>8
  <2> QED BY <2>1, <1>2, <1>8, FitsMore
<1>11. /\ Sound(r, now) /\ Ages(rel, r, now) /\ Fits(r, maxRtt')
       /\ r.next = rel.next /\ DOMAIN r.sack \subseteq DOMAIN rel.sack
       /\ IsFiniteSet(DOMAIN rel.sack \ DOMAIN r.sack)
       /\ 2 * r.cc.cwnd + Cardinality(DOMAIN rel.sack \ DOMAIN r.sack) + 1 >= rel.cc.cwnd
  BY <1>2, <1>4, <1>6, <1>9, <1>10, HandleAckIs
<1>12. AckResent(a) \in SUBSET (0 .. r.next - 1)
  <2>1. DOMAIN rel.sack \subseteq 0 .. rel.next - 1
    BY <1>2 DEF Sound
  <2> QED BY <2>1, <1>5, <1>11
<1> QED BY <1>1, <1>3, <1>8, <1>11, <1>12

LEMMA AckKeeps ==
  ASSUME PInv, NEW a \in acks, HandleAck(a)
  PROVE PInv'
<1> DEFINE r == AckedLayer(a)
           resent == AckResent(a)
<1>0. r = AckedLayer(a)
  OBVIOUS
<1> HIDE DEF r
<1>1. /\ open /\ ~mute /\ maxRtt' \in 0 .. now
      /\ Sound(r, now) /\ Ages(rel, r, now) /\ Fits(r, maxRtt') /\ r.next = rel.next
      /\ resent \in SUBSET (0 .. r.next - 1) /\ FollowUp(r, state, now, resent)
  BY <1>0, AckIs
<1> HIDE DEF resent
<1>2. now \in Nat /\ now \in 0 .. now /\ Sound(rel, now)
  BY <1>1, Running
<1>3. r.next >= rel.next
  <2>1. rel.next \in Nat
    BY <1>2, LayerFields
  <2> QED BY <2>1, <1>1
<1>4. /\ Sound(rel', now) /\ Ages(rel, rel', now) /\ rel'.next >= rel.next
      /\ rel'.est = r.est /\ rel'.cc = r.cc
      /\ wake' \in Nat /\ \A d \in Deadlines(rel') : wake' <= d
      /\ net' \subseteq [seq : 0 .. rel'.next - 1, at : 0 .. now] /\ (mute => net' = net)
  BY <1>1, <1>2, <1>3, LoopStep
<1>5. Fits(rel', maxRtt')
  BY <1>1, <1>4, FitsSame
<1>6. /\ now' = now /\ mute' = mute /\ got' = got /\ acks' \subseteq acks /\ calls' = calls
      /\ sch' = sch /\ last_recv_time' \in 0 .. now
      /\ state' \in {"Established", "Closing"} /\ open' \in BOOLEAN /\ checked' \in BOOLEAN
      /\ ~checked'
  BY <1>2, BooleansAre DEF HandleAck, schVars
<1> QED BY <1>1, <1>4, <1>5, <1>6, LoopKeeps

LEMMA TimeoutsKeep ==
  ASSUME PInv, check_all_timeouts
  PROVE PInv'
<1> DEFINE r == AfterTimeouts(rel, now)
           resent == Resent(rel, now)
<1>0. r = AfterTimeouts(rel, now)
  OBVIOUS
<1>1. open /\ Sound(rel, now) /\ Fits(rel, maxRtt) /\ now \in Nat /\ now % Step = 0
  <2>1. open
    BY DEF check_all_timeouts
  <2> QED BY <2>1, Running
<1> HIDE DEF r
<1>2. /\ Sound(r, now) /\ Ages(rel, r, now) /\ r.next = rel.next
      /\ r.est.rto >= rel.est.rto /\ r.est.srtt = rel.est.srtt /\ r.cc.min_rtt = rel.cc.min_rtt
      /\ RtoDue(r, now) = {} /\ SimpleDue(r, now) = {}
  BY <1>0, <1>1, AfterTimeoutsIs
<1>3. Fits(r, maxRtt)
  <2>1. r.est \in Estimator /\ r.cc \in Window
    BY <1>2, LayerFields
  <2>2. r.cc.cwnd >= MinCwnd /\ r.cc.ssthresh >= MinCwnd /\ r.est.rto >= MinRto
    BY <1>2 DEF Sound
  <2> QED BY <1>1, <1>2, <2>1, <2>2 DEF Fits
<1>4. r.next >= rel.next /\ rel.next \in Nat
  <2>1. rel.next \in Nat
    BY <1>1, LayerFields
  <2> QED BY <2>1, <1>2
<1>5. resent \in SUBSET (0 .. r.next - 1)
  <2>1. resent \subseteq DOMAIN rel.sack \cup DOMAIN rel.simple
    BY DEF Resent, RtoDue, SimpleDue
  <2>2. DOMAIN rel.sack \cup DOMAIN rel.simple \subseteq 0 .. rel.next - 1
    BY <1>1 DEF Sound
  <2> QED BY <2>1, <2>2, <1>2
<1>6. /\ now' = now /\ mute' = mute /\ got' = got /\ acks' \subseteq acks /\ calls' = calls
      /\ maxRtt' = maxRtt /\ maxRtt' \in 0 .. now /\ last_recv_time' \in 0 .. now
      /\ last_recv_time \in 0 .. now
      /\ state' \in {"Established", "Closing"}
  BY BooleansAre DEF check_all_timeouts
<1>7. CASE now >= IdleTimeout
  <2>1. open' = FALSE /\ rel' = r /\ UNCHANGED <<wake, checked, net, sch>>
    BY <1>7, <1>0 DEF check_all_timeouts
  <2>2. /\ wake' \in Nat /\ checked' \in BOOLEAN /\ net' = net
        /\ net' \subseteq [seq : 0 .. rel'.next - 1, at : 0 .. now] /\ open' \in BOOLEAN /\ sch' = sch
        /\ ~open'
    BY <2>1, <1>2, BooleansAre
  <2>3. Sound(rel', now) /\ Ages(rel, rel', now) /\ rel'.next >= rel.next
        /\ Fits(rel', maxRtt') /\ rel'.est.rto >= rel.est.rto
    BY <2>1, <1>2, <1>3, <1>4, <1>6
  <2> QED BY <1>1, <1>6, <2>2, <2>3, LoopKeeps
<1>8. CASE ~ (now >= IdleTimeout)
  <2>1. /\ FollowUp(r, state, last_recv_time, resent) /\ checked' = TRUE
        /\ sch' = cleanup_expired_data(sch, now) /\ open' = open
    BY <1>8, <1>0 DEF check_all_timeouts
  <2> HIDE DEF resent
  <2>2. /\ Sound(rel', now) /\ Ages(rel, rel', now) /\ rel'.next >= rel.next
        /\ rel'.est = r.est /\ rel'.cc = r.cc
        /\ wake' \in Nat /\ \A d \in Deadlines(rel') : wake' <= d
        /\ net' \subseteq [seq : 0 .. rel'.next - 1, at : 0 .. now] /\ (mute => net' = net)
        /\ RtoDue(rel', now) = {} /\ SimpleDue(rel', now) = {}
    BY <1>1, <1>2, <1>4, <1>5, <1>6, <2>1, LoopStep
  <2>3. Fits(rel', maxRtt') /\ rel'.est.rto >= rel.est.rto
    <3>1. Fits(rel', maxRtt)
      BY <2>2, <1>3, FitsSame
    <3> QED BY <3>1, <1>2, <1>6, <2>2
  <2>4. open' \in BOOLEAN /\ checked' \in BOOLEAN
    BY <2>1, BooleansAre
  <2> QED BY <1>1, <1>6, <2>1, <2>2, <2>3, <2>4, LoopKeeps
<1> QED BY <1>7, <1>8

----------------------------------------------------------------------------
(* The network and the clock.                                              *)

LEMMA DeliverKeeps ==
  ASSUME PInv, NEW c \in net, Deliver(c)
  PROVE PInv'
<1>1. /\ net' = net \ {c} /\ got' = got \cup {c.seq} /\ acks' \in {acks, acks \cup {got'}}
      /\ now' = now /\ mute' = mute /\ maxRtt' = maxRtt
      /\ rel' = rel /\ last_recv_time' = last_recv_time /\ wake' = wake /\ state' = state
      /\ open' = open /\ checked' = checked /\ sch' = sch /\ calls' = calls
  BY DEF Deliver, loopVars, schVars
<1>2. ~mute
  BY DEF PInv, CacheKnown
<1>3. PTypeOK'
  <2>1. net \subseteq [seq : 0 .. rel.next - 1, at : 0 .. now]
        /\ got \subseteq 0 .. rel.next - 1 /\ acks \subseteq SUBSET got
    BY DEF PInv, PTypeOK
  <2>2. c.seq \in 0 .. rel.next - 1
    BY <2>1
  <2>3. got' \subseteq 0 .. rel.next - 1 /\ got \subseteq got'
    BY <2>1, <2>2, <1>1
  <2>4. acks' \subseteq SUBSET got'
    BY <1>1, <2>1, <2>3
  <2>5. net' \subseteq [seq : 0 .. rel.next - 1, at : 0 .. now]
    BY <2>1, <1>1
  <2> QED BY <1>1, <2>3, <2>4, <2>5 DEF PInv, PTypeOK
<1>4. CacheKnown'
  BY <1>1, <1>2 DEF PInv, CacheKnown
<1>5. (Floors /\ SrttWithinSamples /\ GivesUpInTime /\ SrttKnown /\ SentOnTime /\ PatternsInOrder)'
  BY <1>1 DEF PInv, Floors, SrttWithinSamples, GivesUpInTime, SrttKnown, SentOnTime, PatternsInOrder
<1>6. AwakeInTime'
  BY <1>1 DEF PInv, AwakeInTime, sack_deadlines, simple_deadlines, RtoDue, SimpleDue
<1> QED BY <1>3, <1>4, <1>5, <1>6 DEF PInv

LEMMA Product ==
  ASSUME NEW k \in Nat, NEW m \in Nat
  PROVE k * m \in Nat
  OBVIOUS

LEMMA Division ==
  ASSUME NEW s \in Nat \ {0}, NEW a \in Nat
  PROVE a = (a \div s) * s + (a % s) /\ a \div s \in Nat /\ a % s \in 0 .. s - 1
  OBVIOUS

LEMMA Whole ==
  ASSUME NEW s \in Nat \ {0}, NEW k \in Nat
  PROVE (k * s) % s = 0
<1> DEFINE y == k * s
           d == y \div s
           m == y % s
<1>1. y \in Nat
  BY Product
<1>2. y = d * s + m /\ d \in Nat /\ m \in 0 .. s - 1
  <2> HIDE DEF y
  <2> QED BY <1>1, Division
<1>3. d * s \in Nat
  BY <1>2, Product
<1>4. y = k * s
  OBVIOUS
<1> HIDE DEF d, m, y
<1>5. d <= k
  <2>1. SUFFICES ASSUME d > k PROVE FALSE
    BY <1>2
  <2>2. (d - k - 1) * s \in Nat
    <3>1. d - k - 1 \in Nat
      BY <1>2, <2>1
    <3> QED BY <3>1, Product
  <2>3. (d - k - 1) * s = d * s - k * s - s
    BY <1>2
  <2> QED BY <2>2, <2>3, <1>1, <1>2, <1>3, <1>4
<1>6. k <= d
  <2>1. SUFFICES ASSUME k > d PROVE FALSE
    BY <1>2
  <2>2. (k - d - 1) * s \in Nat
    <3>1. k - d - 1 \in Nat
      BY <1>2, <2>1
    <3> QED BY <3>1, Product
  <2>3. (k - d - 1) * s = k * s - d * s - s
    BY <1>2
  <2> QED BY <2>2, <2>3, <1>1, <1>2, <1>3, <1>4
<1>7. k = d
  BY <1>2, <1>5, <1>6
<1>8. m = 0
  BY <1>2, <1>3, <1>4, <1>7
<1> QED BY <1>4, <1>8 DEF m

LEMMA Multiples ==
  ASSUME NEW s \in Nat \ {0}, NEW a \in Nat, a % s = 0
  PROVE (a + s) % s = 0
<1> DEFINE p == a \div s
<1>1. p \in Nat /\ a = p * s
  BY Division
<1> HIDE DEF p
<1>2. a + s = (p + 1) * s /\ p + 1 \in Nat
  BY <1>1
<1>3. ((p + 1) * s) % s = 0
  BY <1>2, Whole
<1> QED BY <1>2, <1>3

\* Three multiples of s: a difference less than c is less by s at least.
LEMMA Gap ==
  ASSUME NEW s \in Nat \ {0}, NEW a \in Nat, NEW b \in Nat, NEW c \in Nat,
         a % s = 0, b % s = 0, c % s = 0, a - b < c
  PROVE a + s - b <= c
<1> DEFINE p == a \div s
           q == b \div s
           k == c \div s
<1>1. p \in Nat /\ q \in Nat /\ k \in Nat /\ a = p * s /\ b = q * s /\ c = k * s
  BY Division
<1> HIDE DEF p, q, k
<1>2. p - q < k
  <2>1. SUFFICES ASSUME p - q >= k PROVE FALSE
    BY <1>1
  <2>2. (p - q - k) * s \in Nat
    <3>1. p - q - k \in Nat
      BY <1>1, <2>1
    <3> QED BY <3>1, Product
  <2>3. (p - q - k) * s = p * s - q * s - k * s
    BY <1>1
  <2> QED BY <1>1, <2>2, <2>3
<1>3. (k - (p - q) - 1) * s \in Nat
  <2>1. k - (p - q) - 1 \in Nat
    BY <1>1, <1>2
  <2> QED BY <2>1, Product
<1>4. (k - (p - q) - 1) * s = k * s - p * s + q * s - s
  BY <1>1
<1> QED BY <1>1, <1>3, <1>4

\* Before the wake-up, and after the timer branch, nothing is overdue.
LEMMA NothingOverdue ==
  ASSUME PInv, open, now < wake \/ checked
  PROVE /\ \A s \in DOMAIN rel.sack : now - rel.sack[s].sent <= rel.est.rto
        /\ \A s \in DOMAIN rel.simple : now - rel.simple[s].sent < RetryInterval
<1>1. Sound(rel, now) /\ now \in Nat /\ wake \in Nat /\ RetryInterval \in Nat
  BY Running, BooleansAre, Interval
<1>2. rel.est.rto \in Nat /\ (\A s \in DOMAIN rel.sack : rel.sack[s].sent \in Nat)
      /\ (\A s \in DOMAIN rel.simple : rel.simple[s].sent \in Nat)
  BY <1>1, LayerFields DEF SackEntry, SimpleEntry
<1>3. AwakeInTime
  BY DEF PInv
<1>4. ASSUME NEW s \in DOMAIN rel.sack PROVE now - rel.sack[s].sent <= rel.est.rto
  <2>1. CASE checked
    <3>1. RtoDue(rel, now) = {}
      BY <2>1, <1>3 DEF AwakeInTime
    <3>2. ~ (now - rel.sack[s].sent > rel.est.rto)
      BY <3>1 DEF RtoDue
    <3> QED BY <3>2, <1>1, <1>2
  <2>2. CASE now < wake
    <3>1. rel.sack[s].sent + rel.est.rto \in sack_deadlines(rel)
      BY DEF sack_deadlines
    <3>2. wake <= rel.sack[s].sent + rel.est.rto
      BY <3>1, <1>3 DEF AwakeInTime
    <3> QED BY <3>2, <2>2, <1>1, <1>2
  <2> QED BY <2>1, <2>2
<1>5. ASSUME NEW s \in DOMAIN rel.simple PROVE now - rel.simple[s].sent < RetryInterval
  <2>1. CASE checked
    <3>1. SimpleDue(rel, now) = {}
      BY <2>1, <1>3 DEF AwakeInTime
    <3>2. ~ (now - rel.simple[s].sent >= RetryInterval)
      BY <3>1 DEF SimpleDue
    <3> QED BY <3>2, <1>1, <1>2
  <2>2. CASE now < wake
    <3>1. rel.simple[s].sent + RetryInterval \in simple_deadlines(rel)
      BY DEF simple_deadlines
    <3>2. wake <= rel.simple[s].sent + RetryInterval
      BY <3>1, <1>3 DEF AwakeInTime
    <3> QED BY <3>2, <2>2, <1>1, <1>2
  <2> QED BY <2>1, <2>2
<1> QED BY <1>4, <1>5

LEMMA TickKeeps ==
  ASSUME PInv, Tick
  PROVE PInv'
<1>1. /\ open /\ (now < wake \/ checked) /\ now' = now + Step /\ checked' = FALSE
      /\ rel' = rel /\ last_recv_time' = last_recv_time /\ wake' = wake /\ state' = state
      /\ open' = open /\ mute' = mute /\ net' = net /\ got' = got /\ acks' = acks
      /\ sch' = sch /\ calls' = calls /\ maxRtt' = maxRtt
  BY DEF Tick, netVars, schVars
<1>2. /\ Sound(rel, now) /\ now \in Nat /\ now % Step = 0
      /\ Step \in Nat \ {0} /\ RetryInterval \in Nat /\ RetryInterval % Step = 0
  BY <1>1, Running, Interval, PacingAssumption
<1>3. /\ \A s \in DOMAIN rel.sack : rel.sack[s] \in SackEntry
      /\ \A s \in DOMAIN rel.simple : rel.simple[s] \in SimpleEntry
  BY <1>2, LayerFields
<1>4. now' \in Nat /\ now < now' /\ 0 .. now \subseteq 0 .. now'
  BY <1>1, <1>2
<1>5. now' % Step = 0
  <2>1. (now + Step) % Step = 0
    BY <1>2, Multiples
  <2> QED BY <2>1, <1>1
<1>6. ASSUME NEW s \in DOMAIN rel.simple PROVE Punctual(rel.simple[s], now')
  <2>1. Punctual(rel.simple[s], now) /\ rel.simple[s].sent \in Nat
    BY <1>2, <1>3 DEF Sound, SimpleEntry
  <2>2. now - rel.simple[s].sent < RetryInterval
    BY <1>1, NothingOverdue
  <2>3. rel.simple[s].sent % Step = 0
    BY <2>1 DEF Punctual
  <2>4. now' - rel.simple[s].sent <= RetryInterval
    <3>1. now + Step - rel.simple[s].sent <= RetryInterval
      BY <2>1, <2>2, <2>3, <1>2, Gap
    <3> QED BY <3>1, <1>1, <1>2, <2>1
  <2>5. rel.simple[s].sent <= now'
    BY <2>1, <1>2, <1>4 DEF Punctual
  <2> QED BY <2>1, <2>4, <2>5 DEF Punctual
<1>7. PTypeOK'
  <2>1. net' \subseteq [seq : 0 .. rel'.next - 1, at : 0 .. now']
    <3>1. net \subseteq [seq : 0 .. rel.next - 1, at : 0 .. now]
      BY DEF PInv, PTypeOK
    <3> QED BY <3>1, <1>1, <1>4
  <2>2. last_recv_time' \in 0 .. now' /\ maxRtt' \in 0 .. now' /\ checked' \in BOOLEAN
    BY <1>1, <1>4 DEF PInv, PTypeOK
  <2> QED BY <1>1, <1>4, <2>1, <2>2 DEF PInv, PTypeOK
<1>8. SentOnTime'
  <2>1. \A s \in DOMAIN rel.sack : rel.sack[s].sent <= now'
    BY <1>2, <1>3, <1>4 DEF Sound, SackEntry
  <2> QED BY <1>1, <1>5, <1>6, <2>1 DEF SentOnTime, Punctual
<1>9. GivesUpInTime'
  BY <1>1, <1>3, <1>4, <1>6, GivenUp DEF GivesUpInTime
<1>10. AwakeInTime'
  BY <1>1 DEF PInv, AwakeInTime, sack_deadlines, simple_deadlines
<1>11. CacheKnown'
  <2>1. sch.cached_now \in Nat /\ sch.cached_now <= now
    BY SchedulerFields DEF PInv, PTypeOK, CacheKnown
  <2>2. sch.cached_now <= now'
    BY <2>1, <1>2, <1>4
  <2> QED BY <1>1, <2>2 DEF PInv, CacheKnown
<1>12. (Floors /\ SrttWithinSamples /\ SrttKnown /\ PatternsInOrder)'
  BY <1>1 DEF PInv, Floors, SrttWithinSamples, SrttKnown, PatternsInOrder
<1> QED BY <1>7, <1>8, <1>9, <1>10, <1>11, <1>12 DEF PInv

----------------------------------------------------------------------------
(* The scheduler's interface.                                              *)

\* A scheduler whose clock and records are in order at t.
InStep(s, t) ==
  /\ s \in Scheduler /\ s.cached_now <= t /\ s.valid_until <= s.cached_now + CacheFor
  /\ s.computed_at <= s.cached_now /\ Recorded(s.patterns, s.cached_now)

\* TimeCache::now: a clock that is behind by less than CacheFor.
LEMMA ClockIs ==
  ASSUME NEW s, NEW t \in Nat, InStep(s, t), NEW f, f = TimeCacheNow(s, t)
  PROVE /\ InStep(f, t) /\ (f.cached_now = t \/ t < f.cached_now + CacheFor)
        /\ f.computed_at = s.computed_at /\ f.deadline = s.deadline
<1>1. CacheFor \in Nat /\ PatternCap \in Nat
  BY SchedulerAssumption
<1>2. /\ s.cached_now \in Nat /\ s.valid_until \in Nat /\ s.patterns \in Seq(Nat)
      /\ s.computed_at \in Nat \cup {NoInstant} /\ s.deadline \in Nat \cup {NoInstant}
      /\ s = [cached_now |-> s.cached_now, valid_until |-> s.valid_until,
              computed_at |-> s.computed_at, deadline |-> s.deadline, patterns |-> s.patterns]
      /\ NoInstant \in Int
  BY SchedulerFields DEF InStep
<1>3. CASE t < s.valid_until
  <2>1. f = s
    BY <1>3 DEF TimeCacheNow
  <2>2. t < s.cached_now + CacheFor
    BY <1>1, <1>2, <1>3 DEF InStep
  <2> QED BY <2>1, <2>2
<1>4. CASE ~ (t < s.valid_until)
  <2> DEFINE v == t + CacheFor
  <2>1. f = [s EXCEPT !.cached_now = t, !.valid_until = v] /\ v \in Nat
    BY <1>1, <1>4 DEF TimeCacheNow
  <2>2. v <= t + CacheFor
    BY <1>1
  <2> HIDE DEF v
  <2>3. f = [cached_now |-> t, valid_until |-> v, computed_at |-> s.computed_at,
             deadline |-> s.deadline, patterns |-> s.patterns]
    BY <1>2, <2>1
  <2>4. f.cached_now = t /\ f.valid_until = v /\ f.computed_at = s.computed_at
        /\ f.deadline = s.deadline /\ f.patterns = s.patterns
    BY <2>3
  <2>5. f \in Scheduler
    BY <1>2, <2>1, <2>3 DEF Scheduler
  <2>6. f.computed_at <= t /\ f.cached_now <= t
    <3>1. s.computed_at \in Int /\ s.computed_at <= s.cached_now /\ s.cached_now <= t
      BY <1>2 DEF InStep
    <3> QED BY <3>1, <1>2, <2>4
  <2>7. Recorded(f.patterns, f.cached_now)
    <3>1. Recorded(s.patterns, s.cached_now) /\ s.cached_now <= t
      BY DEF InStep
    <3>2. \A i \in DOMAIN s.patterns : s.patterns[i] \in Nat
      BY <1>2, ElementsOf
    <3>3. \A i \in DOMAIN s.patterns : s.patterns[i] <= t
      BY <3>1, <3>2, <1>2 DEF Recorded
    <3> QED BY <3>1, <3>3, <2>4 DEF Recorded
  <2> QED BY <2>2, <2>4, <2>5, <2>6, <2>7 DEF InStep
<1> QED BY <1>3, <1>4

\* A prediction is a time.
LEMMA PredictionIs ==
  ASSUME NEW s, NEW t \in Nat, InStep(s, t), NEW at \in Nat
  PROVE predict_next_timeout(s, at) \in SUBSET Nat
<1> DEFINE q == Recent(s, at)
           n == Len(q)
           p == q[n] + (q[n] - q[1]) \div (n - 1)
           since == at - PatternRecent
<1>1. predict_next_timeout(s, at) \subseteq {p}
      /\ (predict_next_timeout(s, at) # {} => n >= 2)
      /\ (predict_next_timeout(s, at) # {} => p > at)
  BY DEF predict_next_timeout
<1>2. s.patterns \in Seq(Nat) /\ InOrder(s.patterns) /\ since \in Int
  <2>1. PatternRecent \in Nat
    BY SchedulerAssumption
  <2> QED BY <2>1, SchedulerFields DEF InStep, Recorded
<1>3. q = LaterThan(s.patterns, since)
  BY DEF Recent
<1> HIDE DEF since
<1>4. q \in Seq(Nat) /\ InOrder(q)
  BY <1>2, <1>3, LaterThanIs
<1> HIDE DEF q
<1>5. ASSUME n >= 2, p > at PROVE p \in Nat
  <2>1. n \in Nat /\ q[n] \in Nat /\ q[1] \in Nat
    BY <1>4, <1>5, ElementsOf
  <2>2. q[1] <= q[n]
    <3>1. 1 \in DOMAIN q /\ n \in DOMAIN q /\ 1 < n
      BY <1>4, <1>5
    <3> QED BY <3>1, <1>4 DEF InOrder
  <2>3. (q[n] - q[1]) \div (n - 1) \in Nat
    <3>1. n - 1 \in Nat \ {0} /\ q[n] - q[1] \in Nat
      BY <1>5, <2>1, <2>2
    <3> QED BY <3>1, Division
  <2> QED BY <2>1, <2>3, <1>5
<1> HIDE DEF p, n
<1> QED BY <1>1, <1>5

LEMMA SchedulerInStep ==
  ASSUME PInv
  PROVE /\ InStep(sch, now) /\ now \in Nat /\ sch \in Scheduler
        /\ rel.est.rto \in Nat /\ last_recv_time \in Nat /\ calls \in Nat
        /\ \A s \in DOMAIN rel.sack : rel.sack[s].sent \in Nat
        /\ \A s \in DOMAIN rel.simple : rel.simple[s].sent \in Nat
<1>1. sch \in Scheduler /\ now \in Nat /\ last_recv_time \in Nat /\ calls \in Nat
  BY DEF PInv, PTypeOK
<1>2. Recorded(sch.patterns, sch.cached_now)
  BY DEF PInv, PatternsInOrder, Recorded, InOrder
<1>3. InStep(sch, now)
  BY <1>1, <1>2 DEF PInv, CacheKnown, InStep
<1>4. /\ rel.est \in Estimator /\ rel.sack \in [DOMAIN rel.sack -> SackEntry]
      /\ rel.simple \in [DOMAIN rel.simple -> SimpleEntry]
  BY DEF PInv, PTypeOK, Reliability, Estimator, SackEntry, SimpleEntry
<1>5. rel.est.rto \in Nat
  BY <1>4 DEF Estimator
<1>6. \A s \in DOMAIN rel.sack : rel.sack[s].sent \in Nat
  BY <1>4 DEF SackEntry
<1>7. \A s \in DOMAIN rel.simple : rel.simple[s].sent \in Nat
  BY <1>4 DEF SimpleEntry
<1> QED BY <1>1, <1>3, <1>5, <1>6, <1>7

\* The frames that the scheduler's answer has to account for.
Accounted(sent) == sent < sch'.computed_at \/ sent + 2 * CacheFor <= now

LEMMA WithDeadline ==
  ASSUME NEW s \in Scheduler, NEW a, NEW d, NEW f, f = [s EXCEPT !.computed_at = a, !.deadline = d]
  PROVE f = [cached_now |-> s.cached_now, valid_until |-> s.valid_until, computed_at |-> a,
             deadline |-> d, patterns |-> s.patterns]
<1>1. s = [cached_now |-> s.cached_now, valid_until |-> s.valid_until,
           computed_at |-> s.computed_at, deadline |-> s.deadline, patterns |-> s.patterns]
  BY SchedulerFields
<1> QED BY <1>1

LEMMA WakeupIs ==
  ASSUME PInv, calculate_unified_wakeup
  PROVE /\ InStep(sch', now) /\ sch'.deadline \in Nat /\ sch'.computed_at \in Nat
        /\ \A s \in DOMAIN rel.sack : Accounted(rel.sack[s].sent)
             => sch'.deadline <= rel.sack[s].sent + rel.est.rto
        /\ \A s \in DOMAIN rel.simple : Accounted(rel.simple[s].sent)
             => sch'.deadline <= rel.simple[s].sent + RetryInterval
<1> DEFINE seen == TimeCacheNow(sch, now)
           at == seen.cached_now
           S == LayerDeadlines \cup predict_next_timeout(seen, at)
<1>1. /\ InStep(sch, now) /\ now \in Nat /\ sch \in Scheduler /\ open
      /\ rel.est.rto \in Nat /\ last_recv_time \in Nat
      /\ \A s \in DOMAIN rel.sack : rel.sack[s].sent \in Nat
      /\ \A s \in DOMAIN rel.simple : rel.simple[s].sent \in Nat
      /\ RetryInterval \in Nat /\ CacheFor \in Nat
  BY SchedulerInStep, Interval, SchedulerAssumption DEF calculate_unified_wakeup
<1>2. /\ CacheHit(seen, at) => sch' = seen
      /\ ~CacheHit(seen, at) =>
           sch' = [seen EXCEPT !.computed_at = at,
                               !.deadline = IF S = {} THEN at + Fallback ELSE Min(S)]
  BY DEF calculate_unified_wakeup, calculate_unified_deadline
<1>3. seen = TimeCacheNow(sch, now) /\ at = seen.cached_now
  OBVIOUS
<1>4. LayerDeadlines = next_retransmission_deadline(rel) \cup {last_recv_time + DefaultIdle}
  BY DEF LayerDeadlines
<1>5. S = LayerDeadlines \cup predict_next_timeout(seen, at)
  OBVIOUS
<1> HIDE DEF seen, S
<1>6. /\ InStep(seen, now) /\ (at = now \/ now < at + CacheFor)
      /\ seen.computed_at = sch.computed_at /\ seen.deadline = sch.deadline
  BY <1>1, <1>3, ClockIs
<1>7. /\ seen \in Scheduler /\ at \in Nat /\ seen.valid_until \in Nat /\ seen.patterns \in Seq(Nat)
      /\ seen = [cached_now |-> at, valid_until |-> seen.valid_until,
                 computed_at |-> seen.computed_at, deadline |-> seen.deadline,
                 patterns |-> seen.patterns]
      /\ at <= now /\ seen.computed_at <= at /\ seen.computed_at \in Nat \cup {NoInstant}
      /\ seen.deadline \in Nat \cup {NoInstant}
      /\ seen.valid_until <= at + CacheFor /\ Recorded(seen.patterns, at)
  BY <1>6, SchedulerFields DEF InStep
<1> HIDE DEF at
<1>8. CASE CacheHit(seen, at)
  <2>1. /\ sch' = seen /\ sch.computed_at # NoInstant /\ at - sch.computed_at < CacheFor
    BY <1>2, <1>6, <1>8 DEF CacheHit
  <2>2. sch.computed_at \in Nat /\ sch.deadline \in Nat
    <3>1. sch.deadline # NoInstant
      BY <2>1 DEF PInv, CacheKnown
    <3> QED BY <3>1, <2>1, <1>6, <1>7
  <2>3. sch'.computed_at = sch.computed_at /\ sch'.deadline = sch.deadline
    BY <2>1, <1>6
  <2>4. ASSUME NEW x \in Nat, Accounted(x) PROVE x < sch.computed_at
    <3>1. x < sch.computed_at \/ x + 2 * CacheFor <= now
      BY <2>3, <2>4 DEF Accounted
    <3>2. sch.computed_at <= at
      BY <1>6, <1>7
    <3> QED BY <3>1, <3>2, <2>1, <2>2, <1>1, <1>6, <1>7
  <2>5. /\ \A s \in DOMAIN rel.sack : rel.sack[s].sent < sch.computed_at
             => sch.deadline <= rel.sack[s].sent + rel.est.rto
        /\ \A s \in DOMAIN rel.simple : rel.simple[s].sent < sch.computed_at
             => sch.deadline <= rel.simple[s].sent + RetryInterval
    BY <2>1 DEF PInv, CacheKnown
  <2> QED BY <2>1, <2>2, <2>3, <2>4, <2>5, <1>1, <1>6
<1>9. CASE ~CacheHit(seen, at)
  <2> DEFINE d == Min(S)
  <2>1. next_retransmission_deadline(rel) \in SUBSET Nat
        /\ \A x \in Deadlines(rel) : x \in Nat /\ \E n \in next_retransmission_deadline(rel) : n <= x
    <3>1. Sound(rel, now)
      BY <1>1, Running
    <3> QED BY <3>1, <1>1, EarliestDeadline
  <2>2. S \in SUBSET Nat /\ S # {} /\ next_retransmission_deadline(rel) \subseteq S
    <3>1. predict_next_timeout(seen, at) \in SUBSET Nat
      BY <1>1, <1>6, <1>7, PredictionIs
    <3>2. last_recv_time + DefaultIdle \in Nat
      BY <1>1, PacingAssumption
    <3> QED BY <3>1, <3>2, <2>1, <1>4, <1>5
  <2>3. d \in Nat /\ \A x \in S : x \in Nat /\ d <= x
    <3>1. Min(S) \in S /\ \A x \in S : Min(S) <= x
      BY <2>2, MinIsLeast
    <3> QED BY <3>1, <2>2
  <2>4. sch' = [seen EXCEPT !.computed_at = at, !.deadline = d]
    BY <1>2, <1>9, <2>2
  <2> HIDE DEF d
  <2>5. sch' = [cached_now |-> at, valid_until |-> seen.valid_until, computed_at |-> at,
                deadline |-> d, patterns |-> seen.patterns]
    <3>1. seen \in Scheduler /\ seen.cached_now = at
      BY <1>3, <1>7
    <3>2. sch' = [cached_now |-> seen.cached_now, valid_until |-> seen.valid_until,
                  computed_at |-> at, deadline |-> d, patterns |-> seen.patterns]
      BY <2>4, <3>1, WithDeadline
    <3> QED BY <3>1, <3>2
  <2>6. /\ sch'.cached_now = at /\ sch'.valid_until = seen.valid_until /\ sch'.computed_at = at
        /\ sch'.deadline = d /\ sch'.patterns = seen.patterns
    BY <2>5
  <2>7. sch' \in Scheduler
    BY <2>3, <2>5, <1>7 DEF Scheduler
  <2>8. InStep(sch', now)
    BY <2>6, <2>7, <1>7 DEF InStep
  <2>9. ASSUME NEW x \in Deadlines(rel) PROVE d <= x
    <3>1. PICK n \in next_retransmission_deadline(rel) : n <= x
      BY <2>1
    <3>2. x \in Nat /\ n \in Nat /\ d <= n
      BY <2>1, <2>2, <2>3
    <3> QED BY <3>1, <3>2, <2>3
  <2>10. \A s \in DOMAIN rel.sack : d <= rel.sack[s].sent + rel.est.rto
    BY <2>9 DEF Deadlines, sack_deadlines
  <2>11. \A s \in DOMAIN rel.simple : d <= rel.simple[s].sent + RetryInterval
    BY <2>9 DEF Deadlines, simple_deadlines
  <2> QED BY <2>3, <2>6, <2>8, <2>10, <2>11, <1>7
<1> QED BY <1>8, <1>9

\* The steps that change the scheduler only.
LEMMA SchedulerKeeps ==
  ASSUME PInv, open, mute, InStep(sch', now), calls' \in Nat,
         sch'.computed_at # NoInstant =>
           /\ sch'.deadline # NoInstant
           /\ \A s \in DOMAIN rel.sack : rel.sack[s].sent < sch'.computed_at
                => sch'.deadline <= rel.sack[s].sent + rel.est.rto
           /\ \A s \in DOMAIN rel.simple : rel.simple[s].sent < sch'.computed_at
                => sch'.deadline <= rel.simple[s].sent + RetryInterval,
         UNCHANGED <<now, loopVars, netVars, maxRtt>>
  PROVE PInv'
<1>1. /\ now' = now /\ rel' = rel /\ last_recv_time' = last_recv_time /\ wake' = wake
      /\ state' = state /\ open' = open /\ checked' = checked /\ mute' = mute /\ net' = net
      /\ got' = got /\ acks' = acks /\ maxRtt' = maxRtt
  BY DEF loopVars, netVars
<1>2. sch' \in Scheduler
  BY DEF InStep
<1>3. PTypeOK'
  BY <1>1, <1>2 DEF PInv, PTypeOK
<1>4. (Floors /\ SrttWithinSamples /\ GivesUpInTime /\ SrttKnown /\ SentOnTime)'
  BY <1>1 DEF PInv, Floors, SrttWithinSamples, GivesUpInTime, SrttKnown, SentOnTime
<1>5. AwakeInTime'
  BY <1>1 DEF PInv, AwakeInTime, sack_deadlines, simple_deadlines, RtoDue, SimpleDue
<1>6. PatternsInOrder'
  BY DEF InStep, Recorded, InOrder, PatternsInOrder
<1>7. CacheKnown'
  <2>1. net' = {} /\ acks' = {} /\ mute'
    BY <1>1 DEF PInv, CacheKnown
  <2> QED BY <1>1, <2>1 DEF CacheKnown, InStep
<1> QED BY <1>3, <1>4, <1>5, <1>6, <1>7 DEF PInv

LEMMA Calls ==
  ASSUME PInv, calls > 0, calls' = calls - 1
  PROVE mute /\ calls' \in Nat
<1>1. calls \in Nat
  BY SchedulerInStep
<1> QED BY <1>1 DEF PInv, CacheKnown

LEMMA WakeupKeeps ==
  ASSUME PInv, calculate_unified_wakeup
  PROVE PInv'
<1>1. open /\ mute /\ calls' \in Nat /\ UNCHANGED <<now, loopVars, netVars, maxRtt>>
  <2>1. open /\ calls > 0 /\ calls' = calls - 1 /\ UNCHANGED <<now, loopVars, netVars, maxRtt>>
    BY DEF calculate_unified_wakeup
  <2> QED BY <2>1, Calls
<1>2. /\ InStep(sch', now) /\ sch'.deadline \in Nat /\ sch'.computed_at \in Nat
      /\ \A s \in DOMAIN rel.sack : Accounted(rel.sack[s].sent)
           => sch'.deadline <= rel.sack[s].sent + rel.est.rto
      /\ \A s \in DOMAIN rel.simple : Accounted(rel.simple[s].sent)
           => sch'.deadline <= rel.simple[s].sent + RetryInterval
  BY WakeupIs
<1>3. sch'.deadline # NoInstant
  BY <1>2 DEF NoInstant
<1>4. /\ \A s \in DOMAIN rel.sack : rel.sack[s].sent < sch'.computed_at
           => sch'.deadline <= rel.sack[s].sent + rel.est.rto
      /\ \A s \in DOMAIN rel.simple : rel.simple[s].sent < sch'.computed_at
           => sch'.deadline <= rel.simple[s].sent + RetryInterval
  BY <1>2 DEF Accounted
<1> QED BY <1>1, <1>2, <1>3, <1>4, SchedulerKeeps

LEMMA TailIs ==
  ASSUME NEW w \in Seq(Nat), Len(w) > 0, NEW q, q = Tail(w)
  PROVE /\ q \in Seq(Nat) /\ Len(q) = Len(w) - 1 /\ DOMAIN q = 1 .. Len(w) - 1
        /\ \A i \in 1 .. Len(w) - 1 : q[i] = w[i + 1]
<1>1. q \in Seq(Nat) /\ Len(q) = Len(w) - 1
  OBVIOUS
<1>2. DOMAIN q = 1 .. Len(w) - 1
  BY <1>1
<1>3. \A i \in 1 .. Len(w) - 1 : q[i] = w[i + 1]
  OBVIOUS
<1> QED BY <1>1, <1>2, <1>3

LEMMA AppendRecorded ==
  ASSUME NEW p \in Seq(Nat), NEW c \in Nat, Recorded(p, c), NEW q,
         q = IF Len(p) + 1 > PatternCap THEN Tail(Append(p, c)) ELSE Append(p, c)
  PROVE q \in Seq(Nat) /\ Recorded(q, c)
<1> DEFINE w == Append(p, c)
<1>1. /\ w \in Seq(Nat) /\ Len(w) = Len(p) + 1 /\ DOMAIN w = 1 .. Len(p) + 1
      /\ Len(p) \in Nat /\ DOMAIN p = 1 .. Len(p) /\ PatternCap \in Nat
  BY SchedulerAssumption
<1>2. \A i \in 1 .. Len(p) + 1 : w[i] = IF i <= Len(p) THEN p[i] ELSE c
  OBVIOUS
<1>3. \A i \in DOMAIN p : p[i] \in Nat /\ p[i] <= c
  BY ElementsOf DEF Recorded
<1>4. \A i \in DOMAIN w : w[i] \in Nat /\ w[i] <= c
  BY <1>1, <1>2, <1>3
<1>5. InOrder(w)
  <2> SUFFICES ASSUME NEW i \in 1 .. Len(p) + 1, NEW j \in 1 .. Len(p) + 1, i < j
               PROVE w[i] <= w[j]
    BY <1>1 DEF InOrder
  <2>1. i \in DOMAIN p /\ w[i] = p[i]
    BY <1>1, <1>2
  <2>2. CASE j <= Len(p)
    <3>1. j \in DOMAIN p /\ w[j] = p[j]
      BY <2>2, <1>1, <1>2
    <3> QED BY <2>1, <3>1 DEF Recorded, InOrder
  <2>3. CASE ~ (j <= Len(p))
    <3>1. w[j] = c
      BY <2>3, <1>1, <1>2
    <3> QED BY <2>1, <3>1, <1>3
  <2> QED BY <2>2, <2>3
<1> HIDE DEF w
<1>6. CASE Len(p) + 1 > PatternCap
  <2>1. q = Tail(w)
    BY <1>6 DEF w
  <2>2. /\ q \in Seq(Nat) /\ Len(q) = Len(p) /\ DOMAIN q = 1 .. Len(p)
        /\ \A i \in 1 .. Len(p) : q[i] = w[i + 1]
    <3>1. Len(w) > 0 /\ Len(w) - 1 = Len(p)
      BY <1>1
    <3>2. /\ q \in Seq(Nat) /\ Len(q) = Len(w) - 1 /\ DOMAIN q = 1 .. Len(w) - 1
          /\ \A i \in 1 .. Len(w) - 1 : q[i] = w[i + 1]
      BY <3>1, <2>1, <1>1, TailIs
    <3> QED BY <3>1, <3>2
  <2>3. \A i \in 1 .. Len(p) : i + 1 \in DOMAIN w
    BY <1>1
  <2>4. \A i \in DOMAIN q : q[i] <= c
    BY <2>2, <2>3, <1>4
  <2>5. InOrder(q)
    <3> SUFFICES ASSUME NEW i \in 1 .. Len(p), NEW j \in 1 .. Len(p), i < j PROVE q[i] <= q[j]
      BY <2>2 DEF InOrder
    <3>1. i + 1 \in DOMAIN w /\ j + 1 \in DOMAIN w /\ i + 1 < j + 1
      BY <2>3
    <3>2. w[i + 1] <= w[j + 1]
      BY <3>1, <1>5 DEF InOrder
    <3> QED BY <3>2, <2>2
  <2>6. Len(q) <= PatternCap
    BY <2>2 DEF Recorded
  <2> QED BY <2>2, <2>4, <2>5, <2>6 DEF Recorded
<1>7. CASE ~ (Len(p) + 1 > PatternCap)
  <2>1. q = w
    BY <1>7 DEF w
  <2>2. Len(w) <= PatternCap
    BY <1>1, <1>7
  <2>3. Recorded(w, c)
    BY <2>2, <1>4, <1>5 DEF Recorded
  <2> QED BY <2>1, <2>3, <1>1
<1> QED BY <1>6, <1>7

LEMMA WithPatterns ==
  ASSUME NEW s \in Scheduler, NEW q \in Seq(Nat), NEW f, f = [s EXCEPT !.patterns = q]
  PROVE /\ f \in Scheduler /\ f.cached_now = s.cached_now /\ f.valid_until = s.valid_until
        /\ f.computed_at = s.computed_at /\ f.deadline = s.deadline /\ f.patterns = q
<1>1. /\ s.cached_now \in Nat /\ s.valid_until \in Nat /\ s.patterns \in Seq(Nat)
      /\ s.computed_at \in Nat \cup {NoInstant} /\ s.deadline \in Nat \cup {NoInstant}
      /\ s = [cached_now |-> s.cached_now, valid_until |-> s.valid_until,
              computed_at |-> s.computed_at, deadline |-> s.deadline, patterns |-> s.patterns]
  BY SchedulerFields
<1>2. f = [cached_now |-> s.cached_now, valid_until |-> s.valid_until,
           computed_at |-> s.computed_at, deadline |-> s.deadline, patterns |-> q]
  BY <1>1
<1> QED BY <1>1, <1>2 DEF Scheduler

LEMMA CheckUnifiedKeeps ==
  ASSUME PInv, CheckUnified
  PROVE PInv'
<1> DEFINE seen == TimeCacheNow(sch, now)
           p == seen.patterns
           c == seen.cached_now
           q == IF Len(p) + 1 > PatternCap THEN Tail(Append(p, c)) ELSE Append(p, c)
<1>1. open /\ mute /\ calls' \in Nat /\ UNCHANGED <<now, loopVars, netVars, maxRtt>>
  <2>1. open /\ calls > 0 /\ calls' = calls - 1 /\ UNCHANGED <<now, loopVars, netVars, maxRtt>>
    BY DEF CheckUnified
  <2> QED BY <2>1, Calls
<1>2. InStep(sch, now) /\ now \in Nat
  BY SchedulerInStep
<1>3. seen = TimeCacheNow(sch, now)
  OBVIOUS
<1>4. sch' = seen \/ sch' = [seen EXCEPT !.patterns = q]
  BY DEF CheckUnified, check_unified_timeout_events, update_timeout_patterns
<1> HIDE DEF seen
<1>5. /\ InStep(seen, now) /\ seen.computed_at = sch.computed_at /\ seen.deadline = sch.deadline
  BY <1>2, <1>3, ClockIs
<1>6. InStep(sch', now) /\ sch'.computed_at = seen.computed_at /\ sch'.deadline = seen.deadline
  <2>1. CASE sch' = seen
    BY <2>1, <1>5
  <2>2. CASE sch' = [seen EXCEPT !.patterns = q]
    <3>1. seen \in Scheduler /\ p \in Seq(Nat) /\ c \in Nat /\ Recorded(p, c)
      BY <1>5, SchedulerFields DEF InStep
    <3>2. q = IF Len(p) + 1 > PatternCap THEN Tail(Append(p, c)) ELSE Append(p, c)
      OBVIOUS
    <3> HIDE DEF q
    <3>3. q \in Seq(Nat) /\ Recorded(q, c)
      <4> HIDE DEF p, c
      <4> QED BY <3>1, <3>2, AppendRecorded
    <3>4. /\ sch' \in Scheduler /\ sch'.cached_now = c /\ sch'.valid_until = seen.valid_until
          /\ sch'.computed_at = seen.computed_at /\ sch'.deadline = seen.deadline /\ sch'.patterns = q
      BY <2>2, <3>1, <3>3, WithPatterns
    <3> QED BY <3>3, <3>4, <1>5 DEF InStep
  <2> QED BY <1>4, <2>1, <2>2
<1>7. sch'.computed_at = sch.computed_at /\ sch'.deadline = sch.deadline
  BY <1>5, <1>6
<1>8. sch.computed_at # NoInstant =>
        /\ sch.deadline # NoInstant
        /\ \A s \in DOMAIN rel.sack : rel.sack[s].sent < sch.computed_at
             => sch.deadline <= rel.sack[s].sent + rel.est.rto
        /\ \A s \in DOMAIN rel.simple : rel.simple[s].sent < sch.computed_at
             => sch.deadline <= rel.simple[s].sent + RetryInterval
  BY DEF PInv, CacheKnown
<1> QED BY <1>1, <1>6, <1>7, <1>8, SchedulerKeeps

----------------------------------------------------------------------------
(* The theorems.                                                           *)

LEMMA InitKeeps ==
  ASSUME Init
  PROVE PInv
<1>1. /\ now = 0 /\ last_recv_time = 0 /\ wake = Smaller(IdleTimeout, Fallback)
      /\ state = "Established" /\ open = TRUE /\ checked = FALSE
      /\ mute \in BOOLEAN /\ net = {} /\ got = {} /\ acks = {}
      /\ calls = (IF mute THEN MaxCalls ELSE 0) /\ maxRtt = 0
  BY DEF Init
<1>2. rel = [next |-> 0, buf |-> 0, sack |-> EmptyBook, simple |-> EmptyBook,
             est |-> NewEstimator, cc |-> NewVegas]
  BY DEF Init
<1>3. rel.next = 0 /\ rel.buf = 0 /\ rel.sack = EmptyBook /\ rel.simple = EmptyBook
      /\ rel.est = NewEstimator /\ rel.cc = NewVegas
  BY <1>2
<1>4. DOMAIN rel.sack = {} /\ DOMAIN rel.simple = {} /\ DOMAIN EmptyBook = {}
  BY <1>3 DEF EmptyBook
<1>5. /\ InitialCwnd \in Nat /\ InitialSsthresh \in Nat /\ InitialRto \in Nat
      /\ InitialCwnd >= MinCwnd /\ InitialSsthresh >= MinCwnd /\ InitialRto >= MinRto
      /\ IdleTimeout \in Nat /\ Fallback \in Nat /\ MaxCalls \in Nat
      /\ Step \in Nat \ {0} /\ CacheFor \in Nat /\ PatternCap \in Nat /\ Unsampled \in Nat
  BY PacingAssumption, SchedulerAssumption DEF Unsampled
<1>6. NewEstimator \in Estimator /\ NewVegas \in Window
      /\ NewEstimator.srtt = 0 /\ NewEstimator.rto = InitialRto /\ NewVegas.min_rtt = Unsampled
      /\ NewVegas.cwnd = InitialCwnd /\ NewVegas.ssthresh = InitialSsthresh
  BY <1>5 DEF NewEstimator, NewVegas, Estimator, Window
<1>7. rel \in Reliability(DOMAIN rel.sack, DOMAIN rel.simple)
  <2>1. EmptyBook \in [{} -> SackEntry] /\ EmptyBook \in [{} -> SimpleEntry]
    BY DEF EmptyBook
  <2> HIDE DEF EmptyBook
  <2> QED BY <1>2, <1>4, <1>6, <2>1 DEF Reliability, Estimator, Window, SackEntry, SimpleEntry
<1>8. /\ sch = [cached_now |-> 0, valid_until |-> 0, computed_at |-> NoInstant,
                deadline |-> NoInstant, patterns |-> <<>>]
      /\ NoInstant < 0
  BY DEF Init, NewScheduler, NoInstant
<1>9. sch \in Scheduler /\ sch.patterns = <<>> /\ sch.cached_now = 0 /\ sch.valid_until = 0
      /\ sch.computed_at = NoInstant
  BY <1>8 DEF Scheduler
<1>10. PTypeOK
  <2>1. wake \in Nat /\ calls \in Nat /\ now \in Nat /\ last_recv_time \in 0 .. now /\ maxRtt \in 0 .. now
    BY <1>1, <1>5 DEF Smaller
  <2> QED BY <1>1, <1>4, <1>7, <1>9, <2>1 DEF PTypeOK
<1>11. Floors /\ SrttKnown /\ SrttWithinSamples
  BY <1>3, <1>5, <1>6 DEF Floors, SrttKnown, SrttWithinSamples
<1>12. GivesUpInTime
  BY <1>4 DEF GivesUpInTime
<1>13. AwakeInTime
  BY <1>1, <1>4 DEF AwakeInTime, sack_deadlines, simple_deadlines
<1>14. SentOnTime
  <2>1. (0 * Step) % Step = 0 /\ 0 * Step = 0
    BY <1>5, Whole
  <2> QED BY <1>1, <1>4, <2>1 DEF SentOnTime
<1>15. CacheKnown
  <2>1. NoInstant <= 0 /\ 0 <= 0 + CacheFor
    BY <1>5 DEF NoInstant
  <2> QED BY <1>1, <1>4, <1>9, <2>1 DEF CacheKnown
<1>16. PatternsInOrder
  BY <1>5, <1>9 DEF PatternsInOrder
<1> QED BY <1>10, <1>11, <1>12, <1>13, <1>14, <1>15, <1>16 DEF PInv

LEMMA StutterKeeps ==
  ASSUME PInv, UNCHANGED vars
  PROVE PInv'
  BY DEF PInv, vars, loopVars, netVars, schVars, PTypeOK, Floors, SrttWithinSamples, GivesUpInTime,
         SrttKnown, AwakeInTime, SentOnTime, CacheKnown, PatternsInOrder, sack_deadlines,
         simple_deadlines, RtoDue, SimpleDue

(* Window, threshold and timeout keep their floors, the smoothed time stays *)
(* among the samples, a FIN is given up in time, the loop is awake in time  *)
(* and the scheduler's cache is as old as it claims, for every window,      *)
(* timeout, interval and clock (vegas.rs, rtt.rs, simple_retx_manager.rs,   *)
(* endpoint.rs, unified_scheduler.rs).                                      *)
THEOREM PacingInvariant == Spec => []PInv
<1>1. Init => PInv
  BY InitKeeps
<1>2. PInv /\ [Next]_vars => PInv'
  <2> SUFFICES ASSUME PInv, [Next]_vars PROVE PInv'
    OBVIOUS
  <2>1. CASE \E n \in Writes : Write(n)
    BY <2>1, WriteKeeps
  <2>2. CASE Close
    BY <2>2, CloseKeeps
  <2>3. CASE \E a \in acks : HandleAck(a)
    BY <2>3, AckKeeps
  <2>4. CASE check_all_timeouts
    BY <2>4, TimeoutsKeep
  <2>5. CASE \E c \in net : Deliver(c)
    BY <2>5, DeliverKeeps
  <2>6. CASE Tick
    BY <2>6, TickKeeps
  <2>7. CASE calculate_unified_wakeup
    BY <2>7, WakeupKeeps
  <2>8. CASE CheckUnified
    BY <2>8, CheckUnifiedKeeps
  <2>9. CASE UNCHANGED vars
    BY <2>9, StutterKeeps
  <2> QED BY <2>1, <2>2, <2>3, <2>4, <2>5, <2>6, <2>7, <2>8, <2>9 DEF Next
<1> QED BY <1>1, <1>2, PTL DEF Spec

\* What WithinWindow and OneLossPerEvent say of a step.
WindowStep ==
  DOMAIN rel'.sack \ DOMAIN rel.sack # {} => InFlight(rel') <= Smaller(rel'.cc.cwnd, PeerWindow)

LossStep ==
  2 * rel'.cc.cwnd + Cardinality(DOMAIN rel.sack \ DOMAIN rel'.sack) + 1 >= rel.cc.cwnd

\* A step that keeps the numbers of the book.
LEMMA SameBook ==
  ASSUME NEW c \in Nat, NEW d \in Nat, 2 * c + 1 >= d, NEW S, NEW T, S = T
  PROVE 2 * c + Cardinality(S \ T) + 1 >= d
<1>1. S \ T = {} /\ Cardinality({}) = 0
  BY FS_EmptySet
<1>2. Cardinality(S \ T) = 0
  BY <1>1
<1> QED BY <1>2

LEMMA SameLayer ==
  ASSUME PInv, rel' = rel
  PROVE WindowStep /\ LossStep
<1>1. rel.cc \in Window
  BY DEF PInv, PTypeOK, Reliability, Window
<1>2. rel.cc.cwnd \in Nat /\ 2 * rel.cc.cwnd + 1 >= rel.cc.cwnd
  BY <1>1 DEF Window
<1>3. 2 * rel.cc.cwnd + Cardinality(DOMAIN rel.sack \ DOMAIN rel.sack) + 1 >= rel.cc.cwnd
  BY <1>2, SameBook
<1> QED BY <1>3 DEF WindowStep, LossStep

\* The end of an iteration adds numbers only, and to room in both windows.
LEMMA LoopSends ==
  ASSUME PInv, open, NEW r, NEW st, NEW recv \in 0 .. now, NEW resent \in SUBSET (0 .. r.next - 1),
         Sound(r, now), Ages(rel, r, now), r.next = rel.next, FollowUp(r, st, recv, resent),
         DOMAIN r.sack \subseteq DOMAIN rel.sack,
         2 * r.cc.cwnd + Cardinality(DOMAIN rel.sack \ DOMAIN r.sack) + 1 >= rel.cc.cwnd
  PROVE WindowStep /\ LossStep
<1>1. Sound(rel, now) /\ rel.next \in Nat /\ r.next >= rel.next
  <2>1. Sound(rel, now)
    BY Running
  <2>2. rel.next \in Nat
    BY <2>1, LayerFields
  <2> QED BY <2>1, <2>2
<1>2. /\ rel'.cc = r.cc
      /\ DOMAIN r.sack \subseteq DOMAIN rel'.sack /\ NewNumbers(r, rel')
      /\ DOMAIN rel'.sack # DOMAIN r.sack => InFlight(rel') <= Smaller(rel'.cc.cwnd, PeerWindow)
  BY <1>1, LoopStep
<1>3. \A s \in DOMAIN rel.sack : s \in DOMAIN rel'.sack => s \in DOMAIN r.sack
  <2> SUFFICES ASSUME NEW s \in DOMAIN rel.sack, s \in DOMAIN rel'.sack, s >= r.next PROVE FALSE
    BY <1>2 DEF NewNumbers
  <2>1. s \in 0 .. rel.next - 1
    BY <1>1 DEF Sound
  <2> QED BY <2>1, <1>1
<1>4. DOMAIN rel.sack \ DOMAIN rel'.sack = DOMAIN rel.sack \ DOMAIN r.sack
  BY <1>2, <1>3
<1>5. LossStep
  BY <1>2, <1>4 DEF LossStep
<1>6. WindowStep
  BY <1>2 DEF WindowStep
<1> QED BY <1>5, <1>6

\* Writing and closing leave books and window as they are.
LEMMA QuietSends ==
  ASSUME PInv, open, NEW r, NEW st, Sound(r, now), r.next = rel.next,
         r.sack = rel.sack, r.simple = rel.simple, r.cc = rel.cc,
         FollowUp(r, st, last_recv_time, {})
  PROVE WindowStep /\ LossStep
<1>1. Ages(rel, r, now) /\ last_recv_time \in 0 .. now /\ {} \in SUBSET (0 .. r.next - 1)
  BY AgesSame, BooleansAre
<1>2. rel.cc.cwnd \in Nat /\ 2 * rel.cc.cwnd + 1 >= rel.cc.cwnd
  <2>1. rel.cc.cwnd \in Nat
    BY Running, LayerFields
  <2> QED BY <2>1
<1>3. 2 * r.cc.cwnd + Cardinality(DOMAIN rel.sack \ DOMAIN r.sack) + 1 >= rel.cc.cwnd
  BY <1>2, SameBook
<1> QED BY <1>1, <1>3, LoopSends

LEMMA StepSends ==
  ASSUME PInv, [Next]_vars
  PROVE WindowStep /\ LossStep
<1>1. CASE \E n \in Writes : Write(n)
  <2>1. PICK n \in Writes : Write(n)
    BY <1>1
  <2> DEFINE r == [rel EXCEPT !.buf = @ + n]
  <2>2. open /\ FollowUp(r, state, last_recv_time, {})
    BY <2>1 DEF Write
  <2>3. r = [rel EXCEPT !.buf = @ + n]
    OBVIOUS
  <2> HIDE DEF r
  <2>4. /\ Sound(r, now) /\ r.next = rel.next /\ r.sack = rel.sack /\ r.simple = rel.simple
        /\ r.cc = rel.cc
    BY <2>2, <2>3, Running, WriteIs
  <2> QED BY <2>2, <2>4, QuietSends
<1>2. CASE Close
  <2>1. open /\ FollowUp(rel, "Closing", last_recv_time, {})
    BY <1>2 DEF Close
  <2>2. Sound(rel, now)
    BY <2>1, Running
  <2> QED BY <2>1, <2>2, QuietSends
<1>3. CASE \E a \in acks : HandleAck(a)
  <2>1. PICK a \in acks : HandleAck(a)
    BY <1>3
  <2> DEFINE r == AckedLayer(a)
             resent == AckResent(a)
  <2>2. r = AckedLayer(a)
    OBVIOUS
  <2> HIDE DEF r
  <2>3. /\ open /\ Sound(r, now) /\ Ages(rel, r, now)
        /\ r.next = rel.next /\ DOMAIN r.sack \subseteq DOMAIN rel.sack
        /\ 2 * r.cc.cwnd + Cardinality(DOMAIN rel.sack \ DOMAIN r.sack) + 1 >= rel.cc.cwnd
        /\ resent \in SUBSET (0 .. r.next - 1)
        /\ FollowUp(r, state, now, resent)
    BY <2>1, <2>2, AckIs
  <2> HIDE DEF resent
  <2>4. now \in 0 .. now
    BY <2>3, Running
  <2> QED BY <2>3, <2>4, LoopSends
<1>4. CASE check_all_timeouts
  <2> DEFINE r == AfterTimeouts(rel, now)
             resent == Resent(rel, now)
  <2>1. open /\ r = AfterTimeouts(rel, now)
    BY <1>4 DEF check_all_timeouts
  <2>2. /\ Sound(rel, now) /\ now \in Nat /\ now % Step = 0 /\ last_recv_time \in 0 .. now
    BY <2>1, Running, BooleansAre
  <2>3. \/ rel' = r
        \/ FollowUp(r, state, last_recv_time, resent)
    BY <1>4 DEF check_all_timeouts
  <2> HIDE DEF r
  <2>4. /\ Sound(r, now) /\ Ages(rel, r, now) /\ r.next = rel.next
        /\ DOMAIN r.sack = DOMAIN rel.sack /\ 2 * r.cc.cwnd + 1 >= rel.cc.cwnd
    BY <2>1, <2>2, AfterTimeoutsIs
  <2>5. r.cc.cwnd \in Nat /\ rel.cc.cwnd \in Nat
    BY <2>2, <2>4, LayerFields
  <2>6. 2 * r.cc.cwnd + Cardinality(DOMAIN rel.sack \ DOMAIN r.sack) + 1 >= rel.cc.cwnd
    BY <2>4, <2>5, SameBook
  <2>7. CASE rel' = r
    BY <2>4, <2>6, <2>7 DEF WindowStep, LossStep
  <2>8. CASE FollowUp(r, state, last_recv_time, resent)
    <3>1. resent \in SUBSET (0 .. r.next - 1)
      <4>1. resent \subseteq DOMAIN rel.sack \cup DOMAIN rel.simple
        BY DEF Resent, RtoDue, SimpleDue
      <4>2. DOMAIN rel.sack \cup DOMAIN rel.simple \subseteq 0 .. rel.next - 1
        BY <2>2 DEF Sound
      <4> QED BY <4>1, <4>2, <2>4
    <3> HIDE DEF resent
    <3> QED BY <2>1, <2>2, <2>4, <2>6, <2>8, <3>1, LoopSends
  <2> QED BY <2>3, <2>7, <2>8
<1>5. CASE \E c \in net : Deliver(c)
  BY <1>5, SameLayer DEF Deliver, loopVars
<1>6. CASE Tick
  BY <1>6, SameLayer DEF Tick
<1>7. CASE calculate_unified_wakeup
  BY <1>7, SameLayer DEF calculate_unified_wakeup, loopVars
<1>8. CASE CheckUnified
  BY <1>8, SameLayer DEF CheckUnified, loopVars
<1>9. CASE UNCHANGED vars
  BY <1>9, SameLayer DEF vars, loopVars
<1> QED BY <1>1, <1>2, <1>3, <1>4, <1>5, <1>6, <1>7, <1>8, <1>9 DEF Next

(* New packets leave only into room of both windows (packetize), whatever   *)
(* losses have made of the window.                                          *)
THEOREM WindowRespected == Spec => WithinWindow
<1>1. PInv /\ [Next]_vars => [WindowStep]_vars
  BY StepSends
<1>2. PInv /\ [Next]_vars =>
        [DOMAIN rel'.sack \ DOMAIN rel.sack # {} =>
           InFlight(rel') <= Smaller(rel'.cc.cwnd, PeerWindow)]_vars
  BY <1>1 DEF WindowStep
<1> QED BY <1>2, PacingInvariant, PTL DEF Spec, WithinWindow

(* One event, however many packets it finds lost, at most halves the window *)
(* once (handle_ack, check_retransmissions).                                *)
THEOREM OneLoss == Spec => OneLossPerEvent
<1>1. PInv /\ [Next]_vars => [LossStep]_vars
  BY StepSends
<1>2. PInv /\ [Next]_vars =>
        [2 * rel'.cc.cwnd + Cardinality(DOMAIN rel.sack \ DOMAIN rel'.sack) + 1
           >= rel.cc.cwnd]_vars
  BY <1>1 DEF LossStep
<1> QED BY <1>2, PacingInvariant, PTL DEF Spec, OneLossPerEvent

(* The clock moves on only when no frame is overdue: the wake-up that the   *)
(* loop computed and the timeouts it finds agree, at exact deadlines too    *)
(* (calculate_next_wakeup_time, check_retransmission_timeouts).             *)
THEOREM NeverSleepsOverdue == Spec => NothingOverdueSleeps
<1>1. ASSUME PInv, [Next]_vars, now' > now
      PROVE /\ \A s \in DOMAIN rel.sack : now - rel.sack[s].sent <= rel.est.rto
            /\ \A s \in DOMAIN rel.simple : now - rel.simple[s].sent < RetryInterval
  <2>1. CASE Tick
    BY <1>1, <2>1, NothingOverdue DEF Tick
  <2>2. CASE now' = now
    <3>1. now \in Nat
      BY <1>1, SchedulerInStep
    <3> QED BY <2>2, <3>1, <1>1
  <2>3. Tick \/ now' = now
    BY <1>1 DEF Next, Write, Close, HandleAck, check_all_timeouts, Deliver,
                calculate_unified_wakeup, CheckUnified, vars
  <2> QED BY <2>1, <2>2, <2>3
<1>2. PInv /\ [Next]_vars =>
        [now' > now =>
           /\ \A s \in DOMAIN rel.sack : now - rel.sack[s].sent <= rel.est.rto
           /\ \A s \in DOMAIN rel.simple : now - rel.simple[s].sent < RetryInterval]_vars
  BY <1>1
<1> QED BY <1>2, PacingInvariant, PTL DEF Spec, NothingOverdueSleeps

(* The scheduler's answer accounts for every frame that left two cache      *)
(* lifetimes ago (calculate_unified_deadline, TimeCache::now).              *)
THEOREM DeadlineStaleAtMostTwice == Spec => StaleAtMostTwice
<1>1. ASSUME PInv, [Next]_vars, ret' # ret
      PROVE /\ \A s \in DOMAIN rel.sack :
                 rel.sack[s].sent + 2 * CacheFor <= now
                   => ret'.deadline <= rel.sack[s].sent + rel.est.rto
            /\ \A s \in DOMAIN rel.simple :
                 rel.simple[s].sent + 2 * CacheFor <= now
                   => ret'.deadline <= rel.simple[s].sent + RetryInterval
  <2>1. calculate_unified_wakeup
    BY <1>1 DEF Next, Write, Close, HandleAck, check_all_timeouts, Deliver, Tick,
                CheckUnified, vars, schVars
  <2>2. ret' = [at |-> now, deadline |-> sch'.deadline]
    BY <2>1 DEF calculate_unified_wakeup
  <2>3. ret'.deadline = sch'.deadline
    BY <2>2
  <2>4. /\ \A s \in DOMAIN rel.sack : Accounted(rel.sack[s].sent)
             => sch'.deadline <= rel.sack[s].sent + rel.est.rto
        /\ \A s \in DOMAIN rel.simple : Accounted(rel.simple[s].sent)
             => sch'.deadline <= rel.simple[s].sent + RetryInterval
    BY <1>1, <2>1, WakeupIs
  <2> QED BY <2>3, <2>4 DEF Accounted
<1>2. PInv /\ [Next]_vars =>
        [ret' # ret =>
           /\ \A s \in DOMAIN rel.sack :
                rel.sack[s].sent + 2 * CacheFor <= now
                  => ret'.deadline <= rel.sack[s].sent + rel.est.rto
           /\ \A s \in DOMAIN rel.simple :
                rel.simple[s].sent + 2 * CacheFor <= now
                  => ret'.deadline <= rel.simple[s].sent + RetryInterval]_vars
  BY <1>1
<1> QED BY <1>2, PacingInvariant, PTL DEF Spec, StaleAtMostTwice
=============================================================================
