--------------------------- MODULE SegmentProofs ----------------------------
(***************************************************************************)
(* What tp_write_segment writes is what the readers of a segment rely on   *)
(* (WrittenWellFormed), for every set of documents and every block size.   *)
(* The lemmas on naturals, sums, finite sets, sorted listings and blocks   *)
(* that this needs serve the proofs about queries and merges as well.      *)
(* The last part, on the level chains, serves the proofs about an index    *)
(* and a parallel build, for which a segment is the set of its documents.  *)
(***************************************************************************)
EXTENDS SegmentFormat, SegmentLevels, FiniteSetTheorems, FunctionTheorems, WellFoundedInduction, TLAPS

-----------------------------------------------------------------------------
(* Naturals: induction, least and largest elements *)

(* A set of naturals that is not empty has a least element. *)
LEMMA MinNat ==
    ASSUME NEW S \in SUBSET Nat, S # {}
    PROVE  Min(S) \in S /\ \A y \in S : Min(S) <= y
  <1>1. PICK x \in S : \A y \in S : ~(<<y, x>> \in OpToRel(<, Nat))
    BY NatLessThanWellFounded, WFMin, Zenon
  <1>2. \A y \in S : ~(y < x)
    BY <1>1 DEF OpToRel
  <1>3. \A y \in S : x <= y
    BY <1>2
  <1> QED BY <1>3 DEF Min

(* A set that holds 0 and, with each number, the next one holds all of them. *)
LEMMA NatSetInduction ==
    ASSUME NEW S, 0 \in S, \A n \in Nat : n \in S => n + 1 \in S
    PROVE  \A n \in Nat : n \in S
  <1> SUFFICES ASSUME {n \in Nat : n \notin S} # {} PROVE FALSE
    OBVIOUS
  <1> DEFINE R == {n \in Nat : n \notin S}
             m == Min(R)
  <1>1. m \in R /\ \A y \in R : m <= y
    <2> R \in SUBSET Nat /\ R # {}
      OBVIOUS
    <2> HIDE DEF R
    <2> QED BY MinNat
  <1>2. m # 0 /\ m - 1 \in Nat /\ m - 1 \in S
    <2> HIDE DEF m
    <2> QED BY <1>1
  <1> QED
    <2> HIDE DEF m
    <2> QED BY <1>1, <1>2

(* The smaller of two naturals. *)
LEMMA MinTwo ==
    ASSUME NEW a \in Nat, NEW b \in Nat
    PROVE  /\ Min({a, b}) \in Nat
           /\ Min({a, b}) = IF a <= b THEN a ELSE b
  <1>1. Min({a, b}) \in {a, b} /\ \A y \in {a, b} : Min({a, b}) <= y
    BY MinNat
  <1> QED BY <1>1

(* A bounded set of naturals that is not empty has a largest element. *)
LEMMA MaxNat ==
    ASSUME NEW m \in Nat, NEW S \in SUBSET (0 .. m), S # {}
    PROVE  Max(S) \in S /\ \A y \in S : y <= Max(S)
  <1> DEFINE U == {n \in Nat : \A y \in S : y <= n}
             x == Min(U)
  <1>1. x \in U /\ \A y \in U : x <= y
    <2>1. m \in U
      OBVIOUS
    <2> HIDE DEF U
    <2> QED BY <2>1, MinNat DEF U
  <1>2. x \in S
    <2> SUFFICES ASSUME x \notin S PROVE FALSE
      OBVIOUS
    <2> HIDE DEF x
    <2>1. \A y \in S : y < x
      BY <1>1
    <2>2. PICK y \in S : TRUE
      OBVIOUS
    <2> y \in Nat /\ y < x /\ x \in Nat
      BY <1>1, <2>1
    <2>4. x - 1 \in Nat /\ \A z \in S : z <= x - 1
      BY <2>1
    <2>3. x - 1 \in U
      BY <2>4
    <2> QED BY <1>1, <2>3
  <1>3. \A y \in S : y <= x
    BY <1>1
  <1>4. \E z \in S : \A y \in S : z >= y
    <2> HIDE DEF x
    <2>1. \A y \in S : x >= y
      BY <1>1, <1>3
    <2> QED BY <1>2, <2>1
  <1>5. Max(S) \in S /\ \A y \in S : Max(S) >= y
    BY <1>4 DEF Max
  <1> QED BY <1>5

(* The larger of two naturals. *)
LEMMA MaxTwo ==
    ASSUME NEW a \in Nat, NEW b \in Nat
    PROVE  Max({a, b}) \in Nat /\ a <= Max({a, b}) /\ b <= Max({a, b})
  <1>1. {a, b} \in SUBSET (0 .. a + b)
    OBVIOUS
  <1>2. Max({a, b}) \in {a, b} /\ \A y \in {a, b} : y <= Max({a, b})
    BY <1>1, MaxNat
  <1> QED BY <1>2

(* The values of a sequence are bounded. *)
LEMMA Bounded ==
    ASSUME NEW n \in Nat, NEW f, \A j \in 1 .. n : f[j] \in Nat
    PROVE  \E m \in Nat : \A j \in 1 .. n : f[j] <= m
  <1> DEFINE B == {k \in Nat : k <= n => \E m \in Nat : \A j \in 1 .. k : f[j] <= m}
  <1>1. 0 \in B
    OBVIOUS
  <1>2. \A k \in Nat : k \in B => k + 1 \in B
    <2> SUFFICES ASSUME NEW k \in Nat, k \in B
                 PROVE  k + 1 \in B
      OBVIOUS
    <2> SUFFICES ASSUME k + 1 <= n
                 PROVE  \E m \in Nat : \A j \in 1 .. k + 1 : f[j] <= m
      OBVIOUS
    <2>1. PICK m \in Nat : \A j \in 1 .. k : f[j] <= m
      OBVIOUS
    <2>2. f[k + 1] \in Nat
      OBVIOUS
    <2>3. m + f[k + 1] \in Nat /\ \A j \in 1 .. k + 1 : f[j] <= m + f[k + 1]
      <3>1. ASSUME NEW j \in 1 .. k + 1 PROVE f[j] <= m + f[k + 1]
        <4>1. CASE j = k + 1
          BY <2>2, <4>1
        <4>2. CASE j \in 1 .. k
          BY <2>1, <2>2, <4>2
        <4> QED BY <4>1, <4>2
      <3> QED BY <2>2, <3>1
    <2> QED BY <2>3
  <1>3. n \in B
    <2> HIDE DEF B
    <2> QED BY <1>1, <1>2, NatSetInduction
  <1> QED BY <1>3

(* The largest value of a sequence that is not empty. *)
LEMMA MaxOf ==
    ASSUME NEW n \in Nat \ {0}, NEW f, \A j \in 1 .. n : f[j] \in Nat
    PROVE  /\ Max({f[j] : j \in 1 .. n}) \in {f[j] : j \in 1 .. n}
           /\ Max({f[j] : j \in 1 .. n}) \in Nat
           /\ \A j \in 1 .. n : f[j] <= Max({f[k] : k \in 1 .. n})
  <1> DEFINE S == {f[j] : j \in 1 .. n}
  <1>1. PICK m \in Nat : \A j \in 1 .. n : f[j] <= m
    BY Bounded
  <1>2. S \in SUBSET (0 .. m)
    BY <1>1
  <1>3. f[1] \in S
    OBVIOUS
  <1>4. Max(S) \in S /\ \A y \in S : y <= Max(S)
    <2> HIDE DEF S
    <2> QED BY <1>2, <1>3, MaxNat
  <1>5. \A j \in 1 .. n : f[j] \in S
    OBVIOUS
  <1>6. Max(S) \in S /\ Max(S) \in Nat /\ \A j \in 1 .. n : f[j] <= Max(S)
    <2> HIDE DEF S
    <2>1. Max(S) \in 0 .. m
      BY <1>2, <1>4
    <2>2. \A j \in 1 .. n : f[j] <= Max(S)
      BY <1>4, <1>5, Zenon
    <2> QED BY <1>4, <2>1, <2>2
  <1> QED BY <1>6, Zenon

-----------------------------------------------------------------------------
(* Sums *)

(* s is the running total of u. *)
IsTotal(s, u, n) == s = [j \in 0 .. n |-> IF j = 0 THEN 0 ELSE s[j - 1] + u[j]]

(* The first n parts. *)
Pre(u, n) == [j \in 1 .. n |-> u[j]]

(* Total is the last value of a running total. *)
LEMMA TotalExists ==
    ASSUME NEW n \in Nat, NEW u \in [1 .. n -> Nat]
    PROVE  \E s : IsTotal(s, u, n) /\ Total(u) = s[n]
  <1> DEFINE G == {k \in Nat : \E s : IsTotal(s, u, k)}
  <1>1. 0 \in G
    <2> DEFINE s0 == [j \in 0 .. 0 |-> 0]
    <2>1. IsTotal(s0, u, 0)
      BY DEF IsTotal
    <2> QED BY <2>1
  <1>2. \A k \in Nat : k \in G => k + 1 \in G
    <2> SUFFICES ASSUME NEW k \in Nat, NEW s, IsTotal(s, u, k)
                 PROVE  \E t : IsTotal(t, u, k + 1)
      OBVIOUS
    <2> DEFINE t == [j \in 0 .. k + 1 |-> IF j = k + 1 THEN s[k] + u[k + 1] ELSE s[j]]
    <2>1. \A j \in 0 .. k : s[j] = IF j = 0 THEN 0 ELSE s[j - 1] + u[j]
      BY DEF IsTotal
    <2>2. ASSUME NEW j \in 0 .. k + 1
          PROVE  t[j] = IF j = 0 THEN 0 ELSE t[j - 1] + u[j]
      BY <2>1
    <2>3. t = [j \in 0 .. k + 1 |-> t[j]]
      OBVIOUS
    <2>4. IsTotal(t, u, k + 1)
      <3> HIDE DEF t
      <3> QED BY <2>2, <2>3 DEF IsTotal
    <2> QED BY <2>4
  <1>3. n \in G
    <2> HIDE DEF G
    <2> QED BY <1>1, <1>2, NatSetInduction
  <1> DEFINE s[j \in 0 .. Len(u)] == IF j = 0 THEN 0 ELSE s[j - 1] + u[j]
  <1>4. Len(u) = n
    OBVIOUS
  <1>5. IsTotal(s, u, n)
    BY <1>3, <1>4 DEF IsTotal
  <1>6. Total(u) = s[n]
    BY <1>4 DEF Total
  <1> HIDE DEF s
  <1> QED BY <1>5, <1>6

(* The total of nothing. *)
LEMMA TotalZero ==
    ASSUME NEW u \in [1 .. 0 -> Nat]
    PROVE  Total(u) = 0
  <1>1. PICK s : IsTotal(s, u, 0) /\ Total(u) = s[0]
    BY TotalExists
  <1> QED BY <1>1 DEF IsTotal

(* Running totals of sequences that agree are equal. *)
LEMMA TotalStep ==
    ASSUME NEW n \in Nat, NEW u \in [1 .. n + 1 -> Nat]
    PROVE  Pre(u, n) \in [1 .. n -> Nat] /\ Total(u) = Total(Pre(u, n)) + u[n + 1]
  <1>1. Pre(u, n) \in [1 .. n -> Nat]
    BY DEF Pre
  <1>2. PICK s : IsTotal(s, u, n + 1) /\ Total(u) = s[n + 1]
    BY TotalExists
  <1>3. PICK t : IsTotal(t, Pre(u, n), n) /\ Total(Pre(u, n)) = t[n]
    BY <1>1, TotalExists
  <1>4. \A j \in 0 .. n + 1 : s[j] = IF j = 0 THEN 0 ELSE s[j - 1] + u[j]
    BY <1>2 DEF IsTotal
  <1>5. \A j \in 0 .. n : t[j] = IF j = 0 THEN 0 ELSE t[j - 1] + u[j]
    <2>1. \A j \in 0 .. n : t[j] = IF j = 0 THEN 0 ELSE t[j - 1] + Pre(u, n)[j]
      BY <1>3 DEF IsTotal
    <2>2. \A j \in 1 .. n : Pre(u, n)[j] = u[j]
      BY DEF Pre
    <2> QED BY <2>1, <2>2
  <1> DEFINE G == {k \in Nat : k <= n => s[k] = t[k]}
  <1>6. 0 \in G
    BY <1>4, <1>5
  <1>7. ASSUME NEW k \in Nat, k \in G PROVE k + 1 \in G
    BY <1>4, <1>5, <1>7
  <1>8. n \in G
    <2> HIDE DEF G
    <2> QED BY <1>6, <1>7, NatSetInduction
  <1> QED BY <1>1, <1>2, <1>3, <1>4, <1>8

(* A total of naturals is one. *)
LEMMA TotalNat ==
    ASSUME NEW n \in Nat, NEW u \in [1 .. n -> Nat]
    PROVE  Total(u) \in Nat
  <1> DEFINE G == {k \in Nat : \A v \in [1 .. k -> Nat] : Total(v) \in Nat}
  <1>1. 0 \in G
    BY TotalZero
  <1>2. ASSUME NEW k \in Nat, k \in G PROVE k + 1 \in G
    <2> SUFFICES ASSUME NEW v \in [1 .. k + 1 -> Nat] PROVE Total(v) \in Nat
      OBVIOUS
    <2>1. Pre(v, k) \in [1 .. k -> Nat] /\ Total(v) = Total(Pre(v, k)) + v[k + 1]
      BY TotalStep
    <2>2. Total(Pre(v, k)) \in Nat
      BY <1>2, <2>1
    <2> QED BY <2>1, <2>2
  <1>3. n \in G
    <2> HIDE DEF G
    <2> QED BY <1>1, <1>2, NatSetInduction
  <1> QED BY <1>3

(* A sum of smaller terms is smaller. *)
LEMMA TotalLeq ==
    ASSUME NEW n \in Nat, NEW u \in [1 .. n -> Nat], NEW v \in [1 .. n -> Nat],
           \A j \in 1 .. n : u[j] <= v[j]
    PROVE  Total(u) <= Total(v)
  <1> DEFINE G == {k \in Nat : \A x, y \in [1 .. k -> Nat] :
                                  (\A j \in 1 .. k : x[j] <= y[j]) => Total(x) <= Total(y)}
  <1>1. 0 \in G
    <2>1. \A x \in [1 .. 0 -> Nat] : Total(x) = 0
      BY TotalZero
    <2> QED BY <2>1
  <1>2. ASSUME NEW k \in Nat, k \in G PROVE k + 1 \in G
    <2>0. k + 1 \in Nat
      OBVIOUS
    <2> SUFFICES ASSUME NEW x \in [1 .. k + 1 -> Nat], NEW y \in [1 .. k + 1 -> Nat],
                        \A j \in 1 .. k + 1 : x[j] <= y[j]
                 PROVE Total(x) <= Total(y)
      BY <2>0, Zenon
    <2>1. Pre(x, k) \in [1 .. k -> Nat] /\ Total(x) = Total(Pre(x, k)) + x[k + 1]
      BY TotalStep
    <2>2. Pre(y, k) \in [1 .. k -> Nat] /\ Total(y) = Total(Pre(y, k)) + y[k + 1]
      BY TotalStep
    <2>3. \A j \in 1 .. k : Pre(x, k)[j] <= Pre(y, k)[j]
      BY DEF Pre
    <2>4. Total(Pre(x, k)) <= Total(Pre(y, k))
      BY <1>2, <2>1, <2>2, <2>3
    <2>5. Total(Pre(x, k)) \in Nat /\ Total(Pre(y, k)) \in Nat
      BY <2>1, <2>2, TotalNat
    <2>6. x[k + 1] \in Nat /\ y[k + 1] \in Nat /\ x[k + 1] <= y[k + 1]
      OBVIOUS
    <2> QED BY <2>1, <2>2, <2>4, <2>5, <2>6
  <1>3. n \in G
    <2> HIDE DEF G
    <2> QED BY <1>1, <1>2, NatSetInduction
  <1> QED BY <1>3

(* Terms of 0 at the end do not count. *)
LEMMA TotalPrefix ==
    ASSUME NEW n \in Nat, NEW m \in 0 .. n, NEW u \in [1 .. n -> Nat],
           \A j \in m + 1 .. n : u[j] = 0
    PROVE  Total(u) = Total(Pre(u, m))
  <1> DEFINE G == {k \in Nat : \A x \in [1 .. m + k -> Nat] :
                                  (\A j \in m + 1 .. m + k : x[j] = 0) => Total(x) = Total(Pre(x, m))}
  <1>1. 0 \in G
    <2>1. ASSUME NEW x \in [1 .. m + 0 -> Nat] PROVE Total(x) = Total(Pre(x, m))
      <3>1. x = Pre(x, m)
        BY DEF Pre
      <3> QED BY <3>1
    <2> QED BY <2>1
  <1>2. ASSUME NEW k \in Nat, k \in G PROVE k + 1 \in G
    <2> SUFFICES ASSUME NEW x \in [1 .. m + (k + 1) -> Nat],
                        \A j \in m + 1 .. m + (k + 1) : x[j] = 0
                 PROVE Total(x) = Total(Pre(x, m))
      OBVIOUS
    <2> m + k \in Nat /\ (m + k) + 1 = m + (k + 1)
      OBVIOUS
    <2>1. Pre(x, m + k) \in [1 .. m + k -> Nat] /\ Total(x) = Total(Pre(x, m + k)) + x[(m + k) + 1]
      BY TotalStep
    <2>2. \A j \in m + 1 .. m + k : Pre(x, m + k)[j] = 0
      BY DEF Pre
    <2>3. Total(Pre(x, m + k)) = Total(Pre(Pre(x, m + k), m))
      BY <1>2, <2>1, <2>2
    <2>4. Pre(Pre(x, m + k), m) = Pre(x, m)
      BY DEF Pre
    <2>5. x[(m + k) + 1] = 0
      OBVIOUS
    <2>6. Total(Pre(x, m + k)) \in Nat
      BY <2>1, TotalNat
    <2> QED BY <2>1, <2>3, <2>4, <2>5, <2>6
  <1>3. n - m \in G
    <2> n - m \in Nat
      OBVIOUS
    <2> HIDE DEF G
    <2> QED BY <1>1, <1>2, NatSetInduction
  <1>4. m + (n - m) = n
    OBVIOUS
  <1> QED BY <1>3, <1>4

(* Replacing a term. *)
LEMMA TotalUpdate ==
    ASSUME NEW n \in Nat, NEW u \in [1 .. n -> Nat], NEW a \in 1 .. n, NEW x \in Nat
    PROVE  Total([u EXCEPT ![a] = x]) + u[a] = Total(u) + x
  <1> DEFINE Updates(k) == \A v \in [1 .. k -> Nat] : \A b \in 1 .. k :
                               Total([v EXCEPT ![b] = x]) + v[b] = Total(v) + x
             G == {k \in Nat : Updates(k)}
  <1>1. 0 \in G
    OBVIOUS
  <1>2. ASSUME NEW k \in Nat, k \in G PROVE k + 1 \in G
    <2> SUFFICES ASSUME NEW v \in [1 .. k + 1 -> Nat], NEW b \in 1 .. k + 1
                 PROVE Total([v EXCEPT ![b] = x]) + v[b] = Total(v) + x
      <3>1. Updates(k + 1)
        OBVIOUS
      <3> HIDE DEF Updates
      <3> QED BY <3>1
    <2> DEFINE w == [v EXCEPT ![b] = x]
    <2>0. w \in [1 .. k + 1 -> Nat]
      OBVIOUS
    <2>1. Pre(v, k) \in [1 .. k -> Nat] /\ Total(v) = Total(Pre(v, k)) + v[k + 1]
      BY TotalStep
    <2>2. Pre(w, k) \in [1 .. k -> Nat] /\ Total(w) = Total(Pre(w, k)) + w[k + 1]
      <3> HIDE DEF w
      <3> QED BY <2>0, TotalStep
    <2>3. Total(Pre(v, k)) \in Nat /\ Total(Pre(w, k)) \in Nat
      <3> HIDE DEF w
      <3> QED BY <2>1, <2>2, TotalNat
    <2>4. CASE b = k + 1
      <3>1. Pre(w, k) = Pre(v, k) /\ w[k + 1] = x
        BY <2>4 DEF Pre
      <3> HIDE DEF w
      <3>2. Total(w) + v[b] = Total(v) + x
        BY <2>1, <2>2, <2>3, <2>4, <3>1
      <3> QED BY <3>2 DEF w
    <2>5. CASE b \in 1 .. k
      <3>1. w[k + 1] = v[k + 1] /\ Pre(v, k)[b] = v[b] /\ v[b] \in Nat /\ v[k + 1] \in Nat
        BY <2>5 DEF Pre
      <3>4. Pre(w, k) = [Pre(v, k) EXCEPT ![b] = x]
        <4>1. \A j \in 1 .. k : w[j] = IF j = b THEN x ELSE v[j]
          OBVIOUS
        <4> HIDE DEF w
        <4>2. Pre(w, k) = [j \in 1 .. k |-> IF j = b THEN x ELSE v[j]]
          BY <4>1 DEF Pre
        <4>3. [Pre(v, k) EXCEPT ![b] = x] = [j \in 1 .. k |-> IF j = b THEN x ELSE v[j]]
          BY DEF Pre
        <4> QED BY <4>2, <4>3
      <3>2. Total([Pre(v, k) EXCEPT ![b] = x]) + Pre(v, k)[b] = Total(Pre(v, k)) + x
        BY <1>2, <2>1, <2>5
      <3> HIDE DEF w
      <3>5. Total(Pre(w, k)) + v[b] = Total(Pre(v, k)) + x
        BY <3>1, <3>2, <3>4, Zenon
      <3>6. Total(w) = Total(Pre(w, k)) + v[k + 1] /\ Total(v) = Total(Pre(v, k)) + v[k + 1]
        BY <2>1, <2>2, <3>1, Zenon
      <3>3. Total(w) + v[b] = Total(v) + x
        <4>2. Total(Pre(w, k)) \in Nat /\ Total(Pre(v, k)) \in Nat
          BY <2>3
        <4>3. v[b] \in Nat /\ v[k + 1] \in Nat
          BY <3>1
        <4>4. Total(Pre(w, k)) + v[b] = Total(Pre(v, k)) + x
          BY <3>5
        <4>1. (Total(Pre(w, k)) + v[k + 1]) + v[b] = (Total(Pre(v, k)) + v[k + 1]) + x
          <5>1. PICK p \in Nat : p = Total(Pre(w, k))
            BY <4>2
          <5>2. PICK r \in Nat : r = Total(Pre(v, k))
            BY <4>2
          <5>3. PICK c \in Nat : c = v[k + 1]
            BY <4>3
          <5>4. PICK y \in Nat : y = v[b]
            BY <4>3
          <5>5. p + y = r + x
            BY <4>4, <5>1, <5>2, <5>4
          <5>6. (p + c) + y = (r + c) + x
            BY <5>5
          <5> QED BY <5>1, <5>2, <5>3, <5>4, <5>6
        <4> QED BY <3>6, <4>1, Zenon
      <3> QED BY <3>3 DEF w
    <2> QED BY <2>4, <2>5
  <1>3. n \in G
    <2> HIDE DEF G
    <2> QED BY <1>1, <1>2, NatSetInduction
  <1> QED BY <1>3

(* Splitting off the last number of an interval. *)
LEMMA BelowTop ==
    ASSUME NEW k \in Nat, NEW x \in 1 .. k + 1, x # k + 1
    PROVE  x \in 1 .. k
  OBVIOUS

(* The order of the terms does not matter. *)
LEMMA TotalPermute ==
    ASSUME NEW n \in Nat, NEW u \in [1 .. n -> Nat], NEW f \in [1 .. n -> 1 .. n],
           \A a, b \in 1 .. n : f[a] = f[b] => a = b
    PROVE  Total([j \in 1 .. n |-> u[f[j]]]) = Total(u)
  <1> DEFINE G == {k \in Nat : \A v \in [1 .. k -> Nat] : \A g \in [1 .. k -> 1 .. k] :
                                  (\A a, b \in 1 .. k : g[a] = g[b] => a = b)
                                      => Total([j \in 1 .. k |-> v[g[j]]]) = Total(v)}
  <1>1. 0 \in G
    <2>1. \A x \in [1 .. 0 -> Nat] : Total(x) = 0
      BY TotalZero
    <2>2. ASSUME NEW v \in [1 .. 0 -> Nat], NEW g \in [1 .. 0 -> 1 .. 0]
          PROVE  Total([j \in 1 .. 0 |-> v[g[j]]]) = Total(v)
      <3>1. [j \in 1 .. 0 |-> v[g[j]]] \in [1 .. 0 -> Nat]
        OBVIOUS
      <3> QED BY <2>1, <3>1
    <2> QED BY <2>2
  <1>2. ASSUME NEW k \in Nat, k \in G PROVE k + 1 \in G
    <2>0. k + 1 \in Nat
      OBVIOUS
    <2> SUFFICES ASSUME NEW v \in [1 .. k + 1 -> Nat], NEW g \in [1 .. k + 1 -> 1 .. k + 1],
                        \A a, b \in 1 .. k + 1 : g[a] = g[b] => a = b
                 PROVE  Total([j \in 1 .. k + 1 |-> v[g[j]]]) = Total(v)
      BY <2>0, Zenon
    <2> DEFINE vg == [j \in 1 .. k + 1 |-> v[g[j]]]
               m == g[k + 1]
               h == [j \in 1 .. k |-> IF g[j] = k + 1 THEN m ELSE g[j]]
               w == [j \in 1 .. k |-> IF j = m THEN v[k + 1] ELSE v[j]]
               wh == [j \in 1 .. k |-> w[h[j]]]
    <2>k. k + 1 \in 1 .. k + 1
      OBVIOUS
    <2>m. m \in 1 .. k + 1
      BY <2>k
    <2>v. vg \in [1 .. k + 1 -> Nat] /\ vg[k + 1] = v[m]
      BY <2>k
    <2>1. m \in 1 .. k + 1 /\ vg \in [1 .. k + 1 -> Nat] /\ vg[k + 1] = v[m]
      BY <2>m, <2>v
    <2>2. w \in [1 .. k -> Nat]
      OBVIOUS
    <2>3. h \in [1 .. k -> 1 .. k]
      <3>1. ASSUME NEW j \in 1 .. k PROVE (IF g[j] = k + 1 THEN m ELSE g[j]) \in 1 .. k
        <4>1. j \in 1 .. k + 1 /\ k + 1 \in 1 .. k + 1 /\ j # k + 1
          OBVIOUS
        <4>2. g[j] \in 1 .. k + 1 /\ g[j] # m
          BY <4>1
        <4> HIDE DEF m
        <4>3. CASE g[j] = k + 1
          BY <2>m, <4>2, <4>3
        <4>4. CASE g[j] # k + 1
          BY <4>2, <4>4, BelowTop, Zenon
        <4> QED BY <4>3, <4>4
      <3> QED BY <3>1
    <2>4. ASSUME NEW a \in 1 .. k, NEW b \in 1 .. k, h[a] = h[b] PROVE a = b
      <3>1. a \in 1 .. k + 1 /\ b \in 1 .. k + 1 /\ k + 1 \in 1 .. k + 1 /\ a # k + 1 /\ b # k + 1
        OBVIOUS
      <3>2. g[a] # m /\ g[b] # m
        BY <3>1
      <3>3. g[a] = g[b]
        BY <2>4, <3>2
      <3> QED BY <3>1, <3>3
    <2>5. Total(wh) = Total(w)
      <3> HIDE DEF w, h
      <3> QED BY <1>2, <2>2, <2>3, <2>4
    <2>6. Pre(vg, k) = wh
      <3>1. ASSUME NEW j \in 1 .. k PROVE vg[j] = w[h[j]]
        <4>1. j \in 1 .. k + 1 /\ k + 1 \in 1 .. k + 1 /\ j # k + 1
          OBVIOUS
        <4>2. g[j] \in 1 .. k + 1 /\ g[j] # m
          BY <4>1
        <4>3. vg[j] = v[g[j]]
          BY <4>1
        <4>4. CASE g[j] = k + 1
          <5>1. h[j] = m
            BY <4>4
          <5>2. m \in 1 .. k
            <6>1. m \in 1 .. k + 1 /\ m # k + 1
              BY <2>1, <4>2, <4>4, Zenon
            <6> QED BY <6>1, BelowTop, Zenon
          <5> QED BY <4>3, <4>4, <5>1, <5>2
        <4>5. CASE g[j] # k + 1
          <5>1. h[j] = g[j]
            BY <4>5
          <5>2. g[j] \in 1 .. k
            BY <4>2, <4>5, BelowTop, Zenon
          <5> QED BY <4>2, <4>3, <5>1, <5>2
        <4> QED BY <4>4, <4>5
      <3> HIDE DEF vg, w, h
      <3> QED BY <3>1 DEF Pre
    <2>7. Total(vg) = Total(Pre(vg, k)) + vg[k + 1]
      <3> HIDE DEF vg
      <3> QED BY <2>1, TotalStep
    <2>8. Total(vg) = Total(w) + v[m]
      <3> HIDE DEF vg, w, wh, m
      <3> QED BY <2>1, <2>5, <2>6, <2>7
    <2>9. Pre(v, k) \in [1 .. k -> Nat] /\ Total(v) = Total(Pre(v, k)) + v[k + 1]
      BY TotalStep
    <2>10. CASE m = k + 1
      <3>1. w = Pre(v, k)
        BY <2>10 DEF Pre
      <3> HIDE DEF w, vg, m
      <3>2. Total(vg) = Total(v)
        BY <2>8, <2>9, <2>10, <3>1, Zenon
      <3> QED BY <3>2 DEF vg
    <2>11. CASE m \in 1 .. k
      <3>1. w = [Pre(v, k) EXCEPT ![m] = v[k + 1]]
        BY <2>11 DEF Pre
      <3>2. v[k + 1] \in Nat /\ Pre(v, k)[m] = v[m]
        BY <2>11 DEF Pre
      <3> HIDE DEF w, vg, m
      <3>3. Total([Pre(v, k) EXCEPT ![m] = v[k + 1]]) + Pre(v, k)[m] = Total(Pre(v, k)) + v[k + 1]
        <4>1. PICK p \in [1 .. k -> Nat] : p = Pre(v, k)
          BY <2>9
        <4>2. PICK x \in Nat : x = v[k + 1]
          BY <3>2
        <4>3. PICK a \in 1 .. k : a = m
          BY <2>11
        <4>4. Total([p EXCEPT ![a] = x]) + p[a] = Total(p) + x
          BY TotalUpdate
        <4> QED BY <4>1, <4>2, <4>3, <4>4, Zenon
      <3>4. Total(vg) = Total(v)
        BY <2>8, <2>9, <3>1, <3>2, <3>3, Zenon
      <3> QED BY <3>4 DEF vg
    <2> QED
      <3> HIDE DEF m, vg
      <3>1. m = k + 1 \/ m \in 1 .. k
        BY <2>1
      <3> QED BY <2>10, <2>11, <3>1 DEF vg
  <1>3. n \in G
    <2> HIDE DEF G
    <2> QED BY <1>1, <1>2, NatSetInduction
  <1> QED BY <1>3

(* The rearrangements of 1 .. n. *)
Perms(n) == {f \in [1 .. n -> 1 .. n] : \A a, b \in 1 .. n : f[a] = f[b] => a = b}

(* The parts that the order f puts behind m are 0. *)
Vanish(u, f, m, n) == \A j \in m + 1 .. n : u[f[j]] = 0

(* Only the first m places of an order count when the terms beyond them vanish. *)
LEMMA TotalFirst ==
    ASSUME NEW n \in Nat, NEW m \in 0 .. n, NEW u \in [1 .. n -> Nat], NEW f \in Perms(n),
           Vanish(u, f, m, n)
    PROVE  /\ [j \in 1 .. m |-> u[f[j]]] \in [1 .. m -> Nat]
           /\ Total(u) = Total([j \in 1 .. m |-> u[f[j]]])
  <1> DEFINE w == [j \in 1 .. n |-> u[f[j]]]
  <1>0. f \in [1 .. n -> 1 .. n] /\ \A a, b \in 1 .. n : f[a] = f[b] => a = b
    BY DEF Perms
  <1>1. w \in [1 .. n -> Nat]
    BY <1>0
  <1>2. Total(w) = Total(u)
    BY <1>0, TotalPermute
  <1>3. \A j \in m + 1 .. n : w[j] = 0
    BY DEF Vanish
  <1>4. Pre(w, m) = [j \in 1 .. m |-> u[f[j]]]
    BY DEF Pre
  <1>6. [j \in 1 .. m |-> u[f[j]]] \in [1 .. m -> Nat]
    BY <1>0
  <1> HIDE DEF w
  <1>5. Total(w) = Total(Pre(w, m))
    BY <1>1, <1>3, TotalPrefix
  <1> QED BY <1>2, <1>4, <1>5, <1>6, Zenon

(* A total is bounded by a total over some of its parts, taken in any order, when the parts
   left out are 0: the way the bounds of the first terms of the WAND order bound a score. *)
LEMMA TotalBound ==
    ASSUME NEW n \in Nat, NEW m \in 0 .. n, NEW u \in [1 .. n -> Nat], NEW f \in Perms(n),
           NEW v \in [1 .. m -> Nat],
           \A j \in 1 .. m : u[f[j]] <= v[j],
           Vanish(u, f, m, n)
    PROVE  Total(u) <= Total(v)
  <1> DEFINE w == [j \in 1 .. m |-> u[f[j]]]
  <1>1. w \in [1 .. m -> Nat] /\ Total(u) = Total(w)
    BY TotalFirst
  <1>2. \A j \in 1 .. m : w[j] <= v[j]
    OBVIOUS
  <1> HIDE DEF w
  <1>3. Total(w) <= Total(v)
    BY <1>1, <1>2, TotalLeq, m \in Nat
  <1> QED BY <1>1, <1>3

(* The same with equality: a document is scored from the terms on it, in their order. *)
LEMMA TotalEqual ==
    ASSUME NEW n \in Nat, NEW m \in 0 .. n, NEW u \in [1 .. n -> Nat], NEW f \in Perms(n),
           NEW v \in [1 .. m -> Nat],
           \A j \in 1 .. m : v[j] = u[f[j]],
           Vanish(u, f, m, n)
    PROVE  Total(u) = Total(v)
  <1>1. Total(u) = Total([j \in 1 .. m |-> u[f[j]]])
    BY TotalFirst
  <1>2. v = [j \in 1 .. m |-> u[f[j]]]
    OBVIOUS
  <1> QED BY <1>1, <1>2, Zenon

-----------------------------------------------------------------------------
(* Counting and sorting *)

(* A one-to-one function does not lose elements. *)
LEMMA OneToOneCard ==
    ASSUME NEW S, NEW T, IsFiniteSet(T), NEW f \in [S -> T], \A a, b \in S : f[a] = f[b] => a = b
    PROVE  IsFiniteSet(S) /\ Cardinality(S) <= Cardinality(T)
  <1>1. f \in Injection(S, T)
    BY DEF Injection, IsInjective
  <1> QED BY <1>1, FS_Injection

(* A one-to-one function onto a set counts it. *)
LEMMA OntoCard ==
    ASSUME NEW S, NEW T, IsFiniteSet(S), NEW f \in [S -> T], \A a, b \in S : f[a] = f[b] => a = b,
           \A y \in T : \E x \in S : f[x] = y
    PROVE  IsFiniteSet(T) /\ Cardinality(T) = Cardinality(S)
  <1>1. f \in Injection(S, T)
    BY DEF Injection, IsInjective
  <1>2. f \in Surjection(S, T)
    BY DEF Surjection
  <1> QED BY <1>1, <1>2, FS_Surjection

(* 1 .. n has n elements. *)
LEMMA IntervalCard ==
    ASSUME NEW n \in Nat
    PROVE  IsFiniteSet(1 .. n) /\ Cardinality(1 .. n) = n
  BY FS_Interval

(* A rearrangement reaches every position. *)
LEMMA PermOnto ==
    ASSUME NEW n \in Nat, NEW f \in Perms(n)
    PROVE  \A x \in 1 .. n : \E j \in 1 .. n : f[j] = x
  <1>1. f \in Injection(1 .. n, 1 .. n)
    BY DEF Perms, Injection, IsInjective
  <1>2. f \in Surjection(1 .. n, 1 .. n)
    BY <1>1, IntervalCard, FS_Injection
  <1> QED BY <1>2 DEF Surjection

(* t is s rearranged. *)
Rearranged(s, t, n) == \E f \in Perms(n) : \A j \in 1 .. n : t[j] = s[f[j]]

Among(s, n, L) == {j \in 1 .. n : s[j] \in L}

(* Rearranging a sequence does not change how many of its elements are in a set. *)
LEMMA RearrangedCard ==
    ASSUME NEW n \in Nat, NEW s, NEW t, Rearranged(s, t, n), NEW L
    PROVE  Cardinality(Among(t, n, L)) = Cardinality(Among(s, n, L))
  <1>p. PICK f \in Perms(n) : \A j \in 1 .. n : t[j] = s[f[j]]
    BY DEF Rearranged
  <1> DEFINE A == {j \in 1 .. n : t[j] \in L}
             B == {j \in 1 .. n : s[j] \in L}
             g == [j \in A |-> f[j]]
  <1>0. f \in [1 .. n -> 1 .. n] /\ \A a, b \in 1 .. n : f[a] = f[b] => a = b
    BY <1>p DEF Perms
  <1>1. IsFiniteSet(A)
    <2>1. A \in SUBSET (1 .. n)
      OBVIOUS
    <2> HIDE DEF A
    <2> QED BY <2>1, IntervalCard, FS_Subset
  <1>2. g \in [A -> B]
    <2>1. ASSUME NEW j \in A PROVE f[j] \in B
      BY <1>0, <1>p
    <2> QED BY <2>1
  <1>3. \A a, b \in A : g[a] = g[b] => a = b
    BY <1>0
  <1>4. ASSUME NEW y \in B PROVE \E x \in A : g[x] = y
    <2>1. PICK x \in 1 .. n : f[x] = y
      BY PermOnto
    <2>2. x \in A
      BY <1>p, <2>1
    <2> QED BY <2>1, <2>2
  <1>5. Cardinality(B) = Cardinality(A)
    <2> HIDE DEF A, B, g
    <2> QED BY <1>1, <1>2, <1>3, <1>4, OntoCard
  <1> QED BY <1>5 DEF Among

(* rel orders S strictly and totally. *)
Orders(rel, S) ==
    /\ \A x \in S : <<x, x>> \notin rel
    /\ \A x, y, z \in S : <<x, y>> \in rel /\ <<y, z>> \in rel => <<x, z>> \in rel
    /\ \A x, y \in S : x = y \/ <<x, y>> \in rel \/ <<y, x>> \in rel

Below(S, rel, x) == {y \in S : <<y, x>> \in rel}

(* What Sorted returns, for an order that is given as a relation. *)
Lists(seq, S, rel) ==
    /\ seq = [n \in 1 .. Cardinality(S) |-> seq[n]]
    /\ \A n \in 1 .. Cardinality(S) :
          (\E x \in S : Cardinality(Below(S, rel, x)) = n - 1)
              => seq[n] \in S /\ Cardinality(Below(S, rel, seq[n])) = n - 1

(* In a strict order the number of smaller elements places an element. *)
LEMMA BelowCard ==
    ASSUME NEW S, IsFiniteSet(S), NEW rel, Orders(rel, S)
    PROVE  /\ \A x \in S : Cardinality(Below(S, rel, x)) \in 0 .. Cardinality(S) - 1
           /\ \A x, y \in S : <<x, y>> \in rel => Cardinality(Below(S, rel, x)) < Cardinality(Below(S, rel, y))
  <1>0. Cardinality(S) \in Nat
    BY FS_CardinalityType
  <1>1. ASSUME NEW x \in S
        PROVE  IsFiniteSet(Below(S, rel, x)) /\ Cardinality(Below(S, rel, x)) \in 0 .. Cardinality(S) - 1
    <2>1. Below(S, rel, x) \in SUBSET (S \ {x})
      BY DEF Below, Orders
    <2>2. IsFiniteSet(S \ {x}) /\ Cardinality(S \ {x}) = Cardinality(S) - 1
      BY FS_RemoveElement
    <2>3. IsFiniteSet(Below(S, rel, x)) /\ Cardinality(Below(S, rel, x)) <= Cardinality(S \ {x})
      BY <2>1, <2>2, FS_Subset
    <2>4. Cardinality(Below(S, rel, x)) \in Nat
      BY <2>3, FS_CardinalityType
    <2> QED BY <1>0, <2>2, <2>3, <2>4
  <1>2. ASSUME NEW x \in S, NEW y \in S, <<x, y>> \in rel
        PROVE  Cardinality(Below(S, rel, x)) < Cardinality(Below(S, rel, y))
    <2>1. x \notin Below(S, rel, x) /\ Below(S, rel, x) \cup {x} \in SUBSET Below(S, rel, y)
      BY <1>2 DEF Below, Orders
    <2>2. Cardinality(Below(S, rel, x) \cup {x}) = Cardinality(Below(S, rel, x)) + 1
      BY <1>1, <2>1, FS_AddElement
    <2>3. Cardinality(Below(S, rel, x) \cup {x}) <= Cardinality(Below(S, rel, y))
      BY <1>1, <2>1, FS_Subset
    <2>4. Cardinality(Below(S, rel, x)) \in Nat /\ Cardinality(Below(S, rel, y)) \in Nat
      BY <1>0, <1>1
    <2> QED BY <2>2, <2>3, <2>4
  <1> QED BY <1>1, <1>2

(* A listing of a set along an order is sorted and complete: what Sorted gives. *)
LEMMA ListingSorts ==
    ASSUME NEW S, IsFiniteSet(S), NEW rel, Orders(rel, S), NEW seq, Lists(seq, S, rel)
    PROVE  /\ Cardinality(S) \in Nat
           /\ seq \in [1 .. Cardinality(S) -> S]
           /\ \A a, b \in 1 .. Cardinality(S) : a < b => <<seq[a], seq[b]>> \in rel
           /\ \A x \in S : \E n \in 1 .. Cardinality(S) : seq[n] = x
  <1> DEFINE c == Cardinality(S)
             card(x) == Cardinality(Below(S, rel, x))
             rank == [x \in S |-> card(x) + 1]
  <1>1. c \in Nat
    BY FS_CardinalityType
  <1>2. \A x \in S : card(x) \in 0 .. c - 1
    BY BelowCard
  <1>3. \A x, y \in S : <<x, y>> \in rel => card(x) < card(y)
    BY BelowCard
  <1> HIDE DEF c, card
  <1>4. rank \in [S -> 1 .. c]
    <2>1. \A x \in S : card(x) + 1 \in 1 .. c
      BY <1>1, <1>2
    <2> QED BY <2>1
  <1>5. \A x, y \in S : rank[x] = rank[y] => x = y
    <2>1. ASSUME NEW x \in S, NEW y \in S, x # y PROVE card(x) + 1 # card(y) + 1
      <3>1. card(x) \in 0 .. c - 1 /\ card(y) \in 0 .. c - 1
        BY <1>2
      <3>2. card(x) < card(y) \/ card(y) < card(x)
        BY <1>3, <2>1 DEF Orders
      <3> QED BY <1>1, <3>1, <3>2
    <2> QED BY <2>1
  <1>6. \A n \in 1 .. c : \E x \in S : card(x) = n - 1
    <2>1. rank \in Injection(S, 1 .. c)
      <3> HIDE DEF rank
      <3> QED BY <1>4, <1>5 DEF Injection, IsInjective
    <2>2. rank \in Surjection(S, 1 .. c)
      <3> HIDE DEF rank
      <3> QED BY <1>1, <2>1, IntervalCard, FS_Injection DEF c
    <2>3. ASSUME NEW n \in 1 .. c PROVE \E x \in S : card(x) = n - 1
      <3>1. PICK x \in S : rank[x] = n
        BY <2>2 DEF Surjection
      <3>2. card(x) \in 0 .. c - 1
        BY <1>2
      <3> QED BY <1>1, <3>1, <3>2
    <2> QED BY <2>3
  <1>7. ASSUME NEW n \in 1 .. c PROVE seq[n] \in S /\ card(seq[n]) = n - 1
    <2>1. (\E x \in S : card(x) = n - 1) => seq[n] \in S /\ card(seq[n]) = n - 1
      BY DEF Lists, card, c
    <2> QED BY <1>6, <2>1
  <1>8. seq \in [1 .. c -> S]
    <2>1. seq = [n \in 1 .. c |-> seq[n]]
      BY DEF Lists, c
    <2> QED BY <1>7, <2>1
  <1>9. ASSUME NEW a \in 1 .. c, NEW b \in 1 .. c, a < b PROVE <<seq[a], seq[b]>> \in rel
    <2>1. seq[a] \in S /\ seq[b] \in S /\ card(seq[a]) = a - 1 /\ card(seq[b]) = b - 1
      BY <1>7
    <2>2. PICK x \in S, y \in S : x = seq[a] /\ y = seq[b]
      BY <2>1
    <2>3. card(x) \in Int /\ card(y) \in Int /\ card(x) < card(y)
      BY <1>1, <1>9, <2>1, <2>2
    <2>4. x # y /\ ~(<<y, x>> \in rel)
      BY <1>3, <2>3
    <2>5. <<x, y>> \in rel
      BY <2>4 DEF Orders
    <2> QED BY <2>2, <2>5
  <1>10. ASSUME NEW x \in S PROVE \E n \in 1 .. c : seq[n] = x
    <2> DEFINE n == card(x) + 1
    <2>1. n \in 1 .. c /\ card(x) \in Int
      BY <1>1, <1>2
    <2>2. seq[n] \in S /\ card(seq[n]) = n - 1
      BY <1>7, <2>1
    <2>3. rank[seq[n]] = rank[x]
      <3>1. card(seq[n]) = card(x)
        BY <2>1, <2>2
      <3> HIDE DEF n
      <3> QED BY <2>2, <3>1
    <2>4. seq[n] = x
      <3> HIDE DEF n, rank
      <3> QED BY <1>5, <2>2, <2>3
    <2> QED BY <2>1, <2>4
  <1> QED BY <1>1, <1>8, <1>9, <1>10 DEF c

-----------------------------------------------------------------------------
(* Blocks of a posting list *)

(* Multiplying keeps the order. *)
LEMMA MulMono ==
    ASSUME NEW a \in Nat, NEW b \in Nat, NEW m \in Nat, a <= b
    PROVE  a * m \in Nat /\ b * m \in Nat /\ a * m <= b * m
  OBVIOUS

(* One more multiple. *)
LEMMA MulNext ==
    ASSUME NEW a \in Nat, NEW m \in Nat
    PROVE  (a + 1) * m = a * m + m /\ a * m \in Nat
  OBVIOUS

(* Division with remainder, as the block number of a posting. *)
LEMMA DivBounds ==
    ASSUME NEW x \in Nat, NEW m \in Nat \ {0}
    PROVE  x \div m \in Nat /\ (x \div m) * m <= x /\ x < (x \div m) * m + m
  OBVIOUS

(* Block b exists when it starts before the end of the list. *)
LEMMA BlockCount ==
    ASSUME NEW n \in Nat \ {0}, NEW m \in Nat \ {0}
    PROVE  /\ (n + m - 1) \div m \in Nat \ {0}
           /\ \A b \in Nat : b < (n + m - 1) \div m <=> b * m < n
  <1> DEFINE q == (n + m - 1) \div m
  <1>1. q \in Nat /\ q * m <= n + m - 1 /\ n + m - 1 < q * m + m
    <2>1. PICK x \in Nat : x = n + m - 1
      OBVIOUS
    <2>2. x \div m \in Nat /\ (x \div m) * m <= x /\ x < (x \div m) * m + m
      BY DivBounds
    <2> QED BY <2>1, <2>2
  <1> HIDE DEF q
  <1>2. ASSUME NEW b \in Nat, b < q PROVE b * m < n
    <2>1. (b + 1) * m <= q * m /\ (b + 1) * m = b * m + m /\ b * m \in Nat /\ q * m \in Nat
      BY <1>1, <1>2, MulMono, MulNext
    <2> QED BY <1>1, <2>1
  <1>3. ASSUME NEW b \in Nat, b >= q PROVE b * m >= n
    <2>1. q * m <= b * m /\ b * m \in Nat /\ q * m \in Nat
      BY <1>1, <1>3, MulMono
    <2> QED BY <1>1, <2>1
  <1>4. q # 0
    <2> SUFFICES ASSUME q = 0 PROVE FALSE
      OBVIOUS
    <2>1. 0 * m >= n
      BY <1>3
    <2> QED BY <2>1
  <1>5. \A b \in Nat : b < q <=> b * m < n
    <2> SUFFICES ASSUME NEW b \in Nat PROVE b < q <=> b * m < n
      OBVIOUS
    <2>1. b * m \in Nat
      BY MulMono
    <2>2. CASE b < q
      BY <1>2, <2>2
    <2>3. CASE b >= q
      BY <1>1, <1>3, <2>1, <2>3
    <2> QED BY <1>1, <2>2, <2>3
  <1> QED BY <1>1, <1>4, <1>5 DEF q

(* Where block b of a list starts and how long it is. *)
LEMMA BlockShape ==
    ASSUME NEW P, NEW L \in Seq(P), L # << >>
    PROVE  /\ num_blocks(L) \in Nat \ {0}
           /\ \A b \in 0 .. num_blocks(L) - 1 :
                /\ b * TP_BLOCK_SIZE \in Nat /\ b * TP_BLOCK_SIZE < Len(L)
                /\ Block(L, b) \in Seq(P)
                /\ Len(Block(L, b)) \in 1 .. TP_BLOCK_SIZE
                /\ b * TP_BLOCK_SIZE + Len(Block(L, b)) <= Len(L)
                /\ b < num_blocks(L) - 1 => Len(Block(L, b)) = TP_BLOCK_SIZE
                /\ b = num_blocks(L) - 1 => b * TP_BLOCK_SIZE + Len(Block(L, b)) = Len(L)
                /\ \A x \in 1 .. Len(Block(L, b)) : Block(L, b)[x] = L[b * TP_BLOCK_SIZE + x]
  <1> DEFINE n == Len(L)
             m == TP_BLOCK_SIZE
  <1>1. n \in Nat \ {0} /\ m \in Nat \ {0}
    BY BlockSizeAssumption
  <1>2. num_blocks(L) \in Nat \ {0} /\ \A b \in Nat : b < num_blocks(L) <=> b * m < n
    <2>1. num_blocks(L) = (n + m - 1) \div m
      BY DEF num_blocks
    <2> HIDE DEF n, m
    <2> QED BY <1>1, <2>1, BlockCount
  <1>3. ASSUME NEW b \in 0 .. num_blocks(L) - 1
        PROVE  /\ b * m \in Nat /\ b * m < n
               /\ Block(L, b) \in Seq(P)
               /\ Len(Block(L, b)) \in 1 .. m
               /\ b * m + Len(Block(L, b)) <= n
               /\ b < num_blocks(L) - 1 => Len(Block(L, b)) = m
               /\ b = num_blocks(L) - 1 => b * m + Len(Block(L, b)) = n
               /\ \A x \in 1 .. Len(Block(L, b)) : Block(L, b)[x] = L[b * m + x]
    <2>1. b \in Nat /\ b + 1 \in Nat /\ b < num_blocks(L)
      BY <1>2
    <2>2. b * m \in Nat /\ b * m < n /\ (b + 1) * m = b * m + m
      BY <1>1, <1>2, <2>1, MulNext
    <2>3. PICK s \in Nat : s = b * m
      BY <2>2
    <2>4. b + 1 < num_blocks(L) <=> s + m < n
      BY <1>2, <2>1, <2>2, <2>3
    <2> DEFINE e == IF s + m < n THEN s + m ELSE n
    <2>5. e \in Nat /\ s + 1 <= e /\ e <= n /\ e <= s + m
      BY <1>1, <2>2, <2>3
    <2>6. Block(L, b) = SubSeq(L, s + 1, e)
      BY <2>2, <2>3 DEF Block
    <2> HIDE DEF e
    <2>7. SubSeq(L, s + 1, e) = [x \in 1 .. e - s |-> L[s + x]]
      <3>1. SubSeq(L, s + 1, e) = [x \in 1 .. e - (s + 1) + 1 |-> L[x + (s + 1) - 1]]
        BY <1>1, <2>5
      <3>2. e - (s + 1) + 1 = e - s /\ \A x \in Nat : x + (s + 1) - 1 = s + x
        BY <2>5
      <3> QED BY <3>1, <3>2
    <2>8. \A x \in 1 .. e - s : s + x \in 1 .. n
      BY <2>5
    <2>9. SubSeq(L, s + 1, e) \in Seq(P) /\ Len(SubSeq(L, s + 1, e)) = e - s
      BY <2>5, <2>7, <2>8
    <2>10. e - s \in 1 .. m /\ s + (e - s) <= n
      BY <1>1, <2>5
    <2>11. b < num_blocks(L) - 1 => e - s = m
      BY <1>1, <1>2, <2>1, <2>4 DEF e
    <2>12. b = num_blocks(L) - 1 => s + (e - s) = n
      BY <1>1, <1>2, <2>1, <2>4 DEF e
    <2>13. \A x \in 1 .. e - s : SubSeq(L, s + 1, e)[x] = L[s + x]
      BY <2>7
    <2> QED BY <2>2, <2>3, <2>6, <2>9, <2>10, <2>11, <2>12, <2>13
  <1> QED BY <1>2, <1>3

Posting == [doc : Nat, frequency : Nat \ {0}, norm : DOMAIN FieldNormTable]

PostingList == {L \in Seq(Posting) : L # << >> /\ \A a, b \in 1 .. Len(L) : a < b => L[a].doc < L[b].doc}

(* Every posting is in one block, and the blocks go through the list in order. *)
LEMMA BlockPlaces ==
    ASSUME NEW L \in PostingList
    PROVE  /\ num_blocks(L) \in Nat \ {0}
           /\ \A b \in 0 .. num_blocks(L) - 1 : /\ Block(L, b) \in Seq(Posting)
                                                /\ Len(Block(L, b)) \in Nat \ {0}
                                                /\ Len(Block(L, b)) <= TP_BLOCK_SIZE
           /\ \A b \in 0 .. num_blocks(L) - 1 : \A x \in 1 .. Len(Block(L, b)) :
                 \E n \in 1 .. Len(L) : Block(L, b)[x] = L[n]
           /\ \A n \in 1 .. Len(L) : \E b \in 0 .. num_blocks(L) - 1 : \E x \in 1 .. Len(Block(L, b)) :
                 Block(L, b)[x] = L[n]
           /\ \A b, c \in 0 .. num_blocks(L) - 1 :
                 \A x \in 1 .. Len(Block(L, b)), y \in 1 .. Len(Block(L, c)) :
                     b < c \/ (b = c /\ x < y) => Block(L, b)[x].doc < Block(L, c)[y].doc
  <1> DEFINE m == TP_BLOCK_SIZE
             nb == num_blocks(L)
             len(b) == Len(Block(L, b))
  <1>0. L \in Seq(Posting) /\ L # << >> /\ \A a, b \in 1 .. Len(L) : a < b => L[a].doc < L[b].doc
    BY DEF PostingList
  <1>1. nb \in Nat \ {0} /\ m \in Nat \ {0} /\ Len(L) \in Nat
    BY <1>0, BlockShape, BlockSizeAssumption
  <1>2. \A b \in 0 .. nb - 1 :
                /\ b * m \in Nat /\ b * m < Len(L)
                /\ Block(L, b) \in Seq(Posting)
                /\ len(b) \in 1 .. m
                /\ b * m + len(b) <= Len(L)
                /\ b < nb - 1 => len(b) = m
                /\ b = nb - 1 => b * m + len(b) = Len(L)
                /\ \A x \in 1 .. len(b) : Block(L, b)[x] = L[b * m + x]
    BY <1>0, BlockShape
  <1>c. \A b \in Nat : b < nb <=> b * m < Len(L)
    <2>1. Len(L) \in Nat \ {0} /\ nb = (Len(L) + m - 1) \div m
      BY <1>0 DEF num_blocks
    <2> HIDE DEF m, nb
    <2> QED BY <1>1, <2>1, BlockCount
  <1> HIDE DEF m, nb, len
  <1>3. ASSUME NEW b \in 0 .. nb - 1, NEW x \in 1 .. len(b)
        PROVE  b * m + x \in 1 .. Len(L) /\ Block(L, b)[x] = L[b * m + x]
    BY <1>1, <1>2
  <1>4. ASSUME NEW n \in 1 .. Len(L)
        PROVE  \E b \in 0 .. nb - 1 : \E x \in 1 .. len(b) : Block(L, b)[x] = L[n]
    <2> DEFINE b == (n - 1) \div m
               x == n - b * m
    <2>1. b \in Nat /\ b * m <= n - 1 /\ n - 1 < b * m + m
      BY <1>1, DivBounds
    <2>2. b * m \in Nat
      BY <1>1, <2>1, MulMono
    <2> HIDE DEF b
    <2>3. b \in 0 .. nb - 1
      <3>1. b * m < Len(L)
        BY <1>1, <2>1, <2>2
      <3> QED BY <1>1, <1>c, <2>1, <3>1
    <2>4. x \in 1 .. m /\ b * m + x = n
      BY <1>1, <2>1, <2>2
    <2> HIDE DEF x
    <2>5. x \in 1 .. len(b)
      <3>1. CASE b < nb - 1
        BY <1>2, <2>3, <2>4, <3>1
      <3>2. CASE b = nb - 1
        <4>1. b * m + len(b) = Len(L) /\ len(b) \in 1 .. m
          BY <1>2, <2>3, <3>2
        <4> QED BY <1>1, <2>2, <2>4, <4>1
      <3> QED BY <1>1, <2>3, <3>1, <3>2
    <2> QED BY <1>2, <2>3, <2>4, <2>5
  <1>5. ASSUME NEW b \in 0 .. nb - 1, NEW c \in 0 .. nb - 1, NEW x \in 1 .. len(b), NEW y \in 1 .. len(c),
               b < c \/ (b = c /\ x < y)
        PROVE  Block(L, b)[x].doc < Block(L, c)[y].doc
    <2>1. /\ b * m + x \in 1 .. Len(L) /\ Block(L, b)[x] = L[b * m + x]
          /\ c * m + y \in 1 .. Len(L) /\ Block(L, c)[y] = L[c * m + y]
      BY <1>3
    <2>2. b * m \in Nat /\ c * m \in Nat /\ len(b) \in 1 .. m
      BY <1>2
    <2>3. b * m + x < c * m + y
      <3>1. CASE b < c
        <4>1. (b + 1) * m <= c * m /\ (b + 1) * m = b * m + m
          BY <1>1, <3>1, MulMono, MulNext
        <4> QED BY <1>1, <2>2, <4>1
      <3>2. CASE b = c /\ x < y
        BY <2>2, <3>2
      <3> QED BY <1>5, <3>1, <3>2
    <2> QED BY <1>0, <2>1, <2>3
  <1>6. \A b \in 0 .. nb - 1 : Block(L, b) \in Seq(Posting) /\ len(b) \in Nat \ {0} /\ len(b) <= m
    BY <1>1, <1>2
  <1>7. \A b \in 0 .. nb - 1 : \A x \in 1 .. len(b) : \E n \in 1 .. Len(L) : Block(L, b)[x] = L[n]
    BY <1>3
  <1> QED BY <1>1, <1>4, <1>5, <1>6, <1>7 DEF m, nb, len

(* What a skip entry says about its block; tenant is the tenant map of the segment. *)
EntryOK(e, blk, tenant) ==
    /\ e.doc_count = Len(blk)
    /\ e.last_doc_id \in Nat
    /\ \E x \in 1 .. Len(blk) : blk[x].doc = e.last_doc_id
    /\ \A x \in 1 .. Len(blk) : blk[x].doc <= e.last_doc_id
    /\ e.block_max_tf \in Nat \ {0} /\ e.block_max_norm \in DOMAIN FieldNormTable
    /\ e.mode = "single" => \A x \in 1 .. Len(blk) : tenant[blk[x].doc + 1] % 65536 = e.low16

(* A number that is neither 0 nor more than 1. *)
LEMMA OneLeft ==
    ASSUME NEW c \in Nat, c # 0, ~(c > 1)
    PROVE  c = 1
  OBVIOUS

(* The skip entry written for a block describes the postings of that block: count, last
   document, tenant mode. *)
LEMMA SkipEntryOK ==
    ASSUME NEW blk \in Seq(Posting), Len(blk) \in Nat \ {0}, NEW tenant, NEW num \in Nat,
           NEW tenant_of \in [0 .. num - 1 -> Nat],
           \A x \in 1 .. Len(blk) : blk[x].doc \in 0 .. num - 1,
           \/ \A d \in 0 .. num - 1 : tenant_of[d] = tenant[d + 1]
           \/ \A d \in 0 .. num - 1 : tenant_of[d] = 0
    PROVE  EntryOK(SkipEntry(blk, tenant_of), blk, tenant)
  <1> DEFINE n == Len(blk)
             docs == [x \in 1 .. n |-> blk[x].doc]
             tfs == [x \in 1 .. n |-> blk[x].frequency]
             norms == [x \in 1 .. n |-> blk[x].norm]
             tids == {tenant_of[blk[j].doc] : j \in DOMAIN blk}
             e == SkipEntry(blk, tenant_of)
             D == {docs[j] : j \in 1 .. n}
             F == {tfs[j] : j \in 1 .. n}
             N == {norms[j] : j \in 1 .. n}
  <1>1. n \in Nat \ {0} /\ DOMAIN blk = 1 .. n
    OBVIOUS
  <1>2. \A x \in 1 .. n : blk[x] \in Posting
    OBVIOUS
  <1>3. \A x \in 1 .. n : docs[x] \in Nat /\ tfs[x] \in Nat \ {0} /\ norms[x] \in DOMAIN FieldNormTable
    BY <1>2 DEF Posting
  <1>n. DOMAIN FieldNormTable \subseteq Nat
    BY FieldNormAssumption
  <1>4. /\ {blk[j].doc : j \in DOMAIN blk} = {docs[j] : j \in 1 .. n}
        /\ {blk[j].frequency : j \in DOMAIN blk} = {tfs[j] : j \in 1 .. n}
        /\ {blk[j].norm : j \in DOMAIN blk} = {norms[j] : j \in 1 .. n}
    BY <1>1
  <1>5. /\ e.doc_count = n
        /\ e.last_doc_id = Max(D)
        /\ e.block_max_tf = Max(F)
        /\ e.block_max_norm = Max(N)
        /\ e.mode = tenant_mode(tids)
        /\ e.low16 = IF tenant_mode(tids) = "single" THEN (CHOOSE x \in tids : TRUE) % 65536 ELSE 0
    <2> DEFINE low == IF tenant_mode(tids) = "single" THEN (CHOOSE x \in tids : TRUE) % 65536 ELSE 0
               D0 == {blk[j].doc : j \in DOMAIN blk}
               F0 == {blk[j].frequency : j \in DOMAIN blk}
               N0 == {blk[j].norm : j \in DOMAIN blk}
    <2>1. e = [last_doc_id |-> Max(D0), doc_count |-> n, block_max_tf |-> Max(F0), block_max_norm |-> Max(N0),
               mode |-> tenant_mode(tids), low16 |-> low]
      BY DEF SkipEntry
    <2>2. D = D0 /\ F = F0 /\ N = N0
      BY <1>4
    <2> HIDE DEF docs, tfs, norms, e, D, F, N, D0, F0, N0, low, tids, n
    <2>3. /\ e.doc_count = n /\ e.last_doc_id = Max(D0) /\ e.block_max_tf = Max(F0)
          /\ e.block_max_norm = Max(N0) /\ e.mode = tenant_mode(tids) /\ e.low16 = low
      BY <2>1
    <2> QED BY <2>2, <2>3 DEF low
  <1>d. \A x \in 1 .. n : docs[x] = blk[x].doc
    OBVIOUS
  <1> HIDE DEF docs, tfs, norms, e, n, D, F, N
  <1>6. e.last_doc_id \in D /\ e.last_doc_id \in Nat
        /\ \A j \in 1 .. n : docs[j] <= e.last_doc_id
    <2>1. \A j \in 1 .. n : docs[j] \in Nat
      BY <1>3
    <2>2. /\ Max(D) \in D
          /\ Max(D) \in Nat
          /\ \A j \in 1 .. n : docs[j] <= Max(D)
      BY <1>1, <2>1, MaxOf DEF D, F, N
    <2> QED BY <1>5, <2>2
  <1>7. e.block_max_tf \in F
    <2>1. \A j \in 1 .. n : tfs[j] \in Nat
      BY <1>3
    <2>2. Max(F) \in F
      BY <1>1, <2>1, MaxOf DEF D, F, N
    <2> QED BY <1>5, <2>2
  <1>8. e.block_max_norm \in N
    <2>1. \A j \in 1 .. n : norms[j] \in Nat
      BY <1>3, <1>n
    <2>2. Max(N) \in N
      BY <1>1, <2>1, MaxOf DEF D, F, N
    <2> QED BY <1>5, <2>2
  <1>9. ASSUME e.mode = "single", NEW x \in 1 .. n
        PROVE  tenant[blk[x].doc + 1] % 65536 = e.low16
    <2>1. tids # {0} /\ ~(Cardinality(tids) > 1)
      <3>1. tenant_mode(tids) = "single"
        BY <1>5, <1>9
      <3> HIDE DEF tids
      <3> QED BY <3>1 DEF tenant_mode
    <2>2. tenant_of[blk[x].doc] \in tids
      BY <1>1
    <2>3. ASSUME \A d \in 0 .. num - 1 : tenant_of[d] = 0 PROVE FALSE
      <3>1. tids \subseteq {0}
        BY <1>1, <2>3 DEF n
      <3> QED BY <2>1, <2>2, <3>1
    <2>4. tenant_of[blk[x].doc] = tenant[blk[x].doc + 1]
      BY <2>3 DEF n
    <2>5. IsFiniteSet(tids)
      <3> DEFINE f == [j \in 1 .. n |-> tenant_of[blk[j].doc]]
      <3>1. f \in Surjection(1 .. n, tids)
        BY <1>1 DEF Surjection
      <3> HIDE DEF f, tids
      <3> QED BY <1>1, <3>1, IntervalCard, FS_Surjection
    <2>6. Cardinality(tids) = 1
      <3> HIDE DEF tids
      <3>1. Cardinality(tids) \in Nat /\ Cardinality(tids) # 0
        BY <2>2, <2>5, FS_CardinalityType, FS_EmptySet
      <3>2. ~(Cardinality(tids) > 1)
        BY <2>1, Zenon
      <3> QED BY <3>1, <3>2, OneLeft, Zenon
    <2>7. PICK t : tids = {t}
      <3> HIDE DEF tids
      <3> QED BY <2>5, <2>6, FS_Singleton
    <2>8. tenant_of[blk[x].doc] = t /\ (CHOOSE y \in tids : TRUE) = t
      <3> HIDE DEF tids
      <3> QED BY <2>2, <2>7
    <2>9. e.low16 = (CHOOSE y \in tids : TRUE) % 65536
      BY <1>5, <1>9
    <2>10. (CHOOSE y \in tids : TRUE) = tenant[blk[x].doc + 1]
      <3> HIDE DEF tids
      <3> QED BY <2>4, <2>8, Zenon
    <2> HIDE DEF tids
    <2>11. PICK c : c = CHOOSE y \in tids : TRUE
      OBVIOUS
    <2>12. e.low16 = c % 65536
      BY <2>9, <2>11
    <2>13. c = tenant[blk[x].doc + 1]
      BY <2>10, <2>11
    <2> QED BY <2>12, <2>13
  <1> QED
    <2>1. \E x \in 1 .. n : blk[x].doc = e.last_doc_id
      BY <1>6, <1>d DEF D
    <2>2. \A x \in 1 .. n : blk[x].doc <= e.last_doc_id
      BY <1>6, <1>d
    <2>3. e.block_max_tf \in Nat \ {0} /\ e.block_max_norm \in DOMAIN FieldNormTable
      BY <1>3, <1>7, <1>8 DEF F, N
    <2>4. EntryOK(e, blk, tenant)
      <3>1. e.doc_count = n /\ e.last_doc_id \in Nat
        BY <1>5, <1>6
      <3>2. e.mode = "single" => \A x \in 1 .. n : tenant[blk[x].doc + 1] % 65536 = e.low16
        BY <1>9
      <3> QED BY <2>1, <2>2, <2>3, <3>1, <3>2 DEF EntryOK, n
    <2> QED BY <2>4 DEF e

(* The maxima of a skip entry are the largest frequency and the largest norm of its block. *)
BlockMaxima(e, blk) ==
    /\ \A x \in 1 .. Len(blk) : blk[x].frequency <= e.block_max_tf /\ blk[x].norm <= e.block_max_norm
    /\ \E x \in 1 .. Len(blk) : blk[x].frequency = e.block_max_tf
    /\ \E x \in 1 .. Len(blk) : blk[x].norm = e.block_max_norm

(* The loop over a block's postings in tp_write_segment finds both maxima. *)
LEMMA MaximaFound ==
    ASSUME NEW blk \in Seq(Posting), Len(blk) \in Nat \ {0}, NEW tenant_of
    PROVE  BlockMaxima(SkipEntry(blk, tenant_of), blk)
  <1>1. PICK n \in Nat \ {0} : n = Len(blk) /\ DOMAIN blk = 1 .. n
    OBVIOUS
  <1>2. PICK tfs, norms : tfs = [x \in 1 .. n |-> blk[x].frequency] /\ norms = [x \in 1 .. n |-> blk[x].norm]
    OBVIOUS
  <1>3. \A x \in 1 .. n : /\ tfs[x] = blk[x].frequency /\ tfs[x] \in Nat
                          /\ norms[x] = blk[x].norm /\ norms[x] \in Nat
    <2>1. \A x \in 1 .. n : blk[x] \in Posting
      BY <1>1
    <2>2. DOMAIN FieldNormTable \subseteq Nat
      BY FieldNormAssumption
    <2> QED BY <1>2, <2>1, <2>2 DEF Posting
  <1>4. PICK e, F, N : e = SkipEntry(blk, tenant_of) /\ F = {tfs[x] : x \in 1 .. n} /\ N = {norms[x] : x \in 1 .. n}
    OBVIOUS
  <1>5. e.block_max_tf = Max(F) /\ e.block_max_norm = Max(N)
    <2>1. {blk[j].frequency : j \in DOMAIN blk} = F /\ {blk[j].norm : j \in DOMAIN blk} = N
      BY <1>1, <1>3, <1>4
    <2> DEFINE F0 == {blk[j].frequency : j \in DOMAIN blk}
               N0 == {blk[j].norm : j \in DOMAIN blk}
               last == Max({blk[j].doc : j \in DOMAIN blk})
               mode == tenant_mode({tenant_of[blk[j].doc] : j \in DOMAIN blk})
               low == IF mode = "single" THEN (CHOOSE x \in {tenant_of[blk[j].doc] : j \in DOMAIN blk} : TRUE) % 65536 ELSE 0
    <2>2. SkipEntry(blk, tenant_of) =
            [last_doc_id |-> last, doc_count |-> Len(blk), block_max_tf |-> Max(F0), block_max_norm |-> Max(N0),
             mode |-> mode, low16 |-> low]
      BY DEF SkipEntry
    <2>3. F0 = F /\ N0 = N
      BY <2>1
    <2> HIDE DEF F0, N0, last, mode, low
    <2>4. e.block_max_tf = Max(F0) /\ e.block_max_norm = Max(N0)
      BY <1>4, <2>2
    <2> QED BY <2>3, <2>4
  <1>6. Max(F) \in F /\ \A x \in 1 .. n : tfs[x] <= Max(F)
    BY <1>3, <1>4, MaxOf
  <1>7. Max(N) \in N /\ \A x \in 1 .. n : norms[x] <= Max(N)
    BY <1>3, <1>4, MaxOf
  <1>8. \A x \in 1 .. n : blk[x].frequency <= e.block_max_tf /\ blk[x].norm <= e.block_max_norm
    BY <1>3, <1>5, <1>6, <1>7
  <1>9. (\E x \in 1 .. n : blk[x].frequency = e.block_max_tf) /\ (\E x \in 1 .. n : blk[x].norm = e.block_max_norm)
    BY <1>3, <1>4, <1>5, <1>6, <1>7
  <1>10. BlockMaxima(e, blk)
    BY <1>1, <1>8, <1>9 DEF BlockMaxima
  <1> QED BY <1>4, <1>10

(* Sorting documents by ctid, or by tenant and ctid. *)
LEMMA SortedByCtid ==
    ASSUME NEW D \in SUBSET Document, IsFiniteSet(D), \A d, e \in D : d.ctid = e.ctid => d = e,
           NEW order, order = Sorted(D, docmap_entry_cmp_by_ctid)
    PROVE  /\ Cardinality(D) \in Nat
           /\ order \in [1 .. Cardinality(D) -> D]
           /\ \A a, b \in 1 .. Cardinality(D) : a < b => order[a].ctid < order[b].ctid
           /\ \A d \in D : \E n \in 1 .. Cardinality(D) : order[n] = d
  <1> DEFINE rel == {p \in D \X D : p[1].ctid < p[2].ctid}
  <1>0. \A d \in D : d.ctid \in Nat
    BY DEF Document
  <1>r. \A d, e \in D : <<d, e>> \in rel <=> d.ctid < e.ctid
    OBVIOUS
  <1>1. Orders(rel, D)
    <2> HIDE DEF rel
    <2> QED BY <1>0, <1>r DEF Orders
  <1>2. \A x \in D : Below(D, rel, x) = {y \in D : docmap_entry_cmp_by_ctid(y, x)}
    <2> HIDE DEF rel
    <2> QED BY <1>r DEF Below, docmap_entry_cmp_by_ctid
  <1>3. order = [n \in 1 .. Cardinality(D) |->
                   CHOOSE x \in D : Cardinality({y \in D : docmap_entry_cmp_by_ctid(y, x)}) = n - 1]
    BY DEF Sorted
  <1>4. Lists(order, D, rel)
    <2>1. order = [n \in 1 .. Cardinality(D) |-> order[n]]
      BY <1>3
    <2>2. ASSUME NEW n \in 1 .. Cardinality(D), \E x \in D : Cardinality(Below(D, rel, x)) = n - 1
          PROVE  order[n] \in D /\ Cardinality(Below(D, rel, order[n])) = n - 1
      <3> DEFINE P(x) == Cardinality({y \in D : docmap_entry_cmp_by_ctid(y, x)}) = n - 1
      <3>1. order[n] = CHOOSE x \in D : P(x)
        BY <1>3
      <3>2. \E x \in D : P(x)
        BY <1>2, <2>2
      <3>3. order[n] \in D /\ P(order[n])
        <4> HIDE DEF P
        <4> QED BY <3>1, <3>2
      <3> QED BY <1>2, <3>3
    <2> HIDE DEF rel
    <2> QED BY <2>1, <2>2 DEF Lists
  <1>5. /\ Cardinality(D) \in Nat
        /\ order \in [1 .. Cardinality(D) -> D]
        /\ \A a, b \in 1 .. Cardinality(D) : a < b => <<order[a], order[b]>> \in rel
        /\ \A d \in D : \E n \in 1 .. Cardinality(D) : order[n] = d
    <2> HIDE DEF rel
    <2> QED BY <1>1, <1>4, ListingSorts
  <1> HIDE DEF rel
  <1>6. \A a, b \in 1 .. Cardinality(D) : a < b => order[a].ctid < order[b].ctid
    BY <1>5, <1>r
  <1> QED BY <1>5, <1>6
(* qsort by docmap_entry_cmp_by_tenant_then_ctid gives every document one place, tenants in
   order. *)
LEMMA SortedByTenant ==
    ASSUME NEW D \in SUBSET Document, IsFiniteSet(D), \A d, e \in D : d.ctid = e.ctid => d = e
    PROVE  \A order : order = Sorted(D, docmap_entry_cmp_by_tenant_then_ctid) =>
           /\ Cardinality(D) \in Nat
           /\ order \in [1 .. Cardinality(D) -> D]
           /\ \A a, b \in 1 .. Cardinality(D) : a < b => /\ order[a].tenant <= order[b].tenant
                                                              /\ order[a].ctid # order[b].ctid
           /\ \A d \in D : \E n \in 1 .. Cardinality(D) : order[n] = d
  <1> DEFINE rel == {p \in D \X D : docmap_entry_cmp_by_tenant_then_ctid(p[1], p[2])}
  <1>0. \A d \in D : d.ctid \in Nat /\ d.tenant \in Nat
    BY DEF Document
  <1>r. \A d, e \in D : <<d, e>> \in rel <=> docmap_entry_cmp_by_tenant_then_ctid(d, e)
    OBVIOUS
  <1>1. Orders(rel, D)
    <2> HIDE DEF rel
    <2>1. ASSUME NEW x \in D PROVE <<x, x>> \notin rel
      BY <1>0, <1>r DEF docmap_entry_cmp_by_tenant_then_ctid
    <2>2. ASSUME NEW x \in D, NEW y \in D, NEW z \in D, <<x, y>> \in rel, <<y, z>> \in rel
          PROVE  <<x, z>> \in rel
      <3>1. /\ docmap_entry_cmp_by_tenant_then_ctid(x, y)
            /\ docmap_entry_cmp_by_tenant_then_ctid(y, z)
        BY <1>r, <2>2
      <3>2. /\ x.ctid \in Nat /\ x.tenant \in Nat /\ y.ctid \in Nat /\ y.tenant \in Nat
            /\ z.ctid \in Nat /\ z.tenant \in Nat
        BY <1>0
      <3>3. docmap_entry_cmp_by_tenant_then_ctid(x, z)
        BY <3>1, <3>2 DEF docmap_entry_cmp_by_tenant_then_ctid
      <3> QED BY <1>r, <3>3
    <2>3. ASSUME NEW x \in D, NEW y \in D, x # y PROVE <<x, y>> \in rel \/ <<y, x>> \in rel
      <3>1. x.ctid \in Nat /\ x.tenant \in Nat /\ y.ctid \in Nat /\ y.tenant \in Nat /\ x.ctid # y.ctid
        BY <1>0, <2>3
      <3>2. docmap_entry_cmp_by_tenant_then_ctid(x, y) \/ docmap_entry_cmp_by_tenant_then_ctid(y, x)
        BY <3>1 DEF docmap_entry_cmp_by_tenant_then_ctid
      <3> QED BY <1>r, <3>2
    <2> QED BY <2>1, <2>2, <2>3 DEF Orders
  <1>2. \A x \in D : Below(D, rel, x) = {y \in D : docmap_entry_cmp_by_tenant_then_ctid(y, x)}
    <2> HIDE DEF rel
    <2> QED BY <1>r DEF Below
  <1>s. ASSUME NEW d \in D, NEW e \in D, <<d, e>> \in rel PROVE d.tenant <= e.tenant
    <2>1. docmap_entry_cmp_by_tenant_then_ctid(d, e)
      BY <1>s, <1>r
    <2>2. d.ctid \in Nat /\ e.ctid \in Nat /\ d.tenant \in Nat /\ e.tenant \in Nat
      BY <1>0
    <2> QED BY <2>1, <2>2 DEF docmap_entry_cmp_by_tenant_then_ctid
  <1> SUFFICES ASSUME NEW order, order = Sorted(D, docmap_entry_cmp_by_tenant_then_ctid)
               PROVE  /\ Cardinality(D) \in Nat
                      /\ order \in [1 .. Cardinality(D) -> D]
                      /\ \A a, b \in 1 .. Cardinality(D) : a < b => /\ order[a].tenant <= order[b].tenant
                                                                     /\ order[a].ctid # order[b].ctid
                      /\ \A d \in D : \E n \in 1 .. Cardinality(D) : order[n] = d
    BY Zenon
  <1>3. order = [n \in 1 .. Cardinality(D) |->
                   CHOOSE x \in D : Cardinality({y \in D : docmap_entry_cmp_by_tenant_then_ctid(y, x)}) = n - 1]
    BY DEF Sorted
  <1>4. Lists(order, D, rel)
    <2>1. order = [n \in 1 .. Cardinality(D) |-> order[n]]
      BY <1>3
    <2>2. ASSUME NEW n \in 1 .. Cardinality(D), \E x \in D : Cardinality(Below(D, rel, x)) = n - 1
          PROVE  order[n] \in D /\ Cardinality(Below(D, rel, order[n])) = n - 1
      <3> DEFINE P(x) == Cardinality({y \in D : docmap_entry_cmp_by_tenant_then_ctid(y, x)}) = n - 1
      <3>1. order[n] = CHOOSE x \in D : P(x)
        BY <1>3
      <3>2. \E x \in D : P(x)
        BY <1>2, <2>2
      <3>3. order[n] \in D /\ P(order[n])
        <4> HIDE DEF P
        <4> QED BY <3>1, <3>2
      <3> QED BY <1>2, <3>3
    <2> HIDE DEF rel
    <2> QED BY <2>1, <2>2 DEF Lists
  <1>5. /\ Cardinality(D) \in Nat
        /\ order \in [1 .. Cardinality(D) -> D]
        /\ \A a, b \in 1 .. Cardinality(D) : a < b => <<order[a], order[b]>> \in rel
        /\ \A d \in D : \E n \in 1 .. Cardinality(D) : order[n] = d
    <2> HIDE DEF rel
    <2> QED BY <1>1, <1>4, ListingSorts
  <1> HIDE DEF rel
  <1>6. ASSUME NEW a \in 1 .. Cardinality(D), NEW b \in 1 .. Cardinality(D), a < b
        PROVE  order[a].tenant <= order[b].tenant /\ order[a].ctid # order[b].ctid
    <2>1. order[a] \in D /\ order[b] \in D /\ <<order[a], order[b]>> \in rel
      BY <1>5, <1>6
    <2>2. PICK d \in D, e \in D : d = order[a] /\ e = order[b]
      BY <2>1
    <2>5. d.tenant <= e.tenant
      BY <1>s, <2>1, <2>2
    <2>6. d # e
      BY <2>1, <2>2, <1>1 DEF Orders
    <2> QED BY <2>2, <2>5, <2>6
  <1> QED BY <1>5, <1>6

(* Sorting postings by doc id. *)
LEMMA SortedByDoc ==
    ASSUME NEW D \in SUBSET Posting, IsFiniteSet(D), \A d, e \in D : d.doc = e.doc => d = e,
           NEW out, out = Sorted(D, cmp_block_posting_by_doc_id)
    PROVE  /\ Cardinality(D) \in Nat
           /\ out \in [1 .. Cardinality(D) -> D]
           /\ \A a, b \in 1 .. Cardinality(D) : a < b => out[a].doc < out[b].doc
           /\ \A d \in D : \E n \in 1 .. Cardinality(D) : out[n] = d
  <1> DEFINE rel == {p \in D \X D : p[1].doc < p[2].doc}
  <1>0. \A d \in D : d.doc \in Nat
    BY DEF Posting
  <1>r. \A d, e \in D : <<d, e>> \in rel <=> d.doc < e.doc
    OBVIOUS
  <1>1. Orders(rel, D)
    <2> HIDE DEF rel
    <2> QED BY <1>0, <1>r DEF Orders
  <1>2. \A x \in D : Below(D, rel, x) = {y \in D : cmp_block_posting_by_doc_id(y, x)}
    <2> HIDE DEF rel
    <2> QED BY <1>r DEF Below, cmp_block_posting_by_doc_id
  <1>3. out = [n \in 1 .. Cardinality(D) |->
                   CHOOSE x \in D : Cardinality({y \in D : cmp_block_posting_by_doc_id(y, x)}) = n - 1]
    BY DEF Sorted
  <1>4. Lists(out, D, rel)
    <2>1. out = [n \in 1 .. Cardinality(D) |-> out[n]]
      BY <1>3
    <2>2. ASSUME NEW n \in 1 .. Cardinality(D), \E x \in D : Cardinality(Below(D, rel, x)) = n - 1
          PROVE  out[n] \in D /\ Cardinality(Below(D, rel, out[n])) = n - 1
      <3> DEFINE P(x) == Cardinality({y \in D : cmp_block_posting_by_doc_id(y, x)}) = n - 1
      <3>1. out[n] = CHOOSE x \in D : P(x)
        BY <1>3
      <3>2. \E x \in D : P(x)
        BY <1>2, <2>2
      <3>3. out[n] \in D /\ P(out[n])
        <4> HIDE DEF P
        <4> QED BY <3>1, <3>2
      <3> QED BY <1>2, <3>3
    <2> HIDE DEF rel
    <2> QED BY <2>1, <2>2 DEF Lists
  <1>5. /\ Cardinality(D) \in Nat
        /\ out \in [1 .. Cardinality(D) -> D]
        /\ \A a, b \in 1 .. Cardinality(D) : a < b => <<out[a], out[b]>> \in rel
        /\ \A d \in D : \E n \in 1 .. Cardinality(D) : out[n] = d
    <2> HIDE DEF rel
    <2> QED BY <1>1, <1>4, ListingSorts
  <1> HIDE DEF rel
  <1>6. \A a, b \in 1 .. Cardinality(D) : a < b => out[a].doc < out[b].doc
    BY <1>5, <1>r
  <1> QED BY <1>5, <1>6

(* Where runs of a tenant end, as tenant_ranges finds them. *)
NextTenant(order, n) == IF n < Len(order) THEN order[n + 1].tenant ELSE UINT32_MAX
RunEnds(order) == {n \in 1 .. Len(order) : NextTenant(order, n) # order[n].tenant}
RunStartOf(order, n) == Max({0} \cup {j \in RunEnds(order) : j < n})

(* In a list in tenant order a run holds exactly the documents of its tenant. *)
LEMMA RunExact ==
    ASSUME NEW num \in Nat, NEW D \in SUBSET Document, NEW order \in [1 .. num -> D],
           \A a, b \in 1 .. num : a < b => order[a].tenant <= order[b].tenant,
           NEW n \in RunEnds(order)
    PROVE  /\ n \in 1 .. num /\ RunStartOf(order, n) \in 0 .. n - 1
           /\ \A p \in 1 .. num : order[p].tenant = order[n].tenant <=> RunStartOf(order, n) < p /\ p <= n
  <1> DEFINE E == {0} \cup {j \in RunEnds(order) : j < n}
             st == RunStartOf(order, n)
             x == order[n].tenant
  <1>0. Len(order) = num /\ \A p \in 1 .. num : order[p] \in Document /\ order[p].tenant \in Nat
    BY DEF Document
  <1>1. n \in 1 .. num /\ NextTenant(order, n) # x
    BY <1>0 DEF RunEnds
  <1>2. st \in E /\ \A y \in E : y <= st
    <2>1. n - 1 \in Nat
      BY <1>1
    <2>2. E \in SUBSET (0 .. n - 1)
      BY <1>0, <1>1 DEF RunEnds
    <2> HIDE DEF E
    <2>3. E # {}
      BY DEF E
    <2>4. Max(E) \in E /\ \A y \in E : y <= Max(E)
      BY <2>1, <2>2, <2>3, MaxNat
    <2>5. st = Max(E)
      BY DEF E, RunStartOf
    <2> QED BY <2>4, <2>5
  <1>3. st \in 0 .. n - 1
    BY <1>0, <1>1, <1>2 DEF RunEnds
  <1>4. ASSUME NEW p \in 1 .. num, st < p, p <= n PROVE order[p].tenant = x
    <2> DEFINE W == {q \in st + 1 .. n : order[q].tenant # x}
               q == Max(W)
    <2> SUFFICES ASSUME order[p].tenant # x PROVE FALSE
      OBVIOUS
    <2>1. W \in SUBSET (0 .. n) /\ p \in W
      BY <1>1, <1>3, <1>4
    <2>2. q \in W /\ \A y \in W : y <= q
      <3>1. n \in Nat /\ W # {}
        BY <1>1, <2>1
      <3> HIDE DEF W
      <3> QED BY <2>1, <3>1, MaxNat
    <2>3. q \in st + 1 .. n /\ order[q].tenant # x
      BY <2>2
    <2> HIDE DEF q
    <2>4. q < n /\ q \in 1 .. num /\ q + 1 \in st + 1 .. n
      BY <1>1, <1>3, <2>3
    <2>5. order[q + 1].tenant = x
      <3>1. q + 1 \notin W
        BY <1>1, <1>3, <2>2, <2>4
      <3> QED BY <2>4, <3>1
    <2>6. NextTenant(order, q) = order[q + 1].tenant
      BY <1>0, <1>1, <2>4 DEF NextTenant
    <2>7. q \in RunEnds(order)
      BY <1>0, <2>3, <2>4, <2>5, <2>6 DEF RunEnds
    <2>8. q \in E
      BY <2>4, <2>7
    <2> QED BY <1>2, <1>3, <2>3, <2>8
  <1>5. ASSUME NEW p \in 1 .. num, p > n PROVE order[p].tenant # x
    <2>1. n < num /\ n + 1 \in 1 .. num
      BY <1>1, <1>5
    <2>2. order[n + 1].tenant # x
      BY <1>0, <1>1, <2>1 DEF NextTenant
    <2>3. x <= order[n + 1].tenant /\ order[n + 1].tenant <= order[p].tenant
      <3>1. x <= order[n + 1].tenant
        BY <1>1, <2>1
      <3>2. CASE p = n + 1
        BY <1>0, <2>1, <3>1, <3>2
      <3>3. CASE p > n + 1
        BY <2>1, <3>1, <3>3
      <3> QED BY <1>1, <1>5, <3>1, <3>2, <3>3
    <2>4. x \in Nat /\ order[n + 1].tenant \in Nat /\ order[p].tenant \in Nat
      BY <1>0, <1>1, <2>1
    <2> HIDE DEF x
    <2> QED BY <2>2, <2>3, <2>4
  <1>6. ASSUME NEW p \in 1 .. num, p <= st PROVE order[p].tenant # x
    <2>1. st \in RunEnds(order) /\ st \in 1 .. num /\ st < n
      BY <1>0, <1>2, <1>3, <1>6 DEF RunEnds
    <2>2. NextTenant(order, st) = order[st + 1].tenant /\ NextTenant(order, st) # order[st].tenant
      BY <1>0, <1>1, <2>1 DEF RunEnds, NextTenant
    <2>3. st + 1 \in 1 .. num /\ order[st + 1].tenant = x
      BY <1>1, <1>4, <2>1
    <2>4. order[st].tenant <= x /\ order[st].tenant # x
      BY <2>1, <2>2, <2>3
    <2>5. order[p].tenant <= order[st].tenant
      <3>1. CASE p = st
        BY <1>0, <2>1, <3>1
      <3>2. CASE p < st
        BY <2>1, <3>2
      <3> QED BY <1>6, <2>1, <3>1, <3>2
    <2>6. x \in Nat /\ order[st].tenant \in Nat /\ order[p].tenant \in Nat
      BY <1>0, <1>1, <2>1
    <2> HIDE DEF x, st
    <2> QED BY <2>4, <2>5, <2>6
  <1>7. ASSUME NEW p \in 1 .. num PROVE order[p].tenant = x <=> st < p /\ p <= n
    <2>1. st \in Int /\ n \in Int
      BY <1>1, <1>3
    <2> HIDE DEF x, st
    <2> QED BY <1>4, <1>5, <1>6, <2>1
  <1> QED BY <1>1, <1>3, <1>7

(* Every tenant but the largest id has a range: its last document ends a run. *)
LEMMA RunFound ==
    ASSUME NEW num \in Nat, NEW D \in SUBSET Document, NEW order \in [1 .. num -> D],
           NEW p \in 1 .. num, order[p].tenant # UINT32_MAX
    PROVE  \E n \in RunEnds(order) : order[n].tenant = order[p].tenant
  <1> DEFINE W == {q \in 1 .. num : order[q].tenant = order[p].tenant}
             n == Max(W)
  <1>0. Len(order) = num
    OBVIOUS
  <1>1. W \in SUBSET (0 .. num) /\ p \in W
    OBVIOUS
  <1>2. n \in W /\ \A y \in W : y <= n
    <2> HIDE DEF W
    <2> QED BY <1>1, MaxNat
  <1>3. n \in 1 .. num /\ order[n].tenant = order[p].tenant
    BY <1>2
  <1> HIDE DEF n
  <1>4. NextTenant(order, n) # order[n].tenant
    <2>1. CASE n < num
      <3>1. n + 1 \in 1 .. num /\ n + 1 \notin W
        BY <1>2, <1>3, <2>1
      <3> QED BY <1>0, <1>3, <2>1, <3>1 DEF NextTenant
    <2>2. CASE n = num
      BY <1>0, <1>3, <2>2 DEF NextTenant
    <2> QED BY <1>3, <2>1, <2>2
  <1> QED BY <1>0, <1>3, <1>4 DEF RunEnds

(* The running start of tp_docmap_finalize is the start of the run, so that the ranges are
   the runs of equal tenants that the loop closes. *)
LEMMA RangesAreRuns ==
    ASSUME NEW num \in Nat, NEW order, order = [n \in 1 .. num |-> order[n]]
    PROVE  tenant_ranges(order) =
             {[tenant |-> order[n].tenant, first |-> RunStartOf(order, n), count |-> n - RunStartOf(order, n)] :
                  n \in {e \in RunEnds(order) : order[e].tenant # 0}}
  BY DEF tenant_ranges, RunEnds, RunStartOf, NextTenant

-----------------------------------------------------------------------------
(* Segments *)

NormsOf(g) == g.norm \in [1 .. g.num_docs -> DOMAIN FieldNormTable]

(* The list and the skip entries of a term. *)
ListOK(g, t) ==
    /\ g.post[t] \in PostingList
    /\ \A n \in 1 .. Len(g.post[t]) : /\ g.post[t][n].doc \in 0 .. g.num_docs - 1
                                      /\ g.post[t][n].norm = g.norm[g.post[t][n].doc + 1]
    /\ Len(g.skip[t]) = num_blocks(g.post[t])
    /\ \A b \in 0 .. num_blocks(g.post[t]) - 1 : EntryOK(g.skip[t][b + 1], Block(g.post[t], b), g.tenant)

(* A range holds exactly the documents of its tenant. *)
RangeOK(g, r) ==
    /\ r.first \in Nat /\ r.count \in Nat \ {0} /\ r.first + r.count <= g.num_docs
    /\ \A d \in 0 .. g.num_docs - 1 :
          g.tenant[d + 1] = r.tenant <=> r.first <= d /\ d <= r.first + r.count - 1

(* What WAND needs to know about a segment. *)
WellFormed(g) ==
    /\ g.num_docs \in Nat /\ g.num_docs < UINT32_MAX
    /\ NormsOf(g)
    /\ g.tenant \in [1 .. g.num_docs -> Nat]
    /\ ~g.has_tenant_data => \A d \in 1 .. g.num_docs : g.tenant[d] = 0
    /\ g.ctid \in [1 .. g.num_docs -> Nat]
    /\ \A t \in DOMAIN g.post : ListOK(g, t)
    /\ \A r \in g.ranges : RangeOK(g, r)

(* encode_fieldnorm gives a code of the table. *)
LEMMA FieldNorm ==
    ASSUME NEW len \in Nat, FieldNormTable[1] <= len
    PROVE  encode_fieldnorm(len) \in DOMAIN FieldNormTable
  <1> DEFINE S == {n \in DOMAIN FieldNormTable : FieldNormTable[n] <= len}
  <1>1. Len(FieldNormTable) \in Nat /\ S \in SUBSET (0 .. Len(FieldNormTable))
    BY FieldNormAssumption
  <1>2. 1 \in S
    BY FieldNormAssumption
  <1>3. Max(S) \in S
    <2> HIDE DEF S
    <2> QED BY <1>1, <1>2, MaxNat
  <1> QED BY <1>3 DEF encode_fieldnorm

(* The document map lists every document once, by tenant where there are tenants. *)
LEMMA OrderLists ==
    ASSUME NEW D \in SUBSET Document, IsFiniteSet(D), \A d, e \in D : d.ctid = e.ctid => d = e
    PROVE  /\ Cardinality(D) \in Nat
           /\ doc_order(D) \in [1 .. Cardinality(D) -> D]
           /\ \A a, b \in 1 .. Cardinality(D) : a # b => doc_order(D)[a].ctid # doc_order(D)[b].ctid
           /\ \A d \in D : \E n \in 1 .. Cardinality(D) : doc_order(D)[n] = d
           /\ has_tenants(D) => \A a, b \in 1 .. Cardinality(D) :
                                    a < b => doc_order(D)[a].tenant <= doc_order(D)[b].tenant
  <1> DEFINE c == Cardinality(D)
             order == doc_order(D)
  <1>1. CASE has_tenants(D)
    <2>1. order = Sorted(D, docmap_entry_cmp_by_tenant_then_ctid)
      BY <1>1 DEF doc_order
    <2>2. /\ c \in Nat /\ order \in [1 .. c -> D]
          /\ \A a, b \in 1 .. c : a < b => order[a].tenant <= order[b].tenant /\ order[a].ctid # order[b].ctid
          /\ \A d \in D : \E n \in 1 .. c : order[n] = d
      BY <2>1, SortedByTenant, ZenonT(60)
    <2> HIDE DEF order, c
    <2>3. ASSUME NEW a \in 1 .. c, NEW b \in 1 .. c, a # b PROVE order[a].ctid # order[b].ctid
      <3>1. CASE a < b
        BY <2>2, <3>1
      <3>2. CASE b < a
        BY <2>2, <3>2
      <3> QED BY <2>2, <2>3, <3>1, <3>2
    <2> QED BY <2>2, <2>3 DEF c, order
  <1>2. CASE ~has_tenants(D)
    <2>1. order = Sorted(D, docmap_entry_cmp_by_ctid)
      BY <1>2 DEF doc_order
    <2>2. /\ c \in Nat /\ order \in [1 .. c -> D]
          /\ \A a, b \in 1 .. c : a < b => order[a].ctid < order[b].ctid
          /\ \A d \in D : \E n \in 1 .. c : order[n] = d
      BY <2>1, SortedByCtid, Zenon
    <2> HIDE DEF order, c
    <2>3. ASSUME NEW a \in 1 .. c, NEW b \in 1 .. c, a # b PROVE order[a].ctid # order[b].ctid
      <3>0. order[a].ctid \in Nat /\ order[b].ctid \in Nat
        BY <2>2 DEF Document
      <3>1. CASE a < b
        BY <2>2, <3>0, <3>1
      <3>2. CASE b < a
        BY <2>2, <3>0, <3>2
      <3> QED BY <2>2, <2>3, <3>1, <3>2
    <2> QED BY <1>2, <2>2, <2>3 DEF c, order
  <1> QED BY <1>1, <1>2

(* The posting list that tp_write_segment makes for a term. *)
Entries(order, norm, t) ==
    {BlockPosting(n - 1, order[n].tf[t], norm[n]) : n \in {j \in DOMAIN order : order[j].tf[t] > 0}}

(* The posting list written for a term is sorted by document and complete. *)
LEMMA WrittenList ==
    ASSUME NEW num \in Nat, NEW D \in SUBSET Document, NEW order \in [1 .. num -> D],
           NEW norm \in [1 .. num -> DOMAIN FieldNormTable], NEW t \in Term,
           {j \in DOMAIN order : order[j].tf[t] > 0} # {}
    PROVE  /\ Sorted(Entries(order, norm, t), cmp_block_posting_by_doc_id) \in PostingList
           /\ \A p : (\E n \in 1 .. Len(Sorted(Entries(order, norm, t), cmp_block_posting_by_doc_id)) :
                         p = Sorted(Entries(order, norm, t), cmp_block_posting_by_doc_id)[n])
                     <=> p \in Entries(order, norm, t)
  <1> DEFINE J == {j \in DOMAIN order : order[j].tf[t] > 0}
             E == Entries(order, norm, t)
             L == Sorted(E, cmp_block_posting_by_doc_id)
             f == [j \in J |-> BlockPosting(j - 1, order[j].tf[t], norm[j])]
  <1>1. J \in SUBSET (1 .. num) /\ IsFiniteSet(J)
    <2>1. J \in SUBSET (1 .. num)
      OBVIOUS
    <2> HIDE DEF J
    <2> QED BY <2>1, IntervalCard, FS_Subset
  <1>2. ASSUME NEW j \in J
        PROVE  /\ j \in Nat \ {0} /\ j - 1 \in Nat /\ order[j].tf[t] \in Nat \ {0} /\ norm[j] \in DOMAIN FieldNormTable
               /\ f[j] = [doc |-> j - 1, frequency |-> order[j].tf[t], norm |-> norm[j]]
    <2>1. j \in 1 .. num /\ order[j] \in Document /\ order[j].tf[t] > 0
      OBVIOUS
    <2>2. order[j].tf[t] \in Nat
      BY <2>1 DEF Document
    <2> QED BY <2>1, <2>2 DEF BlockPosting
  <1>3. E \in SUBSET Posting
    <2>1. ASSUME NEW j \in J PROVE f[j] \in Posting
      <3>1. j - 1 \in Nat /\ order[j].tf[t] \in Nat \ {0} /\ norm[j] \in DOMAIN FieldNormTable
        BY <1>2
      <3>2. [doc |-> j - 1, frequency |-> order[j].tf[t], norm |-> norm[j]] \in Posting
        BY <3>1 DEF Posting
      <3>3. f[j] = [doc |-> j - 1, frequency |-> order[j].tf[t], norm |-> norm[j]]
        BY <1>2
      <3> HIDE DEF f, J
      <3> QED BY <3>2, <3>3
    <2>2. E = {f[j] : j \in J}
      BY DEF Entries
    <2> HIDE DEF E, f, J
    <2> QED BY <2>1, <2>2
  <1>4. f \in Surjection(J, E)
    <2>1. E = {f[j] : j \in J}
      BY DEF Entries
    <2>2. f = [j \in J |-> f[j]]
      OBVIOUS
    <2> HIDE DEF E, f, J
    <2> QED BY <2>1, <2>2 DEF Surjection
  <1>5. IsFiniteSet(E)
    <2> HIDE DEF E, f, J
    <2> QED BY <1>1, <1>4, FS_Surjection
  <1>6. ASSUME NEW d \in E, NEW e \in E, d.doc = e.doc PROVE d = e
    <2>1. PICK j \in J, k \in J : d = f[j] /\ e = f[k]
      <3> HIDE DEF f, J, E
      <3> QED BY <1>4 DEF Surjection
    <2>2. j = k
      <3> HIDE DEF f, J, E
      <3>1. /\ j \in Nat /\ f[j] = [doc |-> j - 1, frequency |-> order[j].tf[t], norm |-> norm[j]]
            /\ k \in Nat /\ f[k] = [doc |-> k - 1, frequency |-> order[k].tf[t], norm |-> norm[k]]
        BY <1>2
      <3>2. f[j].doc = j - 1 /\ f[k].doc = k - 1
        BY <3>1
      <3> QED BY <1>6, <2>1, <3>1, <3>2
    <2> QED BY <2>1, <2>2
  <1>7. E # {}
    <2>1. PICK j \in J : TRUE
      OBVIOUS
    <2>2. f[j] \in E
      BY <2>1 DEF Entries
    <2> QED BY <2>2
  <1>8. /\ Cardinality(E) \in Nat
        /\ L \in [1 .. Cardinality(E) -> E]
        /\ \A a, b \in 1 .. Cardinality(E) : a < b => L[a].doc < L[b].doc
        /\ \A d \in E : \E n \in 1 .. Cardinality(E) : L[n] = d
    <2> HIDE DEF E
    <2> QED BY <1>3, <1>5, <1>6, SortedByDoc, Zenon
  <1> HIDE DEF E, L
  <1>9. L \in Seq(Posting) /\ Len(L) = Cardinality(E) /\ L # << >>
    <2>1. Cardinality(E) # 0
      BY <1>5, <1>7, FS_EmptySet
    <2> QED BY <1>3, <1>8, <2>1
  <1>10. L \in PostingList
    BY <1>8, <1>9 DEF PostingList
  <1>11. \A p : (\E n \in 1 .. Len(L) : p = L[n]) <=> p \in E
    BY <1>8, <1>9
  <1> QED BY <1>10, <1>11 DEF L, E

(* A segment g holds the documents D; order[n] is the one with doc id n - 1. *)
WrittenFrom(g, D, order) ==
    /\ order \in [1 .. g.num_docs -> D]
    /\ \A a, b \in 1 .. g.num_docs : a # b => order[a].ctid # order[b].ctid
    /\ \A n \in 1 .. g.num_docs : /\ g.ctid[n] = order[n].ctid
                                  /\ g.tenant[n] = order[n].tenant
                                  /\ g.norm[n] = encode_fieldnorm(order[n].len)
    /\ \A t \in DOMAIN g.post : t \in Term /\
          \A n \in 1 .. Len(g.post[t]) :
             LET p == g.post[t][n] IN p.frequency = order[p.doc + 1].tf[t]

(* ... and leaves nothing out: every document has a number, every term of it a posting, every
   block its maxima, and every tenant a range, but the one whose run is never closed. *)
Complete(g, D, order) ==
    /\ \A d \in D : \E n \in 1 .. g.num_docs : order[n] = d
    /\ \A t \in Term : \A n \in 1 .. g.num_docs :
         order[n].tf[t] > 0 => t \in DOMAIN g.post /\ \E m \in 1 .. Len(g.post[t]) : g.post[t][m].doc = n - 1
    /\ \A t \in DOMAIN g.post : \A b \in 0 .. num_blocks(g.post[t]) - 1 :
         BlockMaxima(g.skip[t][b + 1], Block(g.post[t], b))
    /\ \A d \in D : d.tenant \notin {0, UINT32_MAX} => \E r \in g.ranges : r.tenant = d.tenant

(* Documents as the memtable or the build hands them over: finitely many, each ctid once. *)
DocsOK(D, ten) ==
    /\ D \in SUBSET Document /\ IsFiniteSet(D) /\ Cardinality(D) < UINT32_MAX
    /\ \A d, e \in D : d.ctid = e.ctid => d = e
    /\ \A d \in D : FieldNormTable[1] <= d.len
    /\ ten \in BOOLEAN /\ (ten \/ \A d \in D : d.tenant = 0)

(* A segment, field by field. *)
Parts(g, D, ten, order, norm, tenant_of, nobody) ==
    /\ g.num_docs = Len(order)
    /\ g.ctid = [n \in DOMAIN order |-> order[n].ctid]
    /\ g.norm = norm
    /\ g.tenant = [n \in DOMAIN order |-> order[n].tenant]
    /\ g.has_tenant_data = ten
    /\ g.ranges = IF has_tenants(D) THEN tenant_ranges(order) ELSE {}
    /\ DOMAIN g.post = {t \in Term : {j \in DOMAIN order : order[j].tf[t] > 0} # {}}
    /\ \A t \in DOMAIN g.post :
         /\ g.post[t] = Sorted(Entries(order, norm, t), cmp_block_posting_by_doc_id)
         /\ g.skip[t] = IF ten /\ has_tenants(D) THEN SkipEntries(g.post[t], tenant_of)
                        ELSE SkipEntries(g.post[t], nobody)

(* tp_write_segment, field by field. *)
LEMMA WrittenParts ==
    ASSUME NEW D, NEW ten, NEW stats, NEW order, order = doc_order(D),
           NEW norm, norm = [n \in DOMAIN order |-> encode_fieldnorm(order[n].len)],
           NEW tenant_of, tenant_of = [id \in 0 .. Len(order) - 1 |-> order[id + 1].tenant],
           NEW nobody, nobody = [id \in 0 .. Len(order) - 1 |-> 0],
           NEW g, g = tp_write_segment(D, ten, stats)
    PROVE  Parts(g, D, ten, order, norm, tenant_of, nobody)
  <1> DEFINE docmap == tp_docmap_finalize(D)
             trms == {t \in Term : {j \in DOMAIN order : order[j].tf[t] > 0} # {}}
             lists == [t \in trms |-> Sorted(Entries(order, norm, t), cmp_block_posting_by_doc_id)]
  <1>1. docmap = [docs |-> order, norm |-> norm, tenant_ordered |-> has_tenants(D),
                  ranges |-> IF has_tenants(D) THEN tenant_ranges(order) ELSE {}]
    BY DEF tp_docmap_finalize
  <1>2. docmap.docs = order /\ docmap.norm = norm /\ docmap.tenant_ordered = has_tenants(D)
        /\ docmap.ranges = IF has_tenants(D) THEN tenant_ranges(order) ELSE {}
    <2> HIDE DEF docmap
    <2> QED BY <1>1
  <1>3. g = Segment(docmap, lists, ten, stats)
    <2>1. g = Segment(docmap,
                [t \in {t \in Term : {n \in DOMAIN docmap.docs : docmap.docs[n].tf[t] > 0} # {}} |->
                    Sorted({BlockPosting(n - 1, docmap.docs[n].tf[t], docmap.norm[n]) :
                              n \in {k \in DOMAIN docmap.docs : docmap.docs[k].tf[t] > 0}},
                           cmp_block_posting_by_doc_id)],
                ten, stats)
      BY DEF tp_write_segment
    <2> HIDE DEF docmap
    <2> QED BY <1>2, <2>1 DEF Entries
  <1> DEFINE sk == [t \in DOMAIN lists |-> IF ten /\ docmap.tenant_ordered THEN SkipEntries(lists[t], tenant_of)
                                           ELSE SkipEntries(lists[t], nobody)]
             df == IF ten THEN [t \in DOMAIN lists |-> tenant_docfreq(tenant_of, lists[t])] ELSE << >>
  <1>4. g = [num_docs |-> Len(docmap.docs),
             ctid |-> [n \in DOMAIN docmap.docs |-> docmap.docs[n].ctid],
             norm |-> docmap.norm,
             tenant |-> [n \in DOMAIN docmap.docs |-> docmap.docs[n].tenant],
             has_tenant_data |-> ten,
             tenant_ordered |-> docmap.tenant_ordered /\ docmap.ranges # {},
             ranges |-> docmap.ranges,
             post |-> lists,
             skip |-> sk,
             doc_freq |-> [t \in DOMAIN lists |-> Len(lists[t])],
             tenant_df |-> df,
             tenant_stats |-> stats]
    <2> HIDE DEF docmap, lists
    <2> QED BY <1>2, <1>3 DEF Segment, sk, df
  <1>5. DOMAIN lists = trms /\ \A t \in trms : lists[t] = Sorted(Entries(order, norm, t), cmp_block_posting_by_doc_id)
    OBVIOUS
  <1> HIDE DEF docmap, lists, df, trms
  <1>6. /\ g.num_docs = Len(docmap.docs) /\ g.ctid = [n \in DOMAIN docmap.docs |-> docmap.docs[n].ctid]
        /\ g.norm = docmap.norm /\ g.tenant = [n \in DOMAIN docmap.docs |-> docmap.docs[n].tenant]
        /\ g.has_tenant_data = ten /\ g.ranges = docmap.ranges /\ g.post = lists /\ g.skip = sk
    <2> HIDE DEF sk
    <2> QED BY <1>4
  <1>7. \A t \in trms : sk[t] = IF ten /\ has_tenants(D) THEN SkipEntries(lists[t], tenant_of)
                                ELSE SkipEntries(lists[t], nobody)
    BY <1>2, <1>5
  <1> HIDE DEF sk
  <1> QED BY <1>2, <1>5, <1>6, <1>7 DEF trms, Parts

(* The posting p of term t describes its document. *)
PostingOf(p, num, order, norm, t) ==
    p.doc \in 0 .. num - 1 /\ p.frequency = order[p.doc + 1].tf[t] /\ p.norm = norm[p.doc + 1]

(* What a posting of a term says of its document. *)
LEMMA EntriesHave ==
    ASSUME NEW num \in Nat, NEW D \in SUBSET Document, NEW order \in [1 .. num -> D],
           NEW norm, NEW t, NEW p \in Entries(order, norm, t)
    PROVE  PostingOf(p, num, order, norm, t)
  <1>1. PICK n \in 1 .. num : p = BlockPosting(n - 1, order[n].tf[t], norm[n])
    BY DEF Entries
  <1>2. p.doc = n - 1 /\ p.frequency = order[n].tf[t] /\ p.norm = norm[n]
    BY <1>1 DEF BlockPosting
  <1>3. p.doc + 1 = n
    BY <1>2
  <1> QED BY <1>2, <1>3 DEF PostingOf

(* The skip entries of a list describe its blocks. *)
LEMMA SkipEntriesOK ==
    ASSUME NEW L \in PostingList, NEW tenant, NEW num \in Nat,
           NEW tenant_of \in [0 .. num - 1 -> Nat],
           \A n \in 1 .. Len(L) : L[n].doc \in 0 .. num - 1,
           \/ \A d \in 0 .. num - 1 : tenant_of[d] = tenant[d + 1]
           \/ \A d \in 0 .. num - 1 : tenant_of[d] = 0,
           NEW sk, sk = SkipEntries(L, tenant_of)
    PROVE  /\ Len(sk) = num_blocks(L)
           /\ \A b \in 0 .. num_blocks(L) - 1 : EntryOK(sk[b + 1], Block(L, b), tenant)
  <1>1. num_blocks(L) \in Nat
    BY BlockPlaces
  <1>2. Len(sk) = num_blocks(L)
    BY <1>1 DEF SkipEntries
  <1>3. ASSUME NEW b \in 0 .. num_blocks(L) - 1 PROVE EntryOK(sk[b + 1], Block(L, b), tenant)
    <2>1. b + 1 \in 1 .. num_blocks(L) /\ (b + 1) - 1 = b
      BY <1>1
    <2>2. sk[b + 1] = SkipEntry(Block(L, (b + 1) - 1), tenant_of)
      BY <2>1 DEF SkipEntries
    <2>3. sk[b + 1] = SkipEntry(Block(L, b), tenant_of)
      BY <2>1, <2>2
    <2>4. Block(L, b) \in Seq(Posting) /\ Len(Block(L, b)) \in Nat \ {0}
      BY BlockPlaces
    <2>5. \A x \in 1 .. Len(Block(L, b)) : Block(L, b)[x].doc \in 0 .. num - 1
      <3>1. \A x \in 1 .. Len(Block(L, b)) : \E n \in 1 .. Len(L) : Block(L, b)[x] = L[n]
        BY BlockPlaces
      <3> QED BY <3>1
    <2> DEFINE blk == Block(L, b)
    <2> HIDE DEF blk
    <2>6. EntryOK(SkipEntry(blk, tenant_of), blk, tenant)
      BY <2>4, <2>5, SkipEntryOK DEF blk
    <2> QED BY <2>3, <2>6 DEF blk
  <1> QED BY <1>2, <1>3

(* A stored tenant range covers exactly the documents of its tenant. *)
LEMMA TenantRangeOK ==
    ASSUME NEW num \in Nat, NEW D \in SUBSET Document, NEW order \in [1 .. num -> D],
           \A a, b \in 1 .. num : a < b => order[a].tenant <= order[b].tenant,
           NEW g, g.num_docs = num, \A n \in 1 .. num : g.tenant[n] = order[n].tenant,
           NEW r \in tenant_ranges(order)
    PROVE  RangeOK(g, r)
  <1>1. order = [n \in 1 .. num |-> order[n]]
    OBVIOUS
  <1>a. tenant_ranges(order) =
             {[tenant |-> order[n].tenant, first |-> RunStartOf(order, n), count |-> n - RunStartOf(order, n)] :
                  n \in {e \in RunEnds(order) : order[e].tenant # 0}}
    BY <1>1, RangesAreRuns, Zenon
  <1>2. PICK n \in RunEnds(order) : r = [tenant |-> order[n].tenant, first |-> RunStartOf(order, n), count |-> n - RunStartOf(order, n)]
    BY <1>a, Zenon
  <1> DEFINE st == RunStartOf(order, n)
  <1>3. n \in 1 .. num /\ st \in 0 .. n - 1
        /\ \A p \in 1 .. num : order[p].tenant = order[n].tenant <=> st < p /\ p <= n
    BY RunExact, SMTT(90)
  <1> HIDE DEF st
  <1>4. r.tenant = order[n].tenant /\ r.first = st /\ r.count = n - st
    BY <1>2 DEF st
  <1>5. r.first \in Nat /\ r.count \in Nat \ {0} /\ r.first + r.count = n /\ n <= num
    BY <1>3, <1>4
  <1>6. ASSUME NEW d \in 0 .. num - 1
        PROVE  g.tenant[d + 1] = r.tenant <=> r.first <= d /\ d <= r.first + r.count - 1
    <2>1. d + 1 \in 1 .. num
      OBVIOUS
    <2>2. g.tenant[d + 1] = r.tenant <=> st < d + 1 /\ d + 1 <= n
      BY <1>3, <1>4, <2>1
    <2> QED BY <1>3, <1>4, <1>5, <2>2
  <1> QED BY <1>5, <1>6 DEF RangeOK

(* Whatever documents tp_write_segment is given (each ctid once), the segment it writes is
   well formed and complete: every posting list is sorted and has all documents of its term,
   its skip entries describe its blocks, and the tenant ranges of its document map hold
   exactly the documents of their tenants.  The readers of a segment rely on all of this without checking it. *)
THEOREM WrittenWellFormed ==
    ASSUME NEW D, NEW ten, DocsOK(D, ten), NEW g, g = tp_write_segment(D, ten, << >>)
    PROVE  WellFormed(g) /\ WrittenFrom(g, D, doc_order(D)) /\ Complete(g, D, doc_order(D))
  <1> DEFINE num == Cardinality(D)
             order == doc_order(D)
             norm == [n \in DOMAIN order |-> encode_fieldnorm(order[n].len)]
             tenant_of == [id \in 0 .. Len(order) - 1 |-> order[id + 1].tenant]
             nobody == [id \in 0 .. Len(order) - 1 |-> 0]
  <1>0. /\ D \in SUBSET Document /\ IsFiniteSet(D) /\ num < UINT32_MAX
        /\ \A d, e \in D : d.ctid = e.ctid => d = e
        /\ \A d \in D : FieldNormTable[1] <= d.len
        /\ ten \in BOOLEAN /\ (ten \/ \A d \in D : d.tenant = 0)
    BY DEF DocsOK
  <1>1. /\ num \in Nat /\ order \in [1 .. num -> D]
        /\ \A a, b \in 1 .. num : a # b => order[a].ctid # order[b].ctid
        /\ has_tenants(D) => \A a, b \in 1 .. num : a < b => order[a].tenant <= order[b].tenant
    BY <1>0, OrderLists
  <1>c. \A d \in D : \E n \in 1 .. num : order[n] = d
    BY <1>0, OrderLists
  <1>2. /\ g.num_docs = Len(order)
        /\ g.ctid = [n \in DOMAIN order |-> order[n].ctid]
        /\ g.norm = norm
        /\ g.tenant = [n \in DOMAIN order |-> order[n].tenant]
        /\ g.has_tenant_data = ten
        /\ g.ranges = IF has_tenants(D) THEN tenant_ranges(order) ELSE {}
        /\ DOMAIN g.post = {t \in Term : {j \in DOMAIN order : order[j].tf[t] > 0} # {}}
        /\ \A t \in DOMAIN g.post :
             /\ g.post[t] = Sorted(Entries(order, norm, t), cmp_block_posting_by_doc_id)
             /\ g.skip[t] = IF ten /\ has_tenants(D) THEN SkipEntries(g.post[t], tenant_of)
                            ELSE SkipEntries(g.post[t], nobody)
    <2>1. order = doc_order(D) /\ norm = [n \in DOMAIN order |-> encode_fieldnorm(order[n].len)]
          /\ tenant_of = [id \in 0 .. Len(order) - 1 |-> order[id + 1].tenant]
          /\ nobody = [id \in 0 .. Len(order) - 1 |-> 0]
      OBVIOUS
    <2> HIDE DEF order, norm, tenant_of, nobody
    <2>2. Parts(g, D, ten, order, norm, tenant_of, nobody)
      BY <2>1, WrittenParts
    <2> QED BY <2>2 DEF Parts
  <1>3. Len(order) = num /\ DOMAIN order = 1 .. num
    BY <1>1
  <1>4. \A n \in 1 .. num : /\ order[n] \in D /\ order[n].ctid \in Nat
                            /\ order[n].tenant \in Nat /\ order[n].len \in Nat /\ FieldNormTable[1] <= order[n].len
    BY <1>0, <1>1 DEF Document
  <1>5. norm \in [1 .. num -> DOMAIN FieldNormTable]
    BY <1>3, <1>4, FieldNorm
  <1>6. tenant_of \in [0 .. num - 1 -> Nat] /\ nobody \in [0 .. num - 1 -> Nat]
        /\ \A d \in 0 .. num - 1 : tenant_of[d] = order[d + 1].tenant /\ nobody[d] = 0
    <2>1. \A d \in 0 .. num - 1 : d + 1 \in 1 .. num
      BY <1>1
    <2> QED BY <1>3, <1>4, <2>1
  <1>n. \A n \in 1 .. num : norm[n] = encode_fieldnorm(order[n].len)
    BY <1>3
  <1>s. D \in SUBSET Document
    BY <1>0
  <1> HIDE DEF num, order, norm, tenant_of, nobody
  <1>7. /\ \A n \in 1 .. num : g.ctid[n] = order[n].ctid /\ g.tenant[n] = order[n].tenant
        /\ g.ctid \in [1 .. num -> Nat] /\ g.tenant \in [1 .. num -> Nat]
        /\ g.num_docs = num
    BY <1>2, <1>3, <1>4
  <1>8. ASSUME NEW t \in DOMAIN g.post
        PROVE  /\ t \in Term /\ g.post[t] \in PostingList
               /\ \A n \in 1 .. Len(g.post[t]) : g.post[t][n] \in Entries(order, norm, t)
               /\ \A p \in Entries(order, norm, t) : \E n \in 1 .. Len(g.post[t]) : g.post[t][n] = p
    <2>1. t \in Term /\ {j \in DOMAIN order : order[j].tf[t] > 0} # {}
      BY <1>2
    <2>2. /\ g.post[t] \in PostingList
          /\ \A p : (\E n \in 1 .. Len(g.post[t]) : p = g.post[t][n]) <=> p \in Entries(order, norm, t)
      <3> DEFINE L == Sorted(Entries(order, norm, t), cmp_block_posting_by_doc_id)
      <3>1. /\ L \in PostingList
            /\ \A p : (\E n \in 1 .. Len(L) : p = L[n]) <=> p \in Entries(order, norm, t)
        BY <1>1, <1>s, <1>5, <2>1, WrittenList
      <3>2. g.post[t] = L
        BY <1>2
      <3> HIDE DEF L
      <3> QED BY <3>1, <3>2
    <2> QED BY <2>1, <2>2
  <1>9. ASSUME NEW t \in DOMAIN g.post, NEW n \in 1 .. Len(g.post[t])
        PROVE  /\ g.post[t][n].doc \in 0 .. num - 1
               /\ g.post[t][n].frequency = order[g.post[t][n].doc + 1].tf[t]
               /\ g.post[t][n].norm = norm[g.post[t][n].doc + 1]
    <2>1. g.post[t][n] \in Entries(order, norm, t)
      BY <1>8
    <2> DEFINE p == g.post[t][n]
    <2> HIDE DEF p
    <2>2. p.doc \in 0 .. num - 1 /\ p.frequency = order[p.doc + 1].tf[t] /\ p.norm = norm[p.doc + 1]
      <3>1. p \in Entries(order, norm, t)
        BY <2>1 DEF p
      <3>2. PostingOf(p, num, order, norm, t)
        BY <1>1, <1>s, <3>1, EntriesHave
      <3> QED BY <3>2 DEF PostingOf
    <2> QED BY <2>2 DEF p
  <1>10. ASSUME NEW t \in DOMAIN g.post PROVE ListOK(g, t)
    <2> DEFINE L == g.post[t]
    <2>1. L \in PostingList /\ \A n \in 1 .. Len(L) : L[n].doc \in 0 .. num - 1
      BY <1>8, <1>9
    <2>2. \A n \in 1 .. Len(L) : L[n].norm = g.norm[L[n].doc + 1]
      BY <1>2, <1>9
    <2>3. /\ Len(g.skip[t]) = num_blocks(L)
          /\ \A b \in 0 .. num_blocks(L) - 1 : EntryOK(g.skip[t][b + 1], Block(L, b), g.tenant)
      <3> HIDE DEF L
      <3>1. CASE ten /\ has_tenants(D)
        <4>1. g.skip[t] = SkipEntries(L, tenant_of)
          BY <1>2, <3>1 DEF L
        <4>2. \A d \in 0 .. num - 1 : tenant_of[d] = g.tenant[d + 1]
          <5>1. \A d \in 0 .. num - 1 : d + 1 \in 1 .. num
            BY <1>1
          <5> QED BY <1>6, <1>7, <5>1
        <4> DEFINE ten2 == g.tenant
                   sk == g.skip[t]
        <4> HIDE DEF ten2, sk
        <4>3. /\ Len(sk) = num_blocks(L)
              /\ \A b \in 0 .. num_blocks(L) - 1 : EntryOK(sk[b + 1], Block(L, b), ten2)
          <5>1. sk = SkipEntries(L, tenant_of) /\ \A d \in 0 .. num - 1 : tenant_of[d] = ten2[d + 1]
            BY <4>1, <4>2 DEF sk, ten2
          <5>2. \/ \A d \in 0 .. num - 1 : tenant_of[d] = ten2[d + 1]
                \/ \A d \in 0 .. num - 1 : tenant_of[d] = 0
            BY <5>1
          <5>3. tenant_of \in [0 .. num - 1 -> Nat]
            BY <1>6
          <5> QED BY <1>1, <2>1, <5>1, <5>2, <5>3, SkipEntriesOK
        <4> QED BY <4>3 DEF ten2, sk
      <3>2. CASE ~(ten /\ has_tenants(D))
        <4>1. g.skip[t] = SkipEntries(L, nobody)
          BY <1>2, <3>2 DEF L
        <4> DEFINE ten2 == g.tenant
                   sk == g.skip[t]
        <4> HIDE DEF ten2, sk
        <4>3. /\ Len(sk) = num_blocks(L)
              /\ \A b \in 0 .. num_blocks(L) - 1 : EntryOK(sk[b + 1], Block(L, b), ten2)
          <5>1. sk = SkipEntries(L, nobody) /\ \A d \in 0 .. num - 1 : nobody[d] = 0
            BY <4>1, <1>6 DEF sk, ten2
          <5> QED BY <1>1, <1>6, <2>1, <5>1, SkipEntriesOK
        <4> QED BY <4>3 DEF ten2, sk
      <3> QED BY <3>1, <3>2
    <2> QED BY <1>7, <2>1, <2>2, <2>3 DEF ListOK
  <1>11. ASSUME NEW r \in g.ranges PROVE RangeOK(g, r)
    <2>1. has_tenants(D) /\ r \in tenant_ranges(order)
      BY <1>2
    <2>2. \A a, b \in 1 .. num : a < b => order[a].tenant <= order[b].tenant
      BY <1>1, <2>1
    <2> QED BY <1>1, <1>s, <1>7, <2>1, <2>2, TenantRangeOK
  <1>12. WellFormed(g)
    <2>1. ~g.has_tenant_data => \A d \in 1 .. g.num_docs : g.tenant[d] = 0
      BY <1>0, <1>2, <1>4, <1>7
    <2>2. num < UINT32_MAX
      BY <1>0 DEF num
    <2> QED BY <1>1, <1>2, <1>5, <1>7, <1>10, <1>11, <2>1, <2>2 DEF WellFormed, NormsOf
  <1>13. WrittenFrom(g, D, order)
    <2>1. order \in [1 .. g.num_docs -> D] /\ \A a, b \in 1 .. g.num_docs : a # b => order[a].ctid # order[b].ctid
      BY <1>1, <1>7
    <2>2. \A n \in 1 .. g.num_docs : /\ g.ctid[n] = order[n].ctid
                                  /\ g.tenant[n] = order[n].tenant
                                  /\ g.norm[n] = encode_fieldnorm(order[n].len)
      BY <1>2, <1>7, <1>n
    <2>3. \A t \in DOMAIN g.post : t \in Term /\ \A n \in 1 .. Len(g.post[t]) : g.post[t][n].frequency = order[g.post[t][n].doc + 1].tf[t]
      BY <1>8, <1>9
    <2> QED BY <2>1, <2>2, <2>3 DEF WrittenFrom
  <1>14. ASSUME NEW t \in Term, NEW n \in 1 .. num, order[n].tf[t] > 0
         PROVE  t \in DOMAIN g.post /\ \E m \in 1 .. Len(g.post[t]) : g.post[t][m].doc = n - 1
    <2>1. n \in {j \in DOMAIN order : order[j].tf[t] > 0}
      BY <1>3, <1>14
    <2>2. t \in DOMAIN g.post
      BY <1>2, <2>1
    <2>3. PICK p : p = BlockPosting(n - 1, order[n].tf[t], norm[n])
      OBVIOUS
    <2>4. p \in Entries(order, norm, t)
      BY <2>1, <2>3 DEF Entries
    <2>5. PICK m \in 1 .. Len(g.post[t]) : g.post[t][m] = p
      BY <1>8, <2>2, <2>4
    <2>6. p.doc = n - 1
      BY <2>3 DEF BlockPosting
    <2> QED BY <2>2, <2>5, <2>6
  <1>15. ASSUME NEW t \in DOMAIN g.post, NEW b \in 0 .. num_blocks(g.post[t]) - 1
         PROVE  BlockMaxima(g.skip[t][b + 1], Block(g.post[t], b))
    <2>1. PICK L \in PostingList : L = g.post[t]
      BY <1>8
    <2>2. num_blocks(L) \in Nat /\ b \in 0 .. num_blocks(L) - 1
      BY <1>15, <2>1, BlockPlaces
    <2>3. PICK tids : g.skip[t] = SkipEntries(L, tids)
      BY <1>2, <2>1
    <2>4. b + 1 \in 1 .. num_blocks(L) /\ (b + 1) - 1 = b
      BY <2>2
    <2>5. g.skip[t][b + 1] = SkipEntry(Block(L, b), tids)
      BY <2>3, <2>4 DEF SkipEntries
    <2>6. PICK blk : blk = Block(L, b)
      OBVIOUS
    <2>7. blk \in Seq(Posting) /\ Len(blk) \in Nat \ {0}
      BY <2>2, <2>6, BlockPlaces
    <2>8. BlockMaxima(SkipEntry(blk, tids), blk)
      BY <2>7, MaximaFound
    <2> QED BY <2>1, <2>5, <2>6, <2>8
  <1>16. ASSUME NEW d \in D, d.tenant \notin {0, UINT32_MAX}
         PROVE  \E r \in g.ranges : r.tenant = d.tenant
    <2>1. PICK p \in 1 .. num : order[p] = d
      BY <1>c
    <2>2. PICK n \in RunEnds(order) : order[n].tenant = order[p].tenant
      BY <1>1, <1>s, <1>16, <2>1, RunFound
    <2>3. g.ranges = tenant_ranges(order)
      BY <1>2, <1>16 DEF has_tenants
    <2>4. order = [j \in 1 .. num |-> order[j]]
      BY <1>1
    <2>5. tenant_ranges(order) =
             {[tenant |-> order[j].tenant, first |-> RunStartOf(order, j), count |-> j - RunStartOf(order, j)] :
                  j \in {e \in RunEnds(order) : order[e].tenant # 0}}
      <3>1. num \in Nat
        BY <1>1
      <3> QED BY <2>4, <3>1, RangesAreRuns, Zenon
    <2>6. PICK r : r = [tenant |-> order[n].tenant, first |-> RunStartOf(order, n), count |-> n - RunStartOf(order, n)]
      OBVIOUS
    <2>7. order[n].tenant # 0
      BY <1>16, <2>1, <2>2
    <2>8. r \in g.ranges
      BY <2>2, <2>3, <2>5, <2>6, <2>7, Zenon
    <2>9. r.tenant = d.tenant
      BY <2>1, <2>2, <2>6
    <2> QED BY <2>8, <2>9
  <1>17. Complete(g, D, order)
    BY <1>c, <1>7, <1>14, <1>15, <1>16 DEF Complete
  <1> QED BY <1>12, <1>13, <1>17 DEF order

-----------------------------------------------------------------------------
(* The level chains: what linking and merging do to their documents. *)

ChainsType == [Levels -> Seq(Segments)]

(* Linking a segment in front of a chain (LinkSegment) puts it at the head *)
(* and moves every other segment one place on.                             *)
LEMMA ConsChain ==
    ASSUME NEW chain \in Seq(Segments), NEW seg \in Segments
    PROVE  /\ <<seg>> \o chain \in Seq(Segments)
           /\ Len(<<seg>> \o chain) = Len(chain) + 1
           /\ (<<seg>> \o chain)[1] = seg
           /\ \A i \in 1 .. Len(chain) : (<<seg>> \o chain)[i + 1] = chain[i]
           /\ DOMAIN (<<seg>> \o chain) = 1 .. Len(chain) + 1
           /\ DOMAIN chain = 1 .. Len(chain)
           /\ Len(chain) \in Nat
  OBVIOUS

(* The documents of a chain with a new head are the head's and the         *)
(* chain's.                                                                *)
LEMMA ConsChainDocs ==
    ASSUME NEW chain \in Seq(Segments), NEW seg \in Segments
    PROVE  ChainDocs(<<seg>> \o chain) = seg \cup ChainDocs(chain)
  <1> DEFINE new == <<seg>> \o chain
  <1>1. ASSUME NEW d \in ChainDocs(new) PROVE d \in seg \cup ChainDocs(chain)
    <2>1. PICK i \in 1 .. Len(chain) + 1 : d \in new[i]
      BY <1>1, ConsChain DEF ChainDocs
    <2>2. CASE i = 1 BY <2>1, <2>2, ConsChain
    <2>3. CASE i # 1
      <3>1. i - 1 \in 1 .. Len(chain) /\ (i - 1) + 1 = i
        BY <2>3, ConsChain
      <3>2. d \in chain[i - 1]
        BY <2>1, <3>1, ConsChain
      <3> QED BY <3>1, <3>2, ConsChain DEF ChainDocs
    <2> QED BY <2>2, <2>3
  <1>2. ASSUME NEW d \in seg PROVE d \in ChainDocs(new)
    BY 1 \in 1 .. Len(chain) + 1, ConsChain DEF ChainDocs
  <1>3. ASSUME NEW d \in ChainDocs(chain) PROVE d \in ChainDocs(new)
    <2>1. PICK i \in 1 .. Len(chain) : d \in chain[i]
      BY <1>3, ConsChain DEF ChainDocs
    <2>2. i + 1 \in 1 .. Len(chain) + 1 /\ new[i + 1] = chain[i]
      BY ConsChain
    <2>3. i + 1 \in DOMAIN new /\ d \in new[i + 1]
      BY <2>1, <2>2, ConsChain
    <2> HIDE DEF new
    <2> QED BY <2>3 DEF ChainDocs
  <1> QED BY <1>1, <1>2, <1>3

(* A segment linked at level l adds its documents and loses none. *)
LEMMA LinkSegmentDocs ==
    ASSUME NEW chains \in ChainsType, NEW l \in Levels, NEW seg \in Segments
    PROVE  /\ LinkSegment(chains, l, seg) \in ChainsType
           /\ LinkedDocs(LinkSegment(chains, l, seg)) = seg \cup LinkedDocs(chains)
  <1> DEFINE new == LinkSegment(chains, l, seg)
  <1>1. chains[l] \in Seq(Segments) BY DEF ChainsType
  <1>2. /\ new \in ChainsType
        /\ new[l] = <<seg>> \o chains[l]
        /\ \A m \in Levels \ {l} : new[m] = chains[m]
    BY <1>1, ConsChain DEF LinkSegment, ChainsType
  <1>3. ChainDocs(new[l]) = seg \cup ChainDocs(chains[l])
    BY <1>1, <1>2, ConsChainDocs
  <1>4. \A m \in Levels \ {l} : ChainDocs(new[m]) = ChainDocs(chains[m])
    BY <1>2
  <1> HIDE DEF new
  <1>5. LinkedDocs(new) = seg \cup LinkedDocs(chains)
    BY <1>3, <1>4, Zenon DEF LinkedDocs
  <1> QED BY <1>2, <1>5 DEF new

(* A segment whose documents are in no chain keeps the segments disjoint   *)
(* when it is linked.                                                      *)
LEMMA LinkSegmentDisjoint ==
    ASSUME NEW chains \in ChainsType, NEW l \in Levels, NEW seg \in Segments,
           SegmentsDisjoint(chains), seg \cap LinkedDocs(chains) = {}
    PROVE  SegmentsDisjoint(LinkSegment(chains, l, seg))
  <1> DEFINE new == LinkSegment(chains, l, seg)
  <1>1. chains[l] \in Seq(Segments) BY DEF ChainsType
  <1>2. /\ new[l] = <<seg>> \o chains[l]
        /\ \A m \in Levels \ {l} : new[m] = chains[m]
    BY <1>1, ConsChain DEF LinkSegment, ChainsType
  <1>3. \A m \in Levels : \A i \in DOMAIN chains[m] : seg \cap chains[m][i] = {}
    BY DEF LinkedDocs, ChainDocs
  (* Every place of the new chains holds seg or a segment moved there. *)
  <1>4. ASSUME NEW m \in Levels, NEW i \in DOMAIN new[m]
        PROVE  \/ m = l /\ i = 1 /\ new[m][i] = seg
               \/ m = l /\ i - 1 \in DOMAIN chains[l] /\ new[m][i] = chains[l][i - 1]
               \/ m # l /\ i \in DOMAIN chains[m] /\ new[m][i] = chains[m][i]
    <2>1. CASE m # l BY <1>2, <1>4, <2>1
    <2>2. CASE m = l
      <3>1. i \in 1 .. Len(chains[l]) + 1
        BY <1>1, <1>2, <1>4, <2>2, ConsChain
      <3>2. CASE i = 1 BY <1>1, <1>2, <2>2, <3>2, ConsChain
      <3>3. CASE i # 1
        <4>1. i - 1 \in 1 .. Len(chains[l]) /\ (i - 1) + 1 = i
          BY <1>1, <3>1, <3>3, ConsChain
        <4> QED BY <1>1, <1>2, <2>2, <4>1, ConsChain
      <3> QED BY <3>2, <3>3
    <2> QED BY <2>1, <2>2
  <1> HIDE DEF new
  <1>5. ASSUME NEW m \in Levels, NEW n \in Levels,
               NEW i \in DOMAIN new[m], NEW j \in DOMAIN new[n], m # n \/ i # j
        PROVE  new[m][i] \cap new[n][j] = {}
    <2>1. CASE m = l /\ i = 1 /\ new[m][i] = seg
      BY <1>3, <1>4, <1>5, <2>1
    <2>2. CASE n = l /\ j = 1 /\ new[n][j] = seg
      BY <1>3, <1>4, <1>5, <2>2
    <2>3. CASE /\ ~(m = l /\ i = 1 /\ new[m][i] = seg)
               /\ ~(n = l /\ j = 1 /\ new[n][j] = seg)
      <3>1. PICK p \in DOMAIN chains[m] :
                 new[m][i] = chains[m][p] /\ (m = l => p = i - 1) /\ (m # l => p = i)
        BY <1>4, <2>3
      <3>2. PICK q \in DOMAIN chains[n] :
                 new[n][j] = chains[n][q] /\ (n = l => q = j - 1) /\ (n # l => q = j)
        BY <1>4, <2>3
      <3>3. m # n \/ p # q
        <4>1. CASE m # n BY <4>1
        <4>2. CASE m = n /\ m = l
          <5>1. i \in Int /\ j \in Int
            BY <1>1, <1>2, <4>2, ConsChain
          <5> QED BY <1>5, <3>1, <3>2, <4>2, <5>1
        <4>3. CASE m = n /\ m # l BY <1>5, <3>1, <3>2, <4>3
        <4> QED BY <4>1, <4>2, <4>3
      <3> QED BY <3>1, <3>2, <3>3 DEF SegmentsDisjoint
    <2> QED BY <2>1, <2>2, <2>3
  <1> QED BY <1>5 DEF SegmentsDisjoint, new

(* The merge of a whole level moves its documents to the level above: the  *)
(* documents of all chains stay the same and no two segments share one.    *)
LEMMA ReplaceLevelDocs ==
    ASSUME NEW chains \in ChainsType, NEW l \in Levels, l + 1 \in Levels
    PROVE  LET new == ReplaceLevel(chains, l, ChainDocs(chains[l]))
           IN  /\ new \in ChainsType
               /\ LinkedDocs(new) = LinkedDocs(chains)
               /\ SegmentsDisjoint(chains) => SegmentsDisjoint(new)
  <1> DEFINE mseg == ChainDocs(chains[l])
             cleared == [chains EXCEPT ![l] = <<>>]
             new == ReplaceLevel(chains, l, mseg)
  <1>1. l # l + 1 BY DEF Levels
  <1>2. cleared \in ChainsType BY DEF ChainsType
  <1>3. mseg \in Segments
    <2>1. \A i \in DOMAIN chains[l] : chains[l][i] \in Segments
      BY DEF ChainsType
    <2> QED BY <2>1 DEF ChainDocs, Segments
  <1>4. new = LinkSegment(cleared, l + 1, mseg)
    BY <1>1 DEF ReplaceLevel, LinkSegment, ChainsType
  <1>5. /\ cleared[l] = <<>>
        /\ \A m \in Levels \ {l} : cleared[m] = chains[m]
    BY DEF ChainsType
  <1>6. ChainDocs(cleared[l]) = {} BY <1>5 DEF ChainDocs
  <1>7. LinkedDocs(chains) = mseg \cup LinkedDocs(cleared)
    BY <1>5, <1>6, Zenon DEF LinkedDocs
  <1> HIDE DEF mseg, cleared, new
  <1>8. new \in ChainsType /\ LinkedDocs(new) = mseg \cup LinkedDocs(cleared)
    BY <1>2, <1>3, <1>4, LinkSegmentDocs
  <1>9. ASSUME SegmentsDisjoint(chains) PROVE SegmentsDisjoint(new)
    <2>1. SegmentsDisjoint(cleared)
      BY <1>5, <1>9 DEF SegmentsDisjoint
    <2>2. mseg \cap LinkedDocs(cleared) = {}
      <3>1. \A i \in DOMAIN chains[l], m \in Levels \ {l} :
               \A j \in DOMAIN chains[m] : chains[l][i] \cap chains[m][j] = {}
        BY <1>9 DEF SegmentsDisjoint
      <3>2. \A m \in Levels \ {l} : mseg \cap ChainDocs(cleared[m]) = {}
        BY <1>5, <3>1 DEF ChainDocs, mseg
      <3> QED BY <1>6, <3>2 DEF LinkedDocs
    <2> QED BY <1>2, <1>3, <1>4, <2>1, <2>2, LinkSegmentDisjoint
  <1> QED BY <1>7, <1>8, <1>9 DEF new, mseg

(* A merge that opens as many sources as the chain is long opens all. *)
LEMMA MergeSourcesAll ==
    ASSUME NEW chain \in Seq(Segments)
    PROVE  MergeSources(chain, Len(chain)) = chain
  BY DEF MergeSources

(* Below the last level there is a level to merge into. *)
LEMMA NextLevel ==
    ASSUME NEW l \in Levels, l < MaxLevels - 1
    PROVE  l + 1 \in Levels
  BY LevelsAssumption DEF Levels

(* The sources of a merge hold documents. *)
LEMMA MergeSourcesType ==
    ASSUME NEW chain \in Seq(Segments), NEW num \in Nat
    PROVE  ChainDocs(MergeSources(chain, num)) \in Segments
  <1>1. MergeSources(chain, num) \in Seq(Segments)
    BY DEF MergeSources
  <1>2. \A i \in DOMAIN MergeSources(chain, num) : MergeSources(chain, num)[i] \in Segments
    BY <1>1
  <1> QED BY <1>2 DEF ChainDocs, Segments

(* The counts after a merge: the level is empty, the one above has one     *)
(* segment more.                                                           *)
LEMMA RecountLevelValue ==
    ASSUME NEW counts \in [Levels -> Nat], NEW l \in Levels, l + 1 \in Levels
    PROVE  /\ RecountLevel(counts, l) \in [Levels -> Nat]
           /\ RecountLevel(counts, l)[l] = 0
           /\ RecountLevel(counts, l)[l + 1] = counts[l + 1] + 1
           /\ \A m \in Levels \ {l, l + 1} : RecountLevel(counts, l)[m] = counts[m]
  <1> DEFINE zeroed == [counts EXCEPT ![l] = 0]
  <1>1. l # l + 1 BY DEF Levels
  <1>2. zeroed \in [Levels -> Nat] /\ zeroed[l + 1] = counts[l + 1] /\ zeroed[l] = 0
    BY <1>1
  <1>3. \A m \in Levels \ {l, l + 1} : zeroed[m] = counts[m]
    OBVIOUS
  <1>4. RecountLevel(counts, l) = [zeroed EXCEPT ![l + 1] = zeroed[l + 1] + 1]
    BY <1>1 DEF RecountLevel
  <1> HIDE DEF zeroed
  <1> QED BY <1>1, <1>2, <1>3, <1>4

(* The chains after a merge. *)
LEMMA ReplaceLevelValue ==
    ASSUME NEW chains \in ChainsType, NEW l \in Levels, l + 1 \in Levels,
           NEW seg \in Segments
    PROVE  /\ ReplaceLevel(chains, l, seg) \in ChainsType
           /\ ReplaceLevel(chains, l, seg)[l] = <<>>
           /\ ReplaceLevel(chains, l, seg)[l + 1] = <<seg>> \o chains[l + 1]
           /\ \A m \in Levels \ {l, l + 1} :
                 ReplaceLevel(chains, l, seg)[m] = chains[m]
  <1> DEFINE cleared == [chains EXCEPT ![l] = <<>>]
  <1>1. l # l + 1 BY DEF Levels
  <1>2. /\ cleared \in ChainsType
        /\ cleared[l + 1] = chains[l + 1]
        /\ cleared[l] = <<>>
    BY <1>1 DEF ChainsType
  <1>3. \A m \in Levels \ {l, l + 1} : cleared[m] = chains[m]
    BY DEF ChainsType
  <1>4. ReplaceLevel(chains, l, seg) = [cleared EXCEPT ![l + 1] = <<seg>> \o cleared[l + 1]]
    BY <1>1 DEF ReplaceLevel, ChainsType
  <1>5. <<seg>> \o chains[l + 1] \in Seq(Segments)
    BY ConsChain DEF ChainsType
  <1> HIDE DEF cleared
  <1> QED BY <1>1, <1>2, <1>3, <1>4, <1>5 DEF ChainsType
=============================================================================
