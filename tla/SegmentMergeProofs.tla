------------------------ MODULE SegmentMergeProofs --------------------------
(***************************************************************************)
(* Proofs about the merge of a level, for every chain of readable          *)
(* segments, number of levels, set of terms and block size:                *)
(*                                                                         *)
(*   TypeCorrect     the type invariant;                                   *)
(*   Conserves       the merged segment holds what its sources held;       *)
(*   WrittenAsOne    it is the segment tp_write_segment would have written *)
(*                   for all the documents at once.                        *)
(*                                                                         *)
(* All three follow from one inductive invariant, MergeInv: the segments   *)
(* of the levels and of the chain are readable; the sources opened are     *)
(* those of the chain, each in front of the terms not merged yet; the map  *)
(* renumbers the documents of every source, one number per CTID; the       *)
(* merged terms are the smallest terms of all sources, in order, each with *)
(* the sources that have it; the postings collected stand one to one for   *)
(* the places the posting sources have passed; and every list written is   *)
(* the sorted list of all places of its term.                              *)
(***************************************************************************)
EXTENDS SegmentMerge, SegmentProofs

(* Along a strict order there is one ascending listing. *)
LEMMA ListingUnique ==
    ASSUME NEW S, IsFiniteSet(S), NEW rel, Orders(rel, S), NEW seq, Lists(seq, S, rel),
           NEW other \in [1 .. Cardinality(S) -> S],
           \A a, b \in 1 .. Cardinality(S) : a < b => <<other[a], other[b]>> \in rel
    PROVE  other = seq
  <1>0. PICK c \in Nat : c = Cardinality(S)
    BY FS_CardinalityType
  <1>1. ASSUME NEW a \in 1 .. c, NEW b \in 1 .. c, other[a] = other[b] PROVE a = b
    <2>1. ~(a < b) /\ ~(b < a)
      BY <1>0, <1>1 DEF Orders
    <2> QED BY <2>1
  <1>2. ASSUME NEW y \in S PROVE \E m \in 1 .. c : other[m] = y
    <2>1. other \in Injection(1 .. c, S)
      BY <1>0, <1>1 DEF Injection, IsInjective
    <2>2. other \in Surjection(1 .. c, S)
      BY <1>0, <2>1, IntervalCard, FS_Injection
    <2> QED BY <2>2 DEF Surjection
  <1>3. ASSUME NEW n \in 1 .. c PROVE Cardinality(Below(S, rel, other[n])) = n - 1
    <2> DEFINE f == [m \in 1 .. n - 1 |-> other[m]]
               B == Below(S, rel, other[n])
    <2>0. n - 1 \in Nat /\ \A m \in 1 .. n - 1 : m \in 1 .. c /\ m < n
      BY <1>0
    <2>1. f \in [1 .. n - 1 -> B]
      <3>1. ASSUME NEW m \in 1 .. n - 1 PROVE other[m] \in B
        BY <1>0, <2>0 DEF Below
      <3> QED BY <3>1
    <2>2. \A a, b \in 1 .. n - 1 : f[a] = f[b] => a = b
      BY <1>1, <2>0
    <2>3. ASSUME NEW y \in B PROVE \E m \in 1 .. n - 1 : f[m] = y
      <3>1. PICK m \in 1 .. c : other[m] = y
        BY <1>2 DEF Below
      <3>2. <<other[m], other[n]>> \in rel
        BY <3>1 DEF Below
      <3>3. other[m] \in S /\ other[n] \in S
        BY <1>0
      <3>4. m # n
        BY <3>2, <3>3 DEF Orders
      <3>5. ~(n < m)
        <4> SUFFICES ASSUME n < m PROVE FALSE
          OBVIOUS
        <4>1. <<other[n], other[m]>> \in rel
          BY <1>0
        <4> QED BY <3>2, <3>3, <4>1 DEF Orders
      <3>6. m \in 1 .. n - 1
        BY <3>4, <3>5
      <3> QED BY <3>1, <3>6
    <2>4. IsFiniteSet(1 .. n - 1) /\ Cardinality(1 .. n - 1) = n - 1
      BY <2>0, IntervalCard
    <2>5. Cardinality(B) = Cardinality(1 .. n - 1)
      <3>1. PICK I, C, g : I = 1 .. n - 1 /\ C = B /\ g = f
        OBVIOUS
      <3> HIDE DEF f, B
      <3>2. IsFiniteSet(I) /\ g \in [I -> C]
        BY <2>1, <2>4, <3>1
      <3>3. \A a, b \in I : g[a] = g[b] => a = b
        BY <2>2, <3>1
      <3>4. \A y \in C : \E x \in I : g[x] = y
        BY <2>3, <3>1
      <3>5. Cardinality(C) = Cardinality(I)
        BY <3>2, <3>3, <3>4, OntoCard
      <3> QED BY <3>1, <3>5
    <2> QED BY <2>4, <2>5 DEF B
  <1>4. ASSUME NEW n \in 1 .. c PROVE other[n] = seq[n]
    <2>1. other[n] \in S
      BY <1>0
    <2>2. seq[n] \in S /\ Cardinality(Below(S, rel, seq[n])) = n - 1
      BY <1>0, <1>3, <2>1 DEF Lists
    <2>3. Cardinality(Below(S, rel, other[n])) = n - 1 /\ n - 1 \in Nat
      BY <1>3
    <2>4. ~(<<other[n], seq[n]>> \in rel) /\ ~(<<seq[n], other[n]>> \in rel)
      <3>1. PICK x \in S, y \in S : x = other[n] /\ y = seq[n]
        BY <2>1, <2>2
      <3>2. <<x, y>> \in rel => Cardinality(Below(S, rel, x)) < Cardinality(Below(S, rel, y))
        BY BelowCard
      <3>3. <<y, x>> \in rel => Cardinality(Below(S, rel, y)) < Cardinality(Below(S, rel, x))
        BY BelowCard
      <3> QED BY <2>2, <2>3, <3>1, <3>2, <3>3
    <2> QED BY <2>1, <2>2, <2>4 DEF Orders
  <1>5. seq = [n \in 1 .. c |-> seq[n]]
    BY <1>0 DEF Lists
  <1>6. other = [n \in 1 .. c |-> other[n]]
    BY <1>0
  <1> QED BY <1>4, <1>5, <1>6

(* What the document map sorts: entries with different ctids. *)
Keyed(D) ==
    /\ IsFiniteSet(D) /\ \A d \in D : d.ctid \in Nat /\ d.tenant \in Nat
    /\ \A d, e \in D : d.ctid = e.ctid => d = e

(* Its order. *)
DocBefore(tenants, d, e) ==
    IF tenants THEN docmap_entry_cmp_by_tenant_then_ctid(d, e) ELSE docmap_entry_cmp_by_ctid(d, e)
DocRel(D) == {p \in D \X D : DocBefore(has_tenants(D), p[1], p[2])}

(* The relation of docmap_entry_cmp, or of the comparison by tenant first. *)
LEMMA DocRelIs ==
    ASSUME NEW D
    PROVE  \A d, e \in D : <<d, e>> \in DocRel(D) <=> DocBefore(has_tenants(D), d, e)
  BY DEF DocRel

(* It is a strict total order on the documents: no two share a CTID. *)
LEMMA DocRelOrders ==
    ASSUME NEW D, Keyed(D)
    PROVE  Orders(DocRel(D), D)
  <1>0. \A d \in D : d.ctid \in Nat /\ d.tenant \in Nat
    BY DEF Keyed
  <1>1. PICK ten : ten = has_tenants(D)
    OBVIOUS
  <1>r. \A d, e \in D : <<d, e>> \in DocRel(D) <=> DocBefore(ten, d, e)
    BY <1>1, DocRelIs
  <1>2. ASSUME NEW x \in D PROVE <<x, x>> \notin DocRel(D)
    BY <1>0, <1>r DEF DocBefore, docmap_entry_cmp_by_tenant_then_ctid, docmap_entry_cmp_by_ctid
  <1>3. ASSUME NEW x \in D, NEW y \in D, NEW z \in D, <<x, y>> \in DocRel(D), <<y, z>> \in DocRel(D)
        PROVE  <<x, z>> \in DocRel(D)
    <2>1. DocBefore(ten, x, y) /\ DocBefore(ten, y, z)
      BY <1>r, <1>3
    <2>2. /\ x.ctid \in Nat /\ x.tenant \in Nat /\ y.ctid \in Nat /\ y.tenant \in Nat
          /\ z.ctid \in Nat /\ z.tenant \in Nat
      BY <1>0
    <2>3. DocBefore(ten, x, z)
      BY <2>1, <2>2 DEF DocBefore, docmap_entry_cmp_by_tenant_then_ctid, docmap_entry_cmp_by_ctid
    <2> QED BY <1>r, <2>3
  <1>4. ASSUME NEW x \in D, NEW y \in D, x # y PROVE <<x, y>> \in DocRel(D) \/ <<y, x>> \in DocRel(D)
    <2>1. x.ctid \in Nat /\ x.tenant \in Nat /\ y.ctid \in Nat /\ y.tenant \in Nat /\ x.ctid # y.ctid
      BY <1>0, <1>4 DEF Keyed
    <2>2. DocBefore(ten, x, y) \/ DocBefore(ten, y, x)
      BY <2>1 DEF DocBefore, docmap_entry_cmp_by_tenant_then_ctid, docmap_entry_cmp_by_ctid
    <2> QED BY <1>r, <2>2
  <1> QED BY <1>2, <1>3, <1>4 DEF Orders

(* doc_order is the listing in that order. *)
LEMMA DocOrderLists ==
    ASSUME NEW D
    PROVE  Lists(doc_order(D), D, DocRel(D))
  <1>1. PICK ten : ten = has_tenants(D)
    OBVIOUS
  <1>2. \A x \in D : Below(D, DocRel(D), x) = {y \in D : DocBefore(ten, y, x)}
    BY <1>1, DocRelIs DEF Below
  <1>3. doc_order(D) = [n \in 1 .. Cardinality(D) |->
                          CHOOSE x \in D : Cardinality({y \in D : DocBefore(ten, y, x)}) = n - 1]
    <2>1. CASE has_tenants(D)
      BY <1>1, <2>1 DEF doc_order, Sorted, DocBefore
    <2>2. CASE ~has_tenants(D)
      BY <1>1, <2>2 DEF doc_order, Sorted, DocBefore
    <2> QED BY <2>1, <2>2
  <1>4. PICK order : order = doc_order(D)
    OBVIOUS
  <1>5. order = [n \in 1 .. Cardinality(D) |-> order[n]]
    BY <1>3, <1>4
  <1>6. ASSUME NEW n \in 1 .. Cardinality(D), \E x \in D : Cardinality(Below(D, DocRel(D), x)) = n - 1
        PROVE  order[n] \in D /\ Cardinality(Below(D, DocRel(D), order[n])) = n - 1
    <2> DEFINE P(x) == Cardinality({y \in D : DocBefore(ten, y, x)}) = n - 1
    <2>1. order[n] = CHOOSE x \in D : P(x)
      BY <1>3, <1>4
    <2>2. \E x \in D : P(x)
      BY <1>2, <1>6
    <2>3. order[n] \in D /\ P(order[n])
      <3> HIDE DEF P
      <3> QED BY <2>1, <2>2
    <2> QED BY <1>2, <2>3
  <1>7. Lists(order, D, DocRel(D))
    BY <1>5, <1>6 DEF Lists
  <1> QED BY <1>4, <1>7

(* The order of the terms of a dictionary, and of other integers. *)
IntRel(S) == {p \in S \X S : p[1] < p[2]}

(* The order of the integers on a set of them. *)
LEMMA IntRelOrders ==
    ASSUME NEW S \in SUBSET Int
    PROVE  Orders(IntRel(S), S)
  <1>r. \A x, y \in S : <<x, y>> \in IntRel(S) <=> x < y
    BY DEF IntRel
  <1>1. \A x, y, z \in S : (x < y /\ y < z => x < z) /\ (x = y \/ x < y \/ y < x) /\ ~(x < x)
    OBVIOUS
  <1> QED BY <1>r, <1>1 DEF Orders

(* Sorted(S, Before) is a listing of S along Before. *)
LEMMA SortedLists ==
    ASSUME NEW S \in SUBSET Int, NEW out, out = Sorted(S, <)
    PROVE  Lists(out, S, IntRel(S))
  <1>r. \A x, y \in S : <<x, y>> \in IntRel(S) <=> x < y
    BY DEF IntRel
  <1>2. \A x \in S : Below(S, IntRel(S), x) = {y \in S : y < x}
    BY <1>r DEF Below
  <1>3. out = [n \in 1 .. Cardinality(S) |-> CHOOSE x \in S : Cardinality({y \in S : y < x}) = n - 1]
    BY DEF Sorted
  <1>5. out = [n \in 1 .. Cardinality(S) |-> out[n]]
    BY <1>3
  <1>6. ASSUME NEW n \in 1 .. Cardinality(S), \E x \in S : Cardinality(Below(S, IntRel(S), x)) = n - 1
        PROVE  out[n] \in S /\ Cardinality(Below(S, IntRel(S), out[n])) = n - 1
    <2> DEFINE P(x) == Cardinality({y \in S : y < x}) = n - 1
    <2>1. out[n] = CHOOSE x \in S : P(x)
      BY <1>3
    <2>2. \E x \in S : P(x)
      BY <1>2, <1>6
    <2>3. out[n] \in S /\ P(out[n])
      <3> HIDE DEF P
      <3> QED BY <2>1, <2>2
    <2> QED BY <1>2, <2>3
  <1> QED BY <1>5, <1>6 DEF Lists

(* What Sorted makes of a set of integers. *)
IntListing(out, S) ==
    /\ Cardinality(S) \in Nat
    /\ out \in [1 .. Cardinality(S) -> S]
    /\ \A a, b \in 1 .. Cardinality(S) : a < b => out[a] < out[b]
    /\ \A x \in S : \E n \in 1 .. Cardinality(S) : out[n] = x

(* A listing of integers lists them in ascending order. *)
LEMMA ListingInts ==
    ASSUME NEW S \in SUBSET Int, IsFiniteSet(S), NEW out, Lists(out, S, IntRel(S))
    PROVE  IntListing(out, S)
  <1>1. Orders(IntRel(S), S)
    BY IntRelOrders
  <1>2. \A x, y \in S : <<x, y>> \in IntRel(S) <=> x < y
    BY DEF IntRel
  <1>3. PICK rel : rel = IntRel(S)
    OBVIOUS
  <1>4. /\ Cardinality(S) \in Nat /\ out \in [1 .. Cardinality(S) -> S]
        /\ \A a, b \in 1 .. Cardinality(S) : a < b => <<out[a], out[b]>> \in rel
        /\ \A x \in S : \E n \in 1 .. Cardinality(S) : out[n] = x
    BY <1>1, <1>3, ListingSorts
  <1> QED BY <1>2, <1>3, <1>4 DEF IntListing

(* Sorted integers: every one has its place, and the places ascend. *)
LEMMA SortedInts ==
    ASSUME NEW S \in SUBSET Int, IsFiniteSet(S)
    PROVE  IntListing(Sorted(S, <), S)
  <1>1. PICK out : out = Sorted(S, <)
    OBVIOUS
  <1>2. Lists(out, S, IntRel(S))
    BY <1>1, SortedLists
  <1>3. IntListing(out, S)
    BY <1>2, ListingInts
  <1> QED BY <1>1, <1>3

-----------------------------------------------------------------------------
(* Counting over several lists *)

(* The pairs of a list's number and one of its places. *)
Row(Z, i) == {<<i, k>> : k \in Z[i]}
Pairs(Z, n) == UNION {Row(Z, i) : i \in 1 .. n}
Sizes(Z, n) == [i \in 1 .. n |-> Cardinality(Z[i])]

(* A row of pairs has as many elements as the set it pairs. *)
LEMMA RowCard ==
    ASSUME NEW Z, NEW i, IsFiniteSet(Z[i])
    PROVE  IsFiniteSet(Row(Z, i)) /\ Cardinality(Row(Z, i)) = Cardinality(Z[i])
  <1> DEFINE f == [k \in Z[i] |-> <<i, k>>]
  <1>1. f \in [Z[i] -> Row(Z, i)]
    BY DEF Row
  <1>2. \A a, b \in Z[i] : f[a] = f[b] => a = b
    OBVIOUS
  <1>3. \A y \in Row(Z, i) : \E x \in Z[i] : f[x] = y
    BY DEF Row
  <1> HIDE DEF f
  <1>4. PICK A, C, g : A = Z[i] /\ C = Row(Z, i) /\ g = f
    OBVIOUS
  <1>5. IsFiniteSet(A) /\ g \in [A -> C] /\ (\A a, b \in A : g[a] = g[b] => a = b)
        /\ (\A y \in C : \E x \in A : g[x] = y)
    BY <1>1, <1>2, <1>3, <1>4
  <1>6. IsFiniteSet(C) /\ Cardinality(C) = Cardinality(A)
    BY <1>5, OntoCard
  <1> QED BY <1>4, <1>6

(* There are as many as the lists have places in all. *)
LEMMA PairsCard ==
    ASSUME NEW N \in Nat, NEW Z, \A i \in 1 .. N : IsFiniteSet(Z[i])
    PROVE  /\ IsFiniteSet(Pairs(Z, N))
           /\ Cardinality(Pairs(Z, N)) = Total(Sizes(Z, N))
  <1> DEFINE Q(n) == IsFiniteSet(Pairs(Z, n)) /\ Cardinality(Pairs(Z, n)) = Total(Sizes(Z, n))
             S == {n \in Nat : n <= N => Q(n)}
  <1>0. \A i \in 1 .. N : Cardinality(Z[i]) \in Nat
    BY FS_CardinalityType
  <1>1. Q(0)
    <2>1. Pairs(Z, 0) = {}
      BY DEF Pairs
    <2>2. Sizes(Z, 0) \in [1 .. 0 -> Nat]
      BY DEF Sizes
    <2>3. Total(Sizes(Z, 0)) = 0
      BY <2>2, TotalZero
    <2> QED BY <2>1, <2>3, FS_EmptySet
  <1>2. ASSUME NEW n \in Nat, n + 1 <= N, Q(n) PROVE Q(n + 1)
    <2>0. n + 1 \in 1 .. N /\ \A i \in 1 .. n + 1 : i \in 1 .. N
      BY <1>2
    <2>1. PICK P, R : P = Pairs(Z, n) /\ R = Row(Z, n + 1)
      OBVIOUS
    <2>2. Pairs(Z, n + 1) = P \cup R
      <3>1. \A i : i \in 1 .. n + 1 <=> i \in 1 .. n \/ i = n + 1
        OBVIOUS
      <3> QED BY <2>1, <3>1 DEF Pairs
    <2>3. P \cap R = {}
      <3>1. \A i \in 1 .. n : i # n + 1
        OBVIOUS
      <3> QED BY <2>1, <3>1 DEF Pairs, Row
    <2>4. IsFiniteSet(R) /\ Cardinality(R) = Cardinality(Z[n + 1])
      BY <2>0, <2>1, RowCard
    <2>5. IsFiniteSet(P) /\ Cardinality(P) = Total(Sizes(Z, n))
      BY <1>2, <2>1
    <2>6. IsFiniteSet(P \cup R) /\ Cardinality(P \cup R) = Cardinality(P) + Cardinality(R)
      <3>1. IsFiniteSet(P \cup R) /\ Cardinality(P \cup R) = Cardinality(P) + Cardinality(R) - Cardinality(P \cap R)
        BY <2>4, <2>5, FS_Union
      <3>2. Cardinality(P \cap R) = 0
        BY <2>3, FS_EmptySet
      <3>3. Cardinality(P) \in Nat /\ Cardinality(R) \in Nat
        BY <2>4, <2>5, FS_CardinalityType
      <3> QED BY <3>1, <3>2, <3>3
    <2>7. Sizes(Z, n + 1) \in [1 .. n + 1 -> Nat] /\ Sizes(Z, n + 1)[n + 1] = Cardinality(Z[n + 1])
      BY <1>0, <2>0 DEF Sizes
    <2>8. Pre(Sizes(Z, n + 1), n) = Sizes(Z, n)
      BY DEF Pre, Sizes
    <2>9. PICK u : u = Sizes(Z, n + 1)
      OBVIOUS
    <2>10. Total(u) = Total(Pre(u, n)) + u[n + 1]
      BY <2>7, <2>9, TotalStep
    <2> QED BY <2>2, <2>4, <2>5, <2>6, <2>7, <2>8, <2>9, <2>10
  <1>3. 0 \in S
    BY <1>1
  <1>4. \A n \in Nat : n \in S => n + 1 \in S
    <2> HIDE DEF Q
    <2> QED BY <1>2
  <1> HIDE DEF S
  <1>5. \A n \in Nat : n \in S
    BY <1>3, <1>4, NatSetInduction
  <1> USE DEF S
  <1> HIDE DEF Q
  <1>6. Q(N)
    BY <1>5
  <1> QED BY <1>6 DEF Q

(* f pairs off A and B. *)
Pairing(f, A, B) ==
    /\ f \in [A -> B]
    /\ \A a, b \in A : f[a] = f[b] => a = b
    /\ \A y \in B : \E x \in A : f[x] = y

(* Parts that correspond under a pairing have one size. *)
LEMMA PairedCount ==
    ASSUME NEW A, NEW B, NEW f, Pairing(f, A, B), NEW C \in SUBSET A, NEW D \in SUBSET B, IsFiniteSet(C),
           \A a \in A : a \in C <=> f[a] \in D
    PROVE  Cardinality(D) = Cardinality(C)
  <1> DEFINE g == [a \in C |-> f[a]]
  <1>1. g \in [C -> D]
    BY DEF Pairing
  <1>2. \A a, b \in C : g[a] = g[b] => a = b
    BY DEF Pairing
  <1>3. \A y \in D : \E x \in C : g[x] = y
    BY DEF Pairing
  <1> HIDE DEF g
  <1> QED BY <1>1, <1>2, <1>3, OntoCard

(* Pairings compose. *)
LEMMA PairingTrans ==
    ASSUME NEW A, NEW B, NEW C, NEW f, NEW g, Pairing(f, A, B), Pairing(g, B, C)
    PROVE  Pairing([a \in A |-> g[f[a]]], A, C)
  <1>1. f \in [A -> B] /\ g \in [B -> C]
    BY DEF Pairing
  <1>2. [a \in A |-> g[f[a]]] \in [A -> C]
    BY <1>1
  <1>3. \A a, b \in A : g[f[a]] = g[f[b]] => a = b
    BY <1>1 DEF Pairing
  <1>4. ASSUME NEW z \in C PROVE \E a \in A : g[f[a]] = z
    <2>1. PICK y \in B : g[y] = z
      BY DEF Pairing
    <2>2. PICK a \in A : f[a] = y
      BY <2>1 DEF Pairing
    <2> QED BY <2>1, <2>2
  <1> QED BY <1>2, <1>3, <1>4 DEF Pairing

(* A one-to-one map of 1 .. n into itself pairs it off with itself. *)
LEMMA SelfPairing ==
    ASSUME NEW n \in Nat, NEW f \in Injection(1 .. n, 1 .. n)
    PROVE  Pairing(f, 1 .. n, 1 .. n)
  <1>1. f \in [1 .. n -> 1 .. n] /\ \A a, b \in 1 .. n : f[a] = f[b] => a = b
    BY DEF Injection, IsInjective
  <1>2. f \in Perms(n)
    BY <1>1 DEF Perms
  <1> QED BY <1>1, <1>2, PermOnto DEF Pairing

-----------------------------------------------------------------------------
(* The document map of the sources *)

(* Norms survive a decode and an encode. *)
LEMMA NormKept ==
    ASSUME NEW n \in DOMAIN FieldNormTable
    PROVE  encode_fieldnorm(decode_fieldnorm(n)) = n /\ decode_fieldnorm(n) \in Nat
  <1>a. PICK T : T = FieldNormTable
    OBVIOUS
  <1>b. PICK c \in Nat : c = Len(T) /\ DOMAIN T = 1 .. c
    BY <1>a, FieldNormAssumption
  <1>0. T = FieldNormTable /\ c = Len(T) /\ DOMAIN T = 1 .. c
    BY <1>a, <1>b
  <1>1. T \in [1 .. c -> Nat] /\ \A i, j \in 1 .. c : i < j => T[i] < T[j]
    <2>1. T \in Seq(Nat)
      BY <1>0, FieldNormAssumption
    <2>2. T \in [1 .. c -> Nat]
      BY <1>b, <2>1
    <2> QED BY <1>0, <2>2, FieldNormAssumption
  <1>2. n \in 1 .. c /\ T[n] \in Nat
    BY <1>0, <1>1
  <1>3. PICK S : S = {i \in DOMAIN FieldNormTable : FieldNormTable[i] <= FieldNormTable[n]}
    OBVIOUS
  <1>4. \A i \in S : i \in 1 .. c /\ T[i] <= T[n]
    BY <1>0, <1>3
  <1>5. \A i \in S : i <= n
    <2> SUFFICES ASSUME NEW i \in S, n < i PROVE FALSE
      BY <1>2, <1>4
    <2>1. T[n] < T[i] /\ T[i] \in Nat
      BY <1>1, <1>2, <1>4
    <2> QED BY <1>2, <1>4, <2>1
  <1>6. n \in S
    BY <1>0, <1>2, <1>3
  <1>7. S \in SUBSET (0 .. c) /\ S # {}
    BY <1>4, <1>6
  <1>8. Max(S) \in S /\ \A y \in S : y <= Max(S)
    BY <1>7, MaxNat
  <1>9. Max(S) = n
    BY <1>2, <1>4, <1>5, <1>6, <1>8
  <1> QED BY <1>0, <1>2, <1>3, <1>9 DEF encode_fieldnorm, decode_fieldnorm

(* The sources: segments that their writers have finished. *)
Feed(srcs, N) ==
    /\ N \in Nat /\ DOMAIN srcs = 1 .. N
    /\ \A i \in 1 .. N : Readable(srcs[i].reader)

(* Where a CTID is found first. *)
Holds(srcs, i, c) == c \in Range(srcs[i].reader.ctid)
FirstAt(srcs, i, j) == \A h \in 1 .. i - 1 : ~Holds(srcs, h, srcs[i].reader.ctid[j])

(* What a readable segment says of its documents. *)
LEMMA SourceParts ==
    ASSUME NEW s, Readable(s)
    PROVE  /\ s.num_docs \in Nat /\ s.ctid \in [1 .. s.num_docs -> Nat] /\ IsInjective(s.ctid)
           /\ s.norm \in [1 .. s.num_docs -> DOMAIN FieldNormTable]
           /\ \A j \in 1 .. s.num_docs : tp_segment_get_tenant_id(s, j - 1) \in Nat
           /\ Range(s.ctid) = {s.ctid[j] : j \in 1 .. s.num_docs}
  <1>1. /\ s.num_docs \in Nat /\ s.ctid \in [1 .. s.num_docs -> Nat] /\ IsInjective(s.ctid)
        /\ s.norm \in [1 .. s.num_docs -> DOMAIN FieldNormTable]
        /\ s.tenant \in [1 .. s.num_docs -> Nat]
    BY DEF Readable
  <1>2. ASSUME NEW j \in 1 .. s.num_docs PROVE tp_segment_get_tenant_id(s, j - 1) \in Nat
    <2>1. (j - 1) + 1 = j
      BY <1>1
    <2>2. s.tenant[(j - 1) + 1] \in Nat
      BY <1>1, <2>1
    <2> QED BY <2>2 DEF tp_segment_get_tenant_id
  <1>3. Range(s.ctid) = {s.ctid[j] : j \in 1 .. s.num_docs}
    BY <1>1 DEF Range
  <1> QED BY <1>1, <1>2, <1>3

(* The documents tp_docmap_add leaves: one for every CTID, from the first source that has it. *)
LEMMA AddedDocs ==
    ASSUME NEW srcs, NEW N, Feed(srcs, N)
    PROVE  \A d : d \in tp_docmap_add(srcs) <=>
             \E i \in 1 .. N : \E j \in 1 .. srcs[i].reader.num_docs :
                 d = docmap_entry(srcs[i].reader, j) /\ FirstAt(srcs, i, j)
  <1>1. DOMAIN srcs = 1 .. N
    BY DEF Feed
  <1> QED BY <1>1 DEF tp_docmap_add, FirstAt, Holds

(* The fields of the map entry read back for a document of a source. Its length is decoded
   from the field norm, and encoding it again gives the same norm. *)
LEMMA EntryFields ==
    ASSUME NEW s, Readable(s), NEW j \in 1 .. s.num_docs
    PROVE  /\ docmap_entry(s, j).ctid = s.ctid[j] /\ s.ctid[j] \in Nat
           /\ docmap_entry(s, j).tenant = tp_segment_get_tenant_id(s, j - 1)
           /\ docmap_entry(s, j).tenant \in Nat
           /\ docmap_entry(s, j).len \in Nat
           /\ encode_fieldnorm(docmap_entry(s, j).len) = s.norm[j]
           /\ s.norm[j] \in DOMAIN FieldNormTable
  <1>1. /\ s.ctid[j] \in Nat /\ s.norm[j] \in DOMAIN FieldNormTable
        /\ tp_segment_get_tenant_id(s, j - 1) \in Nat
    BY SourceParts
  <1>2. PICK n \in DOMAIN FieldNormTable : n = s.norm[j]
    BY <1>1
  <1>3. encode_fieldnorm(decode_fieldnorm(n)) = n /\ decode_fieldnorm(n) \in Nat
    BY NormKept
  <1>4. PICK e : e = docmap_entry(s, j)
    OBVIOUS
  <1>5. e.ctid = s.ctid[j] /\ e.tenant = tp_segment_get_tenant_id(s, j - 1) /\ e.len = decode_fieldnorm(n)
    BY <1>2, <1>4 DEF docmap_entry
  <1> QED BY <1>1, <1>2, <1>3, <1>4, <1>5

(* Two places of one CTID that both find it first are one. *)
LEMMA FirstUnique ==
    ASSUME NEW srcs, NEW N, Feed(srcs, N),
           NEW i \in 1 .. N, NEW j \in 1 .. srcs[i].reader.num_docs, FirstAt(srcs, i, j),
           NEW h \in 1 .. N, NEW k \in 1 .. srcs[h].reader.num_docs, FirstAt(srcs, h, k),
           srcs[i].reader.ctid[j] = srcs[h].reader.ctid[k]
    PROVE  i = h /\ j = k
  <1>0. N \in Nat /\ Readable(srcs[i].reader) /\ Readable(srcs[h].reader)
    BY DEF Feed
  <1>1. PICK r, s : r = srcs[i].reader /\ s = srcs[h].reader
    OBVIOUS
  <1>2. /\ r.ctid \in [1 .. r.num_docs -> Nat] /\ IsInjective(r.ctid)
        /\ Range(r.ctid) = {r.ctid[x] : x \in 1 .. r.num_docs}
        /\ Range(s.ctid) = {s.ctid[x] : x \in 1 .. s.num_docs}
    <2>1. Readable(r) /\ Readable(s)
      BY <1>0, <1>1
    <2>2. /\ r.ctid \in [1 .. r.num_docs -> Nat] /\ IsInjective(r.ctid)
          /\ Range(r.ctid) = {r.ctid[x] : x \in 1 .. r.num_docs}
      BY <2>1, SourceParts
    <2>3. Range(s.ctid) = {s.ctid[x] : x \in 1 .. s.num_docs}
      BY <2>1, SourceParts
    <2> QED BY <2>2, <2>3
  <1>3. Holds(srcs, i, srcs[h].reader.ctid[k]) /\ Holds(srcs, h, srcs[i].reader.ctid[j])
    BY <1>1, <1>2 DEF Holds
  <1>4. ~(i < h) /\ ~(h < i)
    <2>1. ~(i < h)
      <3> SUFFICES ASSUME i < h PROVE FALSE
        OBVIOUS
      <3>1. i \in 1 .. h - 1
        BY <1>0
      <3> QED BY <1>3, <3>1 DEF FirstAt
    <2>2. ~(h < i)
      <3> SUFFICES ASSUME h < i PROVE FALSE
        OBVIOUS
      <3>1. h \in 1 .. i - 1
        BY <1>0
      <3> QED BY <1>3, <3>1 DEF FirstAt
    <2> QED BY <2>1, <2>2
  <1>5. i = h
    BY <1>0, <1>4
  <1>6. j = k
    BY <1>1, <1>2, <1>5 DEF IsInjective
  <1> QED BY <1>5, <1>6

(* Every CTID is found first somewhere. *)
LEMMA FirstExists ==
    ASSUME NEW srcs, NEW N, Feed(srcs, N), NEW i \in 1 .. N, NEW c, Holds(srcs, i, c)
    PROVE  \E h \in 1 .. N : \E k \in 1 .. srcs[h].reader.num_docs :
               srcs[h].reader.ctid[k] = c /\ FirstAt(srcs, h, k)
  <1>0. N \in Nat /\ \A h \in 1 .. N : Readable(srcs[h].reader)
    BY DEF Feed
  <1>1. PICK S : S = {h \in 1 .. N : Holds(srcs, h, c)}
    OBVIOUS
  <1>2. S \in SUBSET Nat /\ S # {}
    BY <1>0, <1>1
  <1>3. PICK h : h = Min(S)
    OBVIOUS
  <1>4. h \in S /\ \A y \in S : h <= y
    BY <1>2, <1>3, MinNat
  <1>5. h \in 1 .. N /\ Holds(srcs, h, c)
    BY <1>1, <1>4
  <1>6. PICK k \in 1 .. srcs[h].reader.num_docs : srcs[h].reader.ctid[k] = c
    <2>1. Range(srcs[h].reader.ctid) = {srcs[h].reader.ctid[x] : x \in 1 .. srcs[h].reader.num_docs}
      BY <1>0, <1>5, SourceParts
    <2> QED BY <1>5, <2>1 DEF Holds
  <1>7. ASSUME NEW g \in 1 .. h - 1 PROVE ~Holds(srcs, g, c)
    <2>1. g \in 1 .. N /\ ~(h <= g)
      BY <1>0, <1>5
    <2>2. g \notin S
      BY <1>4, <2>1
    <2> QED BY <1>1, <2>1, <2>2
  <1>8. FirstAt(srcs, h, k)
    BY <1>6, <1>7 DEF FirstAt
  <1> QED BY <1>5, <1>6, <1>8

(* The documents collected from the sources have one entry per CTID: tp_docmap_add keeps
   the entry of the first source that has it. *)
LEMMA AddedKeyed ==
    ASSUME NEW srcs, NEW N, Feed(srcs, N)
    PROVE  Keyed(tp_docmap_add(srcs))
  <1>0. N \in Nat /\ \A i \in 1 .. N : Readable(srcs[i].reader)
    BY DEF Feed
  <1>1. PICK D : D = tp_docmap_add(srcs)
    OBVIOUS
  <1>2. \A d : d \in D <=> \E i \in 1 .. N : \E j \in 1 .. srcs[i].reader.num_docs :
                  d = docmap_entry(srcs[i].reader, j) /\ FirstAt(srcs, i, j)
    BY <1>1, AddedDocs
  <1>3. ASSUME NEW d \in D PROVE d.ctid \in Nat /\ d.tenant \in Nat
    <2>1. PICK i \in 1 .. N, j \in Nat : j \in 1 .. srcs[i].reader.num_docs /\ d = docmap_entry(srcs[i].reader, j)
      BY <1>2
    <2>2. PICK s : s = srcs[i].reader
      OBVIOUS
    <2>3. Readable(s) /\ j \in 1 .. s.num_docs /\ d = docmap_entry(s, j)
      BY <1>0, <2>1, <2>2
    <2> QED BY <2>3, EntryFields
  <1>4. ASSUME NEW d \in D, NEW e \in D, d.ctid = e.ctid PROVE d = e
    <2>1. PICK i \in 1 .. N, j \in Nat : /\ j \in 1 .. srcs[i].reader.num_docs /\ d = docmap_entry(srcs[i].reader, j)
                                 /\ FirstAt(srcs, i, j)
      BY <1>2
    <2>2. PICK h \in 1 .. N, k \in Nat : /\ k \in 1 .. srcs[h].reader.num_docs /\ e = docmap_entry(srcs[h].reader, k)
                                 /\ FirstAt(srcs, h, k)
      BY <1>2
    <2>3. d.ctid = srcs[i].reader.ctid[j] /\ e.ctid = srcs[h].reader.ctid[k]
      BY <2>1, <2>2 DEF docmap_entry
    <2>4. i = h /\ j = k
      BY <1>4, <2>1, <2>2, <2>3, FirstUnique
    <2> QED BY <2>1, <2>2, <2>4
  <1>5. IsFiniteSet(D)
    <2> DEFINE Z == [i \in 1 .. N |-> 1 .. srcs[i].reader.num_docs]
               P == Pairs(Z, N)
               at(p) == docmap_entry(srcs[p[1]].reader, p[2])
               f == [d \in D |-> CHOOSE p \in P : at(p) = d]
    <2>1. \A i \in 1 .. N : IsFiniteSet(Z[i])
      <3>1. ASSUME NEW i \in 1 .. N PROVE IsFiniteSet(1 .. srcs[i].reader.num_docs)
        <4>1. PICK n \in Nat : n = srcs[i].reader.num_docs
          BY <1>0 DEF Readable
        <4> QED BY <4>1, IntervalCard
      <3> QED BY <3>1
    <2>2. IsFiniteSet(P)
      <3> HIDE DEF Z
      <3> QED BY <1>0, <2>1, PairsCard
    <2>3. \A d \in D : \E p \in P : at(p) = d
      <3> SUFFICES ASSUME NEW d \in D PROVE \E p \in P : at(p) = d
        OBVIOUS
      <3>1. PICK i \in 1 .. N, j \in Nat : j \in 1 .. srcs[i].reader.num_docs /\ d = docmap_entry(srcs[i].reader, j)
        BY <1>2
      <3>2. <<i, j>> \in P
        BY <3>1 DEF Pairs, Row
      <3>3. at(<<i, j>>) = d
        BY <3>1
      <3> QED BY <3>2, <3>3
    <2> HIDE DEF P, at
    <2>4. \A d \in D : f[d] \in P /\ at(f[d]) = d
      BY <2>3
    <2> HIDE DEF f
    <2>5. f \in [D -> P]
      <3>1. f = [d \in D |-> f[d]]
        BY DEF f
      <3> QED BY <2>4, <3>1
    <2>6. \A a, b \in D : f[a] = f[b] => a = b
      BY <2>4
    <2> QED BY <2>2, <2>5, <2>6, OneToOneCard
  <1> QED BY <1>1, <1>3, <1>4, <1>5 DEF Keyed

(* The finalized map: it lists the documents without a repetition, with the norms that the
   sources have for them. *)
MapOK(map, srcs, N, D) ==
    /\ Len(map.docs) \in Nat /\ map.docs \in [1 .. Len(map.docs) -> D]
    /\ Cardinality(D) = Len(map.docs)
    /\ Lists(map.docs, D, DocRel(D))
    /\ \A a, b \in 1 .. Len(map.docs) : a < b => <<map.docs[a], map.docs[b]>> \in DocRel(D)
    /\ \A a, b \in 1 .. Len(map.docs) : map.docs[a].ctid = map.docs[b].ctid => a = b
    /\ \A d \in D : \E n \in 1 .. Len(map.docs) : map.docs[n] = d
    /\ map.norm = [n \in 1 .. Len(map.docs) |-> encode_fieldnorm(map.docs[n].len)]
    /\ map.tenant_ordered = has_tenants(D)
    /\ map.ranges = IF has_tenants(D) THEN tenant_ranges(map.docs) ELSE {}

(* build_merged_docmap makes a map that renumbers the documents of every source. *)
LEMMA MapMade ==
    ASSUME NEW srcs, NEW N, Feed(srcs, N), NEW map, map = build_merged_docmap(srcs)
    PROVE  MapOK(map, srcs, N, tp_docmap_add(srcs)) /\ Keyed(tp_docmap_add(srcs))
  <1>1. PICK D, order : D = tp_docmap_add(srcs) /\ order = doc_order(D)
    OBVIOUS
  <1>2. Keyed(D)
    BY <1>1, AddedKeyed
  <1>3. Orders(DocRel(D), D) /\ Lists(order, D, DocRel(D)) /\ IsFiniteSet(D)
    BY <1>1, <1>2, DocRelOrders, DocOrderLists DEF Keyed
  <1>4. PICK rel : rel = DocRel(D)
    OBVIOUS
  <1>5. PICK c \in Nat : c = Cardinality(D)
    BY <1>3, FS_CardinalityType
  <1>6. /\ order \in [1 .. Cardinality(D) -> D]
        /\ \A a, b \in 1 .. Cardinality(D) : a < b => <<order[a], order[b]>> \in rel
        /\ \A x \in D : \E n \in 1 .. Cardinality(D) : order[n] = x
    <2>1. Orders(rel, D) /\ Lists(order, D, rel)
      BY <1>3, <1>4
    <2> QED BY <1>3, <2>1, ListingSorts
  <1>7. order \in [1 .. c -> D] /\ Len(order) = c /\ DOMAIN order = 1 .. c
    BY <1>5, <1>6
  <1>8. ASSUME NEW a \in 1 .. c, NEW b \in 1 .. c, order[a].ctid = order[b].ctid PROVE a = b
    <2>1. order[a] = order[b]
      BY <1>2, <1>7, <1>8 DEF Keyed
    <2>2. \A x \in D : <<x, x>> \notin rel
      BY <1>3, <1>4 DEF Orders
    <2>3. order[a] \in D /\ order[b] \in D
      BY <1>7
    <2>4. ~(a < b) /\ ~(b < a)
      BY <1>5, <1>6, <2>1, <2>2, <2>3
    <2> QED BY <2>4
  <1>9. map = tp_docmap_finalize(D)
    BY <1>1 DEF build_merged_docmap
  <1>10. map = [docs |-> order,
                norm |-> [i \in DOMAIN order |-> encode_fieldnorm(order[i].len)],
                tenant_ordered |-> has_tenants(D),
                ranges |-> IF has_tenants(D) THEN tenant_ranges(order) ELSE {}]
    BY <1>1, <1>9 DEF tp_docmap_finalize
  <1>11. /\ map.docs = order /\ map.norm = [n \in 1 .. c |-> encode_fieldnorm(order[n].len)]
         /\ map.tenant_ordered = has_tenants(D)
         /\ map.ranges = IF has_tenants(D) THEN tenant_ranges(order) ELSE {}
    BY <1>7, <1>10
  <1>12. MapOK(map, srcs, N, D)
    BY <1>3, <1>4, <1>5, <1>6, <1>7, <1>8, <1>11 DEF MapOK
  <1> QED BY <1>1, <1>2, <1>12

(* An entry of the map is the first source document of its CTID, with its norm. *)
LEMMA MapEntry ==
    ASSUME NEW srcs, NEW N, Feed(srcs, N), NEW map, MapOK(map, srcs, N, tp_docmap_add(srcs)),
           NEW n \in 1 .. Len(map.docs)
    PROVE  \E i \in 1 .. N : \E j \in 1 .. srcs[i].reader.num_docs :
               /\ FirstAt(srcs, i, j) /\ map.docs[n] = docmap_entry(srcs[i].reader, j)
               /\ map.docs[n].ctid = srcs[i].reader.ctid[j]
               /\ map.docs[n].tenant = tp_segment_get_tenant_id(srcs[i].reader, j - 1)
               /\ map.norm[n] = srcs[i].reader.norm[j]
               /\ map.docs[n].ctid \in Nat /\ map.docs[n].tenant \in Nat /\ map.norm[n] \in DOMAIN FieldNormTable
  <1>1. PICK D : D = tp_docmap_add(srcs)
    OBVIOUS
  <1>2. map.docs[n] \in D /\ map.norm[n] = encode_fieldnorm(map.docs[n].len)
    BY <1>1 DEF MapOK
  <1>3. PICK i \in 1 .. N, j \in Nat : /\ j \in 1 .. srcs[i].reader.num_docs /\ map.docs[n] = docmap_entry(srcs[i].reader, j)
                               /\ FirstAt(srcs, i, j)
    BY <1>1, <1>2, AddedDocs
  <1>4. PICK s : s = srcs[i].reader
    OBVIOUS
  <1>5. Readable(s) /\ j \in 1 .. s.num_docs
    BY <1>3, <1>4 DEF Feed
  <1>6. PICK d : d = map.docs[n]
    OBVIOUS
  <1>7. d = docmap_entry(s, j) /\ map.norm[n] = encode_fieldnorm(d.len)
    BY <1>2, <1>3, <1>4, <1>6
  <1>8. /\ d.ctid = s.ctid[j] /\ s.ctid[j] \in Nat
        /\ d.tenant = tp_segment_get_tenant_id(s, j - 1) /\ d.tenant \in Nat
        /\ encode_fieldnorm(d.len) = s.norm[j] /\ s.norm[j] \in DOMAIN FieldNormTable
    BY <1>5, <1>7, EntryFields
  <1> QED BY <1>3, <1>4, <1>6, <1>7, <1>8

(* The new id of a source document is that of its CTID. *)
LEMMA Renumbered ==
    ASSUME NEW srcs, NEW N, Feed(srcs, N), NEW map, MapOK(map, srcs, N, tp_docmap_add(srcs)),
           NEW i \in 1 .. N, NEW id \in 0 .. srcs[i].reader.num_docs - 1
    PROVE  /\ old_to_new(map, srcs, i, id) \in 0 .. Len(map.docs) - 1
           /\ map.docs[old_to_new(map, srcs, i, id) + 1].ctid = srcs[i].reader.ctid[id + 1]
  <1>1. PICK D, s, c, num : /\ D = tp_docmap_add(srcs) /\ s = srcs[i].reader
                            /\ c = srcs[i].reader.ctid[id + 1] /\ num = Len(map.docs)
    OBVIOUS
  <1>2. num \in Nat /\ \A d \in D : \E n \in 1 .. num : map.docs[n] = d
    BY <1>1 DEF MapOK
  <1>3. Holds(srcs, i, c)
    <2>1. Readable(s)
      BY <1>1 DEF Feed
    <2>2. Range(s.ctid) = {s.ctid[x] : x \in 1 .. s.num_docs} /\ s.num_docs \in Nat
      BY <2>1, SourceParts
    <2>3. id + 1 \in 1 .. s.num_docs
      BY <1>1, <2>2
    <2> QED BY <1>1, <2>2, <2>3 DEF Holds
  <1>4. PICK h \in 1 .. N, k \in Nat : /\ k \in 1 .. srcs[h].reader.num_docs /\ srcs[h].reader.ctid[k] = c
                               /\ FirstAt(srcs, h, k)
    BY <1>3, FirstExists
  <1>5. PICK d : d = docmap_entry(srcs[h].reader, k)
    OBVIOUS
  <1>6. d \in D
    BY <1>1, <1>4, <1>5, AddedDocs
  <1>7. d.ctid = c
    BY <1>4, <1>5 DEF docmap_entry
  <1>8. PICK n \in 1 .. num : map.docs[n] = d
    BY <1>2, <1>6
  <1> DEFINE A == 0 .. Len(map.docs) - 1
             P(x) == map.docs[x + 1].ctid = c
  <1>9. n - 1 \in A /\ P(n - 1)
    <2>1. (n - 1) + 1 = n /\ n - 1 \in 0 .. num - 1
      BY <1>2
    <2> QED BY <1>1, <1>7, <1>8, <2>1
  <1>10. old_to_new(map, srcs, i, id) = CHOOSE x \in A : P(x)
    BY <1>1 DEF old_to_new, tp_docmap_lookup
  <1> HIDE DEF A, P
  <1>11. old_to_new(map, srcs, i, id) \in A /\ P(old_to_new(map, srcs, i, id))
    BY <1>9, <1>10
  <1> QED BY <1>1, <1>11 DEF A, P

-----------------------------------------------------------------------------
(* Positions in a list that is read block by block *)

PosOK(b, x, L) ==
    /\ b \in Nat /\ x \in Nat
    /\ (b < num_blocks(L) /\ x < Len(Block(L, b))) \/ (b = num_blocks(L) /\ x = 0)

(* How many postings come before the position. *)
TakenAt(b, x, L) == IF b < num_blocks(L) THEN b * TP_BLOCK_SIZE + x ELSE Len(L)

(* A freshly opened posting source has taken nothing. *)
LEMMA PosFirst ==
    ASSUME NEW P, NEW L \in Seq(P), L # << >>
    PROVE  PosOK(0, 0, L) /\ TakenAt(0, 0, L) = 0
  <1>1. num_blocks(L) \in Nat \ {0}
    BY BlockShape
  <1>2. 0 \in 0 .. num_blocks(L) - 1
    BY <1>1
  <1>3. Len(Block(L, 0)) \in 1 .. TP_BLOCK_SIZE
    BY <1>2, BlockShape
  <1>4. TP_BLOCK_SIZE \in Nat
    BY BlockSizeAssumption
  <1> QED BY <1>1, <1>3, <1>4 DEF PosOK, TakenAt

(* What an open posting source reads next is the posting after the ones taken. *)
LEMMA PosRead ==
    ASSUME NEW P, NEW L \in Seq(P), L # << >>, NEW b, NEW x, PosOK(b, x, L), b < num_blocks(L)
    PROVE  /\ TakenAt(b, x, L) \in Nat /\ TakenAt(b, x, L) + 1 \in 1 .. Len(L)
           /\ x + 1 \in 1 .. Len(Block(L, b))
           /\ Block(L, b)[x + 1] = L[TakenAt(b, x, L) + 1]
  <1>1. num_blocks(L) \in Nat \ {0} /\ b \in Nat /\ x \in Nat
    BY BlockShape DEF PosOK
  <1>2. b \in 0 .. num_blocks(L) - 1
    BY <1>1
  <1>3. PICK m, k, len : m = b * TP_BLOCK_SIZE /\ k = Len(Block(L, b)) /\ len = Len(L)
    OBVIOUS
  <1>4. m \in Nat /\ k \in 1 .. TP_BLOCK_SIZE /\ m + k <= len
    BY <1>2, <1>3, BlockShape
  <1>5. len \in Nat /\ TP_BLOCK_SIZE \in Nat
    BY <1>3, BlockSizeAssumption
  <1>6. x < k
    BY <1>1, <1>3 DEF PosOK
  <1>7. x + 1 \in 1 .. k /\ m + x \in Nat /\ (m + x) + 1 \in 1 .. len /\ (m + x) + 1 = m + (x + 1)
    BY <1>1, <1>4, <1>5, <1>6
  <1>8. Block(L, b)[x + 1] = L[m + (x + 1)]
    BY <1>2, <1>3, <1>7, BlockShape
  <1>9. TakenAt(b, x, L) = m + x
    BY <1>3 DEF TakenAt
  <1> QED BY <1>3, <1>7, <1>8, <1>9

(* Moving on, within the block or to the next one, takes one posting more. *)
LEMMA PosStep ==
    ASSUME NEW P, NEW L \in Seq(P), L # << >>, NEW b, NEW x, PosOK(b, x, L), b < num_blocks(L)
    PROVE  /\ x + 1 < Len(Block(L, b)) => /\ PosOK(b, x + 1, L)
                                          /\ TakenAt(b, x + 1, L) = TakenAt(b, x, L) + 1
           /\ ~(x + 1 < Len(Block(L, b))) => /\ PosOK(b + 1, 0, L)
                                             /\ TakenAt(b + 1, 0, L) = TakenAt(b, x, L) + 1
  <1>1. num_blocks(L) \in Nat \ {0} /\ b \in Nat /\ x \in Nat
    BY BlockShape DEF PosOK
  <1>2. b \in 0 .. num_blocks(L) - 1
    BY <1>1
  <1>3. PICK m, k, len, nb, B : /\ m = b * TP_BLOCK_SIZE /\ k = Len(Block(L, b)) /\ len = Len(L)
                                /\ nb = num_blocks(L) /\ B = TP_BLOCK_SIZE
    OBVIOUS
  <1>4. /\ m \in Nat /\ k \in 1 .. B /\ m + k <= len
        /\ b < nb - 1 => k = B
        /\ b = nb - 1 => m + k = len
    BY <1>2, <1>3, BlockShape
  <1>5. len \in Nat /\ B \in Nat /\ nb \in Nat
    BY <1>1, <1>3, BlockSizeAssumption
  <1>6. x < k
    BY <1>1, <1>3 DEF PosOK
  <1>7. TakenAt(b, x, L) = m + x
    BY <1>3 DEF TakenAt
  <1>8. ASSUME x + 1 < k PROVE PosOK(b, x + 1, L) /\ TakenAt(b, x + 1, L) = (m + x) + 1
    <2>1. x + 1 \in Nat /\ m + (x + 1) = (m + x) + 1
      BY <1>1, <1>4
    <2> QED BY <1>1, <1>3, <1>8, <2>1 DEF PosOK, TakenAt
  <1>9. ASSUME ~(x + 1 < k) PROVE PosOK(b + 1, 0, L) /\ TakenAt(b + 1, 0, L) = (m + x) + 1
    <2>1. x + 1 = k /\ m + k = (m + x) + 1
      BY <1>1, <1>4, <1>5, <1>6, <1>9
    <2>2. CASE b < nb - 1
      <3>1. b + 1 < nb /\ b + 1 \in Nat /\ b + 1 \in 0 .. num_blocks(L) - 1
        BY <1>1, <1>3, <1>5, <2>2
      <3>2. Len(Block(L, b + 1)) \in 1 .. TP_BLOCK_SIZE
        BY <3>1, BlockShape
      <3>3. 0 < Len(Block(L, b + 1))
        BY <1>3, <1>5, <3>2
      <3>4. (b + 1) * B = b * B + B
        BY <1>1, <1>5
      <3>5. (b + 1) * B + 0 = (m + x) + 1
        BY <1>3, <1>4, <1>5, <2>1, <2>2, <3>4
      <3> QED BY <1>3, <3>1, <3>3, <3>5 DEF PosOK, TakenAt
    <2>3. CASE b = nb - 1
      <3>1. b + 1 = nb /\ ~(b + 1 < nb) /\ b + 1 \in Nat
        BY <1>1, <1>5, <2>3
      <3>2. len = (m + x) + 1
        BY <1>4, <2>1, <2>3
      <3> QED BY <1>3, <3>1, <3>2 DEF PosOK, TakenAt
    <2> QED BY <1>1, <1>2, <1>3, <1>5, <2>2, <2>3
  <1> QED BY <1>3, <1>7, <1>8, <1>9

-----------------------------------------------------------------------------
(* The invariant of the merge *)

(* Everything that is merged can be read. *)
ChainOK(ch) == ch \in Seq(Range(ch)) /\ \A i \in DOMAIN ch : Readable(ch[i])
ChainInv == ChainOK(chain) /\ ChainOK(upper) /\ chain # << >>

(* The sources are the segments of the chain, in its order. *)
SourceOK(source, seg) ==
    /\ source = [reader |-> seg, current_idx |-> source.current_idx]
    /\ source.current_idx \in 1 .. Len(dictionary(seg)) + 1
SourcesInv ==
    /\ opened \in 0 .. Len(chain) /\ sources \in Seq(Range(sources)) /\ Len(sources) = opened
    /\ \A i \in 1 .. opened : SourceOK(sources[i], chain[i])

(* What is there in which stage. *)
Writing == pc \in {"collect", "sections", "link"}
StageInv ==
    /\ pc \in {"open", "terms", "collect", "sections", "link", "done"}
    /\ pc = "open" => \A i \in 1 .. opened : sources[i].current_idx = 1
    /\ pc \in {"open", "done"} => merged_terms = << >>
    /\ pc = "done" => opened = 0
    /\ pc = "terms" \/ Writing => opened = Len(chain)
    /\ ~Writing => psources = << >> /\ postings = << >> /\ written = << >>
    /\ pc \in {"sections", "link"} => psources = << >> /\ postings = << >>

(* The segments that hold a term. *)
HoldersOf(ch, t) == {i \in DOMAIN ch : has_term(ch[i], t)}

TermOK(mt, ch) ==
    /\ mt.term \in Term /\ HoldersOf(ch, mt.term) # {}
    /\ mt.segment_refs = Sorted(HoldersOf(ch, mt.term), <)

(* The terms that the sources have passed are merged, in order and once each; those ahead
   are larger. *)
TermsInv ==
    /\ merged_terms \in Seq(Range(merged_terms))
    /\ \A n \in 1 .. Len(merged_terms) : TermOK(merged_terms[n], chain)
    /\ \A m, n \in 1 .. Len(merged_terms) : m < n => merged_terms[m].term < merged_terms[n].term
    /\ \A i \in 1 .. opened : \A k \in 1 .. Len(dictionary(chain[i])) :
         k < sources[i].current_idx => \E n \in 1 .. Len(merged_terms) : merged_terms[n].term = dictionary(chain[i])[k]
    /\ \A i \in 1 .. opened : \A k \in 1 .. Len(dictionary(chain[i])) :
         ~(k < sources[i].current_idx) => \A n \in 1 .. Len(merged_terms) : merged_terms[n].term < dictionary(chain[i])[k]
    /\ Writing => live_sources = {}

DocmapInv == Writing => docmap = build_merged_docmap(sources)

(* The places of a term's postings, and those that have been read. *)
ListAt(ch, t) == [i \in DOMAIN ch |-> IF has_term(ch[i], t) THEN DOMAIN ch[i].post[t] ELSE {}]
Places(ch, t) == Pairs(ListAt(ch, t), Len(ch))
ListOf(ch, t, p) == ch[p[1]].post[t]
PostingAt(ch, t, p) == ListOf(ch, t, p)[p[2]]

TakenOf(ps, ch, t) == TakenAt(ps.block, ps.in_block, ch[ps.source].post[t])
TakenFrom(pss, ch, t) == {p \in Places(ch, t) : \E r \in DOMAIN pss : p[1] = pss[r].source /\ p[2] <= TakenOf(pss[r], ch, t)}

(* What is collected of the posting at a place. *)
CollectedAt(ch, t, p) ==
    LET bp == PostingAt(ch, t, p)
    IN  [source_idx |-> p[1], old_doc_id |-> bp.doc, ctid |-> ch[p[1]].ctid[bp.doc + 1],
         frequency |-> bp.frequency, fieldnorm |-> bp.norm,
         tenant_id |-> tp_segment_get_tenant_id(ch[p[1]], bp.doc)]

(* The postings of the places in S have been collected, each once. *)
CollectedOK(col, S, ch, t) ==
    /\ col \in Seq(Range(col))
    /\ \E pl : Pairing(pl, 1 .. Len(col), S) /\ \A n \in 1 .. Len(col) : col[n] = CollectedAt(ch, t, pl[n])

PsourceOK(ps, i, ch, t) ==
    /\ "block" \in DOMAIN ps /\ "in_block" \in DOMAIN ps /\ ps.source = i /\ ps.term = t
    /\ PosOK(ps.block, ps.in_block, ch[i].post[t])

CollectOK(pss, col, mt, ch) ==
    /\ pss \in Seq(Range(pss)) /\ Len(pss) = Len(mt.segment_refs)
    /\ \A r \in 1 .. Len(mt.segment_refs) : PsourceOK(pss[r], mt.segment_refs[r], ch, mt.term)
    /\ CollectedOK(col, TakenFrom(pss, ch, mt.term), ch, mt.term)

CollectInv ==
    pc = "collect" => /\ Len(written) + 1 \in 1 .. Len(merged_terms)
                      /\ CollectOK(psources, postings, merged_terms[Len(written) + 1], chain)

(* What is written for the posting at a place. *)
WrittenAt(map, srcs, ch, t, p) ==
    LET bp == PostingAt(ch, t, p) IN BlockPosting(old_to_new(map, srcs, p[1], bp.doc), bp.frequency, bp.norm)

(* Every posting of the term is written once, in the order of the doc ids. *)
ListWritten(list, map, srcs, ch, t) ==
    /\ list \in Seq(Range(list))
    /\ \E pl : /\ Pairing(pl, 1 .. Len(list), Places(ch, t))
               /\ \A n \in 1 .. Len(list) : list[n] = WrittenAt(map, srcs, ch, t, pl[n])
    /\ \A a, b \in 1 .. Len(list) : a < b => ~cmp_block_posting_by_doc_id(list[b], list[a])

TermWritten(w, mt, map, srcs, ch) ==
    /\ CollectedOK(w.collected, Places(ch, mt.term), ch, mt.term)
    /\ ListWritten(w.list, map, srcs, ch, mt.term)

WrittenInv ==
    /\ written \in Seq(Range(written)) /\ Len(written) <= Len(merged_terms)
    /\ pc \in {"sections", "link"} => Len(written) = Len(merged_terms)
    /\ \A n \in 1 .. Len(written) : TermWritten(written[n], merged_terms[n], docmap, sources, chain)

MergedInv == pc = "link" => merged = write_merged_segment

MergeInv ==
    /\ ChainInv /\ SourcesInv /\ StageInv /\ TermsInv /\ DocmapInv /\ CollectInv /\ WrittenInv /\ MergedInv

-----------------------------------------------------------------------------
(* The first of the smallest. *)
Least(i, S, v) == \A j \in S : v[i] < v[j] \/ (v[i] = v[j] /\ i <= j)

(* Some source has the least current term (the k-way merge of the dictionaries finds one). *)
LEMMA LeastExists ==
    ASSUME NEW m \in Nat, NEW S \in SUBSET (1 .. m), S # {}, NEW v, \A i \in S : v[i] \in Int
    PROVE  \E i \in S : Least(i, S, v)
  <1> DEFINE Q(n) == \A A \in SUBSET (1 .. n) : A # {} /\ (\A i \in A : v[i] \in Int) => \E i \in A : Least(i, A, v)
             N == {n \in Nat : Q(n)}
  <1>1. 0 \in N
    <2>1. \A A \in SUBSET (1 .. 0) : A = {}
      OBVIOUS
    <2> QED BY <2>1
  <1>2. ASSUME NEW n \in Nat, Q(n) PROVE Q(n + 1)
    <2> SUFFICES ASSUME NEW A \in SUBSET (1 .. n + 1), A # {}, \A i \in A : v[i] \in Int
                 PROVE  \E i \in A : Least(i, A, v)
      OBVIOUS
    <2>1. PICK B : B = A \ {n + 1}
      OBVIOUS
    <2>2. B \in SUBSET (1 .. n) /\ \A i \in B : v[i] \in Int /\ i \in A
      BY <2>1
    <2>3. CASE n + 1 \notin A
      BY <1>2, <2>1, <2>2, <2>3
    <2>4. CASE n + 1 \in A /\ B = {}
      <3>1. A = {n + 1}
        BY <2>1, <2>4
      <3> QED BY <3>1 DEF Least
    <2>5. CASE n + 1 \in A /\ B # {}
      <3>1. PICK i \in B : Least(i, B, v)
        BY <1>2, <2>2, <2>5
      <3>2. v[i] \in Int /\ v[n + 1] \in Int /\ i \in A /\ i \in Nat /\ i <= n + 1
        BY <2>2, <2>5
      <3>3. \A j \in A : j \in B \/ j = n + 1
        BY <2>1
      <3>4. CASE v[i] <= v[n + 1]
        <4>1. Least(i, A, v)
          BY <3>1, <3>2, <3>3, <3>4 DEF Least
        <4> QED BY <3>2, <4>1
      <3>5. CASE ~(v[i] <= v[n + 1])
        <4>1. ASSUME NEW j \in B PROVE v[n + 1] < v[j]
          <5>1. v[j] \in Int /\ v[i] <= v[j]
            BY <2>2, <3>1, <3>2 DEF Least
          <5> QED BY <3>2, <3>5, <5>1
        <4>2. Least(n + 1, A, v)
          BY <3>2, <3>3, <4>1 DEF Least
        <4> QED BY <2>5, <4>2
      <3> QED BY <3>4, <3>5
    <2> QED BY <2>3, <2>4, <2>5
  <1>3. \A n \in Nat : n \in N => n + 1 \in N
    <2> HIDE DEF Q
    <2> QED BY <1>2
  <1> HIDE DEF N
  <1>4. \A n \in Nat : n \in N
    BY <1>1, <1>3, NatSetInduction
  <1>5. Q(m)
    BY <1>4 DEF N
  <1> QED BY <1>5

(* A dictionary lists the terms of its segment in ascending order. *)
DictOK(s) ==
    /\ Len(dictionary(s)) \in Nat \ {0} /\ dictionary(s) \in [1 .. Len(dictionary(s)) -> DOMAIN s.post]
    /\ \A a, b \in 1 .. Len(dictionary(s)) : a < b => dictionary(s)[a] < dictionary(s)[b]
    /\ \A t \in DOMAIN s.post : \E k \in 1 .. Len(dictionary(s)) : dictionary(s)[k] = t

(* The dictionary of a readable segment lists its terms in ascending order. *)
LEMMA DictionaryOK ==
    ASSUME NEW s, Readable(s)
    PROVE  DictOK(s) /\ DOMAIN s.post \subseteq Int /\ DOMAIN s.post \subseteq Term
  <1>1. PICK S : S = DOMAIN s.post
    OBVIOUS
  <1>2. S \subseteq Term /\ S \in SUBSET Int /\ IsFiniteSet(S) /\ S # {}
    BY <1>1, TermAssumption DEF Readable
  <1>3. PICK d : d = dictionary(s)
    OBVIOUS
  <1>4. IntListing(d, S)
    BY <1>1, <1>2, <1>3, SortedInts DEF dictionary
  <1>5. PICK c \in Nat : c = Cardinality(S)
    BY <1>4 DEF IntListing
  <1>6. /\ d \in [1 .. c -> S] /\ \A a, b \in 1 .. c : a < b => d[a] < d[b]
        /\ \A x \in S : \E n \in 1 .. c : d[n] = x
    BY <1>4, <1>5 DEF IntListing
  <1>7. Len(d) = c
    BY <1>6
  <1>8. c # 0
    BY <1>2, <1>5, FS_EmptySet
  <1> QED BY <1>1, <1>2, <1>3, <1>5, <1>6, <1>7, <1>8 DEF DictOK

(* The sources, one by one. *)
LEMMA SourceFacts ==
    ASSUME ChainInv, SourcesInv
    PROVE  /\ opened \in Nat /\ Len(chain) \in Nat /\ DOMAIN chain = 1 .. Len(chain) /\ opened <= Len(chain)
           /\ DOMAIN sources = 1 .. opened
           /\ \A i \in 1 .. opened :
                /\ i \in DOMAIN chain /\ Readable(chain[i]) /\ sources[i].reader = chain[i] /\ DictOK(chain[i])
                /\ sources[i].current_idx \in 1 .. Len(dictionary(chain[i])) + 1
                /\ i \in live_sources <=> sources[i].current_idx \in 1 .. Len(dictionary(chain[i]))
                /\ merge_read_term_at_index(sources[i]) = dictionary(chain[i])[sources[i].current_idx]
                /\ merge_source_advance(sources[i]) = [reader |-> chain[i], current_idx |-> sources[i].current_idx + 1]
  <1>1. Len(chain) \in Nat /\ DOMAIN chain = 1 .. Len(chain)
    BY DEF ChainInv, ChainOK
  <1>2. opened \in Nat /\ opened <= Len(chain)
    BY <1>1 DEF SourcesInv
  <1>3. DOMAIN sources = 1 .. opened
    BY DEF SourcesInv
  <1>4. ASSUME NEW i \in 1 .. opened
        PROVE  /\ i \in DOMAIN chain /\ Readable(chain[i]) /\ sources[i].reader = chain[i] /\ DictOK(chain[i])
               /\ sources[i].current_idx \in 1 .. Len(dictionary(chain[i])) + 1
               /\ i \in live_sources <=> sources[i].current_idx \in 1 .. Len(dictionary(chain[i]))
               /\ merge_read_term_at_index(sources[i]) = dictionary(chain[i])[sources[i].current_idx]
               /\ merge_source_advance(sources[i]) = [reader |-> chain[i], current_idx |-> sources[i].current_idx + 1]
    <2>1. i \in DOMAIN chain /\ Readable(chain[i])
      BY <1>1, <1>2 DEF ChainInv, ChainOK
    <2>2. DictOK(chain[i])
      BY <2>1, DictionaryOK
    <2>3. PICK src, idx, s : src = sources[i] /\ idx = sources[i].current_idx /\ s = chain[i]
      OBVIOUS
    <2>4. src = [reader |-> s, current_idx |-> idx] /\ idx \in 1 .. Len(dictionary(s)) + 1
      BY <2>3 DEF SourcesInv, SourceOK
    <2>5. src.reader = s
      BY <2>4
    <2>6. Len(dictionary(s)) \in Nat
      BY <2>2, <2>3 DEF DictOK
    <2>7. ~(idx > Len(dictionary(s))) <=> idx \in 1 .. Len(dictionary(s))
      BY <2>4, <2>6
    <2>8. i \in live_sources <=> idx \in 1 .. Len(dictionary(s))
      BY <1>3, <2>3, <2>5, <2>7 DEF live_sources, exhausted
    <2>9. merge_read_term_at_index(src) = dictionary(s)[idx]
      BY <2>3, <2>5 DEF merge_read_term_at_index
    <2>10. merge_source_advance(src) = [reader |-> s, current_idx |-> idx + 1]
      BY <2>4 DEF merge_source_advance
    <2> QED BY <2>1, <2>2, <2>3, <2>4, <2>5, <2>8, <2>9, <2>10
  <1> QED BY <1>1, <1>2, <1>3, <1>4

(* merge_find_min_source finds a source with the smallest current term. *)
LEMMA MinSource ==
    ASSUME ChainInv, SourcesInv, live_sources # {}
    PROVE  /\ merge_find_min_source \in live_sources
           /\ \A i \in live_sources : merge_read_term_at_index(sources[i]) \in Int
           /\ \A j \in live_sources :
                ~(merge_read_term_at_index(sources[j]) < merge_read_term_at_index(sources[merge_find_min_source]))
  <1>1. live_sources \in SUBSET (1 .. opened) /\ opened \in Nat
    BY SourceFacts DEF live_sources
  <1>2. ASSUME NEW i \in live_sources PROVE merge_read_term_at_index(sources[i]) \in Int
    <2>1. i \in 1 .. opened
      BY <1>1
    <2>2. /\ Readable(chain[i]) /\ DictOK(chain[i])
          /\ sources[i].current_idx \in 1 .. Len(dictionary(chain[i]))
          /\ merge_read_term_at_index(sources[i]) = dictionary(chain[i])[sources[i].current_idx]
      BY <1>2, <2>1, SourceFacts
    <2>3. DOMAIN chain[i].post \subseteq Int
      BY <2>2, DictionaryOK
    <2> QED BY <2>2, <2>3 DEF DictOK
  <1>3. PICK v : v = [i \in live_sources |-> merge_read_term_at_index(sources[i])]
    OBVIOUS
  <1>4. \A i \in live_sources : v[i] = merge_read_term_at_index(sources[i]) /\ v[i] \in Int
    BY <1>2, <1>3
  <1>5. PICK S : S = live_sources
    OBVIOUS
  <1>6. \E i \in S : Least(i, S, v)
    BY <1>1, <1>4, <1>5, LeastExists
  <1>7. merge_find_min_source = CHOOSE i \in S : Least(i, S, v)
    <2>1. \A i \in S : Least(i, S, v) <=>
             \A j \in live_sources :
                \/ merge_read_term_at_index(sources[i]) < merge_read_term_at_index(sources[j])
                \/ /\ merge_read_term_at_index(sources[i]) = merge_read_term_at_index(sources[j])
                   /\ i <= j
      BY <1>4, <1>5 DEF Least
    <2> QED BY <1>5, <2>1 DEF merge_find_min_source
  <1>8. PICK m : m = merge_find_min_source
    OBVIOUS
  <1>9. m \in S /\ Least(m, S, v)
    BY <1>6, <1>7, <1>8
  <1>10. ASSUME NEW j \in S PROVE ~(v[j] < v[m])
    <2>1. v[j] \in Int /\ v[m] \in Int
      BY <1>4, <1>5, <1>9
    <2> QED BY <1>9, <2>1 DEF Least
  <1> QED BY <1>2, <1>4, <1>5, <1>8, <1>9, <1>10

(* The least term in front of the sources: those that have it are the sources at it, every
   merged term is below it, and every other term still to come is above it. *)
TermFound(t, at) ==
    /\ t \in Int /\ t \in Term /\ at # {} /\ at = HoldersOf(chain, t)
    /\ \A n \in 1 .. Len(merged_terms) : merged_terms[n].term < t
    /\ \A i \in 1 .. opened : \A k \in 1 .. Len(dictionary(chain[i])) :
         IF i \in at THEN sources[i].current_idx < k => t < dictionary(chain[i])[k]
                     ELSE sources[i].current_idx <= k => t < dictionary(chain[i])[k]

(* The sources that are at the smallest term are the segments that hold it. *)
LEMMA AtTerm ==
    ASSUME ChainInv, SourcesInv, TermsInv, opened = Len(chain), live_sources # {},
           NEW t, t = merge_read_term_at_index(sources[merge_find_min_source]),
           NEW at, at = {i \in live_sources : merge_read_term_at_index(sources[i]) = t}
    PROVE  TermFound(t, at)
  <1>0. opened \in Nat /\ DOMAIN chain = 1 .. opened /\ live_sources \subseteq 1 .. opened
    BY SourceFacts DEF live_sources
  <1>1. PICK m : m = merge_find_min_source
    OBVIOUS
  <1>2. m \in live_sources /\ \A j \in live_sources : /\ merge_read_term_at_index(sources[j]) \in Int
                                                      /\ ~(merge_read_term_at_index(sources[j]) < t)
    BY <1>1, MinSource
  <1>3. \A i \in 1 .. opened :
          /\ Readable(chain[i]) /\ DictOK(chain[i])
          /\ sources[i].current_idx \in 1 .. Len(dictionary(chain[i])) + 1
          /\ i \in live_sources <=> sources[i].current_idx \in 1 .. Len(dictionary(chain[i]))
          /\ merge_read_term_at_index(sources[i]) = dictionary(chain[i])[sources[i].current_idx]
    BY SourceFacts
  <1>4. t \in Int /\ t \in Term /\ m \in at
    <2>1. t \in Int /\ m \in at
      BY <1>1, <1>2
    <2>2. t = dictionary(chain[m])[sources[m].current_idx] /\ DictOK(chain[m]) /\ Readable(chain[m])
          /\ sources[m].current_idx \in 1 .. Len(dictionary(chain[m]))
      BY <1>0, <1>1, <1>2, <1>3
    <2>3. t \in DOMAIN chain[m].post
      BY <2>2 DEF DictOK
    <2>4. DOMAIN chain[m].post \subseteq Term
      BY <2>2, DictionaryOK
    <2> QED BY <2>1, <2>3, <2>4
  <1>5. \A n \in 1 .. Len(merged_terms) : merged_terms[n].term < t
    <2>1. PICK k : k = sources[m].current_idx
      OBVIOUS
    <2>2. m \in 1 .. opened /\ k \in 1 .. Len(dictionary(chain[m])) /\ t = dictionary(chain[m])[k] /\ ~(k < k)
          /\ Len(dictionary(chain[m])) \in Nat
      <3>1. m \in 1 .. opened
        BY <1>0, <1>2
      <3>2. Len(dictionary(chain[m])) \in Nat
        BY <1>3, <3>1 DEF DictOK
      <3>3. k \in 1 .. Len(dictionary(chain[m])) /\ t = dictionary(chain[m])[k]
        BY <1>1, <1>2, <1>3, <2>1, <3>1
      <3> QED BY <3>1, <3>2, <3>3
    <2> QED BY <2>1, <2>2 DEF TermsInv
  <1>6. ASSUME NEW i \in 1 .. opened, NEW k \in 1 .. Len(dictionary(chain[i])), NEW d, NEW idx,
               d = dictionary(chain[i]), idx = sources[i].current_idx
        PROVE  /\ k \in Int /\ idx \in Int /\ d[k] \in Int
               /\ idx < k => d[idx] < d[k]
               /\ idx <= k => i \in live_sources
               /\ i \in live_sources => d[idx] \in Int /\ ~(d[idx] < t)
               /\ i \in at <=> i \in live_sources /\ d[idx] = t
    <2>1. PICK len \in Nat : len = Len(dictionary(chain[i]))
      BY <1>3 DEF DictOK
    <2>2. idx \in 1 .. len + 1 /\ k \in 1 .. len
      BY <1>3, <1>6, <2>1
    <2>3. /\ d \in [1 .. len -> DOMAIN chain[i].post]
          /\ \A a, b \in 1 .. len : a < b => d[a] < d[b]
      BY <1>3, <1>6, <2>1 DEF DictOK
    <2>4. DOMAIN chain[i].post \subseteq Int
      BY <1>3, DictionaryOK
    <2>5. d[k] \in Int
      BY <2>2, <2>3, <2>4
    <2>6. i \in live_sources <=> idx \in 1 .. len
      BY <1>3, <1>6, <2>1
    <2>7. idx <= k => i \in live_sources
      BY <2>2, <2>6
    <2>8. idx < k => d[idx] < d[k]
      BY <2>2, <2>3
    <2>9. merge_read_term_at_index(sources[i]) = d[idx]
      BY <1>3, <1>6
    <2>10. i \in live_sources => d[idx] \in Int /\ ~(d[idx] < t)
      BY <1>2, <2>9
    <2>11. i \in at <=> i \in live_sources /\ d[idx] = t
      BY <2>9
    <2> QED BY <2>2, <2>5, <2>7, <2>8, <2>10, <2>11
  <1>7. ASSUME NEW i \in 1 .. opened, NEW k \in 1 .. Len(dictionary(chain[i]))
        PROVE  IF i \in at THEN sources[i].current_idx < k => t < dictionary(chain[i])[k]
                           ELSE sources[i].current_idx <= k => t < dictionary(chain[i])[k]
    <2>1. PICK d, idx : d = dictionary(chain[i]) /\ idx = sources[i].current_idx
      OBVIOUS
    <2>2. /\ k \in Int /\ idx \in Int /\ d[k] \in Int
          /\ idx < k => d[idx] < d[k]
          /\ idx <= k => i \in live_sources
          /\ i \in live_sources => d[idx] \in Int /\ ~(d[idx] < t)
          /\ i \in at <=> i \in live_sources /\ d[idx] = t
      BY <1>6, <2>1
    <2>3. CASE i \in at
      BY <2>1, <2>2, <2>3
    <2>4. CASE i \notin at
      <3> SUFFICES ASSUME idx <= k PROVE t < d[k]
        BY <2>1, <2>4
      <3>1. i \in live_sources /\ d[idx] \in Int /\ ~(d[idx] < t) /\ d[idx] # t
        BY <2>2, <2>4
      <3>2. t < d[idx]
        BY <1>4, <3>1
      <3>3. CASE idx < k
        BY <1>4, <2>2, <3>1, <3>2, <3>3
      <3>4. CASE idx = k
        BY <3>2, <3>4
      <3> QED BY <2>2, <3>3, <3>4
    <2> QED BY <2>3, <2>4
  <1>8. at \subseteq HoldersOf(chain, t)
    <2> SUFFICES ASSUME NEW i \in at PROVE i \in DOMAIN chain /\ t \in DOMAIN chain[i].post
      BY DEF HoldersOf, has_term
    <2>1. i \in live_sources /\ i \in 1 .. opened
      BY <1>0
    <2>2. /\ DictOK(chain[i]) /\ t = dictionary(chain[i])[sources[i].current_idx]
          /\ sources[i].current_idx \in 1 .. Len(dictionary(chain[i]))
      BY <1>3, <2>1
    <2>3. t \in DOMAIN chain[i].post
      BY <2>2 DEF DictOK
    <2> QED BY <1>0, <2>1, <2>3
  <1>9. HoldersOf(chain, t) \subseteq at
    <2> SUFFICES ASSUME NEW i \in HoldersOf(chain, t) PROVE i \in at
      OBVIOUS
    <2>1. i \in 1 .. opened /\ t \in DOMAIN chain[i].post
      BY <1>0 DEF HoldersOf, has_term
    <2>2. PICK k \in 1 .. Len(dictionary(chain[i])) : dictionary(chain[i])[k] = t
      BY <1>3, <2>1 DEF DictOK
    <2>3. PICK d, idx : d = dictionary(chain[i]) /\ idx = sources[i].current_idx
      OBVIOUS
    <2>4. /\ k \in Int /\ idx \in Int /\ d[k] \in Int
          /\ idx < k => d[idx] < d[k]
          /\ idx <= k => i \in live_sources
          /\ i \in live_sources => d[idx] \in Int /\ ~(d[idx] < t)
          /\ i \in at <=> i \in live_sources /\ d[idx] = t
      BY <1>6, <2>1, <2>3
    <2>5. ~(k < idx)
      <3> SUFFICES ASSUME k < idx PROVE FALSE
        OBVIOUS
      <3>1. PICK n \in 1 .. Len(merged_terms) : merged_terms[n].term = dictionary(chain[i])[k]
        BY <2>1, <2>3 DEF TermsInv
      <3>2. t < t
        BY <1>5, <2>2, <3>1
      <3> QED BY <1>4, <3>2
    <2>6. ~(idx < k)
      <3> SUFFICES ASSUME idx < k PROVE FALSE
        OBVIOUS
      <3>1. d[idx] < t /\ i \in live_sources
        BY <2>2, <2>3, <2>4
      <3> QED BY <2>4, <3>1
    <2>7. idx = k
      BY <2>4, <2>5, <2>6
    <2> QED BY <2>2, <2>3, <2>4, <2>7
  <1>10. at = HoldersOf(chain, t) /\ at # {}
    BY <1>4, <1>8, <1>9
  <1> QED BY <1>4, <1>5, <1>7, <1>10 DEF TermFound

-----------------------------------------------------------------------------
(* The steps *)

(* MergeTerm keeps MergeInv. *)
LEMMA MergeTermKeeps ==
    ASSUME MergeInv, MergeTerm
    PROVE  MergeInv'
  <1>0. /\ ChainInv /\ SourcesInv /\ StageInv /\ TermsInv
        /\ pc = "terms" /\ pc' = "terms" /\ chain' = chain /\ upper' = upper /\ opened' = opened
        /\ psources' = psources /\ postings' = postings /\ written' = written /\ live_sources # {}
    BY DEF MergeInv, MergeTerm
  <1>1. PICK t, at : /\ t = merge_read_term_at_index(sources[merge_find_min_source])
                     /\ at = {i \in live_sources : merge_read_term_at_index(sources[i]) = t}
    OBVIOUS
  <1>2. /\ merged_terms' = Append(merged_terms, [term |-> t, segment_refs |-> Sorted(at, <)])
        /\ sources' = [i \in DOMAIN sources |-> IF i \in at THEN merge_source_advance(sources[i]) ELSE sources[i]]
    BY <1>1 DEF MergeTerm
  <1>3. opened = Len(chain)
    BY <1>0 DEF StageInv
  <1>4. /\ t \in Int /\ t \in Term /\ at # {} /\ at = HoldersOf(chain, t)
        /\ \A n \in 1 .. Len(merged_terms) : merged_terms[n].term < t
        /\ \A i \in 1 .. opened : \A k \in 1 .. Len(dictionary(chain[i])) :
             IF i \in at THEN sources[i].current_idx < k => t < dictionary(chain[i])[k]
                         ELSE sources[i].current_idx <= k => t < dictionary(chain[i])[k]
    <2>1. TermFound(t, at)
      BY <1>0, <1>1, <1>3, AtTerm
    <2> QED BY <2>1 DEF TermFound
  <1>5. PICK mt : mt = [term |-> t, segment_refs |-> Sorted(at, <)]
    OBVIOUS
  <1>6. PICK c \in Nat : c = Len(merged_terms) /\ DOMAIN merged_terms = 1 .. c
    BY <1>0 DEF TermsInv
  <1>7. /\ Len(merged_terms') = c + 1 /\ merged_terms' \in Seq(Range(merged_terms'))
        /\ merged_terms'[c + 1] = mt /\ \A n \in 1 .. c : merged_terms'[n] = merged_terms[n]
    <2>1. merged_terms \in Seq(Range(merged_terms) \cup {mt})
      BY <1>0 DEF TermsInv, Range
    <2>2. merged_terms' = Append(merged_terms, mt)
      BY <1>2, <1>5
    <2>3. /\ Len(merged_terms') = c + 1 /\ DOMAIN merged_terms' = 1 .. c + 1
          /\ merged_terms'[c + 1] = mt /\ \A n \in 1 .. c : merged_terms'[n] = merged_terms[n]
      BY <1>6, <2>1, <2>2
    <2>4. merged_terms' \in Seq(Range(merged_terms'))
      BY <2>1, <2>2, <2>3 DEF Range
    <2> QED BY <2>3, <2>4
  <1>8. /\ opened \in Nat /\ DOMAIN sources = 1 .. opened
        /\ \A i \in 1 .. opened :
             /\ DictOK(chain[i])
             /\ sources[i].current_idx \in 1 .. Len(dictionary(chain[i])) + 1
             /\ i \in live_sources <=> sources[i].current_idx \in 1 .. Len(dictionary(chain[i]))
             /\ merge_read_term_at_index(sources[i]) = dictionary(chain[i])[sources[i].current_idx]
             /\ merge_source_advance(sources[i]) = [reader |-> chain[i], current_idx |-> sources[i].current_idx + 1]
    BY <1>0, SourceFacts
  <1>9. ASSUME NEW i \in 1 .. opened
        PROVE  /\ SourceOK(sources'[i], chain[i])
               /\ IF i \in at THEN /\ sources'[i].current_idx = sources[i].current_idx + 1
                                   /\ dictionary(chain[i])[sources[i].current_idx] = t
                              ELSE sources'[i].current_idx = sources[i].current_idx
    <2>1. PICK idx : idx = sources[i].current_idx
      OBVIOUS
    <2>2. PICK len \in Nat : len = Len(dictionary(chain[i]))
      BY <1>8 DEF DictOK
    <2>3. CASE i \in at
      <3>1. sources'[i] = [reader |-> chain[i], current_idx |-> idx + 1]
        BY <1>2, <1>8, <2>1, <2>3
      <3>2. i \in live_sources /\ merge_read_term_at_index(sources[i]) = t
        BY <1>1, <2>3
      <3>3. idx \in 1 .. len
        BY <1>8, <2>1, <2>2, <3>2
      <3>4. idx + 1 \in 1 .. len + 1
        BY <3>3
      <3>5. sources'[i].current_idx = idx + 1
        BY <3>1
      <3>6. dictionary(chain[i])[sources[i].current_idx] = t
        BY <1>8, <3>2
      <3> QED BY <2>1, <2>2, <2>3, <3>1, <3>4, <3>5, <3>6 DEF SourceOK
    <2>4. CASE i \notin at
      <3>1. sources'[i] = sources[i]
        BY <1>2, <1>8, <2>4
      <3>2. SourceOK(sources[i], chain[i])
        BY <1>0 DEF SourcesInv
      <3> QED BY <2>4, <3>1, <3>2
    <2> QED BY <2>3, <2>4
  <1>10. ChainInv'
    BY <1>0 DEF ChainInv
  <1>11. SourcesInv'
    <2>1. DOMAIN sources' = 1 .. opened
      BY <1>2, <1>8
    <2>2. sources' \in Seq(Range(sources')) /\ Len(sources') = opened
      <3>1. sources' \in [1 .. opened -> Range(sources')]
        BY <1>2, <1>8, <2>1 DEF Range
      <3> QED BY <1>8, <3>1
    <2>3. opened \in 0 .. Len(chain)
      BY <1>0 DEF SourcesInv
    <2> QED BY <1>0, <1>9, <2>2, <2>3 DEF SourcesInv
  <1>12. StageInv'
    BY <1>0 DEF StageInv, Writing
  <1>13. TermsInv'
    <2>1. ASSUME NEW n \in 1 .. c + 1 PROVE TermOK(merged_terms'[n], chain)
      <3>1. CASE n = c + 1
        <4>1. mt.term = t /\ mt.segment_refs = Sorted(at, <)
          BY <1>5
        <4> QED BY <1>4, <1>7, <3>1, <4>1 DEF TermOK
      <3>2. CASE n # c + 1
        <4>1. n \in 1 .. c
          BY <3>2
        <4> QED BY <1>0, <1>6, <1>7, <4>1 DEF TermsInv
      <3> QED BY <3>1, <3>2
    <2>2. mt.term = t
      BY <1>5
    <2>3. ASSUME NEW m \in 1 .. c + 1, NEW n \in 1 .. c + 1, m < n
          PROVE  merged_terms'[m].term < merged_terms'[n].term
      <3>1. m \in 1 .. c /\ (n \in 1 .. c \/ n = c + 1)
        BY <2>3
      <3>2. CASE n \in 1 .. c
        BY <1>0, <1>6, <1>7, <2>3, <3>1, <3>2 DEF TermsInv
      <3>3. CASE n = c + 1
        BY <1>4, <1>6, <1>7, <2>2, <3>1, <3>3
      <3> QED BY <3>1, <3>2, <3>3
    <2>4. ASSUME NEW i \in 1 .. opened, NEW k \in 1 .. Len(dictionary(chain[i])), k < sources'[i].current_idx
          PROVE  \E n \in 1 .. c + 1 : merged_terms'[n].term = dictionary(chain[i])[k]
      <3>0. k \in Int /\ sources[i].current_idx \in Int
        BY <1>8 DEF DictOK
      <3>1. CASE k < sources[i].current_idx
        <4>1. PICK n \in 1 .. c : merged_terms[n].term = dictionary(chain[i])[k]
          BY <1>0, <1>6, <3>1 DEF TermsInv
        <4>2. n \in 1 .. c + 1
          OBVIOUS
        <4> QED BY <1>7, <4>1, <4>2
      <3>2. CASE ~(k < sources[i].current_idx)
        <4>1. i \in at /\ k = sources[i].current_idx
          BY <1>9, <2>4, <3>0, <3>2
        <4>2. dictionary(chain[i])[k] = t
          BY <1>9, <4>1
        <4>3. c + 1 \in 1 .. c + 1
          OBVIOUS
        <4> QED BY <1>7, <2>2, <4>2, <4>3
      <3> QED BY <3>1, <3>2
    <2>5. ASSUME NEW i \in 1 .. opened, NEW k \in 1 .. Len(dictionary(chain[i])), ~(k < sources'[i].current_idx),
                 NEW n \in 1 .. c + 1
          PROVE  merged_terms'[n].term < dictionary(chain[i])[k]
      <3>0. k \in Int /\ sources[i].current_idx \in Int
        BY <1>8 DEF DictOK
      <3>1. ~(k < sources[i].current_idx)
        BY <1>9, <2>5, <3>0
      <3>2. CASE n \in 1 .. c
        BY <1>0, <1>6, <1>7, <3>1, <3>2 DEF TermsInv
      <3>3. CASE n = c + 1
        <4>1. CASE i \in at
          <5>1. sources[i].current_idx < k
            BY <1>9, <2>5, <3>0, <4>1
          <5> QED BY <1>4, <1>7, <2>2, <3>3, <4>1, <5>1
        <4>2. CASE i \notin at
          <5>1. sources[i].current_idx <= k
            BY <3>0, <3>1
          <5> QED BY <1>4, <1>7, <2>2, <3>3, <4>2, <5>1
        <4> QED BY <4>1, <4>2
      <3> QED BY <3>2, <3>3
    <2>6. ~Writing'
      BY <1>0 DEF Writing
    <2> QED BY <1>0, <1>7, <2>1, <2>3, <2>4, <2>5, <2>6 DEF TermsInv
  <1>14. DocmapInv' /\ CollectInv' /\ MergedInv'
    BY <1>0 DEF DocmapInv, CollectInv, MergedInv, Writing
  <1>15. WrittenInv'
    <2>1. written = << >> /\ written' = << >>
      BY <1>0 DEF StageInv, Writing
    <2> QED BY <1>0, <1>6, <1>7, <2>1 DEF WrittenInv
  <1> QED BY <1>10, <1>11, <1>12, <1>13, <1>14, <1>15 DEF MergeInv

(* The references of a merged term. *)
RefsOK(mt, ch) ==
    /\ Len(mt.segment_refs) \in Nat \ {0}
    /\ mt.segment_refs \in [1 .. Len(mt.segment_refs) -> HoldersOf(ch, mt.term)]
    /\ \A a, b \in 1 .. Len(mt.segment_refs) : mt.segment_refs[a] = mt.segment_refs[b] => a = b
    /\ \A i \in HoldersOf(ch, mt.term) : \E r \in 1 .. Len(mt.segment_refs) : mt.segment_refs[r] = i

(* The segment references of a merged term name every segment that has it, once. *)
LEMMA RefsMade ==
    ASSUME NEW ch, ChainOK(ch), NEW mt, TermOK(mt, ch)
    PROVE  RefsOK(mt, ch)
  <1>1. PICK H, refs : H = HoldersOf(ch, mt.term) /\ refs = mt.segment_refs
    OBVIOUS
  <1>2. PICK n \in Nat : DOMAIN ch = 1 .. n
    BY DEF ChainOK
  <1>3. H \subseteq 1 .. n
    BY <1>1, <1>2 DEF HoldersOf
  <1>4. IsFiniteSet(1 .. n)
    BY IntervalCard
  <1>5. IsFiniteSet(H)
    BY <1>3, <1>4, FS_Subset
  <1>6. H \in SUBSET Int /\ H # {}
    <2>1. H \in SUBSET Int
      BY <1>3
    <2>2. H # {}
      BY <1>1, Zenon DEF TermOK
    <2> QED BY <2>1, <2>2
  <1>7. IntListing(refs, H)
    <2>1. refs = Sorted(H, <)
      BY <1>1 DEF TermOK
    <2> QED BY <1>5, <1>6, <2>1, SortedInts
  <1>8. PICK c \in Nat : c = Cardinality(H)
    BY <1>7 DEF IntListing
  <1>9. /\ refs \in [1 .. c -> H] /\ \A a, b \in 1 .. c : a < b => refs[a] < refs[b]
        /\ \A x \in H : \E k \in 1 .. c : refs[k] = x
    BY <1>7, <1>8 DEF IntListing
  <1>10. c # 0 /\ Len(refs) = c
    BY <1>5, <1>6, <1>8, <1>9, FS_EmptySet
  <1>11. ASSUME NEW a \in 1 .. c, NEW b \in 1 .. c, refs[a] = refs[b] PROVE a = b
    <2>1. refs[a] \in Int /\ refs[b] \in Int
      BY <1>6, <1>9
    <2>2. ~(a < b) /\ ~(b < a)
      BY <1>9, <1>11, <2>1
    <2> QED BY <2>2
  <1> QED BY <1>1, <1>8, <1>9, <1>10, <1>11 DEF RefsOK

(* The list of a term in one of its segments. *)
PostingIn(s) == [doc : 0 .. s.num_docs - 1, frequency : Nat \ {0}, norm : DOMAIN FieldNormTable]
ListIn(L, s, t) ==
    /\ s.num_docs \in Nat /\ L = s.post[t] /\ L \in Seq(PostingIn(s)) /\ L # << >>
    /\ Len(s.skip[t]) = num_blocks(L) /\ s.doc_freq[t] = Len(L)
    /\ \A b \in 1 .. Len(s.skip[t]) : s.skip[t][b].doc_count = Len(Block(L, b - 1))

(* It is a sequence of postings. *)
LEMMA ListParts ==
    ASSUME NEW L, NEW s, NEW t, ListIn(L, s, t)
    PROVE  /\ L \in Seq(PostingIn(s)) /\ L # << >> /\ Len(L) \in Nat /\ 1 \in 1 .. Len(L)
           /\ DOMAIN L = 1 .. Len(L) /\ \A n \in DOMAIN L : L[n] \in PostingIn(s)
  <1>1. L \in Seq(PostingIn(s)) /\ L # << >>
    BY DEF ListIn
  <1> QED BY <1>1

(* The posting list of a term of a readable segment. *)
LEMMA ListRead ==
    ASSUME NEW s, Readable(s), NEW t, has_term(s, t)
    PROVE  ListIn(s.post[t], s, t)
  BY DEF Readable, has_term, ListIn, PostingIn

(* The places of a term. *)
LEMMA PlaceParts ==
    ASSUME NEW ch, ChainOK(ch), NEW t
    PROVE  \A p : p \in Places(ch, t) <=> \E i \in HoldersOf(ch, t) : \E k \in 1 .. Len(ch[i].post[t]) : p = <<i, k>>
  <1>1. PICK Z, n : Z = ListAt(ch, t) /\ n = Len(ch)
    OBVIOUS
  <1>2. DOMAIN ch = 1 .. n /\ n \in Nat
    BY <1>1 DEF ChainOK
  <1>3. ASSUME NEW i \in HoldersOf(ch, t) PROVE DOMAIN ch[i].post[t] = 1 .. Len(ch[i].post[t])
    <2>1. Readable(ch[i]) /\ has_term(ch[i], t)
      BY DEF HoldersOf, ChainOK
    <2>2. ListIn(ch[i].post[t], ch[i], t)
      BY <2>1, ListRead
    <2> QED BY <2>2, ListParts
  <1>4. ASSUME NEW p, p \in Places(ch, t)
        PROVE  \E i \in HoldersOf(ch, t) : \E k \in 1 .. Len(ch[i].post[t]) : p = <<i, k>>
    <2>1. PICK i, k : i \in 1 .. n /\ k \in Z[i] /\ p = <<i, k>>
      BY <1>1, <1>4 DEF Places, Pairs, Row
    <2>2. has_term(ch[i], t) /\ k \in DOMAIN ch[i].post[t]
      BY <1>1, <1>2, <2>1 DEF ListAt
    <2>3. i \in HoldersOf(ch, t)
      BY <1>2, <2>1, <2>2 DEF HoldersOf
    <2> QED BY <1>3, <2>1, <2>2, <2>3
  <1>5. ASSUME NEW i \in HoldersOf(ch, t), NEW k \in 1 .. Len(ch[i].post[t]) PROVE <<i, k>> \in Places(ch, t)
    <2>1. i \in 1 .. n /\ has_term(ch[i], t)
      BY <1>2 DEF HoldersOf
    <2>2. k \in Z[i]
      BY <1>1, <1>2, <1>3, <2>1 DEF ListAt
    <2> QED BY <1>1, <2>1, <2>2 DEF Places, Pairs, Row
  <1> QED BY <1>4, <1>5

(* A pairing of nothing. *)
LEMMA EmptyPairing ==
    Pairing(<< >>, 1 .. 0, {})
  <1>1. 1 .. 0 = {} /\ << >> \in [1 .. 0 -> {}]
    OBVIOUS
  <1> QED BY <1>1 DEF Pairing

(* Before the first posting of a term is collected. *)
LEMMA CollectStarts ==
    ASSUME NEW ch, ChainOK(ch), NEW mt, TermOK(mt, ch)
    PROVE  CollectOK(sources_of(mt), << >>, mt, ch)
  <1>1. PICK refs, t, pss : refs = mt.segment_refs /\ t = mt.term /\ pss = sources_of(mt)
    OBVIOUS
  <1>2. PICK c \in Nat : c = Len(refs) /\ DOMAIN refs = 1 .. c /\ refs \in [1 .. c -> HoldersOf(ch, t)]
    <2>1. RefsOK(mt, ch)
      BY RefsMade
    <2> QED BY <1>1, <2>1 DEF RefsOK
  <1>3. pss = [r \in 1 .. c |-> [source |-> refs[r], term |-> t, block |-> 0, in_block |-> 0]]
    BY <1>1, <1>2 DEF sources_of, posting_source_init
  <1>4. pss \in Seq(Range(pss)) /\ Len(pss) = c /\ DOMAIN pss = 1 .. c
    <2>1. pss \in [1 .. c -> Range(pss)] /\ DOMAIN pss = 1 .. c
      BY <1>3 DEF Range
    <2> QED BY <2>1
  <1>5. ASSUME NEW r \in 1 .. c
        PROVE  /\ PsourceOK(pss[r], refs[r], ch, t) /\ TakenOf(pss[r], ch, t) = 0
    <2>1. refs[r] \in HoldersOf(ch, t)
      BY <1>2
    <2>2. PICK i, L : i = refs[r] /\ L = ch[refs[r]].post[t]
      OBVIOUS
    <2>3. Readable(ch[i]) /\ has_term(ch[i], t)
      BY <2>1, <2>2 DEF HoldersOf, ChainOK
    <2>4. ListIn(L, ch[i], t)
      BY <2>2, <2>3, ListRead
    <2>5. L \in Seq(PostingIn(ch[i])) /\ L # << >>
      BY <2>4, ListParts
    <2>6. PosOK(0, 0, L) /\ TakenAt(0, 0, L) = 0
      BY <2>5, PosFirst
    <2>7. pss[r] = [source |-> i, term |-> t, block |-> 0, in_block |-> 0]
      BY <1>3, <2>2
    <2>8. /\ pss[r].source = i /\ pss[r].term = t /\ pss[r].block = 0 /\ pss[r].in_block = 0
          /\ "block" \in DOMAIN pss[r] /\ "in_block" \in DOMAIN pss[r]
      BY <2>7
    <2> QED BY <2>2, <2>6, <2>8 DEF PsourceOK, TakenOf
  <1>6. TakenFrom(pss, ch, t) = {}
    <2> SUFFICES ASSUME NEW p \in Places(ch, t), NEW r \in DOMAIN pss, p[2] <= TakenOf(pss[r], ch, t) PROVE FALSE
      BY DEF TakenFrom
    <2>1. p[2] <= 0
      BY <1>4, <1>5
    <2>2. PICK i \in HoldersOf(ch, t), k \in Nat : k \in 1 .. Len(ch[i].post[t]) /\ p = <<i, k>>
      BY PlaceParts
    <2>3. p[2] = k /\ k \in Nat /\ 1 <= k
      BY <2>2
    <2> QED BY <2>1, <2>3
  <1>7. CollectedOK(<< >>, {}, ch, t)
    <2>1. << >> \in Seq(Range(<< >>)) /\ Len(<< >>) = 0
      OBVIOUS
    <2> QED BY <2>1, EmptyPairing DEF CollectedOK
  <1> QED BY <1>1, <1>2, <1>4, <1>5, <1>6, <1>7 DEF CollectOK

(* The initial states satisfy MergeInv. *)
LEMMA MergeStarts ==
    ASSUME Init
    PROVE  MergeInv
  <1>1. PICK in \in Inputs : chain = in.chain /\ upper = in.upper
    BY DEF Init
  <1>2. ChainInv
    BY <1>1, InputsAssumption DEF ChainInv, ChainOK
  <1>3. Len(chain) \in Nat
    BY <1>2 DEF ChainInv, ChainOK
  <1>4. /\ pc = "open" /\ opened = 0 /\ sources = << >> /\ merged_terms = << >>
        /\ psources = << >> /\ postings = << >> /\ written = << >>
    BY DEF Init
  <1>5. << >> \in Seq(Range(<< >>)) /\ Len(<< >>) = 0 /\ 1 .. 0 = {}
    OBVIOUS
  <1>6. SourcesInv
    BY <1>3, <1>4, <1>5 DEF SourcesInv
  <1>7. StageInv
    BY <1>4, <1>5 DEF StageInv, Writing
  <1>8. TermsInv
    BY <1>4, <1>5 DEF TermsInv, Writing
  <1>9. DocmapInv /\ CollectInv /\ MergedInv
    BY <1>4 DEF DocmapInv, CollectInv, MergedInv, Writing
  <1>10. WrittenInv
    BY <1>4, <1>5 DEF WrittenInv
  <1> QED BY <1>2, <1>6, <1>7, <1>8, <1>9, <1>10 DEF MergeInv

(* OpenSource keeps MergeInv. *)
LEMMA OpenSourceKeeps ==
    ASSUME MergeInv, OpenSource
    PROVE  MergeInv'
  <1>0. /\ ChainInv /\ SourcesInv /\ StageInv /\ TermsInv /\ WrittenInv
        /\ pc = "open" /\ pc' = "open" /\ chain' = chain /\ upper' = upper /\ opened < Len(chain)
        /\ opened' = opened + 1 /\ sources' = Append(sources, merge_source_init(chain[opened + 1]))
        /\ merged_terms' = merged_terms /\ psources' = psources /\ postings' = postings /\ written' = written
    BY DEF MergeInv, OpenSource
  <1>1. /\ merged_terms = << >> /\ psources = << >> /\ postings = << >> /\ written = << >>
        /\ \A i \in 1 .. opened : sources[i].current_idx = 1
    BY <1>0 DEF StageInv, Writing
  <1>2. << >> \in Seq(Range(<< >>)) /\ Len(<< >>) = 0 /\ 1 .. 0 = {}
    OBVIOUS
  <1>3. opened \in Nat /\ Len(chain) \in Nat /\ DOMAIN chain = 1 .. Len(chain)
    BY <1>0, SourceFacts
  <1>4. opened + 1 \in 1 .. Len(chain) /\ opened + 1 \in 0 .. Len(chain)
    BY <1>0, <1>3
  <1>5. Readable(chain[opened + 1])
    BY <1>0, <1>3, <1>4 DEF ChainInv, ChainOK
  <1>6. PICK src : src = merge_source_init(chain[opened + 1])
    OBVIOUS
  <1>7. src = [reader |-> chain[opened + 1], current_idx |-> 1]
    BY <1>6 DEF merge_source_init
  <1>8. src.current_idx = 1 /\ SourceOK(src, chain[opened + 1])
    <2>1. src.current_idx = 1
      BY <1>7
    <2>2. Len(dictionary(chain[opened + 1])) \in Nat
      BY <1>5, DictionaryOK DEF DictOK
    <2>3. 1 \in 1 .. Len(dictionary(chain[opened + 1])) + 1
      BY <2>2
    <2> QED BY <1>7, <2>1, <2>3 DEF SourceOK
  <1>9. /\ sources' \in Seq(Range(sources')) /\ Len(sources') = opened + 1
        /\ \A i \in 1 .. opened : sources'[i] = sources[i]
        /\ sources'[opened + 1] = src
    <2>1. sources \in Seq(Range(sources) \cup {src}) /\ Len(sources) = opened
      BY <1>0 DEF SourcesInv, Range
    <2>2. sources' = Append(sources, src)
      BY <1>0, <1>6
    <2>3. /\ DOMAIN sources' = 1 .. opened + 1 /\ Len(sources') = opened + 1
          /\ \A i \in 1 .. opened : sources'[i] = sources[i]
          /\ sources'[opened + 1] = src
      BY <1>3, <2>1, <2>2
    <2>4. sources' \in Seq(Range(sources'))
      BY <2>1, <2>2, <2>3 DEF Range
    <2> QED BY <2>3, <2>4
  <1>10. \A i \in 1 .. opened + 1 : i \in 1 .. opened \/ i = opened + 1
    BY <1>3
  <1>11. \A i \in 1 .. opened + 1 : SourceOK(sources'[i], chain[i]) /\ sources'[i].current_idx = 1
    <2>1. \A i \in 1 .. opened : SourceOK(sources[i], chain[i])
      BY <1>0 DEF SourcesInv
    <2> QED BY <1>1, <1>8, <1>9, <1>10, <2>1
  <1>12. ChainInv'
    BY <1>0 DEF ChainInv
  <1>13. SourcesInv'
    BY <1>0, <1>4, <1>9, <1>11 DEF SourcesInv
  <1>14. StageInv'
    BY <1>0, <1>1, <1>11 DEF StageInv, Writing
  <1>15. TermsInv'
    <2>1. ASSUME NEW i \in 1 .. opened + 1, NEW k \in 1 .. Len(dictionary(chain[i]))
          PROVE  ~(k < sources'[i].current_idx)
      <3>1. sources'[i].current_idx = 1 /\ i \in 1 .. Len(chain)
        BY <1>3, <1>4, <1>11
      <3> QED BY <3>1
    <2>2. merged_terms' = << >> /\ Len(merged_terms') = 0
      BY <1>0, <1>1
    <2> QED BY <1>0, <1>2, <2>1, <2>2 DEF TermsInv, Writing
  <1>16. DocmapInv' /\ CollectInv' /\ MergedInv'
    BY <1>0 DEF DocmapInv, CollectInv, MergedInv, Writing
  <1>17. WrittenInv'
    BY <1>0, <1>1, <1>2 DEF WrittenInv
  <1> QED BY <1>12, <1>13, <1>14, <1>15, <1>16, <1>17 DEF MergeInv

(* StartMerge keeps MergeInv. *)
LEMMA StartMergeKeeps ==
    ASSUME MergeInv, StartMerge
    PROVE  MergeInv'
  <1>0. /\ ChainInv /\ SourcesInv /\ StageInv /\ TermsInv /\ WrittenInv
        /\ pc = "open" /\ pc' = "terms" /\ chain' = chain /\ upper' = upper /\ opened = Len(chain)
        /\ opened' = opened /\ sources' = sources /\ docmap' = docmap
        /\ merged_terms' = merged_terms /\ psources' = psources /\ postings' = postings /\ written' = written
    BY DEF MergeInv, StartMerge
  <1>1. ChainInv' /\ SourcesInv'
    BY <1>0 DEF ChainInv, SourcesInv
  <1>2. StageInv'
    BY <1>0 DEF StageInv, Writing
  <1>3. TermsInv'
    BY <1>0 DEF TermsInv, Writing
  <1>4. DocmapInv' /\ CollectInv' /\ MergedInv'
    BY <1>0 DEF DocmapInv, CollectInv, MergedInv, Writing
  <1>5. WrittenInv'
    BY <1>0 DEF WrittenInv
  <1> QED BY <1>1, <1>2, <1>3, <1>4, <1>5 DEF MergeInv

(* When the sources are exhausted, every term of theirs is merged. *)
LEMMA AllMerged ==
    ASSUME ChainInv, SourcesInv, TermsInv, opened = Len(chain), live_sources = {}, NEW t
    PROVE  HoldersOf(chain, t) # {} <=> \E n \in 1 .. Len(merged_terms) : merged_terms[n].term = t
  <1>1. DOMAIN chain = 1 .. opened
    BY SourceFacts
  <1>2. ASSUME NEW i \in HoldersOf(chain, t) PROVE \E n \in 1 .. Len(merged_terms) : merged_terms[n].term = t
    <2>1. i \in 1 .. opened /\ t \in DOMAIN chain[i].post
      BY <1>1 DEF HoldersOf, has_term
    <2>2. /\ DictOK(chain[i]) /\ sources[i].current_idx \in 1 .. Len(dictionary(chain[i])) + 1
          /\ sources[i].current_idx \notin 1 .. Len(dictionary(chain[i]))
      BY <2>1, SourceFacts
    <2>3. PICK k \in 1 .. Len(dictionary(chain[i])) : dictionary(chain[i])[k] = t
      BY <2>1, <2>2 DEF DictOK
    <2>4. k < sources[i].current_idx
      <3>1. Len(dictionary(chain[i])) \in Nat
        BY <2>2 DEF DictOK
      <3> QED BY <2>2, <3>1
    <2> QED BY <2>1, <2>3, <2>4 DEF TermsInv
  <1>3. ASSUME NEW n \in 1 .. Len(merged_terms), merged_terms[n].term = t PROVE HoldersOf(chain, t) # {}
    <2>1. TermOK(merged_terms[n], chain)
      BY DEF TermsInv
    <2> QED BY <1>3, <2>1, Zenon DEF TermOK
  <1> QED BY <1>2, <1>3

(* BuildDocmap keeps MergeInv. *)
LEMMA BuildDocmapKeeps ==
    ASSUME MergeInv, BuildDocmap
    PROVE  MergeInv'
  <1>0. /\ ChainInv /\ SourcesInv /\ StageInv /\ TermsInv /\ WrittenInv
        /\ pc = "terms" /\ pc' = "collect" /\ chain' = chain /\ upper' = upper /\ live_sources = {}
        /\ opened' = opened /\ sources' = sources /\ docmap' = build_merged_docmap(sources)
        /\ psources' = sources_of(merged_terms[1])
        /\ merged_terms' = merged_terms /\ postings' = postings /\ written' = written
    BY DEF MergeInv, BuildDocmap
  <1>1. opened = Len(chain) /\ postings = << >> /\ written = << >>
    BY <1>0 DEF StageInv, Writing
  <1>2. << >> \in Seq(Range(<< >>)) /\ Len(<< >>) = 0 /\ 1 .. 0 = {}
    OBVIOUS
  <1>3. PICK c \in Nat : c = Len(merged_terms)
    BY <1>0 DEF TermsInv
  <1>4. 1 \in 1 .. c
    <2>1. 1 \in DOMAIN chain
      BY <1>0 DEF ChainInv, ChainOK
    <2>2. Readable(chain[1])
      BY <1>0, <2>1 DEF ChainInv, ChainOK
    <2>3. PICK t : t \in DOMAIN chain[1].post
      BY <2>2 DEF Readable
    <2>4. HoldersOf(chain, t) # {}
      BY <2>1, <2>3 DEF HoldersOf, has_term
    <2>5. PICK n \in 1 .. c : merged_terms[n].term = t
      BY <1>0, <1>1, <1>3, <2>4, AllMerged
    <2> QED OBVIOUS
  <1>5. ChainInv' /\ SourcesInv'
    BY <1>0 DEF ChainInv, SourcesInv
  <1>6. StageInv'
    BY <1>0, <1>1 DEF StageInv, Writing
  <1>7. TermsInv'
    <2>1. live_sources' = {}
      BY <1>0 DEF live_sources
    <2> QED BY <1>0, <2>1 DEF TermsInv
  <1>8. DocmapInv'
    BY <1>0 DEF DocmapInv
  <1>9. CollectInv'
    <2>1. PICK mt : mt = merged_terms[1]
      OBVIOUS
    <2>2. TermOK(mt, chain) /\ ChainOK(chain)
      BY <1>0, <1>3, <1>4, <2>1 DEF TermsInv, ChainInv
    <2>3. CollectOK(sources_of(mt), << >>, mt, chain)
      BY <2>2, CollectStarts
    <2>4. Len(written') + 1 = 1 /\ postings' = << >>
      BY <1>0, <1>1, <1>2
    <2> QED BY <1>0, <1>3, <1>4, <2>1, <2>3, <2>4 DEF CollectInv
  <1>10. MergedInv'
    BY <1>0 DEF MergedInv
  <1>11. WrittenInv'
    BY <1>0, <1>1, <1>2, <1>3 DEF WrittenInv
  <1> QED BY <1>5, <1>6, <1>7, <1>8, <1>9, <1>10, <1>11 DEF MergeInv

(* WriteSections keeps MergeInv. *)
LEMMA WriteSectionsKeeps ==
    ASSUME MergeInv, WriteSections
    PROVE  MergeInv'
  <1>0. /\ ChainInv /\ SourcesInv /\ StageInv /\ TermsInv /\ WrittenInv /\ DocmapInv
        /\ pc = "sections" /\ pc' = "link" /\ chain' = chain /\ upper' = upper
        /\ opened' = opened /\ sources' = sources /\ docmap' = docmap /\ merged' = write_merged_segment
        /\ merged_terms' = merged_terms /\ psources' = psources /\ postings' = postings /\ written' = written
    BY DEF MergeInv, WriteSections
  <1>1. ChainInv' /\ SourcesInv'
    BY <1>0 DEF ChainInv, SourcesInv
  <1>2. StageInv'
    BY <1>0 DEF StageInv, Writing
  <1>3. TermsInv'
    <2>1. live_sources' = live_sources
      BY <1>0 DEF live_sources
    <2> QED BY <1>0, <2>1 DEF TermsInv, Writing
  <1>4. DocmapInv' /\ CollectInv'
    BY <1>0 DEF DocmapInv, CollectInv, Writing
  <1>5. WrittenInv'
    BY <1>0 DEF WrittenInv
  <1>6. MergedInv'
    <2>1. write_merged_segment' = write_merged_segment
      BY <1>0 DEF write_merged_segment, any_tenant, merged_tenant_stats
    <2> QED BY <1>0, <2>1 DEF MergedInv
  <1> QED BY <1>1, <1>2, <1>3, <1>4, <1>5, <1>6 DEF MergeInv

(* A stuttering step keeps MergeInv. *)
LEMMA StutterKeeps ==
    ASSUME MergeInv, UNCHANGED vars
    PROVE  MergeInv'
  <1>0. /\ ChainInv /\ SourcesInv /\ StageInv /\ TermsInv /\ WrittenInv /\ DocmapInv /\ CollectInv /\ MergedInv
        /\ pc' = pc /\ chain' = chain /\ upper' = upper /\ merged' = merged
        /\ opened' = opened /\ sources' = sources /\ docmap' = docmap
        /\ merged_terms' = merged_terms /\ psources' = psources /\ postings' = postings /\ written' = written
    BY DEF MergeInv, vars
  <1>1. ChainInv' /\ SourcesInv'
    BY <1>0 DEF ChainInv, SourcesInv
  <1>2. StageInv'
    BY <1>0 DEF StageInv, Writing
  <1>3. TermsInv'
    <2>1. live_sources' = live_sources
      BY <1>0 DEF live_sources
    <2> QED BY <1>0, <2>1 DEF TermsInv, Writing
  <1>4. DocmapInv' /\ CollectInv'
    BY <1>0 DEF DocmapInv, CollectInv, Writing
  <1>5. WrittenInv'
    BY <1>0 DEF WrittenInv
  <1>6. MergedInv'
    <2>1. write_merged_segment' = write_merged_segment
      BY <1>0 DEF write_merged_segment, any_tenant, merged_tenant_stats
    <2> QED BY <1>0, <2>1 DEF MergedInv
  <1> QED BY <1>1, <1>2, <1>3, <1>4, <1>5, <1>6 DEF MergeInv

(* A pairing with one more pair. *)
LEMMA PairingGrows ==
    ASSUME NEW n \in Nat, NEW S, NEW f, Pairing(f, 1 .. n, S), NEW x, x \notin S
    PROVE  Pairing([k \in 1 .. n + 1 |-> IF k = n + 1 THEN x ELSE f[k]], 1 .. n + 1, S \cup {x})
  <1> DEFINE g == [k \in 1 .. n + 1 |-> IF k = n + 1 THEN x ELSE f[k]]
  <1>1. \A k \in 1 .. n + 1 : k \in 1 .. n \/ k = n + 1
    OBVIOUS
  <1>2. \A k \in 1 .. n : k \in 1 .. n + 1 /\ k # n + 1 /\ g[k] = f[k] /\ f[k] \in S
    BY DEF Pairing
  <1>3. n + 1 \in 1 .. n + 1 /\ g[n + 1] = x
    OBVIOUS
  <1>4. DOMAIN g = 1 .. n + 1 /\ g = [k \in 1 .. n + 1 |-> g[k]]
    OBVIOUS
  <1> HIDE DEF g
  <1>5. g \in [1 .. n + 1 -> S \cup {x}]
    BY <1>1, <1>2, <1>3, <1>4
  <1>6. \A a, b \in 1 .. n + 1 : g[a] = g[b] => a = b
    BY <1>1, <1>2, <1>3 DEF Pairing
  <1>7. \A y \in S \cup {x} : \E a \in 1 .. n + 1 : g[a] = y
    BY <1>2, <1>3 DEF Pairing
  <1>8. Pairing(g, 1 .. n + 1, S \cup {x})
    BY <1>5, <1>6, <1>7 DEF Pairing
  <1> QED BY <1>8 DEF g

(* A posting source of the term that is being written. *)
LEMMA PsourceFacts ==
    ASSUME MergeInv, pc = "collect",
           NEW mt, mt = merged_terms[Len(written) + 1], NEW t, t = mt.term,
           NEW r \in 1 .. Len(mt.segment_refs), NEW i, i = mt.segment_refs[r], NEW L, L = chain[i].post[t]
    PROVE  /\ i \in HoldersOf(chain, t) /\ ListIn(L, chain[i], t)
           /\ reader(psources[r]) = chain[i] /\ psources[r].source = i /\ psources[r].term = t
           /\ PosOK(psources[r].block, psources[r].in_block, L)
           /\ num_blocks(L) \in Nat /\ psources[r].block \in Nat
           /\ DOMAIN psources = 1 .. Len(mt.segment_refs)
           /\ r \in live_psources <=> psources[r].block < num_blocks(L)
           /\ posting_source_load_block(psources[r]) = Block(L, psources[r].block)
           /\ TakenOf(psources[r], chain, t) = TakenAt(psources[r].block, psources[r].in_block, L)
  <1>0. ChainInv /\ SourcesInv /\ StageInv /\ TermsInv /\ CollectInv
    BY DEF MergeInv
  <1>1. CollectOK(psources, postings, mt, chain) /\ Len(written) + 1 \in 1 .. Len(merged_terms)
    BY <1>0 DEF CollectInv
  <1>2. TermOK(mt, chain) /\ ChainOK(chain)
    BY <1>0, <1>1 DEF TermsInv, ChainInv
  <1>3. RefsOK(mt, chain)
    BY <1>2, RefsMade
  <1>4. i \in HoldersOf(chain, t)
    BY <1>3 DEF RefsOK
  <1>5. i \in DOMAIN chain /\ Readable(chain[i]) /\ has_term(chain[i], t)
    BY <1>2, <1>4 DEF HoldersOf, ChainOK
  <1>6. ListIn(L, chain[i], t)
    BY <1>5, ListRead
  <1>7. opened = Len(chain)
    BY <1>0 DEF StageInv, Writing
  <1>8. i \in 1 .. opened /\ sources[i].reader = chain[i]
    BY <1>0, <1>5, <1>7, SourceFacts
  <1>9. PICK ps : ps = psources[r]
    OBVIOUS
  <1>10. PsourceOK(ps, i, chain, t)
    BY <1>1, <1>9 DEF CollectOK
  <1>11. PosOK(ps.block, ps.in_block, L)
    BY <1>10 DEF PsourceOK
  <1>12. ps.source = i /\ ps.term = t
    BY <1>10 DEF PsourceOK
  <1>13. reader(ps) = chain[i]
    BY <1>8, <1>12 DEF reader
  <1>14. Len(psources) = Len(mt.segment_refs) /\ DOMAIN psources = 1 .. Len(mt.segment_refs)
    BY <1>1 DEF CollectOK
  <1>15. num_blocks(L) \in Nat /\ ps.block \in Nat
    <2>1. L \in Seq(PostingIn(chain[i])) /\ L # << >>
      BY <1>6, ListParts
    <2> QED BY <1>11, <2>1, BlockShape DEF PosOK
  <1>16. block_count(reader(ps), ps.term) = num_blocks(L)
    BY <1>6, <1>12, <1>13 DEF block_count, ListIn
  <1>17. ~posting_exhausted(ps) <=> ps.block < num_blocks(L)
    BY <1>15, <1>16 DEF posting_exhausted
  <1>18. r \in live_psources <=> ps.block < num_blocks(L)
    BY <1>9, <1>14, <1>17 DEF live_psources
  <1>19. posting_source_load_block(ps) = Block(L, ps.block)
    BY <1>12, <1>13 DEF posting_source_load_block
  <1>20. TakenOf(ps, chain, t) = TakenAt(ps.block, ps.in_block, L)
    BY <1>12 DEF TakenOf
  <1> QED BY <1>4, <1>6, <1>9, <1>11, <1>12, <1>13, <1>14, <1>15, <1>18, <1>19, <1>20

(* What a live posting source gives, and where it goes. *)
PsourceMove(r, i, k, t) ==
    /\ k \in 1 .. Len(chain[i].post[t]) /\ TakenOf(psources[r], chain, t) \in Nat
    /\ posting_source_convert_current(psources[r]) = CollectedAt(chain, t, <<i, k>>)
    /\ posting_source_convert_current(psources[r]).ctid \in Nat
    /\ PsourceOK(posting_source_advance(psources[r]), i, chain, t)
    /\ posting_source_advance(psources[r]).source = i
    /\ TakenOf(posting_source_advance(psources[r]), chain, t) = k
    /\ psources[r].in_block < Len(posting_source_load_block(psources[r]))

(* What reading one posting does to the source it is read from. *)
LEMMA PsourceMoves ==
    ASSUME MergeInv, pc = "collect",
           NEW mt, mt = merged_terms[Len(written) + 1], NEW t, t = mt.term,
           NEW r \in 1 .. Len(mt.segment_refs), NEW i, i = mt.segment_refs[r], r \in live_psources,
           NEW k, k = TakenOf(psources[r], chain, t) + 1
    PROVE  PsourceMove(r, i, k, t)
  <1>1. PICK L, ps, s : L = chain[i].post[t] /\ ps = psources[r] /\ s = chain[i]
    OBVIOUS
  <1>2. /\ ListIn(L, s, t) /\ i \in HoldersOf(chain, t) /\ reader(ps) = s /\ ps.source = i /\ ps.term = t
        /\ PosOK(ps.block, ps.in_block, L) /\ ps.block < num_blocks(L)
        /\ num_blocks(L) \in Nat /\ ps.block \in Nat
        /\ posting_source_load_block(ps) = Block(L, ps.block)
        /\ TakenOf(ps, chain, t) = TakenAt(ps.block, ps.in_block, L)
    BY <1>1, PsourceFacts
  <1>3. PICK b, x : b = ps.block /\ x = ps.in_block
    OBVIOUS
  <1>4. L \in Seq(PostingIn(s)) /\ L # << >>
    BY <1>2, ListParts
  <1>5. /\ TakenAt(b, x, L) \in Nat /\ TakenAt(b, x, L) + 1 \in 1 .. Len(L)
        /\ x + 1 \in 1 .. Len(Block(L, b)) /\ Block(L, b)[x + 1] = L[TakenAt(b, x, L) + 1]
    BY <1>2, <1>3, <1>4, PosRead
  <1>6. k = TakenAt(b, x, L) + 1 /\ k \in 1 .. Len(L)
    BY <1>2, <1>1, <1>3, <1>5
  <1>7. PICK bp : bp = L[k]
    OBVIOUS
  <1>8. bp \in PostingIn(s) /\ s.num_docs \in Nat
    BY <1>2, <1>4, <1>6, <1>7 DEF ListIn
  <1>9. posting_source_load_block(ps)[ps.in_block + 1] = bp
    BY <1>2, <1>3, <1>5, <1>6, <1>7
  <1>10. posting_source_convert_current(ps) =
           [source_idx |-> i, old_doc_id |-> bp.doc, ctid |-> s.ctid[bp.doc + 1],
            frequency |-> bp.frequency, fieldnorm |-> bp.norm,
            tenant_id |-> tp_segment_get_tenant_id(s, bp.doc)]
    BY <1>2, <1>9 DEF posting_source_convert_current, tp_segment_lookup_ctid
  <1>11. PostingAt(chain, t, <<i, k>>) = bp
    BY <1>1, <1>7 DEF PostingAt, ListOf
  <1>12. posting_source_convert_current(ps) = CollectedAt(chain, t, <<i, k>>)
    BY <1>1, <1>10, <1>11 DEF CollectedAt
  <1>13. s.ctid[bp.doc + 1] \in Nat
    <2>1. bp.doc \in 0 .. s.num_docs - 1
      BY <1>8 DEF PostingIn
    <2>2. bp.doc + 1 \in 1 .. s.num_docs
      BY <1>8, <2>1
    <2>3. Readable(s)
      <3>1. ChainOK(chain)
        BY DEF MergeInv, ChainInv
      <3> QED BY <1>1, <1>2, <3>1 DEF HoldersOf, ChainOK
    <2>4. s.ctid \in [1 .. s.num_docs -> Nat]
      BY <2>3, SourceParts
    <2> QED BY <2>2, <2>4
  <1>14. posting_source_convert_current(ps).ctid \in Nat
    BY <1>10, <1>13
  <1>15. reader(ps).skip[ps.term][ps.block + 1].doc_count = Len(Block(L, b))
    <2>0. Len(s.skip[t]) = num_blocks(L) /\ b \in Nat /\ b < num_blocks(L) /\ num_blocks(L) \in Nat
      BY <1>2, <1>3 DEF ListIn
    <2>1. b + 1 \in 1 .. Len(s.skip[t]) /\ (b + 1) - 1 = b
      BY <2>0
    <2> QED BY <1>2, <1>3, <2>1 DEF ListIn
  <1>16. PICK nx : nx = posting_source_advance(ps)
    OBVIOUS
  <1>17. "block" \in DOMAIN ps /\ "in_block" \in DOMAIN ps
    <2>1. PsourceOK(ps, i, chain, t)
      BY <1>1 DEF MergeInv, CollectInv, CollectOK
    <2> QED BY <1>3, <2>1 DEF PsourceOK
  <1>18. PsourceOK(nx, i, chain, t) /\ nx.source = i /\ TakenOf(nx, chain, t) = k
    <2>1. CASE x + 1 < Len(Block(L, b))
      <3>1. nx = [ps EXCEPT !.in_block = @ + 1]
        BY <1>3, <1>15, <1>16, <2>1, Zenon DEF posting_source_advance
      <3>2. nx.source = i /\ nx.term = t /\ nx.block = b /\ nx.in_block = x + 1 /\ DOMAIN nx = DOMAIN ps
        BY <1>2, <1>3, <1>17, <3>1
      <3>3. PosOK(b, x + 1, L) /\ TakenAt(b, x + 1, L) = k
        BY <1>2, <1>3, <1>4, <1>6, <2>1, PosStep
      <3> QED BY <1>1, <1>17, <3>2, <3>3 DEF PsourceOK, TakenOf
    <2>2. CASE ~(x + 1 < Len(Block(L, b)))
      <3>1. nx = [ps EXCEPT !.block = @ + 1, !.in_block = 0]
        BY <1>3, <1>15, <1>16, <2>2, Zenon DEF posting_source_advance
      <3>2. nx.source = i /\ nx.term = t /\ nx.block = b + 1 /\ nx.in_block = 0 /\ DOMAIN nx = DOMAIN ps
        BY <1>2, <1>3, <1>17, <3>1
      <3>3. PosOK(b + 1, 0, L) /\ TakenAt(b + 1, 0, L) = k
        BY <1>2, <1>3, <1>4, <1>6, <2>2, PosStep
      <3> QED BY <1>1, <1>17, <3>2, <3>3 DEF PsourceOK, TakenOf
    <2> QED BY <2>1, <2>2
  <1>19. ps.in_block < Len(posting_source_load_block(ps))
    <2>1. x \in Nat
      BY <1>2, <1>3 DEF PosOK
    <2>2. x < Len(Block(L, b))
      BY <1>5, <2>1
    <2> QED BY <1>2, <1>3, <2>2
  <1> QED BY <1>1, <1>2, <1>3, <1>5, <1>6, <1>12, <1>14, <1>16, <1>18, <1>19 DEF PsourceMove

(* find_min_posting_source finds a live source. *)
LEMMA MinPsource ==
    ASSUME MergeInv, pc = "collect", NEW mt, mt = merged_terms[Len(written) + 1], live_psources # {}
    PROVE  find_min_posting_source \in live_psources
  <1>0. live_psources \subseteq DOMAIN psources
    BY DEF live_psources
  <1>1. PICK n \in Nat : n = Len(mt.segment_refs) /\ DOMAIN psources = 1 .. n
    <2>1. CollectOK(psources, postings, mt, chain)
      BY DEF MergeInv, CollectInv
    <2> QED BY <2>1 DEF CollectOK
  <1>2. PICK S, v : S = live_psources /\ v = [p \in live_psources |-> posting_source_convert_current(psources[p]).ctid]
    OBVIOUS
  <1>3. S \in SUBSET (1 .. n) /\ S # {}
    BY <1>0, <1>1, <1>2
  <1>4. ASSUME NEW p \in S PROVE v[p] = posting_source_convert_current(psources[p]).ctid /\ v[p] \in Int
    <2>1. p \in 1 .. Len(mt.segment_refs) /\ p \in live_psources
      BY <1>1, <1>2, <1>3
    <2>2. PICK t, i, k : t = mt.term /\ i = mt.segment_refs[p] /\ k = TakenOf(psources[p], chain, t) + 1
      OBVIOUS
    <2>3. PsourceMove(p, i, k, t)
      BY <2>1, <2>2, PsourceMoves
    <2>4. posting_source_convert_current(psources[p]).ctid \in Nat
      BY <2>3 DEF PsourceMove
    <2> QED BY <1>2, <2>4
  <1>5. \E p \in S : Least(p, S, v)
    BY <1>3, <1>4, LeastExists
  <1>6. find_min_posting_source = CHOOSE p \in S : Least(p, S, v)
    <2>1. \A p \in S : Least(p, S, v) <=>
             \A q \in live_psources :
                \/ posting_source_convert_current(psources[p]).ctid < posting_source_convert_current(psources[q]).ctid
                \/ /\ posting_source_convert_current(psources[p]).ctid = posting_source_convert_current(psources[q]).ctid
                   /\ p <= q
      BY <1>2, <1>4 DEF Least
    <2> QED BY <1>2, <2>1 DEF find_min_posting_source
  <1> QED BY <1>2, <1>5, <1>6

(* Source r0 has read the k-th posting of its list; the others have not moved. *)
OneTaken(pss, nxt, ch, mt, t, r0, i, k) ==
    /\ DOMAIN pss = 1 .. Len(mt.segment_refs) /\ DOMAIN nxt = DOMAIN pss
    /\ r0 \in DOMAIN pss /\ i = mt.segment_refs[r0] /\ t = mt.term
    /\ \A r \in DOMAIN pss : pss[r].source = mt.segment_refs[r] /\ nxt[r].source = mt.segment_refs[r]
    /\ \A r \in DOMAIN pss : r # r0 => nxt[r] = pss[r]
    /\ TakenOf(pss[r0], ch, t) \in Nat /\ k = TakenOf(pss[r0], ch, t) + 1
    /\ TakenOf(nxt[r0], ch, t) = k /\ k \in 1 .. Len(ch[i].post[t])

(* Reading one posting adds one place. *)
LEMMA TakenGrows ==
    ASSUME NEW ch, ChainOK(ch), NEW mt, TermOK(mt, ch), NEW t, NEW pss, NEW nxt, NEW r0, NEW i, NEW k,
           OneTaken(pss, nxt, ch, mt, t, r0, i, k)
    PROVE  /\ <<i, k>> \notin TakenFrom(pss, ch, t)
           /\ TakenFrom(nxt, ch, t) = TakenFrom(pss, ch, t) \cup {<<i, k>>}
  <1>1. PICK D, refs, T : D = DOMAIN pss /\ refs = mt.segment_refs /\ T = TakenOf(pss[r0], ch, t)
    OBVIOUS
  <1>a. /\ DOMAIN pss = 1 .. Len(mt.segment_refs) /\ DOMAIN nxt = DOMAIN pss
        /\ r0 \in DOMAIN pss /\ i = mt.segment_refs[r0] /\ t = mt.term
        /\ \A r \in DOMAIN pss : pss[r].source = mt.segment_refs[r] /\ nxt[r].source = mt.segment_refs[r]
        /\ \A r \in DOMAIN pss : r # r0 => nxt[r] = pss[r]
        /\ TakenOf(pss[r0], ch, t) \in Nat /\ k = TakenOf(pss[r0], ch, t) + 1
        /\ TakenOf(nxt[r0], ch, t) = k /\ k \in 1 .. Len(ch[i].post[t])
    BY DEF OneTaken
  <1>2. RefsOK(mt, ch)
    BY RefsMade
  <1>3. \A a, b \in D : refs[a] = refs[b] => a = b
    BY <1>a, <1>1, <1>2 DEF RefsOK
  <1>4. i \in HoldersOf(ch, t)
    BY <1>a, <1>1, <1>2 DEF RefsOK
  <1>5. PICK p0 : p0 = <<i, k>>
    OBVIOUS
  <1>6. p0 \in Places(ch, t) /\ p0[1] = i /\ p0[2] = k
    BY <1>a, <1>4, <1>5, PlaceParts
  <1>7. \A p \in Places(ch, t) : p[2] \in Nat /\ p = <<p[1], p[2]>>
    <2> SUFFICES ASSUME NEW p \in Places(ch, t) PROVE p[2] \in Nat /\ p = <<p[1], p[2]>>
      OBVIOUS
    <2>1. PICK j \in HoldersOf(ch, t), l \in Nat : l \in 1 .. Len(ch[j].post[t]) /\ p = <<j, l>>
      BY PlaceParts
    <2>2. p[1] = j /\ p[2] = l /\ l \in Nat
      BY <2>1
    <2> QED BY <1>a, <2>1, <2>2
  <1>8. T \in Nat /\ k = T + 1
    BY <1>a, <1>1
  <1>9. p0 \notin TakenFrom(pss, ch, t)
    <2> SUFFICES ASSUME NEW r \in D, p0[1] = pss[r].source, p0[2] <= TakenOf(pss[r], ch, t) PROVE FALSE
      BY <1>a, <1>1 DEF TakenFrom
    <2>1. refs[r] = refs[r0]
      BY <1>a, <1>1, <1>6
    <2>2. r = r0
      BY <1>a, <1>1, <1>3, <2>1
    <2>3. k <= T
      BY <1>a, <1>1, <1>6, <2>2
    <2> QED BY <1>a, <1>8, <2>3
  <1>10. ASSUME NEW p \in Places(ch, t)
         PROVE  (\E r \in D : p[1] = nxt[r].source /\ p[2] <= TakenOf(nxt[r], ch, t))
                  <=> (\E r \in D : p[1] = pss[r].source /\ p[2] <= TakenOf(pss[r], ch, t)) \/ p = p0
    <2>1. ASSUME NEW r \in D, p[1] = nxt[r].source, p[2] <= TakenOf(nxt[r], ch, t)
          PROVE  (\E q \in D : p[1] = pss[q].source /\ p[2] <= TakenOf(pss[q], ch, t)) \/ p = p0
      <3>1. CASE r # r0
        BY <1>a, <1>1, <2>1, <3>1
      <3>2. CASE r = r0
        <4>1. p[1] = i /\ p[2] <= T + 1 /\ p[1] = pss[r].source
          BY <1>a, <1>1, <1>8, <2>1, <3>2
        <4>2. p[2] <= T \/ p[2] = k
          BY <1>a, <1>7, <1>8, <4>1
        <4>3. p[2] = k => p = p0
          BY <1>a, <1>5, <1>7, <4>1
        <4> QED BY <1>a, <1>1, <3>2, <4>1, <4>2, <4>3
      <3> QED BY <1>a, <3>1, <3>2
    <2>2. ASSUME p = p0 PROVE \E r \in D : p[1] = nxt[r].source /\ p[2] <= TakenOf(nxt[r], ch, t)
      <3>1. r0 \in D /\ p[1] = nxt[r0].source /\ p[2] = TakenOf(nxt[r0], ch, t)
        BY <1>a, <1>1, <1>6, <2>2
      <3>2. p[2] \in Nat
        BY <1>a, <1>7
      <3>3. p[2] <= TakenOf(nxt[r0], ch, t)
        BY <1>a, <3>1, <3>2
      <3> QED BY <1>a, <3>1, <3>3
    <2>3. ASSUME NEW r \in D, p[1] = pss[r].source, p[2] <= TakenOf(pss[r], ch, t)
          PROVE  \E q \in D : p[1] = nxt[q].source /\ p[2] <= TakenOf(nxt[q], ch, t)
      <3>1. CASE r # r0
        BY <1>a, <1>1, <2>3, <3>1
      <3>2. CASE r = r0
        <4>1. p[2] <= T /\ p[1] = nxt[r0].source /\ TakenOf(nxt[r0], ch, t) = k
          BY <1>a, <1>1, <2>3, <3>2
        <4>2. p[2] <= k
          BY <1>a, <1>7, <1>8, <4>1
        <4> QED BY <1>a, <1>1, <4>1, <4>2
      <3> QED BY <1>a, <3>1, <3>2
    <2> QED BY <1>a, <2>1, <2>2, <2>3
  <1>11. TakenFrom(nxt, ch, t) = TakenFrom(pss, ch, t) \cup {p0}
    <2>1. DOMAIN nxt = D
      BY <1>a, <1>1
    <2> QED BY <1>a, <1>1, <1>6, <1>10, <2>1 DEF TakenFrom
  <1> QED BY <1>a, <1>5, <1>9, <1>11

(* One more collected posting stands for one more place. *)
LEMMA CollectedGrows ==
    ASSUME NEW col, NEW S, NEW ch, NEW t, CollectedOK(col, S, ch, t), NEW p, p \notin S
    PROVE  CollectedOK(Append(col, CollectedAt(ch, t, p)), S \cup {p}, ch, t)
  <1>1. PICK x, n : x = CollectedAt(ch, t, p) /\ n = Len(col)
    OBVIOUS
  <1>2. col \in Seq(Range(col) \cup {x}) /\ n \in Nat
    BY <1>1 DEF CollectedOK, Range
  <1>3. PICK new : new = Append(col, x)
    OBVIOUS
  <1>4. /\ Len(new) = n + 1 /\ new[n + 1] = x /\ \A k \in 1 .. n : new[k] = col[k]
        /\ new \in Seq(Range(col) \cup {x}) /\ DOMAIN new = 1 .. n + 1
    BY <1>1, <1>2, <1>3
  <1>5. new \in Seq(Range(new))
    BY <1>4 DEF Range
  <1>6. PICK f : Pairing(f, 1 .. n, S) /\ \A k \in 1 .. n : col[k] = CollectedAt(ch, t, f[k])
    BY <1>1 DEF CollectedOK
  <1>7. PICK g : g = [k \in 1 .. n + 1 |-> IF k = n + 1 THEN p ELSE f[k]]
    OBVIOUS
  <1>8. Pairing(g, 1 .. n + 1, S \cup {p})
    BY <1>2, <1>6, <1>7, PairingGrows
  <1>9. ASSUME NEW k \in 1 .. n + 1 PROVE new[k] = CollectedAt(ch, t, g[k])
    <2>1. CASE k = n + 1
      <3>1. g[k] = p
        BY <1>7, <2>1
      <3> QED BY <1>1, <1>4, <2>1, <3>1
    <2>2. CASE k # n + 1
      <3>1. k \in 1 .. n
        BY <1>2, <2>2
      <3>2. g[k] = f[k]
        BY <1>7, <2>2
      <3> QED BY <1>4, <1>6, <3>1, <3>2
    <2> QED BY <2>1, <2>2
  <1>10. CollectedOK(new, S \cup {p}, ch, t)
    BY <1>4, <1>5, <1>8, <1>9 DEF CollectedOK
  <1> QED BY <1>1, <1>3, <1>10

(* CollectPosting keeps MergeInv. *)
LEMMA CollectPostingKeeps ==
    ASSUME MergeInv, CollectPosting
    PROVE  MergeInv'
  <1>0. /\ ChainInv /\ SourcesInv /\ StageInv /\ TermsInv /\ WrittenInv /\ DocmapInv /\ CollectInv
        /\ pc = "collect" /\ pc' = "collect" /\ chain' = chain /\ upper' = upper /\ live_psources # {}
        /\ opened' = opened /\ sources' = sources /\ docmap' = docmap
        /\ merged_terms' = merged_terms /\ written' = written
    BY DEF MergeInv, CollectPosting
  <1>1. PICK mt : mt = merged_terms[Len(written) + 1]
    OBVIOUS
  <1>2. PICK p, t, i, k : /\ p = find_min_posting_source /\ t = mt.term /\ i = mt.segment_refs[p]
                          /\ k = TakenOf(psources[p], chain, t) + 1
    OBVIOUS
  <1>3. /\ postings' = Append(postings, posting_source_convert_current(psources[p]))
        /\ psources' = [psources EXCEPT ![p] = posting_source_advance(psources[p])]
    BY <1>2 DEF CollectPosting
  <1>4. CollectOK(psources, postings, mt, chain) /\ Len(written) + 1 \in 1 .. Len(merged_terms)
    BY <1>0, <1>1 DEF CollectInv
  <1>5. TermOK(mt, chain) /\ ChainOK(chain)
    BY <1>0, <1>1, <1>4 DEF TermsInv, ChainInv
  <1>6. PICK c \in Nat : c = Len(mt.segment_refs) /\ DOMAIN psources = 1 .. c
    BY <1>4 DEF CollectOK
  <1>7. p \in live_psources /\ p \in 1 .. c
    BY <1>0, <1>1, <1>2, <1>6, MinPsource DEF live_psources
  <1>8. /\ k \in 1 .. Len(chain[i].post[t]) /\ TakenOf(psources[p], chain, t) \in Nat
        /\ posting_source_convert_current(psources[p]) = CollectedAt(chain, t, <<i, k>>)
        /\ PsourceOK(posting_source_advance(psources[p]), i, chain, t)
        /\ posting_source_advance(psources[p]).source = i
        /\ TakenOf(posting_source_advance(psources[p]), chain, t) = k
    <2>1. PsourceMove(p, i, k, t)
      BY <1>0, <1>1, <1>2, <1>6, <1>7, PsourceMoves
    <2> QED BY <2>1 DEF PsourceMove
  <1>9. PICK nxt, col : nxt = psources' /\ col = postings'
    OBVIOUS
  <1>10. /\ DOMAIN nxt = 1 .. c /\ nxt[p] = posting_source_advance(psources[p])
         /\ \A r \in 1 .. c : r # p => nxt[r] = psources[r]
    BY <1>3, <1>6, <1>7, <1>9
  <1>11. ASSUME NEW r \in 1 .. c PROVE PsourceOK(nxt[r], mt.segment_refs[r], chain, t)
    <2>1. PsourceOK(psources[r], mt.segment_refs[r], chain, t)
      BY <1>2, <1>4, <1>6 DEF CollectOK
    <2> QED BY <1>2, <1>8, <1>10, <2>1
  <1>12. \A r \in 1 .. c : psources[r].source = mt.segment_refs[r] /\ nxt[r].source = mt.segment_refs[r]
    <2>1. \A r \in 1 .. c : PsourceOK(psources[r], mt.segment_refs[r], chain, t)
      BY <1>2, <1>4, <1>6 DEF CollectOK
    <2> QED BY <1>11, <2>1 DEF PsourceOK
  <1>13. /\ <<i, k>> \notin TakenFrom(psources, chain, t)
         /\ TakenFrom(nxt, chain, t) = TakenFrom(psources, chain, t) \cup {<<i, k>>}
    <2>1. PICK pss : pss = psources
      OBVIOUS
    <2>2. /\ DOMAIN pss = 1 .. Len(mt.segment_refs) /\ DOMAIN nxt = DOMAIN pss /\ p \in DOMAIN pss
          /\ \A r \in DOMAIN pss : pss[r].source = mt.segment_refs[r] /\ nxt[r].source = mt.segment_refs[r]
          /\ \A r \in DOMAIN pss : r # p => nxt[r] = pss[r]
      BY <1>6, <1>7, <1>10, <1>12, <2>1
    <2>3. /\ TakenOf(pss[p], chain, t) \in Nat /\ k = TakenOf(pss[p], chain, t) + 1
          /\ TakenOf(nxt[p], chain, t) = k
      BY <1>2, <1>8, <1>10, <2>1
    <2>4. /\ <<i, k>> \notin TakenFrom(pss, chain, t)
          /\ TakenFrom(nxt, chain, t) = TakenFrom(pss, chain, t) \cup {<<i, k>>}
      <3>1. OneTaken(pss, nxt, chain, mt, t, p, i, k)
        BY <1>2, <1>8, <2>2, <2>3 DEF OneTaken
      <3> QED BY <1>5, <3>1, TakenGrows
    <2> QED BY <2>1, <2>4
  <1>14. CollectedOK(col, TakenFrom(nxt, chain, t), chain, t)
    <2>1. CollectedOK(postings, TakenFrom(psources, chain, t), chain, t)
      BY <1>2, <1>4 DEF CollectOK
    <2>2. col = Append(postings, CollectedAt(chain, t, <<i, k>>))
      BY <1>3, <1>8, <1>9
    <2> QED BY <1>13, <2>1, <2>2, CollectedGrows
  <1>15. nxt \in Seq(Range(nxt)) /\ Len(nxt) = c
    <2>1. nxt = [psources EXCEPT ![p] = posting_source_advance(psources[p])]
      BY <1>3, <1>9
    <2>2. nxt \in [1 .. c -> Range(nxt)]
      BY <1>6, <1>10, <2>1 DEF Range
    <2> QED BY <2>2
  <1>16. CollectInv'
    <2>1. CollectOK(nxt, col, mt, chain)
      BY <1>2, <1>6, <1>11, <1>14, <1>15 DEF CollectOK
    <2> QED BY <1>0, <1>1, <1>4, <1>9, <2>1 DEF CollectInv
  <1>17. ChainInv' /\ SourcesInv'
    BY <1>0 DEF ChainInv, SourcesInv
  <1>18. StageInv'
    BY <1>0 DEF StageInv, Writing
  <1>19. TermsInv'
    <2>1. live_sources' = live_sources
      BY <1>0 DEF live_sources
    <2> QED BY <1>0, <2>1 DEF TermsInv, Writing
  <1>20. DocmapInv'
    BY <1>0 DEF DocmapInv, Writing
  <1>21. WrittenInv' /\ MergedInv'
    BY <1>0 DEF WrittenInv, MergedInv
  <1> QED BY <1>16, <1>17, <1>18, <1>19, <1>20, <1>21 DEF MergeInv

(* When no posting source is live, all the places have been read. *)
LEMMA AllTaken ==
    ASSUME MergeInv, pc = "collect", live_psources = {},
           NEW mt, mt = merged_terms[Len(written) + 1], NEW t, t = mt.term
    PROVE  CollectedOK(postings, Places(chain, t), chain, t)
  <1>0. ChainInv /\ TermsInv /\ CollectInv
    BY DEF MergeInv
  <1>1. CollectOK(psources, postings, mt, chain) /\ Len(written) + 1 \in 1 .. Len(merged_terms)
    BY <1>0 DEF CollectInv
  <1>2. TermOK(mt, chain) /\ ChainOK(chain)
    BY <1>0, <1>1 DEF TermsInv, ChainInv
  <1>3. RefsOK(mt, chain)
    BY <1>2, RefsMade
  <1>4. ASSUME NEW p \in Places(chain, t) PROVE p \in TakenFrom(psources, chain, t)
    <2>1. PICK i \in HoldersOf(chain, t), k \in Nat : k \in 1 .. Len(chain[i].post[t]) /\ p = <<i, k>>
      BY <1>2, PlaceParts
    <2>2. PICK r \in 1 .. Len(mt.segment_refs) : mt.segment_refs[r] = i
      BY <1>3, <2>1 DEF RefsOK
    <2>3. PICK L : L = chain[i].post[t]
      OBVIOUS
    <2>4. /\ ListIn(L, chain[i], t) /\ psources[r].source = i /\ DOMAIN psources = 1 .. Len(mt.segment_refs)
          /\ num_blocks(L) \in Nat /\ psources[r].block \in Nat
          /\ ~(psources[r].block < num_blocks(L))
          /\ TakenOf(psources[r], chain, t) = TakenAt(psources[r].block, psources[r].in_block, L)
      BY <2>2, <2>3, PsourceFacts
    <2>5. TakenOf(psources[r], chain, t) = Len(L)
      BY <2>4 DEF TakenAt
    <2>6. p[1] = i /\ p[2] = k /\ k <= Len(L)
      <3>1. ListIn(L, chain[i], t)
        BY <2>4
      <3>2. L \in Seq(PostingIn(chain[i]))
        BY <3>1, ListParts
      <3>3. Len(L) \in Nat
        BY <3>2
      <3> QED BY <2>1, <2>3, <3>3
    <2> QED BY <2>2, <2>4, <2>5, <2>6 DEF TakenFrom
  <1>5. TakenFrom(psources, chain, t) = Places(chain, t)
    BY <1>4 DEF TakenFrom
  <1> QED BY <1>1, <1>5 DEF CollectOK

(* Renumbering and sorting keep the postings. *)
LEMMA SortedWritten ==
    ASSUME NEW map, NEW ch, NEW t, NEW col, CollectedOK(col, Places(ch, t), ch, t),
           NEW list, list \in sorted_postings(block_postings(map, col))
    PROVE  ListWritten(list, map, sources, ch, t)
  <1>1. PICK c \in Nat : c = Len(col) /\ DOMAIN col = 1 .. c
    BY DEF CollectedOK
  <1>2. PICK pl : Pairing(pl, 1 .. c, Places(ch, t)) /\ \A n \in 1 .. c : col[n] = CollectedAt(ch, t, pl[n])
    BY <1>1 DEF CollectedOK
  <1>3. PICK bp : bp = block_postings(map, col)
    OBVIOUS
  <1>4. DOMAIN bp = 1 .. c
    BY <1>1, <1>3 DEF block_postings
  <1>5. ASSUME NEW n \in 1 .. c PROVE bp[n] = WrittenAt(map, sources, ch, t, pl[n])
    <2>1. PICK x, p : x = PostingAt(ch, t, pl[n]) /\ p = pl[n]
      OBVIOUS
    <2>2. col[n] = CollectedAt(ch, t, p)
      BY <1>2, <2>1
    <2>3. /\ col[n].source_idx = p[1] /\ col[n].old_doc_id = x.doc
          /\ col[n].frequency = x.frequency /\ col[n].fieldnorm = x.norm
      BY <2>1, <2>2 DEF CollectedAt
    <2>4. bp[n] = BlockPosting(old_to_new(map, sources, col[n].source_idx, col[n].old_doc_id),
                               col[n].frequency, col[n].fieldnorm)
      BY <1>1, <1>3 DEF block_postings
    <2> QED BY <2>1, <2>3, <2>4 DEF WrittenAt
  <1>6. PICK f \in Injection(1 .. c, 1 .. c) :
          /\ \A a, b \in 1 .. c : a < b => ~cmp_block_posting_by_doc_id(bp[f[b]], bp[f[a]])
          /\ list = [n \in 1 .. c |-> bp[f[n]]]
    BY <1>3, <1>4 DEF sorted_postings
  <1>7. Pairing(f, 1 .. c, 1 .. c)
    BY SelfPairing
  <1>8. PICK g : g = [n \in 1 .. c |-> pl[f[n]]]
    OBVIOUS
  <1>9. Pairing(g, 1 .. c, Places(ch, t))
    BY <1>2, <1>7, <1>8, PairingTrans
  <1>10. list \in Seq(Range(list)) /\ Len(list) = c
    <2>1. list \in [1 .. c -> Range(list)]
      BY <1>6 DEF Range
    <2> QED BY <2>1
  <1>11. ASSUME NEW n \in 1 .. c PROVE list[n] = WrittenAt(map, sources, ch, t, g[n])
    <2>1. f[n] \in 1 .. c
      BY <1>7 DEF Pairing
    <2> QED BY <1>5, <1>6, <1>8, <2>1
  <1>12. \A a, b \in 1 .. c : a < b => ~cmp_block_posting_by_doc_id(list[b], list[a])
    BY <1>6
  <1> QED BY <1>9, <1>10, <1>11, <1>12 DEF ListWritten

(* WriteTerm keeps MergeInv. *)
LEMMA WriteTermKeeps ==
    ASSUME MergeInv, WriteTerm
    PROVE  MergeInv'
  <1>0. /\ ChainInv /\ SourcesInv /\ StageInv /\ TermsInv /\ WrittenInv /\ DocmapInv /\ CollectInv
        /\ pc = "collect" /\ chain' = chain /\ upper' = upper /\ live_psources = {}
        /\ opened' = opened /\ sources' = sources /\ docmap' = docmap
        /\ merged_terms' = merged_terms /\ postings' = << >>
    BY DEF MergeInv, WriteTerm
  <1>1. PICK mt, t : mt = merged_terms[Len(written) + 1] /\ t = mt.term
    OBVIOUS
  <1>2. PICK list \in sorted_postings(block_postings(docmap, postings)) :
          written' = Append(written, [list |-> list, collected |-> postings])
    BY DEF WriteTerm
  <1>3. PICK w : w = [list |-> list, collected |-> postings]
    OBVIOUS
  <1>4. Len(written) + 1 \in 1 .. Len(merged_terms)
    BY <1>0 DEF CollectInv
  <1>5. PICK n \in Nat, c \in Nat : n = Len(written) /\ c = Len(merged_terms)
    <2>1. Len(written) \in Nat /\ Len(merged_terms) \in Nat
      BY <1>0 DEF WrittenInv, TermsInv
    <2> QED BY <2>1
  <1>6. n + 1 \in 1 .. c /\ n + 1 <= c
    BY <1>4, <1>5
  <1>7. /\ Len(written') = n + 1 /\ written'[n + 1] = w /\ \A k \in 1 .. n : written'[k] = written[k]
        /\ written' \in Seq(Range(written'))
    <2>1. written \in Seq(Range(written) \cup {w})
      BY <1>0 DEF WrittenInv, Range
    <2>2. written' = Append(written, w)
      BY <1>2, <1>3
    <2>3. /\ Len(written') = n + 1 /\ DOMAIN written' = 1 .. n + 1
          /\ written'[n + 1] = w /\ \A k \in 1 .. n : written'[k] = written[k]
      BY <1>5, <2>1, <2>2
    <2>4. written' \in Seq(Range(written'))
      BY <2>1, <2>2, <2>3 DEF Range
    <2> QED BY <2>3, <2>4
  <1>8. TermWritten(w, mt, docmap, sources, chain)
    <2>1. CollectedOK(postings, Places(chain, t), chain, t)
      BY <1>0, <1>1, AllTaken
    <2>2. ListWritten(list, docmap, sources, chain, t)
      BY <1>2, <2>1, SortedWritten
    <2>3. w.list = list /\ w.collected = postings
      BY <1>3
    <2> QED BY <1>1, <2>1, <2>2, <2>3 DEF TermWritten
  <1>9. IF n + 1 = c THEN pc' = "sections" /\ psources' = << >>
                     ELSE pc' = "collect" /\ psources' = sources_of(merged_terms[(n + 1) + 1])
    <2>1. IF Len(written') = Len(merged_terms)
          THEN pc' = "sections" /\ psources' = << >>
          ELSE pc' = pc /\ psources' = sources_of(merged_terms[Len(written') + 1])
      BY DEF WriteTerm
    <2> QED BY <1>0, <1>5, <1>7, <2>1
  <1>10. pc' \in {"collect", "sections"} /\ Writing' /\ Writing
    BY <1>0, <1>9 DEF Writing
  <1>11. ChainInv' /\ SourcesInv'
    BY <1>0 DEF ChainInv, SourcesInv
  <1>12. StageInv'
    <2>1. pc' = "sections" => psources' = << >>
      BY <1>9
    <2>2. opened = Len(chain)
      BY <1>0, <1>10 DEF StageInv
    <2>3. pc' # "open" /\ pc' # "done" /\ pc' # "terms" /\ pc' # "link"
      BY <1>10
    <2> QED BY <1>0, <1>10, <2>1, <2>2, <2>3 DEF StageInv
  <1>13. TermsInv'
    <2>1. live_sources' = live_sources
      BY <1>0 DEF live_sources
    <2> QED BY <1>0, <1>10, <2>1 DEF TermsInv
  <1>14. DocmapInv'
    BY <1>0, <1>10 DEF DocmapInv
  <1>15. CollectInv'
    <2> SUFFICES ASSUME pc' = "collect"
                 PROVE  /\ Len(written') + 1 \in 1 .. Len(merged_terms')
                        /\ CollectOK(psources', postings', merged_terms'[Len(written') + 1], chain')
      BY DEF CollectInv
    <2>1. n + 1 # c /\ psources' = sources_of(merged_terms[(n + 1) + 1])
      BY <1>9
    <2>2. (n + 1) + 1 \in 1 .. c
      BY <1>6, <2>1
    <2>3. PICK nt : nt = merged_terms[(n + 1) + 1]
      OBVIOUS
    <2>4. TermOK(nt, chain) /\ ChainOK(chain)
      BY <1>0, <1>5, <2>2, <2>3 DEF TermsInv, ChainInv
    <2>5. CollectOK(sources_of(nt), << >>, nt, chain)
      BY <2>4, CollectStarts
    <2> QED BY <1>0, <1>5, <1>7, <2>1, <2>2, <2>3, <2>5
  <1>16. WrittenInv'
    <2>1. ASSUME NEW k \in 1 .. n + 1 PROVE TermWritten(written'[k], merged_terms[k], docmap, sources, chain)
      <3>1. CASE k = n + 1
        BY <1>1, <1>5, <1>7, <1>8, <3>1
      <3>2. CASE k # n + 1
        <4>1. k \in 1 .. n
          BY <3>2
        <4> QED BY <1>0, <1>5, <1>7, <4>1 DEF WrittenInv
      <3> QED BY <3>1, <3>2
    <2>2. pc' \in {"sections", "link"} => n + 1 = c
      BY <1>9
    <2> QED BY <1>0, <1>5, <1>6, <1>7, <2>1, <2>2 DEF WrittenInv
  <1>17. MergedInv'
    BY <1>10 DEF MergedInv
  <1> QED BY <1>11, <1>12, <1>13, <1>14, <1>15, <1>16, <1>17 DEF MergeInv

-----------------------------------------------------------------------------
(* The merged segment *)

MergedTerms == {merged_terms[n].term : n \in DOMAIN merged_terms}
IndexOf(t) == CHOOSE n \in DOMAIN merged_terms : merged_terms[n].term = t
MergedLists == [t \in MergedTerms |-> written[IndexOf(t)].list]
MergedTdfs == [t \in MergedTerms |-> merged_tdf(written[IndexOf(t)])]
NewTenants == [id \in 0 .. Len(docmap.docs) - 1 |-> docmap.docs[id + 1].tenant]
Nobody == [id \in 0 .. Len(docmap.docs) - 1 |-> 0]
MergedSkips ==
    [t \in MergedTerms |-> IF any_tenant /\ docmap.tenant_ordered THEN SkipEntries(MergedLists[t], NewTenants)
                                                                  ELSE SkipEntries(MergedLists[t], Nobody)]

(* Its sections. *)
Sections(m) ==
    /\ m.num_docs = Len(docmap.docs)
    /\ m.ctid = [i \in DOMAIN docmap.docs |-> docmap.docs[i].ctid]
    /\ m.norm = docmap.norm
    /\ m.tenant = [i \in DOMAIN docmap.docs |-> docmap.docs[i].tenant]
    /\ m.has_tenant_data = any_tenant
    /\ m.tenant_ordered = (docmap.tenant_ordered /\ docmap.ranges # {})
    /\ m.ranges = docmap.ranges
    /\ m.post = MergedLists
    /\ m.skip = MergedSkips
    /\ m.doc_freq = [t \in MergedTerms |-> Len(MergedLists[t])]
    /\ m.tenant_df = IF any_tenant THEN MergedTdfs ELSE << >>

(* Filling in the tenant document frequencies changes nothing else of a segment. *)
LEMMA TdfReplaced ==
    ASSUME NEW seg, NEW x, "tenant_df" \in DOMAIN seg, NEW m, m = [seg EXCEPT !.tenant_df = x]
    PROVE  /\ m.num_docs = seg.num_docs /\ m.ctid = seg.ctid /\ m.norm = seg.norm /\ m.tenant = seg.tenant
           /\ m.has_tenant_data = seg.has_tenant_data /\ m.tenant_ordered = seg.tenant_ordered
           /\ m.ranges = seg.ranges /\ m.post = seg.post /\ m.skip = seg.skip /\ m.doc_freq = seg.doc_freq
           /\ m.tenant_stats = seg.tenant_stats /\ m.tenant_df = x
  OBVIOUS

(* What write_merged_segment puts into each section. *)
LEMMA SectionsMade ==
    ASSUME NEW m, m = write_merged_segment
    PROVE  Sections(m)
  <1>1. PICK any, stats, lists, tdfs :
          /\ any = any_tenant /\ stats = (IF any_tenant THEN merged_tenant_stats ELSE << >>)
          /\ lists = MergedLists /\ tdfs = MergedTdfs
    OBVIOUS
  <1>2. PICK seg : seg = Segment(docmap, lists, any, stats)
    OBVIOUS
  <1>3. m = IF any THEN [seg EXCEPT !.tenant_df = tdfs] ELSE seg
    <2>1. DOMAIN lists = MergedTerms
      BY <1>1 DEF MergedLists
    <2> QED BY <1>1, <1>2, <2>1 DEF write_merged_segment, MergedLists, MergedTdfs, IndexOf, MergedTerms
  <1>4. DOMAIN lists = MergedTerms
    BY <1>1 DEF MergedLists
  <1>5. /\ seg.num_docs = Len(docmap.docs)
        /\ seg.ctid = [i \in DOMAIN docmap.docs |-> docmap.docs[i].ctid]
        /\ seg.norm = docmap.norm
        /\ seg.tenant = [i \in DOMAIN docmap.docs |-> docmap.docs[i].tenant]
        /\ seg.has_tenant_data = any
        /\ seg.tenant_ordered = (docmap.tenant_ordered /\ docmap.ranges # {})
        /\ seg.ranges = docmap.ranges
        /\ seg.post = lists
        /\ seg.doc_freq = [t \in DOMAIN lists |-> Len(lists[t])]
        /\ "tenant_df" \in DOMAIN seg
    BY <1>2 DEF Segment
  <1>6. seg.skip = [t \in DOMAIN lists |-> IF any /\ docmap.tenant_ordered THEN SkipEntries(lists[t], NewTenants)
                                                                         ELSE SkipEntries(lists[t], Nobody)]
    BY <1>2 DEF Segment, NewTenants, Nobody
  <1>7. ~any => seg.tenant_df = << >>
    BY <1>2 DEF Segment
  <1>8. seg.skip = MergedSkips
    BY <1>1, <1>4, <1>6 DEF MergedSkips
  <1>9. /\ m.num_docs = seg.num_docs /\ m.ctid = seg.ctid /\ m.norm = seg.norm /\ m.tenant = seg.tenant
        /\ m.has_tenant_data = seg.has_tenant_data /\ m.tenant_ordered = seg.tenant_ordered
        /\ m.ranges = seg.ranges /\ m.post = seg.post /\ m.skip = seg.skip /\ m.doc_freq = seg.doc_freq
        /\ m.tenant_df = IF any THEN tdfs ELSE << >>
    <2>1. CASE any
      <3>1. m = [seg EXCEPT !.tenant_df = tdfs]
        BY <1>3, <2>1, Zenon
      <3>2. m.tenant_df = tdfs
        BY <1>5, <3>1, TdfReplaced
      <3>3. /\ m.num_docs = seg.num_docs /\ m.ctid = seg.ctid /\ m.norm = seg.norm /\ m.tenant = seg.tenant
            /\ m.has_tenant_data = seg.has_tenant_data /\ m.tenant_ordered = seg.tenant_ordered
            /\ m.ranges = seg.ranges /\ m.post = seg.post /\ m.skip = seg.skip /\ m.doc_freq = seg.doc_freq
        BY <1>5, <3>1, TdfReplaced
      <3> QED BY <2>1, <3>2, <3>3
    <2>2. CASE ~any
      BY <1>3, <1>7, <2>2
    <2> QED BY <2>1, <2>2
  <1>10. m.has_tenant_data = any_tenant /\ (m.tenant_df = IF any_tenant THEN MergedTdfs ELSE << >>)
    <2>1. m.has_tenant_data = any /\ any = any_tenant
      BY <1>1, <1>5, <1>9, Zenon
    <2>2. m.tenant_df = IF any THEN tdfs ELSE << >>
      BY <1>9, Zenon
    <2>3. tdfs = MergedTdfs
      BY <1>1, Zenon
    <2>4. CASE any_tenant
      <3>1. any
        BY <2>1, <2>4
      <3>2. m.tenant_df = tdfs
        BY <2>2, <3>1, Zenon
      <3> QED BY <2>1, <2>3, <2>4, <3>2
    <2>5. CASE ~any_tenant
      <3>1. ~any
        BY <2>1, <2>5
      <3>2. m.tenant_df = << >>
        BY <2>2, <3>1, Zenon
      <3> QED BY <2>1, <2>5, <3>2
    <2> QED BY <2>4, <2>5
  <1>11. m.tenant_ordered = (docmap.tenant_ordered /\ docmap.ranges # {})
    BY <1>5, <1>9, Zenon
  <1>12. m.post = MergedLists /\ m.skip = MergedSkips /\ m.doc_freq = [t \in MergedTerms |-> Len(MergedLists[t])]
    BY <1>1, <1>4, <1>5, <1>8, <1>9
  <1> QED BY <1>5, <1>9, <1>10, <1>11, <1>12 DEF Sections

(* The state in which the sections are written. *)
Finished == MergeInv /\ pc \in {"sections", "link"}

(* What MergeInv says when the last term has been written. *)
LEMMA FinishedFacts ==
    ASSUME Finished
    PROVE  /\ ChainOK(chain) /\ Feed(sources, opened) /\ opened = Len(chain) /\ opened \in Nat \ {0}
           /\ DOMAIN chain = 1 .. opened /\ DOMAIN sources = 1 .. opened
           /\ \A i \in 1 .. opened : sources[i].reader = chain[i] /\ Readable(chain[i])
           /\ MapOK(docmap, sources, opened, tp_docmap_add(sources)) /\ Keyed(tp_docmap_add(sources))
           /\ Len(written) = Len(merged_terms) /\ Len(merged_terms) \in Nat
           /\ DOMAIN merged_terms = 1 .. Len(merged_terms)
  <1>0. ChainInv /\ SourcesInv /\ StageInv /\ TermsInv /\ WrittenInv /\ DocmapInv /\ Writing
    BY DEF Finished, MergeInv, Writing
  <1>1. ChainOK(chain) /\ chain # << >> /\ opened = Len(chain)
    BY <1>0 DEF ChainInv, StageInv
  <1>2. opened \in Nat \ {0} /\ DOMAIN chain = 1 .. opened
    BY <1>1 DEF ChainOK
  <1>3. DOMAIN sources = 1 .. opened /\ \A i \in 1 .. opened : sources[i].reader = chain[i] /\ Readable(chain[i])
    BY <1>0, SourceFacts
  <1>4. Feed(sources, opened)
    BY <1>2, <1>3 DEF Feed
  <1>5. docmap = build_merged_docmap(sources)
    BY <1>0 DEF DocmapInv
  <1>6. MapOK(docmap, sources, opened, tp_docmap_add(sources)) /\ Keyed(tp_docmap_add(sources))
    BY <1>4, <1>5, MapMade
  <1>7. Len(written) = Len(merged_terms) /\ Len(merged_terms) \in Nat /\ DOMAIN merged_terms = 1 .. Len(merged_terms)
    BY <1>0 DEF Finished, WrittenInv, TermsInv
  <1> QED BY <1>1, <1>2, <1>3, <1>4, <1>6, <1>7

(* The terms of the merged segment are those of its sources; the list of a term is the one
   that was written for it. *)
LEMMA MergedTermsOK ==
    ASSUME Finished, NEW t
    PROVE  /\ t \in MergedTerms <=> HoldersOf(chain, t) # {}
           /\ t \in MergedTerms => /\ t \in Term /\ IndexOf(t) \in 1 .. Len(merged_terms)
                                   /\ merged_terms[IndexOf(t)].term = t
                                   /\ CollectedOK(written[IndexOf(t)].collected, Places(chain, t), chain, t)
                                   /\ ListWritten(MergedLists[t], docmap, sources, chain, t)
  <1>0. ChainInv /\ SourcesInv /\ StageInv /\ TermsInv /\ WrittenInv /\ opened = Len(chain) /\ live_sources = {}
    BY DEF Finished, MergeInv, StageInv, TermsInv, Writing
  <1>1. Len(written) = Len(merged_terms) /\ DOMAIN merged_terms = 1 .. Len(merged_terms)
    BY FinishedFacts
  <1>2. t \in MergedTerms <=> \E n \in 1 .. Len(merged_terms) : merged_terms[n].term = t
    BY <1>1 DEF MergedTerms
  <1>3. t \in MergedTerms <=> HoldersOf(chain, t) # {}
    BY <1>0, <1>2, AllMerged
  <1>4. ASSUME t \in MergedTerms
        PROVE  /\ t \in Term /\ IndexOf(t) \in 1 .. Len(merged_terms)
               /\ merged_terms[IndexOf(t)].term = t
               /\ CollectedOK(written[IndexOf(t)].collected, Places(chain, t), chain, t)
               /\ ListWritten(MergedLists[t], docmap, sources, chain, t)
    <2>1. PICK n : n = IndexOf(t)
      OBVIOUS
    <2>2. n \in 1 .. Len(merged_terms) /\ merged_terms[n].term = t
      BY <1>1, <1>2, <1>4, <2>1 DEF IndexOf
    <2>3. TermOK(merged_terms[n], chain) /\ TermWritten(written[n], merged_terms[n], docmap, sources, chain)
      BY <1>0, <1>1, <2>2 DEF TermsInv, WrittenInv
    <2>4. t \in Term
      BY <2>2, <2>3, Zenon DEF TermOK
    <2>5. MergedLists[t] = written[n].list
      BY <1>4, <2>1 DEF MergedLists
    <2> QED BY <2>1, <2>2, <2>3, <2>4, <2>5 DEF TermWritten
  <1> QED BY <1>3, <1>4

(* The posting at a place, and what was written for it: same document, frequency and norm. *)
PlaceOK(t, p, i, bp, w) ==
    /\ i \in 1 .. opened /\ has_term(chain[i], t) /\ Readable(chain[i])
    /\ p = <<i, p[2]>> /\ p[2] \in 1 .. Len(chain[i].post[t]) /\ bp = chain[i].post[t][p[2]]
    /\ chain[i].num_docs \in Nat /\ bp.doc \in 0 .. chain[i].num_docs - 1
    /\ bp.frequency \in Nat \ {0} /\ bp.norm \in DOMAIN FieldNormTable
    /\ Len(docmap.docs) \in Nat /\ w.doc \in 0 .. Len(docmap.docs) - 1
    /\ w.frequency = bp.frequency /\ w.norm = bp.norm
    /\ w = [doc |-> w.doc, frequency |-> bp.frequency, norm |-> bp.norm]
    /\ docmap.docs[w.doc + 1].ctid = chain[i].ctid[bp.doc + 1]

(* A posting of a source is written for the new number of its document, with its frequency
   and the field norm of the map. *)
LEMMA PlaceWritten ==
    ASSUME Finished, NEW t, NEW p \in Places(chain, t)
    PROVE  PlaceOK(t, p, p[1], PostingAt(chain, t, p), WrittenAt(docmap, sources, chain, t, p))
  <1>0. /\ ChainOK(chain) /\ Feed(sources, opened) /\ DOMAIN chain = 1 .. opened /\ opened \in Nat
        /\ \A i \in 1 .. opened : sources[i].reader = chain[i] /\ Readable(chain[i])
        /\ MapOK(docmap, sources, opened, tp_docmap_add(sources))
    BY FinishedFacts
  <1>1. PICK i \in HoldersOf(chain, t), k \in Nat : k \in 1 .. Len(chain[i].post[t]) /\ p = <<i, k>>
    BY <1>0, PlaceParts
  <1>2. p[1] = i /\ p[2] = k
    BY <1>1
  <1>3. i \in 1 .. opened /\ has_term(chain[i], t) /\ Readable(chain[i])
    BY <1>0, <1>1 DEF HoldersOf
  <1>4. PICK s, L, bp : s = chain[i] /\ L = chain[i].post[t] /\ bp = PostingAt(chain, t, p)
    OBVIOUS
  <1>5. bp = L[k]
    BY <1>2, <1>4 DEF PostingAt, ListOf
  <1>6. ListIn(L, s, t)
    BY <1>3, <1>4, ListRead
  <1>7. bp \in PostingIn(s) /\ s.num_docs \in Nat
    BY <1>1, <1>4, <1>5, <1>6 DEF ListIn
  <1>8. bp.doc \in 0 .. s.num_docs - 1 /\ bp.frequency \in Nat \ {0} /\ bp.norm \in DOMAIN FieldNormTable
    BY <1>7 DEF PostingIn
  <1>9. PICK new : new = old_to_new(docmap, sources, i, bp.doc)
    OBVIOUS
  <1>10. new \in 0 .. Len(docmap.docs) - 1 /\ docmap.docs[new + 1].ctid = s.ctid[bp.doc + 1]
    <2>1. bp.doc \in 0 .. sources[i].reader.num_docs - 1 /\ sources[i].reader = s
      BY <1>0, <1>3, <1>4, <1>8
    <2>2. PICK id \in 0 .. sources[i].reader.num_docs - 1 : id = bp.doc
      BY <2>1
    <2>3. /\ old_to_new(docmap, sources, i, id) \in 0 .. Len(docmap.docs) - 1
          /\ docmap.docs[old_to_new(docmap, sources, i, id) + 1].ctid = sources[i].reader.ctid[id + 1]
      BY <1>0, <1>3, Renumbered
    <2> QED BY <1>9, <2>1, <2>2, <2>3
  <1>11. PICK w : w = WrittenAt(docmap, sources, chain, t, p)
    OBVIOUS
  <1>12. w = [doc |-> new, frequency |-> bp.frequency, norm |-> bp.norm]
    BY <1>2, <1>4, <1>9, <1>11 DEF WrittenAt, BlockPosting
  <1>13. w.doc = new /\ w.frequency = bp.frequency /\ w.norm = bp.norm
    BY <1>12
  <1>14. Len(docmap.docs) \in Nat
    BY <1>0 DEF MapOK
  <1>15. PlaceOK(t, p, i, bp, w)
    BY <1>1, <1>2, <1>3, <1>4, <1>5, <1>7, <1>8, <1>10, <1>12, <1>13, <1>14 DEF PlaceOK
  <1> QED BY <1>2, <1>4, <1>11, <1>15

(* A list of the merged segment. *)
LEMMA MergedList ==
    ASSUME Finished, NEW t \in MergedTerms, NEW L, L = MergedLists[t]
    PROVE  /\ L \in Seq(Range(L)) /\ Len(L) \in Nat \ {0} /\ DOMAIN L = 1 .. Len(L) /\ L # << >>
           /\ \A n \in 1 .. Len(L) : /\ L[n].doc \in 0 .. Len(docmap.docs) - 1 /\ L[n].frequency \in Nat \ {0}
                                     /\ L[n].norm \in DOMAIN FieldNormTable
                                     /\ L[n] = [doc |-> L[n].doc, frequency |-> L[n].frequency, norm |-> L[n].norm]
  <1>1. HoldersOf(chain, t) # {} /\ ListWritten(L, docmap, sources, chain, t)
    BY MergedTermsOK
  <1>2. PICK c \in Nat : c = Len(L) /\ DOMAIN L = 1 .. c
    BY <1>1 DEF ListWritten
  <1>3. PICK pl : /\ Pairing(pl, 1 .. c, Places(chain, t))
                  /\ \A n \in 1 .. c : L[n] = WrittenAt(docmap, sources, chain, t, pl[n])
    BY <1>1, <1>2 DEF ListWritten
  <1>4. c # 0
    <2>0. ChainOK(chain)
      BY FinishedFacts
    <2>1. PICK i : i \in HoldersOf(chain, t)
      BY <1>1
    <2>2. Readable(chain[i]) /\ has_term(chain[i], t)
      BY <2>0, <2>1 DEF HoldersOf, ChainOK
    <2>3. ListIn(chain[i].post[t], chain[i], t)
      BY <2>2, ListRead
    <2>4. 1 \in 1 .. Len(chain[i].post[t])
      BY <2>3, ListParts
    <2>5. <<i, 1>> \in Places(chain, t)
      BY <2>0, <2>1, <2>4, PlaceParts
    <2>6. PICK n \in 1 .. c : pl[n] = <<i, 1>>
      BY <1>3, <2>5 DEF Pairing
    <2> QED BY <2>6
  <1>5. ASSUME NEW n \in 1 .. c
        PROVE  /\ L[n].doc \in 0 .. Len(docmap.docs) - 1 /\ L[n].frequency \in Nat \ {0}
               /\ L[n].norm \in DOMAIN FieldNormTable
               /\ L[n] = [doc |-> L[n].doc, frequency |-> L[n].frequency, norm |-> L[n].norm]
    <2>1. PICK p \in Places(chain, t) : p = pl[n]
      BY <1>3 DEF Pairing
    <2>2. PICK i, bp, w : i = p[1] /\ bp = PostingAt(chain, t, p) /\ w = WrittenAt(docmap, sources, chain, t, p)
      OBVIOUS
    <2>3. PlaceOK(t, p, i, bp, w)
      BY <2>2, PlaceWritten
    <2>4. L[n] = w
      BY <1>3, <2>1, <2>2
    <2>5. /\ w.doc \in 0 .. Len(docmap.docs) - 1 /\ w.frequency \in Nat \ {0}
          /\ w.norm \in DOMAIN FieldNormTable
          /\ w = [doc |-> w.doc, frequency |-> w.frequency, norm |-> w.norm]
      BY <2>3 DEF PlaceOK
    <2> QED BY <2>4, <2>5
  <1>6. L # << >>
    BY <1>2, <1>4
  <1>7. L \in Seq(Range(L))
    BY <1>1 DEF ListWritten
  <1> QED BY <1>2, <1>4, <1>5, <1>6, <1>7

(* What is merged can be read, and merged again. *)
LEMMA MergedReadable ==
    ASSUME Finished, NEW m, m = write_merged_segment
    PROVE  Readable(m)
  <1>0. Sections(m)
    BY SectionsMade
  <1>1. /\ MapOK(docmap, sources, opened, tp_docmap_add(sources)) /\ Feed(sources, opened)
        /\ Len(merged_terms) \in Nat /\ DOMAIN merged_terms = 1 .. Len(merged_terms) /\ opened \in Nat \ {0}
        /\ DOMAIN chain = 1 .. opened /\ ChainOK(chain)
        /\ \A i \in 1 .. opened : sources[i].reader = chain[i] /\ Readable(chain[i])
    BY FinishedFacts
  <1>2. PICK num \in Nat : num = Len(docmap.docs) /\ DOMAIN docmap.docs = 1 .. num
    BY <1>1 DEF MapOK
  <1>3. \A n \in 1 .. num : /\ docmap.docs[n].ctid \in Nat /\ docmap.docs[n].tenant \in Nat
                            /\ docmap.norm[n] \in DOMAIN FieldNormTable
    <2> SUFFICES ASSUME NEW n \in 1 .. Len(docmap.docs)
                 PROVE  /\ docmap.docs[n].ctid \in Nat /\ docmap.docs[n].tenant \in Nat
                        /\ docmap.norm[n] \in DOMAIN FieldNormTable
      BY <1>2
    <2>1. PICK map, srcs, op : map = docmap /\ srcs = sources /\ op = opened
      OBVIOUS
    <2>2. Feed(srcs, op) /\ MapOK(map, srcs, op, tp_docmap_add(srcs)) /\ n \in 1 .. Len(map.docs)
      BY <1>1, <2>1
    <2>3. /\ map.docs[n].ctid \in Nat /\ map.docs[n].tenant \in Nat /\ map.norm[n] \in DOMAIN FieldNormTable
      BY <2>2, MapEntry
    <2> QED BY <2>1, <2>3
  <1>4. m.num_docs = num /\ m.num_docs \in Nat
    BY <1>0, <1>2 DEF Sections
  <1>5. m.has_tenant_data \in BOOLEAN
    <2>1. m.has_tenant_data = any_tenant
      BY <1>0, Zenon DEF Sections
    <2> QED BY <2>1 DEF any_tenant
  <1>6. m.ctid = [n \in 1 .. num |-> docmap.docs[n].ctid] /\ m.tenant = [n \in 1 .. num |-> docmap.docs[n].tenant]
    BY <1>0, <1>2 DEF Sections
  <1>7. m.ctid \in [1 .. num -> Nat] /\ m.tenant \in [1 .. num -> Nat]
    BY <1>3, <1>6
  <1>8. IsInjective(m.ctid)
    <2>1. \A a, b \in 1 .. num : docmap.docs[a].ctid = docmap.docs[b].ctid => a = b
      BY <1>1, <1>2 DEF MapOK
    <2> QED BY <1>6, <2>1 DEF IsInjective
  <1>9. m.norm \in [1 .. num -> DOMAIN FieldNormTable]
    <2>1. m.norm = docmap.norm
      BY <1>0 DEF Sections
    <2>2. docmap.norm = [n \in 1 .. num |-> docmap.norm[n]]
      BY <1>1, <1>2 DEF MapOK
    <2> QED BY <1>3, <2>1, <2>2
  <1>10. /\ DOMAIN m.post = MergedTerms /\ MergedTerms \subseteq Term /\ MergedTerms # {}
    <2>1. DOMAIN m.post = MergedTerms
      BY <1>0 DEF Sections, MergedLists
    <2>2. MergedTerms \subseteq Term
      BY MergedTermsOK
    <2>3. MergedTerms # {}
      <3>1. 1 \in 1 .. opened
        BY <1>1
      <3>2. PICK t : t \in DOMAIN chain[1].post
        BY <1>1, <3>1 DEF Readable
      <3>3. HoldersOf(chain, t) # {}
        BY <1>1, <3>1, <3>2 DEF HoldersOf, has_term
      <3>4. t \in MergedTerms
        BY <3>3, MergedTermsOK
      <3> QED BY <3>4
    <2> QED BY <2>1, <2>2, <2>3
  <1>11. IsFiniteSet(MergedTerms)
    <2>1. PICK c \in Nat : c = Len(merged_terms)
      BY <1>1
    <2>2. IsFiniteSet(1 .. c)
      BY IntervalCard
    <2>3. PICK f : f = [n \in 1 .. c |-> merged_terms[n].term]
      OBVIOUS
    <2>4. f \in Surjection(1 .. c, MergedTerms)
      BY <1>1, <2>1, <2>3 DEF MergedTerms, Surjection
    <2> QED BY <2>2, <2>4, FS_Surjection
  <1>12. ASSUME NEW t \in MergedTerms
         PROVE  /\ m.post[t] # << >> /\ m.doc_freq[t] = Len(m.post[t])
                /\ m.post[t] \in Seq([doc : 0 .. m.num_docs - 1, frequency : Nat \ {0}, norm : DOMAIN FieldNormTable])
                /\ Len(m.skip[t]) = num_blocks(m.post[t])
                /\ \A b \in 1 .. Len(m.skip[t]) : m.skip[t][b].doc_count = Len(Block(m.post[t], b - 1))
    <2>1. PICK L : L = MergedLists[t]
      OBVIOUS
    <2>2. /\ L \in Seq(Range(L)) /\ Len(L) \in Nat \ {0} /\ DOMAIN L = 1 .. Len(L) /\ L # << >>
          /\ \A n \in 1 .. Len(L) : /\ L[n].doc \in 0 .. Len(docmap.docs) - 1 /\ L[n].frequency \in Nat \ {0}
                                    /\ L[n].norm \in DOMAIN FieldNormTable
                                    /\ L[n] = [doc |-> L[n].doc, frequency |-> L[n].frequency, norm |-> L[n].norm]
      BY <2>1, MergedList
    <2>3. m.post[t] = L /\ m.doc_freq[t] = Len(L) /\ m.skip[t] = MergedSkips[t]
      BY <1>0, <2>1 DEF Sections
    <2>4. L \in Seq([doc : 0 .. m.num_docs - 1, frequency : Nat \ {0}, norm : DOMAIN FieldNormTable])
      <3>1. PICK P : P = [doc : 0 .. m.num_docs - 1, frequency : Nat \ {0}, norm : DOMAIN FieldNormTable]
        OBVIOUS
      <3>2. \A n \in 1 .. Len(L) : L[n] \in P
        BY <1>2, <1>4, <2>2, <3>1
      <3>3. L \in Seq(P)
        BY <2>2, <3>2
      <3> QED BY <3>1, <3>3
    <2>5. PICK ten : m.skip[t] = SkipEntries(L, ten)
      BY <2>1, <2>3 DEF MergedSkips
    <2>6. PICK nb \in Nat : nb = num_blocks(L)
      BY <2>4, <2>2, BlockShape
    <2>7. m.skip[t] = [b \in 1 .. nb |-> SkipEntry(Block(L, b - 1), ten)]
      BY <2>5, <2>6 DEF SkipEntries
    <2>8. Len(m.skip[t]) = nb
      BY <2>7
    <2>9. \A blk : SkipEntry(blk, ten).doc_count = Len(blk)
      BY DEF SkipEntry
    <2>10. \A b \in 1 .. nb : m.skip[t][b].doc_count = Len(Block(L, b - 1))
      BY <2>7, <2>9
    <2> QED BY <2>2, <2>3, <2>4, <2>6, <2>8, <2>10
  <1> QED BY <1>4, <1>5, <1>7, <1>8, <1>9, <1>10, <1>11, <1>12 DEF Readable

(* LinkMerged keeps MergeInv. *)
LEMMA LinkMergedKeeps ==
    ASSUME MergeInv, LinkMerged
    PROVE  MergeInv'
  <1>0. /\ ChainInv /\ pc = "link" /\ chain' = <<merged>> \o upper /\ upper' = << >>
        /\ pc' = (IF upper = << >> THEN "done" ELSE "open") /\ opened' = 0
        /\ sources' = << >> /\ merged_terms' = << >> /\ written' = << >>
        /\ psources' = psources /\ postings' = postings /\ StageInv
    BY DEF MergeInv, LinkMerged
  <1>1. Readable(merged)
    <2>1. merged = write_merged_segment
      BY <1>0 DEF MergeInv, MergedInv
    <2>2. Finished
      BY <1>0 DEF Finished
    <2> QED BY <2>1, <2>2, MergedReadable
  <1>2. psources' = << >> /\ postings' = << >>
    BY <1>0 DEF StageInv
  <1>3. << >> \in Seq(Range(<< >>)) /\ Len(<< >>) = 0 /\ 1 .. 0 = {} /\ DOMAIN << >> = {}
    OBVIOUS
  <1>4. ChainInv'
    <2>1. PICK m, up, ch : m = merged /\ up = upper /\ ch = <<m>> \o up
      OBVIOUS
    <2>2. up \in Seq(Range(up) \cup {m}) /\ <<m>> \in Seq(Range(up) \cup {m}) /\ \A i \in DOMAIN up : Readable(up[i])
      BY <1>0, <2>1 DEF ChainInv, ChainOK, Range
    <2>3. PICK n \in Nat : n = Len(up) /\ DOMAIN up = 1 .. n
      BY <2>2
    <2>4. ch \in Seq(Range(up) \cup {m}) /\ Len(ch) = n + 1 /\ DOMAIN ch = 1 .. n + 1
      BY <2>1, <2>2, <2>3
    <2>5. ch[1] = m /\ \A i \in 2 .. n + 1 : ch[i] = up[i - 1]
      BY <2>1, <2>2, <2>3
    <2>6. ASSUME NEW i \in DOMAIN ch PROVE Readable(ch[i])
      <3>1. CASE i = 1
        BY <1>1, <2>1, <2>5, <3>1
      <3>2. CASE i # 1
        <4>1. i \in 2 .. n + 1 /\ i - 1 \in 1 .. n
          BY <2>4, <3>2
        <4> QED BY <2>2, <2>3, <2>5, <4>1
      <3> QED BY <3>1, <3>2
    <2>7. ch \in Seq(Range(ch)) /\ ch # << >>
      BY <2>4 DEF Range
    <2>8. ChainOK(ch) /\ ChainOK(<< >>)
      BY <1>3, <2>6, <2>7 DEF ChainOK
    <2> QED BY <1>0, <2>1, <2>7, <2>8 DEF ChainInv
  <1>5. pc' = "done" \/ pc' = "open"
    BY <1>0
  <1>6. SourcesInv'
    <2>1. Len(chain') \in Nat
      BY <1>4 DEF ChainInv, ChainOK
    <2> QED BY <1>0, <1>3, <2>1 DEF SourcesInv
  <1>7. ~Writing'
    BY <1>5 DEF Writing
  <1>8. StageInv'
    BY <1>0, <1>2, <1>3, <1>5, <1>7 DEF StageInv
  <1>9. TermsInv'
    BY <1>0, <1>3, <1>7 DEF TermsInv
  <1>10. DocmapInv' /\ CollectInv' /\ MergedInv'
    BY <1>5, <1>7 DEF DocmapInv, CollectInv, MergedInv
  <1>11. WrittenInv'
    BY <1>0, <1>3 DEF WrittenInv
  <1> QED BY <1>4, <1>6, <1>8, <1>9, <1>10, <1>11 DEF MergeInv

(* The invariant holds in every state. *)
LEMMA MergeInvHolds == Spec => []MergeInv
  <1>1. Init => MergeInv
    BY MergeStarts
  <1>2. MergeInv /\ [Next]_vars => MergeInv'
    <2> SUFFICES ASSUME MergeInv, [Next]_vars PROVE MergeInv'
      OBVIOUS
    <2>1. CASE OpenSource
      BY <2>1, OpenSourceKeeps
    <2>2. CASE StartMerge
      BY <2>2, StartMergeKeeps
    <2>3. CASE MergeTerm
      BY <2>3, MergeTermKeeps
    <2>4. CASE BuildDocmap
      BY <2>4, BuildDocmapKeeps
    <2>5. CASE CollectPosting
      BY <2>5, CollectPostingKeeps
    <2>6. CASE WriteTerm
      BY <2>6, WriteTermKeeps
    <2>7. CASE WriteSections
      BY <2>7, WriteSectionsKeeps
    <2>8. CASE LinkMerged
      BY <2>8, LinkMergedKeeps
    <2>9. CASE UNCHANGED vars
      BY <2>9, StutterKeeps
    <2>10. CASE Done
      BY <2>9, <2>10 DEF Done
    <2> QED BY <2>1, <2>2, <2>3, <2>4, <2>5, <2>6, <2>7, <2>8, <2>9, <2>10 DEF Next, Merging
  <1> QED BY <1>1, <1>2, PTL DEF Spec

(* TypeOK holds for all segments that can be read. *)
THEOREM TypeCorrect == Spec => []TypeOK
  <1>1. MergeInv => TypeOK
    <2> SUFFICES ASSUME MergeInv PROVE TypeOK
      OBVIOUS
    <2>1. ChainInv /\ SourcesInv /\ StageInv /\ TermsInv /\ CollectInv
      BY DEF MergeInv
    <2>2. pc \in {"open", "terms", "collect", "sections", "link", "done"} /\ opened \in 0 .. Len(chain)
      BY <2>1 DEF StageInv, SourcesInv
    <2>3. /\ opened \in Nat /\ DOMAIN sources = 1 .. opened /\ DOMAIN chain = 1 .. Len(chain)
          /\ \A i \in 1 .. opened : /\ sources[i].reader = chain[i]
                                    /\ sources[i].current_idx \in 1 .. Len(dictionary(chain[i])) + 1
      BY <2>1, SourceFacts
    <2>4. \A i \in DOMAIN sources : sources[i].current_idx \in 1 .. Len(dictionary(sources[i].reader)) + 1
      BY <2>3
    <2>5. ASSUME NEW n \in DOMAIN merged_terms
          PROVE  merged_terms[n].term \in Term /\ Range(merged_terms[n].segment_refs) \subseteq DOMAIN sources
      <3>0. n \in 1 .. Len(merged_terms) /\ merged_terms # << >>
        BY <2>1 DEF TermsInv
      <3>1. PICK mt : mt = merged_terms[n]
        OBVIOUS
      <3>2. TermOK(mt, chain) /\ ChainOK(chain)
        BY <2>1, <3>0, <3>1 DEF TermsInv, ChainInv
      <3>3. RefsOK(mt, chain)
        BY <3>2, RefsMade
      <3>4. opened = Len(chain)
        BY <2>1, <3>0 DEF StageInv, Writing
      <3>5. Range(mt.segment_refs) \subseteq HoldersOf(chain, mt.term)
        BY <3>3 DEF RefsOK, Range
      <3>6. HoldersOf(chain, mt.term) \subseteq DOMAIN sources
        BY <2>3, <3>4 DEF HoldersOf
      <3>7. mt.term \in Term
        BY <3>2, Zenon DEF TermOK
      <3> QED BY <3>1, <3>5, <3>6, <3>7
    <2>6. ASSUME pc = "collect", NEW p \in DOMAIN psources
          PROVE  /\ psources[p].source \in DOMAIN sources /\ psources[p].term = current_merged.term
                 /\ p \in live_psources => psources[p].in_block < Len(posting_source_load_block(psources[p]))
      <3>1. PICK mt, t : mt = merged_terms[Len(written) + 1] /\ t = mt.term
        OBVIOUS
      <3>2. CollectOK(psources, postings, mt, chain)
        BY <2>1, <2>6, <3>1 DEF CollectInv
      <3>3. p \in 1 .. Len(mt.segment_refs)
        BY <3>2 DEF CollectOK
      <3>4. PICK i, L, k : i = mt.segment_refs[p] /\ L = chain[i].post[t] /\ k = TakenOf(psources[p], chain, t) + 1
        OBVIOUS
      <3>5. i \in HoldersOf(chain, t) /\ psources[p].source = i /\ psources[p].term = t
        BY <2>6, <3>1, <3>3, <3>4, PsourceFacts
      <3>6. opened = Len(chain)
        BY <2>1, <2>6 DEF StageInv, Writing
      <3>7. i \in DOMAIN sources
        BY <2>3, <3>5, <3>6 DEF HoldersOf
      <3>8. ASSUME p \in live_psources PROVE psources[p].in_block < Len(posting_source_load_block(psources[p]))
        <4>1. PsourceMove(p, i, k, t)
          BY <2>6, <3>1, <3>3, <3>4, <3>8, PsourceMoves
        <4> QED BY <4>1 DEF PsourceMove
      <3>9. psources[p].term = current_merged.term
        BY <3>1, <3>5 DEF current_merged
      <3> QED BY <3>5, <3>7, <3>8, <3>9
    <2> QED BY <2>2, <2>4, <2>5, <2>6 DEF TypeOK
  <1> QED BY <1>1, MergeInvHolds, PTL

-----------------------------------------------------------------------------
(* What the merge conserves *)

(* Counting a part of a term's postings over the places, or segment by segment, is the same. *)
LEMMA PlacesCount ==
    ASSUME NEW ch, ChainOK(ch), NEW t, NEW c \in Nat, NEW pl, Pairing(pl, 1 .. c, Places(ch, t)),
           NEW Z, \A i \in 1 .. Len(ch) : Z[i] \subseteq ListAt(ch, t)[i],
           NEW C \in SUBSET (1 .. c), \A n \in 1 .. c : n \in C <=> pl[n][2] \in Z[pl[n][1]]
    PROVE  Cardinality(C) = Total(Sizes(Z, Len(ch)))
  <1>1. PICK N \in Nat : N = Len(ch) /\ DOMAIN ch = 1 .. N
    BY DEF ChainOK
  <1>2. ASSUME NEW i \in 1 .. N PROVE IsFiniteSet(Z[i])
    <2>1. CASE has_term(ch[i], t)
      <3>1. Readable(ch[i])
        BY <1>1 DEF ChainOK
      <3>2. ListIn(ch[i].post[t], ch[i], t)
        BY <2>1, <3>1, ListRead
      <3>3. PICK k \in Nat : DOMAIN ch[i].post[t] = 1 .. k
        BY <3>2, ListParts
      <3>4. Z[i] \subseteq 1 .. k
        BY <1>1, <2>1, <3>3 DEF ListAt
      <3>5. IsFiniteSet(1 .. k)
        BY IntervalCard
      <3> QED BY <3>4, <3>5, FS_Subset
    <2>2. CASE ~has_term(ch[i], t)
      <3>1. Z[i] = {}
        BY <1>1, <2>2 DEF ListAt
      <3> QED BY <3>1, FS_EmptySet
    <2> QED BY <2>1, <2>2
  <1>3. PICK D : D = Pairs(Z, N)
    OBVIOUS
  <1>4. D \in SUBSET Places(ch, t)
    BY <1>1, <1>3 DEF Places, Pairs, Row
  <1>5. ASSUME NEW n \in 1 .. c PROVE n \in C <=> pl[n] \in D
    <2>1. PICK p : p = pl[n] /\ p \in Places(ch, t)
      BY DEF Pairing
    <2>2. PICK i, k : i \in 1 .. N /\ p = <<i, k>>
      BY <1>1, <2>1 DEF Places, Pairs, Row
    <2>3. p[1] = i /\ p[2] = k
      BY <2>2
    <2>4. p \in D <=> k \in Z[i]
      BY <1>3, <2>2 DEF Pairs, Row
    <2> QED BY <2>1, <2>3, <2>4
  <1>6. IsFiniteSet(C)
    <2>1. IsFiniteSet(1 .. c)
      BY IntervalCard
    <2> QED BY <2>1, FS_Subset
  <1>7. PICK A, B, E : A = 1 .. c /\ B = Places(ch, t) /\ E = C
    OBVIOUS
  <1>8. /\ Pairing(pl, A, B) /\ E \in SUBSET A /\ D \in SUBSET B /\ IsFiniteSet(E)
        /\ \A a \in A : a \in E <=> pl[a] \in D
    BY <1>4, <1>5, <1>6, <1>7
  <1>9. Cardinality(D) = Cardinality(C)
    <2>1. Cardinality(D) = Cardinality(E)
      BY <1>8, PairedCount
    <2> QED BY <1>7, <2>1
  <1>10. Cardinality(D) = Total(Sizes(Z, N))
    BY <1>2, <1>3, PairsCard
  <1> QED BY <1>1, <1>9, <1>10

(* A list that has the postings of the term in the chain, each once. *)
Conserved(list, t) ==
    /\ Len(list) \in Nat /\ DOMAIN list = 1 .. Len(list)
    /\ \E pl : /\ Pairing(pl, 1 .. Len(list), Places(chain, t))
               /\ \A n \in 1 .. Len(list) : list[n] = PostingsOf(chain[pl[n][1]], t)[pl[n][2]]

(* A term that no segment has, has no places. *)
LEMMA NoPlaces ==
    ASSUME NEW ch, ChainOK(ch), NEW t, HoldersOf(ch, t) = {}
    PROVE  Places(ch, t) = {}
  BY PlaceParts

(* The postings of the merged segment are those of the chain. *)
LEMMA MergedConserves ==
    ASSUME Finished, NEW m, m = write_merged_segment, NEW t
    PROVE  /\ Conserved(PostingsOf(m, t), t)
           /\ tp_segment_get_doc_freq(m, t) = Len(PostingsOf(m, t))
           /\ has_term(m, t) <=> t \in MergedTerms
  <1>0. Sections(m)
    BY SectionsMade
  <1>f. /\ ChainOK(chain) /\ opened = Len(chain) /\ DOMAIN chain = 1 .. opened
        /\ MapOK(docmap, sources, opened, tp_docmap_add(sources))
    BY FinishedFacts
  <1>1. m.post = MergedLists /\ m.doc_freq = [u \in MergedTerms |-> Len(MergedLists[u])]
    BY <1>0 DEF Sections
  <1>2. has_term(m, t) <=> t \in MergedTerms
    BY <1>1 DEF has_term, MergedLists
  <1>3. CASE t \notin MergedTerms
    <2>1. HoldersOf(chain, t) = {}
      BY <1>3, MergedTermsOK
    <2>2. Places(chain, t) = {}
      BY <1>f, <2>1, NoPlaces
    <2>3. PostingsOf(m, t) = << >>
      BY <1>2, <1>3 DEF PostingsOf
    <2>4. Len(<< >>) = 0 /\ DOMAIN << >> = 1 .. 0 /\ 1 .. 0 = {}
      OBVIOUS
    <2>5. Conserved(<< >>, t)
      BY <2>2, <2>4, EmptyPairing DEF Conserved
    <2>6. tp_segment_get_doc_freq(m, t) = 0
      BY <1>2, <1>3 DEF tp_segment_get_doc_freq
    <2> QED BY <1>2, <2>3, <2>4, <2>5, <2>6
  <1>4. CASE t \in MergedTerms
    <2>1. PICK L, Q : L = MergedLists[t] /\ Q = PostingsOf(m, t)
      OBVIOUS
    <2>2. ListWritten(L, docmap, sources, chain, t)
      BY <1>4, <2>1, MergedTermsOK
    <2>3. PICK c \in Nat : c = Len(L) /\ DOMAIN L = 1 .. c
      BY <2>2 DEF ListWritten
    <2>4. PICK pl : /\ Pairing(pl, 1 .. c, Places(chain, t))
                    /\ \A n \in 1 .. c : L[n] = WrittenAt(docmap, sources, chain, t, pl[n])
      BY <2>2, <2>3 DEF ListWritten
    <2>5. Q = [n \in 1 .. c |-> <<m.ctid[L[n].doc + 1], L[n].frequency, L[n].norm>>]
      BY <1>1, <1>2, <1>4, <2>1, <2>3 DEF PostingsOf
    <2>6. Len(Q) = c /\ DOMAIN Q = 1 .. c
      BY <2>5
    <2>7. ASSUME NEW n \in 1 .. c PROVE Q[n] = PostingsOf(chain[pl[n][1]], t)[pl[n][2]]
      <3>1. PICK p \in Places(chain, t) : p = pl[n]
        BY <2>4 DEF Pairing
      <3>2. PICK i, bp, w : i = p[1] /\ bp = PostingAt(chain, t, p) /\ w = WrittenAt(docmap, sources, chain, t, p)
        OBVIOUS
      <3>3. PlaceOK(t, p, i, bp, w)
        BY <3>2, PlaceWritten
      <3>4. L[n] = w
        BY <2>4, <3>1, <3>2
      <3>5. /\ w.doc \in 0 .. Len(docmap.docs) - 1 /\ w.frequency = bp.frequency /\ w.norm = bp.norm
            /\ docmap.docs[w.doc + 1].ctid = chain[i].ctid[bp.doc + 1] /\ Len(docmap.docs) \in Nat
            /\ has_term(chain[i], t) /\ p[2] \in 1 .. Len(chain[i].post[t]) /\ bp = chain[i].post[t][p[2]]
            /\ Readable(chain[i])
        BY <3>3 DEF PlaceOK
      <3>6. m.ctid[w.doc + 1] = docmap.docs[w.doc + 1].ctid
        <4>1. m.ctid = [x \in DOMAIN docmap.docs |-> docmap.docs[x].ctid]
          BY <1>0 DEF Sections
        <4>2. w.doc + 1 \in DOMAIN docmap.docs
          BY <1>f, <3>5 DEF MapOK
        <4> QED BY <4>1, <4>2
      <3>7. Q[n] = <<chain[i].ctid[bp.doc + 1], bp.frequency, bp.norm>>
        BY <2>5, <3>4, <3>5, <3>6
      <3>8. p[2] \in DOMAIN chain[i].post[t]
        <4>1. ListIn(chain[i].post[t], chain[i], t)
          BY <3>5, ListRead
        <4> QED BY <3>5, <4>1, ListParts
      <3>9. PostingsOf(chain[i], t)[p[2]] = <<chain[i].ctid[bp.doc + 1], bp.frequency, bp.norm>>
        BY <3>5, <3>8 DEF PostingsOf
      <3> QED BY <3>1, <3>2, <3>7, <3>9
    <2>8. Conserved(Q, t)
      BY <2>4, <2>6, <2>7 DEF Conserved
    <2>9. tp_segment_get_doc_freq(m, t) = c
      BY <1>1, <1>2, <1>4, <2>1, <2>3 DEF tp_segment_get_doc_freq
    <2> QED BY <1>2, <2>1, <2>6, <2>8, <2>9
  <1> QED BY <1>3, <1>4

(* The places of a segment's own list. *)
LEMMA OwnPlaces ==
    ASSUME NEW ch, ChainOK(ch), NEW t, NEW i \in DOMAIN ch
    PROVE  /\ DOMAIN PostingsOf(ch[i], t) = ListAt(ch, t)[i]
           /\ tp_segment_get_doc_freq(ch[i], t) = Cardinality(ListAt(ch, t)[i])
  <1>1. CASE has_term(ch[i], t)
    <2>1. Readable(ch[i])
      BY DEF ChainOK
    <2>2. ListIn(ch[i].post[t], ch[i], t)
      BY <1>1, <2>1, ListRead
    <2>3. PICK k \in Nat : DOMAIN ch[i].post[t] = 1 .. k /\ k = Len(ch[i].post[t])
      BY <2>2, ListParts
    <2>4. Cardinality(1 .. k) = k
      BY IntervalCard
    <2>5. ch[i].doc_freq[t] = k
      BY <1>1, <2>1, <2>3 DEF Readable, has_term
    <2> QED BY <1>1, <2>3, <2>4, <2>5 DEF ListAt, PostingsOf, tp_segment_get_doc_freq
  <1>2. CASE ~has_term(ch[i], t)
    <2>1. ListAt(ch, t)[i] = {} /\ PostingsOf(ch[i], t) = << >> /\ tp_segment_get_doc_freq(ch[i], t) = 0
      BY <1>2 DEF ListAt, PostingsOf, tp_segment_get_doc_freq
    <2> QED BY <2>1, FS_EmptySet
  <1> QED BY <1>1, <1>2

(* No posting is lost, added or changed by a merge. *)
LEMMA PostingsKept ==
    ASSUME Finished, NEW m, m = write_merged_segment, NEW t, NEW x
    PROVE  Occurrences(PostingsOf(m, t), x) = Total([i \in DOMAIN chain |-> Occurrences(PostingsOf(chain[i], t), x)])
  <1>0. ChainOK(chain)
    BY FinishedFacts
  <1>1. PICK N \in Nat : N = Len(chain) /\ DOMAIN chain = 1 .. N
    BY <1>0 DEF ChainOK
  <1>2. PICK list : list = PostingsOf(m, t)
    OBVIOUS
  <1>3. Conserved(list, t)
    BY <1>2, MergedConserves
  <1>4. PICK c \in Nat : c = Len(list) /\ DOMAIN list = 1 .. c
    BY <1>3 DEF Conserved
  <1>5. PICK pl : /\ Pairing(pl, 1 .. c, Places(chain, t))
                  /\ \A n \in 1 .. c : list[n] = PostingsOf(chain[pl[n][1]], t)[pl[n][2]]
    BY <1>3, <1>4 DEF Conserved
  <1>6. PICK Z : Z = [i \in 1 .. N |-> {k \in DOMAIN PostingsOf(chain[i], t) : PostingsOf(chain[i], t)[k] = x}]
    OBVIOUS
  <1>7. PICK C : C = {n \in DOMAIN list : list[n] = x}
    OBVIOUS
  <1>8. \A i \in 1 .. N : DOMAIN PostingsOf(chain[i], t) = ListAt(chain, t)[i]
    BY <1>0, <1>1, OwnPlaces
  <1>9. \A i \in 1 .. Len(chain) : Z[i] \subseteq ListAt(chain, t)[i]
    BY <1>1, <1>6, <1>8
  <1>10. ASSUME NEW n \in 1 .. c PROVE n \in C <=> pl[n][2] \in Z[pl[n][1]]
    <2>1. PICK p : p = pl[n] /\ p \in Places(chain, t)
      BY <1>5 DEF Pairing
    <2>2. PICK i, k : i \in 1 .. N /\ p = <<i, k>> /\ k \in ListAt(chain, t)[i]
      BY <1>1, <2>1 DEF Places, Pairs, Row
    <2>3. p[1] = i /\ p[2] = k
      BY <2>2
    <2>4. list[n] = PostingsOf(chain[i], t)[k]
      BY <1>5, <2>1, <2>3
    <2>5. k \in Z[i] <=> PostingsOf(chain[i], t)[k] = x
      BY <1>6, <1>8, <2>2
    <2> QED BY <1>4, <1>7, <2>1, <2>3, <2>4, <2>5
  <1>11. C \in SUBSET (1 .. c)
    BY <1>4, <1>7
  <1>12. Cardinality(C) = Total(Sizes(Z, Len(chain)))
    BY <1>0, <1>5, <1>9, <1>10, <1>11, PlacesCount
  <1>13. Sizes(Z, N) = [i \in DOMAIN chain |-> Occurrences(PostingsOf(chain[i], t), x)]
    BY <1>1, <1>6 DEF Sizes, Occurrences
  <1>14. Occurrences(list, x) = Cardinality(C)
    BY <1>7 DEF Occurrences
  <1> QED BY <1>1, <1>2, <1>12, <1>13, <1>14

(* The document frequency of a term is the sum of those of the sources. *)
LEMMA DocFreqsKept ==
    ASSUME Finished, NEW m, m = write_merged_segment, NEW t
    PROVE  tp_segment_get_doc_freq(m, t) = Total([i \in DOMAIN chain |-> tp_segment_get_doc_freq(chain[i], t)])
  <1>0. ChainOK(chain)
    BY FinishedFacts
  <1>1. PICK N \in Nat : N = Len(chain) /\ DOMAIN chain = 1 .. N
    BY <1>0 DEF ChainOK
  <1>2. PICK list : list = PostingsOf(m, t)
    OBVIOUS
  <1>3. Conserved(list, t) /\ tp_segment_get_doc_freq(m, t) = Len(list)
    BY <1>2, MergedConserves
  <1>4. PICK c \in Nat : c = Len(list)
    BY <1>3 DEF Conserved
  <1>5. PICK pl : Pairing(pl, 1 .. c, Places(chain, t))
    BY <1>3, <1>4 DEF Conserved
  <1>6. PICK Z, C : Z = ListAt(chain, t) /\ C = 1 .. c
    OBVIOUS
  <1>7. ASSUME NEW n \in 1 .. c PROVE n \in C <=> pl[n][2] \in Z[pl[n][1]]
    <2>1. PICK p : p = pl[n] /\ p \in Places(chain, t)
      BY <1>5 DEF Pairing
    <2>2. PICK i, k : i \in 1 .. N /\ p = <<i, k>> /\ k \in ListAt(chain, t)[i]
      BY <1>1, <2>1 DEF Places, Pairs, Row
    <2>3. p[1] = i /\ p[2] = k
      BY <2>2
    <2> QED BY <1>6, <2>1, <2>2, <2>3
  <1>8. Cardinality(C) = Total(Sizes(Z, Len(chain)))
    <2>1. C \in SUBSET (1 .. c) /\ \A i \in 1 .. Len(chain) : Z[i] \subseteq ListAt(chain, t)[i]
      BY <1>6
    <2> QED BY <1>0, <1>5, <1>7, <2>1, PlacesCount
  <1>9. Cardinality(C) = c
    BY <1>6, IntervalCard
  <1>10. \A i \in 1 .. N : tp_segment_get_doc_freq(chain[i], t) = Cardinality(Z[i])
    BY <1>0, <1>1, <1>6, OwnPlaces
  <1>11. Sizes(Z, N) = [i \in DOMAIN chain |-> tp_segment_get_doc_freq(chain[i], t)]
    BY <1>1, <1>10 DEF Sizes
  <1> QED BY <1>1, <1>3, <1>4, <1>8, <1>9, <1>11

(* How often a tenant is counted. *)
CountsOf(S, tid) == [y \in {tid[n] : n \in S} \ {0} |-> Cardinality({n \in S : tid[n] = y})]

(* A tenant that is not counted has no postings. *)
LEMMA CountedOrNone ==
    ASSUME NEW S, NEW tid, NEW x, x # 0, NEW counts, counts = CountsOf(S, tid)
    PROVE  (IF x \in DOMAIN counts THEN counts[x] ELSE 0) = Cardinality({n \in S : tid[n] = x})
  <1>1. CASE x \in {tid[n] : n \in S}
    BY <1>1 DEF CountsOf
  <1>2. CASE x \notin {tid[n] : n \in S}
    <2>1. {n \in S : tid[n] = x} = {}
      BY <1>2
    <2>2. x \notin DOMAIN counts
      BY <1>2 DEF CountsOf
    <2> QED BY <2>1, <2>2, FS_EmptySet
  <1> QED BY <1>1, <1>2

(* The places of a tenant's postings in a list of a segment. *)
TenantPlaces(s, t, x) == IF has_term(s, t) THEN {k \in DOMAIN s.post[t] : s.tenant[s.post[t][k].doc + 1] = x} ELSE {}

(* A segment that counts its postings for the tenants of its documents answers with their number. *)
LEMMA TenantFreqRead ==
    ASSUME NEW s, Readable(s), s.has_tenant_data, TenantsAgree(s), NEW t, NEW x, x # 0
    PROVE  tp_batch_get_segment_tenant_doc_freq(s, t, x) = Cardinality(TenantPlaces(s, t, x))
  <1>1. CASE ~has_term(s, t)
    <2>1. tp_batch_get_segment_tenant_doc_freq(s, t, x) = 0
      BY <1>1 DEF tp_batch_get_segment_tenant_doc_freq
    <2>2. TenantPlaces(s, t, x) = {}
      BY <1>1 DEF TenantPlaces
    <2> QED BY <2>1, <2>2, FS_EmptySet
  <1>2. CASE has_term(s, t)
    <2>1. PICK L, S : L = s.post[t] /\ S = DOMAIN s.post[t]
      OBVIOUS
    <2>2. ListIn(L, s, t)
      BY <1>2, <2>1, ListRead
    <2>3. \A n \in S : L[n].doc \in 0 .. s.num_docs - 1 /\ s.num_docs \in Nat
      <3>1. \A n \in S : L[n] \in PostingIn(s)
        BY <2>1, <2>2, ListParts
      <3> QED BY <2>2, <3>1 DEF ListIn, PostingIn
    <2>4. PICK tid : tid = [n \in S |-> s.tenant[L[n].doc + 1]]
      OBVIOUS
    <2>5. PICK of : of = [id \in 0 .. s.num_docs - 1 |-> s.tenant[id + 1]]
      OBVIOUS
    <2>6. s.tenant_df[t] = tenant_docfreq(of, L)
      BY <1>2, <2>1, <2>5 DEF TenantsAgree, has_term
    <2>7. \A n \in S : of[L[n].doc] = tid[n]
      BY <2>3, <2>4, <2>5
    <2>8. tenant_docfreq(of, L) = CountsOf(S, tid)
      <3>1. {of[L[j].doc] : j \in DOMAIN L} = {tid[j] : j \in S}
        BY <2>1, <2>7
      <3>2. \A y : {j \in DOMAIN L : of[L[j].doc] = y} = {j \in S : tid[j] = y}
        BY <2>1, <2>7
      <3> QED BY <3>1, <3>2 DEF tenant_docfreq, CountsOf
    <2>9. PICK counts : counts = CountsOf(S, tid)
      OBVIOUS
    <2>10. tp_batch_get_segment_tenant_doc_freq(s, t, x) = IF x \in DOMAIN counts THEN counts[x] ELSE 0
      BY <1>2, <2>6, <2>8, <2>9 DEF tp_batch_get_segment_tenant_doc_freq
    <2>11. (IF x \in DOMAIN counts THEN counts[x] ELSE 0) = Cardinality({n \in S : tid[n] = x})
      BY <2>9, CountedOrNone
    <2>12. {n \in S : tid[n] = x} = TenantPlaces(s, t, x)
      BY <1>2, <2>1, <2>4 DEF TenantPlaces
    <2> QED BY <2>10, <2>11, <2>12
  <1> QED BY <1>1, <1>2

(* A segment without the term answers with none. *)
LEMMA NoTenantFreq ==
    ASSUME NEW s, NEW t, NEW x, ~has_term(s, t)
    PROVE  tp_batch_get_segment_tenant_doc_freq(s, t, x) = 0
  BY DEF tp_batch_get_segment_tenant_doc_freq

(* The merged segment answers with the number of postings collected for the tenant. *)
LEMMA MergedTenantFreq ==
    ASSUME Finished, NEW m, m = write_merged_segment, any_tenant, NEW t \in MergedTerms, NEW x, x # 0,
           NEW col, col = written[IndexOf(t)].collected
    PROVE  tp_batch_get_segment_tenant_doc_freq(m, t, x) = Cardinality({n \in DOMAIN col : col[n].tenant_id = x})
  <1>0. Sections(m)
    BY SectionsMade
  <1>1. has_term(m, t)
    BY <1>0 DEF Sections, MergedLists, has_term
  <1>2. m.has_tenant_data
    <2>1. m.has_tenant_data = any_tenant
      BY <1>0, Zenon DEF Sections
    <2> QED BY <2>1
  <1>3. m.tenant_df[t] = merged_tdf(written[IndexOf(t)])
    BY <1>0 DEF Sections, MergedTdfs
  <1>4. PICK S, tid : S = DOMAIN col /\ tid = [n \in DOMAIN col |-> col[n].tenant_id]
    OBVIOUS
  <1>5. merged_tdf(written[IndexOf(t)]) = CountsOf(S, tid)
    <2>0. PICK w : w = written[IndexOf(t)]
      OBVIOUS
    <2>1. {w.collected[n].tenant_id : n \in DOMAIN w.collected} = {tid[n] : n \in S}
      BY <1>4, <2>0
    <2>2. \A y : {n \in DOMAIN w.collected : w.collected[n].tenant_id = y} = {n \in S : tid[n] = y}
      BY <1>4, <2>0
    <2>3. merged_tdf(w) = CountsOf(S, tid)
      BY <2>1, <2>2 DEF merged_tdf, CountsOf
    <2> QED BY <2>0, <2>3
  <1>6. PICK counts : counts = CountsOf(S, tid)
    OBVIOUS
  <1>7. tp_batch_get_segment_tenant_doc_freq(m, t, x) = IF x \in DOMAIN counts THEN counts[x] ELSE 0
    BY <1>1, <1>2, <1>3, <1>5, <1>6 DEF tp_batch_get_segment_tenant_doc_freq
  <1>8. (IF x \in DOMAIN counts THEN counts[x] ELSE 0) = Cardinality({n \in S : tid[n] = x})
    BY <1>6, CountedOrNone
  <1>9. {n \in S : tid[n] = x} = {n \in DOMAIN col : col[n].tenant_id = x}
    BY <1>4
  <1> QED BY <1>7, <1>8, <1>9

(* The document frequency of a term for one tenant is the sum of those of the sources. *)
LEMMA TenantFreqsKept ==
    ASSUME Finished, NEW m, m = write_merged_segment, NEW t, NEW x, x # 0,
           \A i \in DOMAIN chain : chain[i].has_tenant_data /\ TenantsAgree(chain[i])
    PROVE  tp_batch_get_segment_tenant_doc_freq(m, t, x)
             = Total([i \in DOMAIN chain |-> tp_batch_get_segment_tenant_doc_freq(chain[i], t, x)])
  <1>0. /\ ChainOK(chain) /\ opened = Len(chain) /\ opened \in Nat \ {0} /\ DOMAIN chain = 1 .. opened
        /\ DOMAIN sources = 1 .. opened
        /\ \A i \in 1 .. opened : sources[i].reader = chain[i] /\ Readable(chain[i])
    BY FinishedFacts
  <1>1. PICK N \in Nat : N = Len(chain) /\ DOMAIN chain = 1 .. N /\ N = opened /\ 1 \in 1 .. N
    BY <1>0
  <1>2. any_tenant
    BY <1>0, <1>1 DEF any_tenant
  <1>3. PICK Z : Z = [i \in 1 .. N |-> TenantPlaces(chain[i], t, x)]
    OBVIOUS
  <1>4. \A i \in 1 .. N : tp_batch_get_segment_tenant_doc_freq(chain[i], t, x) = Cardinality(Z[i])
    BY <1>0, <1>1, <1>3, TenantFreqRead
  <1>5. Sizes(Z, N) = [i \in DOMAIN chain |-> tp_batch_get_segment_tenant_doc_freq(chain[i], t, x)]
    BY <1>1, <1>4 DEF Sizes
  <1>6. \A i \in 1 .. Len(chain) : Z[i] \subseteq ListAt(chain, t)[i]
    BY <1>1, <1>3 DEF ListAt, TenantPlaces
  <1>7. \E c \in Nat : \E pl : \E C \in SUBSET (1 .. c) :
           /\ Pairing(pl, 1 .. c, Places(chain, t))
           /\ \A n \in 1 .. c : n \in C <=> pl[n][2] \in Z[pl[n][1]]
           /\ Cardinality(C) = tp_batch_get_segment_tenant_doc_freq(m, t, x)
    <2>1. CASE t \notin MergedTerms
      <3>1. HoldersOf(chain, t) = {} /\ ~has_term(m, t)
        <4>1. HoldersOf(chain, t) = {}
          BY <2>1, MergedTermsOK
        <4>2. has_term(m, t) <=> t \in MergedTerms
          BY MergedConserves
        <4> QED BY <2>1, <4>1, <4>2
      <3>2. Places(chain, t) = {}
        BY <1>0, <3>1, NoPlaces
      <3>3. tp_batch_get_segment_tenant_doc_freq(m, t, x) = 0
        <4>1. ~has_term(m, t)
          BY <3>1
        <4> QED BY <4>1, NoTenantFreq
      <3>4. Cardinality({}) = 0 /\ 1 .. 0 = {}
        BY FS_EmptySet
      <3>5. \E C \in SUBSET (1 .. 0) :
              /\ Pairing(<< >>, 1 .. 0, Places(chain, t))
              /\ \A n \in 1 .. 0 : n \in C <=> (<< >>)[n][2] \in Z[(<< >>)[n][1]]
              /\ Cardinality(C) = tp_batch_get_segment_tenant_doc_freq(m, t, x)
        <4> WITNESS {} \in SUBSET (1 .. 0)
        <4> QED BY <3>2, <3>3, <3>4, EmptyPairing
      <3> QED BY <3>5
    <2>2. CASE t \in MergedTerms
      <3>1. PICK col : col = written[IndexOf(t)].collected
        OBVIOUS
      <3>2. CollectedOK(col, Places(chain, t), chain, t)
        BY <2>2, <3>1, MergedTermsOK
      <3>3. PICK c \in Nat : c = Len(col) /\ DOMAIN col = 1 .. c
        BY <3>2 DEF CollectedOK
      <3>4. PICK pl : /\ Pairing(pl, 1 .. c, Places(chain, t))
                      /\ \A n \in 1 .. c : col[n] = CollectedAt(chain, t, pl[n])
        BY <3>2, <3>3 DEF CollectedOK
      <3>5. PICK C : C = {n \in DOMAIN col : col[n].tenant_id = x}
        OBVIOUS
      <3>6. Cardinality(C) = tp_batch_get_segment_tenant_doc_freq(m, t, x)
        BY <1>2, <2>2, <3>1, <3>5, MergedTenantFreq
      <3>7. ASSUME NEW n \in 1 .. c PROVE n \in C <=> pl[n][2] \in Z[pl[n][1]]
        <4>1. PICK p \in Places(chain, t) : p = pl[n]
          BY <3>4 DEF Pairing
        <4>2. PICK i, bp, w : i = p[1] /\ bp = PostingAt(chain, t, p) /\ w = WrittenAt(docmap, sources, chain, t, p)
          OBVIOUS
        <4>3. PlaceOK(t, p, i, bp, w)
          BY <4>2, PlaceWritten
        <4>4. /\ i \in 1 .. N /\ has_term(chain[i], t) /\ p[2] \in 1 .. Len(chain[i].post[t])
              /\ bp = chain[i].post[t][p[2]] /\ bp.doc \in 0 .. chain[i].num_docs - 1 /\ chain[i].num_docs \in Nat
          BY <1>1, <4>3 DEF PlaceOK
        <4>5. p[2] \in DOMAIN chain[i].post[t]
          <5>1. ListIn(chain[i].post[t], chain[i], t)
            BY <1>0, <1>1, <4>4, ListRead
          <5> QED BY <4>4, <5>1, ListParts
        <4>6. col[n].tenant_id = tp_segment_get_tenant_id(chain[i], bp.doc)
          <5>1. col[n] = CollectedAt(chain, t, p)
            BY <3>4, <4>1
          <5>2. PICK td : td = tp_segment_get_tenant_id(chain[i], bp.doc)
            OBVIOUS
          <5>3. CollectedAt(chain, t, p) =
                  [source_idx |-> p[1], old_doc_id |-> bp.doc, ctid |-> chain[p[1]].ctid[bp.doc + 1],
                   frequency |-> bp.frequency, fieldnorm |-> bp.norm, tenant_id |-> td]
            BY <4>2, <5>2, Zenon DEF CollectedAt
          <5> QED BY <5>1, <5>2, <5>3
        <4>7. bp.doc < chain[i].num_docs
          BY <4>4
        <4>8. tp_segment_get_tenant_id(chain[i], bp.doc) = chain[i].tenant[bp.doc + 1]
          BY <1>1, <4>4, <4>7 DEF tp_segment_get_tenant_id
        <4>9. p[2] \in Z[i] <=> chain[i].tenant[bp.doc + 1] = x
          BY <1>3, <4>4, <4>5 DEF TenantPlaces
        <4> QED BY <3>3, <3>5, <4>1, <4>2, <4>6, <4>8, <4>9
      <3>8. C \in SUBSET (1 .. c)
        BY <3>3, <3>5
      <3> QED BY <3>4, <3>6, <3>7, <3>8
    <2> QED BY <2>1, <2>2
  <1>8. PICK c \in Nat : \E pl : \E C \in SUBSET (1 .. c) :
           /\ Pairing(pl, 1 .. c, Places(chain, t))
           /\ \A n \in 1 .. c : n \in C <=> pl[n][2] \in Z[pl[n][1]]
           /\ Cardinality(C) = tp_batch_get_segment_tenant_doc_freq(m, t, x)
    BY <1>7
  <1>9. PICK pl : \E C \in SUBSET (1 .. c) :
           /\ Pairing(pl, 1 .. c, Places(chain, t))
           /\ \A n \in 1 .. c : n \in C <=> pl[n][2] \in Z[pl[n][1]]
           /\ Cardinality(C) = tp_batch_get_segment_tenant_doc_freq(m, t, x)
    BY <1>8
  <1>10. PICK C \in SUBSET (1 .. c) :
           /\ Pairing(pl, 1 .. c, Places(chain, t))
           /\ \A n \in 1 .. c : n \in C <=> pl[n][2] \in Z[pl[n][1]]
           /\ Cardinality(C) = tp_batch_get_segment_tenant_doc_freq(m, t, x)
    BY <1>9
  <1>11. Cardinality(C) = Total(Sizes(Z, Len(chain)))
    BY <1>0, <1>6, <1>10, PlacesCount
  <1> QED BY <1>1, <1>5, <1>10, <1>11

(* Of a CTID that several sources hold, the map has the first one's norm and tenant. *)
NewestOK(m, n) ==
    LET holders == {i \in DOMAIN sources : m.ctid[n] \in Range(sources[i].reader.ctid)}
        s == sources[Min(holders)].reader
        old == CHOOSE o \in DOMAIN s.ctid : s.ctid[o] = m.ctid[n]
    IN  m.norm[n] = s.norm[old] /\ tp_segment_get_tenant_id(m, n - 1) = tp_segment_get_tenant_id(s, old - 1)

(* A CTID keeps the field norm and tenant of the newest source that has it. *)
LEMMA NewestKept ==
    ASSUME Finished, NEW m, m = write_merged_segment, NEW n \in DOMAIN m.ctid
    PROVE  NewestOK(m, n)
  <1>h. PICK H : H = {i \in DOMAIN sources : m.ctid[n] \in Range(sources[i].reader.ctid)}
    OBVIOUS
  <1>s. PICK s : s = sources[Min(H)].reader
    OBVIOUS
  <1>o. PICK old : old = CHOOSE o \in DOMAIN s.ctid : s.ctid[o] = m.ctid[n]
    OBVIOUS
  <1> SUFFICES m.norm[n] = s.norm[old] /\ tp_segment_get_tenant_id(m, n - 1) = tp_segment_get_tenant_id(s, old - 1)
    BY <1>h, <1>s, <1>o DEF NewestOK
  <1>0. Sections(m)
    BY SectionsMade
  <1>f. /\ Feed(sources, opened) /\ opened \in Nat /\ DOMAIN sources = 1 .. opened
        /\ MapOK(docmap, sources, opened, tp_docmap_add(sources))
        /\ \A i \in 1 .. opened : Readable(sources[i].reader)
    BY FinishedFacts DEF Feed
  <1>1. PICK num \in Nat : num = Len(docmap.docs) /\ DOMAIN docmap.docs = 1 .. num
    BY <1>f DEF MapOK
  <1>2. n \in 1 .. num /\ m.ctid[n] = docmap.docs[n].ctid /\ m.tenant[n] = docmap.docs[n].tenant /\ m.norm[n] = docmap.norm[n]
        /\ m.num_docs = num
    BY <1>0, <1>1 DEF Sections
  <1>3. PICK i \in 1 .. opened, j \in Nat :
           /\ j \in 1 .. sources[i].reader.num_docs /\ FirstAt(sources, i, j)
           /\ docmap.docs[n].ctid = sources[i].reader.ctid[j]
           /\ docmap.docs[n].tenant = tp_segment_get_tenant_id(sources[i].reader, j - 1)
           /\ docmap.norm[n] = sources[i].reader.norm[j]
    <2>1. PICK map, srcs, op : map = docmap /\ srcs = sources /\ op = opened
      OBVIOUS
    <2>2. Feed(srcs, op) /\ MapOK(map, srcs, op, tp_docmap_add(srcs))
      BY <1>f, <2>1
    <2>3. PICK k \in 1 .. Len(map.docs) : k = n
      BY <1>1, <1>2, <2>1
    <2>4. \E i \in 1 .. op : \E j \in 1 .. srcs[i].reader.num_docs :
             /\ FirstAt(srcs, i, j)
             /\ map.docs[k].ctid = srcs[i].reader.ctid[j]
             /\ map.docs[k].tenant = tp_segment_get_tenant_id(srcs[i].reader, j - 1)
             /\ map.norm[k] = srcs[i].reader.norm[j]
      BY <2>2, MapEntry
    <2> QED BY <2>1, <2>3, <2>4
  <1>4. PICK r : r = sources[i].reader
    OBVIOUS
  <1>5. /\ Readable(r) /\ r.ctid \in [1 .. r.num_docs -> Nat] /\ IsInjective(r.ctid)
        /\ Range(r.ctid) = {r.ctid[x] : x \in 1 .. r.num_docs}
    <2>1. Readable(r)
      BY <1>f, <1>4
    <2> QED BY <2>1, SourceParts
  <1>6. i \in H
    BY <1>f, <1>h, <1>2, <1>3, <1>4, <1>5
  <1>7. \A h \in H : i <= h
    <2> SUFFICES ASSUME NEW h \in H, h < i PROVE FALSE
      BY <1>f, <1>h
    <2>1. h \in 1 .. i - 1
      BY <1>f, <1>h
    <2>2. Holds(sources, h, sources[i].reader.ctid[j])
      BY <1>h, <1>2, <1>3 DEF Holds
    <2> QED BY <1>3, <2>1, <2>2 DEF FirstAt
  <1>8. Min(H) = i
    <2>1. H \in SUBSET Nat
      BY <1>f, <1>h
    <2>2. Min(H) \in H /\ \A y \in H : Min(H) <= y
      BY <1>6, <2>1, MinNat
    <2>3. Min(H) \in Nat /\ i \in Nat
      <3>1. \A y \in H : y \in Nat
        BY <2>1
      <3> QED BY <1>6, <2>2, <3>1
    <2> QED BY <1>6, <1>7, <2>2, <2>3
  <1>9. s = r
    BY <1>s, <1>4, <1>8
  <1>10. old = j
    <2>1. j \in DOMAIN r.ctid /\ r.ctid[j] = m.ctid[n]
      BY <1>2, <1>3, <1>4, <1>5
    <2>2. \A o \in DOMAIN r.ctid : r.ctid[o] = m.ctid[n] => o = j
      BY <1>5, <2>1 DEF IsInjective
    <2> QED BY <1>o, <1>9, <2>1, <2>2
  <1>11. m.norm[n] = s.norm[old]
    BY <1>2, <1>3, <1>4, <1>9, <1>10
  <1>12. m.tenant[n] = tp_segment_get_tenant_id(s, old - 1)
    BY <1>2, <1>3, <1>4, <1>9, <1>10
  <1>13. m.has_tenant_data <=> any_tenant
    <2>1. m.has_tenant_data = any_tenant
      BY <1>0, Zenon DEF Sections
    <2> QED BY <2>1
  <1>14. n - 1 < m.num_docs /\ (n - 1) + 1 = n
    BY <1>2
  <1>15. CASE any_tenant
    <2>1. tp_segment_get_tenant_id(m, n - 1) = m.tenant[n]
      BY <1>13, <1>14, <1>15 DEF tp_segment_get_tenant_id
    <2> QED BY <1>11, <1>12, <2>1
  <1>16. CASE ~any_tenant
    <2>1. tp_segment_get_tenant_id(m, n - 1) = 0
      BY <1>13, <1>16 DEF tp_segment_get_tenant_id
    <2>2. ~r.has_tenant_data
      BY <1>f, <1>4, <1>16 DEF any_tenant
    <2>3. tp_segment_get_tenant_id(s, old - 1) = 0
      BY <1>9, <2>2 DEF tp_segment_get_tenant_id
    <2> QED BY <1>11, <2>1, <2>3
  <1> QED BY <1>15, <1>16

(* MergeConserves: in every state, the segment a merge is about to link conserves what the
   segments of the level held: every posting, the document frequencies, the frequencies for
   each tenant, and for each CTID the newest norm and tenant (tp_merge_level_segments). *)
THEOREM Conserves == Spec => []MergeConserves
  <1>1. MergeInv => MergeConserves
    <2> SUFFICES ASSUME MergeInv, pc = "link" PROVE MergeConserves
      BY DEF MergeConserves, PostingsConserved, DocFreqKept, NewestLengthWins
    <2>1. Finished /\ merged = write_merged_segment
      BY DEF Finished, MergeInv, MergedInv
    <2>2. PICK m : m = merged
      OBVIOUS
    <2>3. PostingsConserved
      BY <2>1, PostingsKept DEF PostingsConserved
    <2>4. DocFreqKept
      BY <2>1, DocFreqsKept, TenantFreqsKept DEF DocFreqKept
    <2>5. NewestLengthWins
      <3>1. \A n \in DOMAIN merged.ctid : NewestOK(merged, n)
        BY <2>1, NewestKept
      <3> QED BY <3>1 DEF NewestLengthWins, NewestOK
    <2> QED BY <2>3, <2>4, <2>5 DEF MergeConserves
  <1> QED BY <1>1, MergeInvHolds, PTL

-----------------------------------------------------------------------------
(* Merging and writing the union *)

(* No CTID is held twice: entry n of the map is document j of segment i. *)
DocAt(n, i, j) ==
    /\ n \in 1 .. Len(docmap.docs) /\ i \in 1 .. opened /\ j \in 1 .. chain[i].num_docs
    /\ docmap.docs[n].ctid = chain[i].ctid[j]

(* Without reused CTIDs a CTID is in one source, in one place. *)
LEMMA OneHolder ==
    ASSUME Finished, NoReusedCtid,
           NEW i \in 1 .. opened, NEW j \in 1 .. chain[i].num_docs,
           NEW h \in 1 .. opened, NEW k \in 1 .. chain[h].num_docs, chain[i].ctid[j] = chain[h].ctid[k]
    PROVE  i = h /\ j = k
  <1>0. DOMAIN chain = 1 .. opened /\ Readable(chain[i]) /\ Readable(chain[h])
    BY FinishedFacts
  <1>1. PICK r, s : r = chain[i] /\ s = chain[h]
    OBVIOUS
  <1>2. /\ r.ctid \in [1 .. r.num_docs -> Nat] /\ IsInjective(r.ctid)
        /\ Range(r.ctid) = {r.ctid[x] : x \in 1 .. r.num_docs}
    <2>1. Readable(r)
      BY <1>0, <1>1
    <2> QED BY <2>1, SourceParts
  <1>3. Range(s.ctid) = {s.ctid[x] : x \in 1 .. s.num_docs}
    <2>1. Readable(s)
      BY <1>0, <1>1
    <2> QED BY <2>1, SourceParts
  <1>4. i = h
    <2>1. chain[i].ctid[j] \in Range(chain[i].ctid) \cap Range(chain[h].ctid)
      BY <1>1, <1>2, <1>3
    <2> QED BY <1>0, <2>1 DEF NoReusedCtid
  <1>5. j = k
    BY <1>1, <1>2, <1>4 DEF IsInjective
  <1> QED BY <1>4, <1>5

(* What the entry says of the document. *)
LEMMA DocAtFacts ==
    ASSUME Finished, NoReusedCtid, NEW n, NEW i, NEW j, DocAt(n, i, j)
    PROVE  /\ docmap.docs[n].tenant = tp_segment_get_tenant_id(chain[i], j - 1)
           /\ docmap.docs[n].len = decode_fieldnorm(chain[i].norm[j])
           /\ docmap.norm[n] = chain[i].norm[j]
           /\ docmap.docs[n].ctid \in Nat /\ docmap.docs[n].tenant \in Nat
  <1>0. /\ Feed(sources, opened) /\ MapOK(docmap, sources, opened, tp_docmap_add(sources))
        /\ \A x \in 1 .. opened : sources[x].reader = chain[x]
    BY FinishedFacts
  <1>1. PICK map, srcs, op : map = docmap /\ srcs = sources /\ op = opened
    OBVIOUS
  <1>2. Feed(srcs, op) /\ MapOK(map, srcs, op, tp_docmap_add(srcs))
    BY <1>0, <1>1
  <1>3. PICK k \in 1 .. Len(map.docs) : k = n
    BY <1>1 DEF DocAt
  <1>4. PICK h \in 1 .. op : \E l \in 1 .. srcs[h].reader.num_docs :
             /\ map.docs[k] = docmap_entry(srcs[h].reader, l)
             /\ map.docs[k].ctid = srcs[h].reader.ctid[l]
             /\ map.docs[k].tenant = tp_segment_get_tenant_id(srcs[h].reader, l - 1)
             /\ map.norm[k] = srcs[h].reader.norm[l]
             /\ map.docs[k].ctid \in Nat /\ map.docs[k].tenant \in Nat
    BY <1>2, MapEntry
  <1>5. PICK s : s = chain[h] /\ s = srcs[h].reader
    BY <1>0, <1>1, <1>4
  <1>6. PICK l \in 1 .. s.num_docs :
             /\ map.docs[k] = docmap_entry(s, l)
             /\ map.docs[k].ctid = s.ctid[l]
             /\ map.docs[k].tenant = tp_segment_get_tenant_id(s, l - 1)
             /\ map.norm[k] = s.norm[l]
             /\ map.docs[k].ctid \in Nat /\ map.docs[k].tenant \in Nat
    BY <1>4, <1>5
  <1>7. i \in 1 .. opened /\ j \in 1 .. chain[i].num_docs /\ h \in 1 .. opened /\ l \in 1 .. chain[h].num_docs
        /\ chain[i].ctid[j] = chain[h].ctid[l]
    BY <1>1, <1>3, <1>4, <1>5, <1>6 DEF DocAt
  <1>8. i = h /\ j = l
    BY <1>7, OneHolder
  <1>9. map.docs[k].len = decode_fieldnorm(s.norm[l])
    BY <1>6 DEF docmap_entry
  <1> QED BY <1>1, <1>3, <1>5, <1>6, <1>8, <1>9

(* Entries and documents correspond one to one. *)
LEMMA DocAtOfEntry ==
    ASSUME Finished, NEW n \in 1 .. Len(docmap.docs)
    PROVE  \E i, j : DocAt(n, i, j)
  <1>0. /\ Feed(sources, opened) /\ MapOK(docmap, sources, opened, tp_docmap_add(sources))
        /\ \A x \in 1 .. opened : sources[x].reader = chain[x]
    BY FinishedFacts
  <1>1. PICK map, srcs, op : map = docmap /\ srcs = sources /\ op = opened
    OBVIOUS
  <1>2. Feed(srcs, op) /\ MapOK(map, srcs, op, tp_docmap_add(srcs))
    BY <1>0, <1>1
  <1>3. PICK k \in 1 .. Len(map.docs) : k = n
    BY <1>1
  <1>4. \E i \in 1 .. op : \E j \in 1 .. srcs[i].reader.num_docs : map.docs[k].ctid = srcs[i].reader.ctid[j]
    BY <1>2, MapEntry
  <1> QED BY <1>0, <1>1, <1>3, <1>4 DEF DocAt

(* Every document of a source has a new number. *)
LEMMA DocAtOfDoc ==
    ASSUME Finished, NEW i \in 1 .. opened, NEW j \in 1 .. chain[i].num_docs
    PROVE  \E n : DocAt(n, i, j)
  <1>0. /\ Feed(sources, opened) /\ MapOK(docmap, sources, opened, tp_docmap_add(sources))
        /\ \A x \in 1 .. opened : sources[x].reader = chain[x] /\ Readable(chain[x])
    BY FinishedFacts
  <1>1. PICK map, srcs, op : map = docmap /\ srcs = sources /\ op = opened
    OBVIOUS
  <1>2. Feed(srcs, op) /\ MapOK(map, srcs, op, tp_docmap_add(srcs)) /\ i \in 1 .. op /\ srcs[i].reader = chain[i]
    BY <1>0, <1>1
  <1>3. PICK num \in Nat : num = chain[i].num_docs
    BY <1>0 DEF Readable
  <1>4. PICK id \in 0 .. srcs[i].reader.num_docs - 1 : id + 1 = j
    <2>1. j - 1 \in 0 .. srcs[i].reader.num_docs - 1 /\ (j - 1) + 1 = j
      BY <1>2, <1>3
    <2> QED BY <2>1
  <1>5. PICK a, x : a \in 1 .. op /\ a = i /\ x = id
    BY <1>2
  <1>6. x \in 0 .. srcs[a].reader.num_docs - 1
    BY <1>4, <1>5
  <1>7. /\ old_to_new(map, srcs, a, x) \in 0 .. Len(map.docs) - 1
        /\ map.docs[old_to_new(map, srcs, a, x) + 1].ctid = srcs[a].reader.ctid[x + 1]
    BY <1>2, <1>5, <1>6, Renumbered
  <1>8. PICK new : new = old_to_new(map, srcs, a, x)
    OBVIOUS
  <1>9. Len(docmap.docs) \in Nat
    BY <1>0 DEF MapOK
  <1>10. new + 1 \in 1 .. Len(docmap.docs) /\ docmap.docs[new + 1].ctid = chain[i].ctid[j]
    BY <1>1, <1>2, <1>4, <1>5, <1>7, <1>8, <1>9
  <1>11. DocAt(new + 1, i, j)
    BY <1>10 DEF DocAt
  <1> QED BY <1>11

(* ... and only one. *)
LEMMA DocAtOne ==
    ASSUME Finished, NEW m, NEW n, NEW i, NEW j, DocAt(m, i, j), DocAt(n, i, j)
    PROVE  m = n
  <1>1. MapOK(docmap, sources, opened, tp_docmap_add(sources))
    BY FinishedFacts
  <1> QED BY <1>1 DEF DocAt, MapOK

(* The documents of the sources, with their frequencies. *)
Union == StoredDocs({sources[i].reader : i \in DOMAIN sources})

(* The documents of all sources together. *)
LEMMA UnionDocs ==
    ASSUME Finished
    PROVE  \A d : d \in Union <=> \E i \in 1 .. opened : \E j \in 1 .. chain[i].num_docs : d = StoredDoc(chain[i], j)
  <1>1. DOMAIN sources = 1 .. opened /\ \A i \in 1 .. opened : sources[i].reader = chain[i]
    BY FinishedFacts
  <1> QED BY <1>1 DEF Union, StoredDocs

(* In the order of the map. *)
UnionOrder == [n \in 1 .. Len(docmap.docs) |-> CHOOSE d \in Union : d.ctid = docmap.docs[n].ctid]

(* The document with a number of the merged map, as the writer would be given it. *)
LEMMA UnionAt ==
    ASSUME Finished, NoReusedCtid, NEW n, NEW i, NEW j, DocAt(n, i, j)
    PROVE  /\ UnionOrder[n] = StoredDoc(chain[i], j) /\ UnionOrder[n] \in Union
           /\ UnionOrder[n].ctid = docmap.docs[n].ctid /\ UnionOrder[n].tenant = docmap.docs[n].tenant
           /\ UnionOrder[n].len = docmap.docs[n].len
  <1>0. PICK e, c : e = StoredDoc(chain[i], j) /\ c = docmap.docs[n].ctid
    OBVIOUS
  <1>1. /\ n \in 1 .. Len(docmap.docs) /\ i \in 1 .. opened /\ j \in 1 .. chain[i].num_docs
        /\ c = chain[i].ctid[j]
    BY <1>0 DEF DocAt
  <1>2. e \in Union
    BY <1>0, <1>1, UnionDocs
  <1>3. e.ctid = chain[i].ctid[j] /\ e.tenant = tp_segment_get_tenant_id(chain[i], j - 1)
        /\ e.len = decode_fieldnorm(chain[i].norm[j])
    BY <1>0 DEF StoredDoc
  <1>4. ASSUME NEW d \in Union, d.ctid = c PROVE d = e
    <2>1. PICK h \in 1 .. opened : \E k \in 1 .. chain[h].num_docs : d = StoredDoc(chain[h], k)
      BY UnionDocs
    <2>2. PICK k \in 1 .. chain[h].num_docs : d = StoredDoc(chain[h], k)
      BY <2>1
    <2>3. d.ctid = chain[h].ctid[k]
      BY <2>2 DEF StoredDoc
    <2>4. i = h /\ j = k
      BY <1>1, <1>4, <2>3, OneHolder
    <2> QED BY <1>0, <2>2, <2>4
  <1>5. UnionOrder[n] = CHOOSE d \in Union : d.ctid = c
    BY <1>0, <1>1 DEF UnionOrder
  <1>6. UnionOrder[n] = e
    <2> DEFINE P(d) == d.ctid = c
    <2>1. \E d \in Union : P(d)
      BY <1>1, <1>2, <1>3
    <2>2. UnionOrder[n] = CHOOSE d \in Union : P(d)
      BY <1>5
    <2>3. UnionOrder[n] \in Union /\ P(UnionOrder[n])
      <3> HIDE DEF P
      <3> QED BY <2>1, <2>2
    <2> QED BY <1>4, <2>3
  <1>7. /\ docmap.docs[n].tenant = tp_segment_get_tenant_id(chain[i], j - 1)
        /\ docmap.docs[n].len = decode_fieldnorm(chain[i].norm[j])
    BY DocAtFacts
  <1> QED BY <1>0, <1>1, <1>2, <1>3, <1>6, <1>7

(* The union is listed by the map's order, tenants and all. *)
UnionOK(D, order, num) ==
    /\ num = Len(docmap.docs) /\ num \in Nat /\ order \in [1 .. num -> D] /\ Keyed(D) /\ Cardinality(D) = num
    /\ \A n \in 1 .. num : /\ order[n].ctid = docmap.docs[n].ctid /\ order[n].tenant = docmap.docs[n].tenant
                           /\ order[n].len = docmap.docs[n].len
    /\ \A d \in D : \E n \in 1 .. num : order[n] = d

(* The merged map lists the documents of all sources. *)
LEMMA UnionListed ==
    ASSUME Finished, NoReusedCtid, NEW D, D = Union, NEW order, order = UnionOrder, NEW num, num = Len(docmap.docs)
    PROVE  UnionOK(D, order, num)
  <1>0. MapOK(docmap, sources, opened, tp_docmap_add(sources))
    BY FinishedFacts
  <1>1. num \in Nat /\ \A a, b \in 1 .. num : docmap.docs[a].ctid = docmap.docs[b].ctid => a = b
    BY <1>0 DEF MapOK
  <1>2. ASSUME NEW n \in 1 .. num
        PROVE  /\ order[n] \in D /\ order[n].ctid = docmap.docs[n].ctid /\ order[n].tenant = docmap.docs[n].tenant
               /\ order[n].len = docmap.docs[n].len /\ docmap.docs[n].ctid \in Nat /\ docmap.docs[n].tenant \in Nat
    <2>1. PICK i, j : DocAt(n, i, j)
      BY DocAtOfEntry
    <2>2. /\ UnionOrder[n] \in Union
          /\ UnionOrder[n].ctid = docmap.docs[n].ctid /\ UnionOrder[n].tenant = docmap.docs[n].tenant
          /\ UnionOrder[n].len = docmap.docs[n].len
      BY <2>1, UnionAt
    <2>3. docmap.docs[n].ctid \in Nat /\ docmap.docs[n].tenant \in Nat
      BY <2>1, DocAtFacts
    <2> QED BY <2>2, <2>3
  <1>3. order \in [1 .. num -> D]
    <2>1. order = [n \in 1 .. num |-> order[n]]
      BY DEF UnionOrder
    <2> QED BY <1>2, <2>1
  <1>4. ASSUME NEW d \in D PROVE \E n \in 1 .. num : order[n] = d
    <2>1. PICK i \in 1 .. opened : \E j \in 1 .. chain[i].num_docs : d = StoredDoc(chain[i], j)
      BY UnionDocs
    <2>2. PICK j \in 1 .. chain[i].num_docs : d = StoredDoc(chain[i], j)
      BY <2>1
    <2>3. PICK n : DocAt(n, i, j)
      BY DocAtOfDoc
    <2>4. UnionOrder[n] = StoredDoc(chain[i], j)
      BY <2>3, UnionAt
    <2>5. n \in 1 .. num
      BY <2>3 DEF DocAt
    <2> QED BY <2>2, <2>4, <2>5
  <1>5. \A a, b \in 1 .. num : order[a] = order[b] => a = b
    BY <1>1, <1>2
  <1>6. IsFiniteSet(D) /\ Cardinality(D) = num
    <2>1. PICK A : A = 1 .. num
      OBVIOUS
    <2>2. IsFiniteSet(A) /\ Cardinality(A) = num
      BY <1>1, <2>1, IntervalCard
    <2>3. /\ order \in [A -> D] /\ (\A a, b \in A : order[a] = order[b] => a = b)
          /\ \A d \in D : \E n \in A : order[n] = d
      BY <1>3, <1>4, <1>5, <2>1
    <2>4. IsFiniteSet(D) /\ Cardinality(D) = Cardinality(A)
      BY <2>2, <2>3, OntoCard
    <2> QED BY <2>2, <2>4
  <1>7. \A d \in D : d.ctid \in Nat /\ d.tenant \in Nat
    BY <1>2, <1>4
  <1>8. ASSUME NEW d \in D, NEW e \in D, d.ctid = e.ctid PROVE d = e
    <2>1. PICK a \in 1 .. num, b \in 1 .. num : order[a] = d /\ order[b] = e
      BY <1>4
    <2>2. a = b
      BY <1>1, <1>2, <1>8, <2>1
    <2> QED BY <2>1, <2>2
  <1> QED BY <1>1, <1>2, <1>3, <1>4, <1>6, <1>7, <1>8 DEF UnionOK, Keyed

(* doc_order gives the union the order of the map. *)
LEMMA UnionSorted ==
    ASSUME Finished, NoReusedCtid
    PROVE  doc_order(Union) = UnionOrder /\ (has_tenants(Union) <=> has_tenants(tp_docmap_add(sources)))
  <1>1. PICK D, order, num, E : /\ D = Union /\ order = UnionOrder /\ num = Len(docmap.docs) /\ E = tp_docmap_add(sources)
    OBVIOUS
  <1>2. UnionOK(D, order, num)
    BY <1>1, UnionListed
  <1>3. MapOK(docmap, sources, opened, E)
    BY <1>1, FinishedFacts
  <1>4. /\ num \in Nat /\ docmap.docs \in [1 .. num -> E] /\ (\A d \in E : \E n \in 1 .. num : docmap.docs[n] = d)
        /\ \A a, b \in 1 .. num : a < b => <<docmap.docs[a], docmap.docs[b]>> \in DocRel(E)
    BY <1>1, <1>3 DEF MapOK
  <1>5. /\ order \in [1 .. num -> D] /\ Keyed(D) /\ Cardinality(D) = num
        /\ \A n \in 1 .. num : order[n].ctid = docmap.docs[n].ctid /\ order[n].tenant = docmap.docs[n].tenant
        /\ \A d \in D : \E n \in 1 .. num : order[n] = d
    BY <1>2 DEF UnionOK
  <1>6. has_tenants(D) <=> has_tenants(E)
    <2>1. has_tenants(D) <=> \E n \in 1 .. num : order[n].tenant # 0
      BY <1>5 DEF has_tenants
    <2>2. has_tenants(E) <=> \E n \in 1 .. num : docmap.docs[n].tenant # 0
      BY <1>4 DEF has_tenants
    <2> QED BY <1>5, <2>1, <2>2
  <1>7. ASSUME NEW a \in 1 .. num, NEW b \in 1 .. num, a < b PROVE <<order[a], order[b]>> \in DocRel(D)
    <2>1. PICK x, y : x = docmap.docs[a] /\ y = docmap.docs[b] /\ x \in E /\ y \in E
      BY <1>4
    <2>2. PICK v, w : v = order[a] /\ w = order[b] /\ v \in D /\ w \in D
      BY <1>5
    <2>3. v.ctid = x.ctid /\ v.tenant = x.tenant /\ w.ctid = y.ctid /\ w.tenant = y.tenant
      BY <1>5, <2>1, <2>2
    <2>4. DocBefore(has_tenants(E), x, y)
      <3>1. <<x, y>> \in DocRel(E)
        BY <1>4, <1>7, <2>1
      <3> QED BY <2>1, <3>1, DocRelIs
    <2>5. DocBefore(has_tenants(D), v, w)
      <3>1. CASE has_tenants(E)
        BY <1>6, <2>3, <2>4, <3>1 DEF DocBefore, docmap_entry_cmp_by_tenant_then_ctid
      <3>2. CASE ~has_tenants(E)
        BY <1>6, <2>3, <2>4, <3>2 DEF DocBefore, docmap_entry_cmp_by_ctid
      <3> QED BY <3>1, <3>2
    <2>6. <<v, w>> \in DocRel(D)
      BY <2>2, <2>5, DocRelIs
    <2> QED BY <2>2, <2>6
  <1>8. PICK rel, seq : rel = DocRel(D) /\ seq = doc_order(D)
    OBVIOUS
  <1>9. IsFiniteSet(D) /\ Orders(rel, D) /\ Lists(seq, D, rel)
    BY <1>5, <1>8, DocRelOrders, DocOrderLists DEF Keyed
  <1>10. order \in [1 .. Cardinality(D) -> D] /\ \A a, b \in 1 .. Cardinality(D) : a < b => <<order[a], order[b]>> \in rel
    BY <1>5, <1>7, <1>8
  <1>11. order = seq
    BY <1>9, <1>10, ListingUnique
  <1> QED BY <1>1, <1>6, <1>8, <1>11

(* The one posting of a document gives its frequency. *)
LEMMA FrequencyRead ==
    ASSUME NEW s, OneRowEach(s), NEW t, has_term(s, t), NEW k \in DOMAIN s.post[t], NEW j,
           s.post[t][k].doc = j - 1
    PROVE  StoredFrequency(s, t, j) = s.post[t][k].frequency
  <1>1. PICK L : L = s.post[t]
    OBVIOUS
  <1>2. k \in {n \in DOMAIN L : L[n].doc = j - 1}
    BY <1>1
  <1>3. PICK o : o = CHOOSE n \in DOMAIN L : L[n].doc = j - 1
    OBVIOUS
  <1>4. o \in DOMAIN L /\ L[o].doc = j - 1
    BY <1>2, <1>3
  <1>5. \A m, n \in DOMAIN L : m # n => L[m].doc # L[n].doc
    BY <1>1 DEF OneRowEach, has_term
  <1>6. o = k
    BY <1>2, <1>4, <1>5
  <1>7. StoredFrequency(s, t, j) = L[o].frequency
    BY <1>1, <1>2, <1>3 DEF StoredFrequency
  <1> QED BY <1>1, <1>6, <1>7

(* A document with a frequency has a posting. *)
LEMMA FrequencyFound ==
    ASSUME NEW s, NEW t, NEW j, StoredFrequency(s, t, j) > 0
    PROVE  has_term(s, t) /\ \E k \in DOMAIN s.post[t] : s.post[t][k].doc = j - 1
  <1> SUFFICES ASSUME ~has_term(s, t) \/ {n \in DOMAIN s.post[t] : s.post[t][n].doc = j - 1} = {} PROVE FALSE
    OBVIOUS
  <1>1. StoredFrequency(s, t, j) = 0
    BY DEF StoredFrequency
  <1> QED BY <1>1

(* What is written for a place is what is written for its document. *)
EntryAt(t, n, i, j, w) ==
    /\ DocAt(n, i, j) /\ w.doc = n - 1 /\ n \in Nat
    /\ UnionOrder[n].tf[t] = w.frequency /\ w.frequency \in Nat \ {0} /\ docmap.norm[n] = w.norm
    /\ w = BlockPosting(n - 1, UnionOrder[n].tf[t], docmap.norm[n])

(* A written posting is the posting tp_write_segment makes for its document. *)
LEMMA PlaceEntry ==
    ASSUME Finished, NoReusedCtid, NEW t \in Term, NEW p \in Places(chain, t),
           NEW w, w = WrittenAt(docmap, sources, chain, t, p)
    PROVE  EntryAt(t, w.doc + 1, p[1], PostingAt(chain, t, p).doc + 1, w)
  <1>1. PICK i, bp, n, j : i = p[1] /\ bp = PostingAt(chain, t, p) /\ n = w.doc + 1 /\ j = bp.doc + 1
    OBVIOUS
  <1>2. PlaceOK(t, p, i, bp, w)
    BY <1>1, PlaceWritten
  <1>3. /\ i \in 1 .. opened /\ has_term(chain[i], t) /\ Readable(chain[i])
        /\ p[2] \in 1 .. Len(chain[i].post[t]) /\ bp = chain[i].post[t][p[2]]
        /\ chain[i].num_docs \in Nat /\ bp.doc \in 0 .. chain[i].num_docs - 1
        /\ bp.frequency \in Nat \ {0}
        /\ Len(docmap.docs) \in Nat /\ w.doc \in 0 .. Len(docmap.docs) - 1
        /\ w.frequency = bp.frequency /\ w.norm = bp.norm
        /\ w = [doc |-> w.doc, frequency |-> bp.frequency, norm |-> bp.norm]
        /\ docmap.docs[w.doc + 1].ctid = chain[i].ctid[bp.doc + 1]
    BY <1>2 DEF PlaceOK
  <1>4. /\ n \in 1 .. Len(docmap.docs) /\ j \in 1 .. chain[i].num_docs /\ n \in Nat /\ w.doc = n - 1 /\ bp.doc = j - 1
    <2>1. PICK num \in Nat, docs \in Nat : num = chain[i].num_docs /\ docs = Len(docmap.docs)
      BY <1>3
    <2>2. PICK a, b : a = w.doc /\ b = bp.doc
      OBVIOUS
    <2>3. a \in 0 .. docs - 1 /\ b \in 0 .. num - 1
      BY <1>3, <2>1, <2>2
    <2>4. a + 1 \in 1 .. docs /\ b + 1 \in 1 .. num /\ a + 1 \in Nat /\ a = (a + 1) - 1 /\ b = (b + 1) - 1
      BY <2>3
    <2> QED BY <1>1, <2>1, <2>2, <2>4
  <1>5. DocAt(n, i, j)
    BY <1>1, <1>3, <1>4 DEF DocAt
  <1>6. UnionOrder[n] = StoredDoc(chain[i], j) /\ docmap.norm[n] = chain[i].norm[j]
    BY <1>5, UnionAt, DocAtFacts
  <1>7. p[2] \in DOMAIN chain[i].post[t]
    <2>1. ListIn(chain[i].post[t], chain[i], t)
      BY <1>3, ListRead
    <2> QED BY <1>3, <2>1, ListParts
  <1>8. OneRowEach(chain[i])
    <2>1. DOMAIN chain = 1 .. opened
      BY FinishedFacts
    <2> QED BY <1>3, <2>1 DEF NoReusedCtid
  <1>9. StoredFrequency(chain[i], t, j) = bp.frequency
    <2>0. PICK s : s = chain[i]
      OBVIOUS
    <2>1. PICK k \in DOMAIN s.post[t] : k = p[2]
      BY <1>7, <2>0
    <2>2. s.post[t][k].doc = j - 1 /\ s.post[t][k] = bp /\ OneRowEach(s) /\ has_term(s, t)
      BY <1>3, <1>4, <1>8, <2>0, <2>1
    <2>3. StoredFrequency(s, t, j) = s.post[t][k].frequency
      BY <2>2, FrequencyRead
    <2> QED BY <2>0, <2>2, <2>3
  <1>10. StoredDoc(chain[i], j).tf[t] = bp.frequency
    BY <1>9 DEF StoredDoc
  <1>11. bp.norm = chain[i].norm[j]
    <2>1. PICK s, L : s = chain[i] /\ L = chain[i].post[t]
      OBVIOUS
    <2>2. t \in DOMAIN s.post /\ p[2] \in DOMAIN L /\ L = s.post[t] /\ bp = L[p[2]]
      BY <1>3, <1>7, <2>1 DEF has_term
    <2>3. OneRowEach(s)
      BY <1>8, <2>1
    <2>4. \A n2 \in DOMAIN L : L[n2].norm = s.norm[L[n2].doc + 1]
      BY <2>2, <2>3 DEF OneRowEach
    <2>5. bp.norm = s.norm[bp.doc + 1]
      BY <2>2, <2>4
    <2> QED BY <1>1, <2>1, <2>5
  <1>12. w = BlockPosting(n - 1, UnionOrder[n].tf[t], docmap.norm[n])
    BY <1>3, <1>4, <1>6, <1>10, <1>11 DEF BlockPosting
  <1>13. EntryAt(t, n, i, j, w)
    BY <1>3, <1>4, <1>5, <1>6, <1>10, <1>11, <1>12 DEF EntryAt
  <1> QED BY <1>1, <1>13

(* A document in which the term occurs has a place. *)
LEMMA PlaceOfDoc ==
    ASSUME Finished, NoReusedCtid, NEW t \in Term, NEW n \in 1 .. Len(docmap.docs), UnionOrder[n].tf[t] > 0
    PROVE  \E p \in Places(chain, t) : WrittenAt(docmap, sources, chain, t, p)
                                         = BlockPosting(n - 1, UnionOrder[n].tf[t], docmap.norm[n])
  <1>0. DOMAIN chain = 1 .. opened /\ ChainOK(chain)
    BY FinishedFacts
  <1>1. PICK i, j : DocAt(n, i, j)
    BY DocAtOfEntry
  <1>2. UnionOrder[n] = StoredDoc(chain[i], j) /\ i \in 1 .. opened /\ j \in 1 .. chain[i].num_docs
    <2>1. UnionOrder[n] = StoredDoc(chain[i], j)
      BY <1>1, UnionAt
    <2> QED BY <1>1, <2>1 DEF DocAt
  <1>3. StoredFrequency(chain[i], t, j) > 0
    BY <1>2 DEF StoredDoc
  <1>4. has_term(chain[i], t) /\ \E k \in DOMAIN chain[i].post[t] : chain[i].post[t][k].doc = j - 1
    BY <1>3, FrequencyFound
  <1>5. PICK k \in DOMAIN chain[i].post[t] : chain[i].post[t][k].doc = j - 1
    BY <1>4
  <1>6. PICK p : p = <<i, k>>
    OBVIOUS
  <1>7. p \in Places(chain, t) /\ p[1] = i /\ p[2] = k
    <2>1. i \in HoldersOf(chain, t)
      BY <1>0, <1>2, <1>4 DEF HoldersOf
    <2>2. ListIn(chain[i].post[t], chain[i], t)
      <3>1. Readable(chain[i])
        BY <1>0, <1>2 DEF ChainOK
      <3> QED BY <1>4, <3>1, ListRead
    <2>3. k \in 1 .. Len(chain[i].post[t])
      BY <1>5, <2>2, ListParts
    <2> QED BY <1>0, <1>6, <2>1, <2>3, PlaceParts
  <1>8. PICK w, bp : w = WrittenAt(docmap, sources, chain, t, p) /\ bp = PostingAt(chain, t, p)
    OBVIOUS
  <1>9. EntryAt(t, w.doc + 1, i, bp.doc + 1, w)
    BY <1>7, <1>8, PlaceEntry
  <1>10. bp = chain[i].post[t][k]
    BY <1>7, <1>8 DEF PostingAt, ListOf
  <1>11. bp.doc + 1 = j
    <2>1. PICK num \in Nat : num = chain[i].num_docs
      BY <1>0, <1>2 DEF ChainOK, Readable
    <2>2. j \in Int
      BY <1>2, <2>1
    <2> QED BY <1>5, <1>10, <2>2
  <1>12. DocAt(w.doc + 1, i, j)
    BY <1>9, <1>11 DEF EntryAt
  <1>13. w.doc + 1 = n
    BY <1>1, <1>12, DocAtOne
  <1>14. w = BlockPosting(n - 1, UnionOrder[n].tf[t], docmap.norm[n])
    BY <1>9, <1>13 DEF EntryAt
  <1> QED BY <1>7, <1>8, <1>14

(* Two places of a list are of different documents. *)
LEMMA PlacesApart ==
    ASSUME Finished, NoReusedCtid, NEW t \in Term, NEW p \in Places(chain, t), NEW q \in Places(chain, t),
           WrittenAt(docmap, sources, chain, t, p).doc = WrittenAt(docmap, sources, chain, t, q).doc
    PROVE  p = q
  <1>1. PICK v, w, b, c : /\ v = WrittenAt(docmap, sources, chain, t, p) /\ w = WrittenAt(docmap, sources, chain, t, q)
                          /\ b = PostingAt(chain, t, p) /\ c = PostingAt(chain, t, q)
    OBVIOUS
  <1>2. EntryAt(t, v.doc + 1, p[1], b.doc + 1, v) /\ EntryAt(t, w.doc + 1, q[1], c.doc + 1, w)
    BY <1>1, PlaceEntry
  <1>3. v.doc = w.doc
    BY <1>1
  <1>4. DocAt(v.doc + 1, p[1], b.doc + 1) /\ DocAt(v.doc + 1, q[1], c.doc + 1)
    BY <1>2, <1>3 DEF EntryAt
  <1>5. /\ p[1] \in 1 .. opened /\ b.doc + 1 \in 1 .. chain[p[1]].num_docs
        /\ q[1] \in 1 .. opened /\ c.doc + 1 \in 1 .. chain[q[1]].num_docs
        /\ chain[p[1]].ctid[b.doc + 1] = chain[q[1]].ctid[c.doc + 1]
    BY <1>4 DEF DocAt
  <1>6. p[1] = q[1] /\ b.doc + 1 = c.doc + 1
    BY <1>5, OneHolder
  <1>7. PlaceOK(t, p, p[1], b, v) /\ PlaceOK(t, q, q[1], c, w)
    BY <1>1, PlaceWritten
  <1>8. PICK s, L : s = chain[p[1]] /\ L = chain[p[1]].post[t]
    OBVIOUS
  <1>9. /\ b = L[p[2]] /\ c = L[q[2]] /\ has_term(s, t) /\ Readable(s)
        /\ p[2] \in 1 .. Len(L) /\ q[2] \in 1 .. Len(L) /\ p = <<p[1], p[2]>> /\ q = <<q[1], q[2]>>
        /\ b.doc \in 0 .. s.num_docs - 1 /\ c.doc \in 0 .. s.num_docs - 1 /\ s.num_docs \in Nat
    BY <1>6, <1>7, <1>8 DEF PlaceOK
  <1>10. b.doc = c.doc
    BY <1>6, <1>9
  <1>11. OneRowEach(s)
    <2>1. DOMAIN chain = 1 .. opened
      BY FinishedFacts
    <2> QED BY <1>5, <1>8, <2>1 DEF NoReusedCtid
  <1>12. DOMAIN L = 1 .. Len(L)
    <2>1. ListIn(L, s, t)
      BY <1>8, <1>9, ListRead
    <2> QED BY <2>1, ListParts
  <1>13. \A m, n \in DOMAIN L : m # n => L[m].doc # L[n].doc
    BY <1>8, <1>9, <1>11 DEF OneRowEach, has_term
  <1>14. p[2] = q[2]
    BY <1>9, <1>10, <1>12, <1>13
  <1> QED BY <1>6, <1>9, <1>14

(* The order of the postings of a list. *)
DocIdRel(E) == {p \in E \X E : p[1].doc < p[2].doc}

(* Sorting postings by document id lists them along that order. *)
LEMMA DocIdLists ==
    ASSUME NEW E, NEW out, out = Sorted(E, cmp_block_posting_by_doc_id)
    PROVE  Lists(out, E, DocIdRel(E))
  <1>r. \A x, y \in E : <<x, y>> \in DocIdRel(E) <=> x.doc < y.doc
    BY DEF DocIdRel
  <1>2. \A x \in E : Below(E, DocIdRel(E), x) = {y \in E : y.doc < x.doc}
    BY <1>r DEF Below
  <1>3. out = [n \in 1 .. Cardinality(E) |-> CHOOSE x \in E : Cardinality({y \in E : y.doc < x.doc}) = n - 1]
    BY DEF Sorted, cmp_block_posting_by_doc_id
  <1>5. out = [n \in 1 .. Cardinality(E) |-> out[n]]
    BY <1>3
  <1>6. ASSUME NEW n \in 1 .. Cardinality(E), \E x \in E : Cardinality(Below(E, DocIdRel(E), x)) = n - 1
        PROVE  out[n] \in E /\ Cardinality(Below(E, DocIdRel(E), out[n])) = n - 1
    <2> DEFINE P(x) == Cardinality({y \in E : y.doc < x.doc}) = n - 1
    <2>1. out[n] = CHOOSE x \in E : P(x)
      BY <1>3
    <2>2. \E x \in E : P(x)
      BY <1>2, <1>6
    <2>3. out[n] \in E /\ P(out[n])
      <3> HIDE DEF P
      <3> QED BY <2>1, <2>2
    <2> QED BY <1>2, <2>3
  <1> QED BY <1>5, <1>6 DEF Lists

(* A list in the order of its doc ids. *)
Ascends(L, c, E) ==
    /\ c \in Nat /\ L \in [1 .. c -> E] /\ \A d \in E : d.doc \in Nat
    /\ \A a, b \in 1 .. c : a < b => L[a].doc < L[b].doc
    /\ \A d \in E : \E n \in 1 .. c : L[n] = d

(* An ascending sequence of all the postings is what sorting them gives. *)
LEMMA AscendingIsSorted ==
    ASSUME NEW E, NEW c, NEW L, Ascends(L, c, E)
    PROVE  L = Sorted(E, cmp_block_posting_by_doc_id)
  <1>1. /\ c \in Nat /\ L \in [1 .. c -> E] /\ \A d \in E : d.doc \in Nat
        /\ \A a, b \in 1 .. c : a < b => L[a].doc < L[b].doc
        /\ \A d \in E : \E n \in 1 .. c : L[n] = d
    BY DEF Ascends
  <1>2. IsFiniteSet(E) /\ Cardinality(E) = c
    <2>1. PICK A : A = 1 .. c
      OBVIOUS
    <2>2. IsFiniteSet(A) /\ Cardinality(A) = c
      BY <1>1, <2>1, IntervalCard
    <2>3. \A a, b \in 1 .. c : L[a] = L[b] => a = b
      <3> SUFFICES ASSUME NEW a \in 1 .. c, NEW b \in 1 .. c, L[a] = L[b], a # b PROVE FALSE
        OBVIOUS
      <3>1. L[a].doc \in Nat /\ L[b].doc \in Nat /\ L[a].doc = L[b].doc
        BY <1>1
      <3>2. a < b \/ b < a
        BY <1>1
      <3> QED BY <1>1, <3>1, <3>2
    <2>4. /\ L \in [A -> E] /\ (\A a, b \in A : L[a] = L[b] => a = b) /\ \A d \in E : \E n \in A : L[n] = d
      BY <1>1, <2>1, <2>3
    <2>5. IsFiniteSet(E) /\ Cardinality(E) = Cardinality(A)
      BY <2>2, <2>4, OntoCard
    <2> QED BY <2>2, <2>5
  <1>3. PICK rel : rel = DocIdRel(E)
    OBVIOUS
  <1>r. \A x, y \in E : <<x, y>> \in rel <=> x.doc < y.doc
    BY <1>3 DEF DocIdRel
  <1>4. Orders(rel, E)
    <2>1. ASSUME NEW x \in E PROVE <<x, x>> \notin rel
      BY <1>1, <1>r
    <2>2. ASSUME NEW x \in E, NEW y \in E, NEW z \in E, <<x, y>> \in rel, <<y, z>> \in rel PROVE <<x, z>> \in rel
      <3>1. x.doc < y.doc /\ y.doc < z.doc /\ x.doc \in Nat /\ y.doc \in Nat /\ z.doc \in Nat
        BY <1>1, <1>r, <2>2
      <3>2. x.doc < z.doc
        BY <3>1
      <3> QED BY <1>r, <3>2
    <2>3. ASSUME NEW x \in E, NEW y \in E, x # y PROVE <<x, y>> \in rel \/ <<y, x>> \in rel
      <3>1. PICK a \in 1 .. c, b \in 1 .. c : L[a] = x /\ L[b] = y
        BY <1>1
      <3>2. a < b \/ b < a
        BY <1>1, <2>3, <3>1
      <3>3. x.doc < y.doc \/ y.doc < x.doc
        BY <1>1, <3>1, <3>2
      <3> QED BY <1>r, <3>3
    <2> QED BY <2>1, <2>2, <2>3 DEF Orders
  <1>5. PICK out : out = Sorted(E, cmp_block_posting_by_doc_id)
    OBVIOUS
  <1>6. Lists(out, E, rel)
    BY <1>3, <1>5, DocIdLists
  <1>7. L \in [1 .. Cardinality(E) -> E] /\ \A a, b \in 1 .. Cardinality(E) : a < b => <<L[a], L[b]>> \in rel
    <2>1. ASSUME NEW a \in 1 .. c, NEW b \in 1 .. c, a < b PROVE <<L[a], L[b]>> \in rel
      <3>1. L[a] \in E /\ L[b] \in E /\ L[a].doc < L[b].doc
        BY <1>1, <2>1
      <3> QED BY <1>r, <3>1
    <2> QED BY <1>1, <1>2, <2>1
  <1>8. L = out
    BY <1>2, <1>4, <1>6, <1>7, ListingUnique
  <1> QED BY <1>5, <1>8

(* The documents in which a term occurs, by the union. *)
OccursIn(t) == {n \in DOMAIN UnionOrder : UnionOrder[n].tf[t] > 0}

(* A list of the merged segment is the list that is written for the union. *)
LEMMA MergedListSorted ==
    ASSUME Finished, NoReusedCtid, NEW t \in MergedTerms, NEW L, L = MergedLists[t]
    PROVE  L = Sorted(Entries(UnionOrder, docmap.norm, t), cmp_block_posting_by_doc_id) /\ OccursIn(t) # {}
  <1>0. /\ t \in Term /\ ListWritten(L, docmap, sources, chain, t) /\ Len(docmap.docs) \in Nat
    BY MergedTermsOK, FinishedFacts DEF MapOK
  <1>1. PICK E : E = Entries(UnionOrder, docmap.norm, t)
    OBVIOUS
  <1>2. PICK c \in Nat : c = Len(L) /\ DOMAIN L = 1 .. c
    BY <1>0 DEF ListWritten
  <1>3. PICK pl : /\ Pairing(pl, 1 .. c, Places(chain, t))
                  /\ \A n \in 1 .. c : L[n] = WrittenAt(docmap, sources, chain, t, pl[n])
    BY <1>0, <1>2 DEF ListWritten
  <1>4. \A a, b \in 1 .. c : a < b => ~(L[b].doc < L[a].doc)
    BY <1>0, <1>2 DEF ListWritten, cmp_block_posting_by_doc_id
  <1>5. PICK num \in Nat : num = Len(docmap.docs) /\ DOMAIN UnionOrder = 1 .. num
    BY <1>0 DEF UnionOrder
  <1>6. ASSUME NEW a \in 1 .. c
        PROVE  L[a] \in E /\ L[a].doc \in Nat /\ L[a].doc + 1 \in OccursIn(t)
    <2>1. PICK p \in Places(chain, t) : p = pl[a]
      BY <1>3 DEF Pairing
    <2>2. PICK w, bp : w = WrittenAt(docmap, sources, chain, t, p) /\ bp = PostingAt(chain, t, p)
      OBVIOUS
    <2>3. L[a] = w
      BY <1>3, <2>1, <2>2
    <2>4. EntryAt(t, w.doc + 1, p[1], bp.doc + 1, w)
      BY <1>0, <2>2, PlaceEntry
    <2>5. PICK n : n = w.doc + 1
      OBVIOUS
    <2>6. /\ DocAt(n, p[1], bp.doc + 1) /\ UnionOrder[n].tf[t] \in Nat \ {0} /\ w.doc = n - 1
          /\ w = BlockPosting(n - 1, UnionOrder[n].tf[t], docmap.norm[n])
      BY <2>4, <2>5 DEF EntryAt
    <2>7. n \in 1 .. num
      BY <1>5, <2>6 DEF DocAt
    <2>8. n \in OccursIn(t)
      BY <1>5, <2>6, <2>7 DEF OccursIn
    <2>9. w \in E
      BY <1>1, <2>6, <2>8 DEF Entries, OccursIn
    <2>10. w.doc \in Nat
      BY <2>6, <2>7
    <2> QED BY <2>3, <2>5, <2>8, <2>9, <2>10
  <1>7. ASSUME NEW d \in E PROVE \E a \in 1 .. c : L[a] = d
    <2>1. PICK n \in OccursIn(t) : d = BlockPosting(n - 1, UnionOrder[n].tf[t], docmap.norm[n])
      BY <1>1 DEF Entries, OccursIn
    <2>2. n \in 1 .. Len(docmap.docs) /\ UnionOrder[n].tf[t] > 0
      BY <1>5, <2>1 DEF OccursIn
    <2>3. PICK p \in Places(chain, t) : WrittenAt(docmap, sources, chain, t, p) = d
      BY <1>0, <2>1, <2>2, PlaceOfDoc
    <2>4. PICK a \in 1 .. c : pl[a] = p
      BY <1>3, <2>3 DEF Pairing
    <2> QED BY <1>3, <2>3, <2>4
  <1>8. ASSUME NEW a \in 1 .. c, NEW b \in 1 .. c, a < b PROVE L[a].doc < L[b].doc
    <2>1. L[a].doc # L[b].doc
      <3> SUFFICES ASSUME L[a].doc = L[b].doc PROVE FALSE
        OBVIOUS
      <3>1. PICK p \in Places(chain, t), q \in Places(chain, t) : p = pl[a] /\ q = pl[b]
        BY <1>3 DEF Pairing
      <3>2. WrittenAt(docmap, sources, chain, t, p).doc = WrittenAt(docmap, sources, chain, t, q).doc
        BY <1>3, <3>1
      <3>3. p = q
        BY <1>0, <3>2, PlacesApart
      <3>4. a = b
        BY <1>3, <3>1, <3>3 DEF Pairing
      <3> QED BY <1>8, <3>4
    <2>2. L[a].doc \in Nat /\ L[b].doc \in Nat /\ ~(L[b].doc < L[a].doc)
      BY <1>4, <1>6, <1>8
    <2> QED BY <2>1, <2>2
  <1>9. L \in [1 .. c -> E]
    <2>1. L = [n \in 1 .. c |-> L[n]]
      BY <1>0, <1>2 DEF ListWritten
    <2> QED BY <1>6, <2>1
  <1>10. \A d \in E : d.doc \in Nat
    BY <1>6, <1>7
  <1>11. Ascends(L, c, E)
    BY <1>7, <1>8, <1>9, <1>10 DEF Ascends
  <1>12. L = Sorted(E, cmp_block_posting_by_doc_id)
    BY <1>11, AscendingIsSorted
  <1>13. OccursIn(t) # {}
    <2>1. Len(L) \in Nat \ {0}
      BY MergedList
    <2>2. 1 \in 1 .. c
      BY <1>2, <2>1
    <2> QED BY <1>6, <2>2
  <1> QED BY <1>1, <1>12, <1>13

(* The terms are those of the union. *)
LEMMA MergedTermsWritten ==
    ASSUME Finished, NoReusedCtid
    PROVE  MergedTerms = {t \in Term : OccursIn(t) # {}}
  <1>1. ASSUME NEW t \in MergedTerms PROVE t \in Term /\ OccursIn(t) # {}
    BY MergedTermsOK, MergedListSorted
  <1>2. ASSUME NEW t \in Term, OccursIn(t) # {} PROVE t \in MergedTerms
    <2>1. PICK n \in OccursIn(t) : TRUE
      BY <1>2
    <2>2. n \in 1 .. Len(docmap.docs) /\ UnionOrder[n].tf[t] > 0
      BY <2>1 DEF OccursIn, UnionOrder
    <2>3. PICK p : p \in Places(chain, t)
      BY <2>2, PlaceOfDoc
    <2>4. HoldersOf(chain, t) # {}
      <3>1. ChainOK(chain)
        BY FinishedFacts
      <3> QED BY <2>3, <3>1, PlaceParts
    <2> QED BY <2>4, MergedTermsOK
  <1> QED BY <1>1, <1>2

(* Two ways through the same places count the same. *)
LEMMA SameCounts ==
    ASSUME NEW A, NEW B, NEW S, NEW f, NEW g, Pairing(f, A, S), Pairing(g, B, S), IsFiniteSet(A), IsFiniteSet(B),
           NEW v, NEW x, NEW y, \A a \in A : x[a] = v[f[a]], \A b \in B : y[b] = v[g[b]]
    PROVE  CountsOf(A, x) = CountsOf(B, y)
  <1>1. {x[a] : a \in A} = {v[p] : p \in S}
    BY DEF Pairing
  <1>2. {y[b] : b \in B} = {v[p] : p \in S}
    BY DEF Pairing
  <1>3. ASSUME NEW z PROVE Cardinality({a \in A : x[a] = z}) = Cardinality({b \in B : y[b] = z})
    <2>1. PICK C, D, E : C = {a \in A : x[a] = z} /\ D = {p \in S : v[p] = z} /\ E = {b \in B : y[b] = z}
      OBVIOUS
    <2>2. C \in SUBSET A /\ D \in SUBSET S /\ E \in SUBSET B
      BY <2>1
    <2>3. IsFiniteSet(C) /\ IsFiniteSet(E)
      BY <2>2, FS_Subset
    <2>4. (\A a \in A : a \in C <=> f[a] \in D) /\ \A b \in B : b \in E <=> g[b] \in D
      BY <2>1 DEF Pairing
    <2>5. Cardinality(D) = Cardinality(C)
      BY <2>2, <2>3, <2>4, PairedCount
    <2>6. Cardinality(D) = Cardinality(E)
      BY <2>2, <2>3, <2>4, PairedCount
    <2> QED BY <2>1, <2>5, <2>6
  <1> QED BY <1>1, <1>2, <1>3 DEF CountsOf

(* The per-tenant frequencies recounted from the sources are those of the written lists. *)
LEMMA TdfWritten ==
    ASSUME Finished, NoReusedCtid, NEW t \in MergedTerms
    PROVE  merged_tdf(written[IndexOf(t)]) = tenant_docfreq(NewTenants, MergedLists[t])
  <1>0. t \in Term /\ CollectedOK(written[IndexOf(t)].collected, Places(chain, t), chain, t)
        /\ ListWritten(MergedLists[t], docmap, sources, chain, t)
    BY MergedTermsOK
  <1>m. MapOK(docmap, sources, opened, tp_docmap_add(sources))
    BY FinishedFacts
  <1>1. PICK S, col, L, wr : /\ S = Places(chain, t) /\ col = written[IndexOf(t)].collected /\ L = MergedLists[t]
                             /\ wr = written[IndexOf(t)]
    OBVIOUS
  <1>2. PICK c \in Nat : c = Len(col) /\ DOMAIN col = 1 .. c
    BY <1>0, <1>1 DEF CollectedOK
  <1>3. PICK f : Pairing(f, 1 .. c, S) /\ \A n \in 1 .. c : col[n] = CollectedAt(chain, t, f[n])
    BY <1>0, <1>1, <1>2 DEF CollectedOK
  <1>4. PICK l \in Nat : l = Len(L) /\ DOMAIN L = 1 .. l
    BY <1>0, <1>1 DEF ListWritten
  <1>5. PICK g : Pairing(g, 1 .. l, S) /\ \A n \in 1 .. l : L[n] = WrittenAt(docmap, sources, chain, t, g[n])
    BY <1>0, <1>1, <1>4 DEF ListWritten
  <1>6. PICK v : v = [p \in S |-> tp_segment_get_tenant_id(chain[p[1]], PostingAt(chain, t, p).doc)]
    OBVIOUS
  <1>7. PICK x, y : x = [n \in 1 .. c |-> col[n].tenant_id] /\ y = [n \in 1 .. l |-> NewTenants[L[n].doc]]
    OBVIOUS
  <1>8. ASSUME NEW n \in 1 .. c PROVE x[n] = v[f[n]]
    <2>1. PICK p \in S : p = f[n]
      BY <1>3 DEF Pairing
    <2>2. PICK bp, i : bp = PostingAt(chain, t, p) /\ i = p[1]
      OBVIOUS
    <2>3. PICK td : td = tp_segment_get_tenant_id(chain[i], bp.doc)
      OBVIOUS
    <2>4. CollectedAt(chain, t, p) =
            [source_idx |-> i, old_doc_id |-> bp.doc, ctid |-> chain[i].ctid[bp.doc + 1],
             frequency |-> bp.frequency, fieldnorm |-> bp.norm, tenant_id |-> td]
      BY <2>2, <2>3, Zenon DEF CollectedAt
    <2>5. col[n].tenant_id = td
      BY <1>3, <2>1, <2>4
    <2>6. v[p] = td
      BY <1>6, <2>2, <2>3
    <2> QED BY <1>7, <2>1, <2>5, <2>6
  <1>9. ASSUME NEW n \in 1 .. l PROVE y[n] = v[g[n]]
    <2>1. PICK p \in S : p = g[n]
      BY <1>5 DEF Pairing
    <2>2. PICK bp, i, w : bp = PostingAt(chain, t, p) /\ i = p[1] /\ w = WrittenAt(docmap, sources, chain, t, p)
      OBVIOUS
    <2>3. p \in Places(chain, t) /\ L[n] = w
      BY <1>1, <1>5, <2>1, <2>2
    <2>4. EntryAt(t, w.doc + 1, i, bp.doc + 1, w)
      BY <1>0, <2>2, <2>3, PlaceEntry
    <2>5. PlaceOK(t, p, i, bp, w)
      BY <2>2, <2>3, PlaceWritten
    <2>6. /\ w.doc \in 0 .. Len(docmap.docs) - 1 /\ bp.doc \in 0 .. chain[i].num_docs - 1 /\ chain[i].num_docs \in Nat
      BY <2>5 DEF PlaceOK
    <2>7. DocAt(w.doc + 1, i, bp.doc + 1)
      BY <2>4 DEF EntryAt
    <2>8. docmap.docs[w.doc + 1].tenant = tp_segment_get_tenant_id(chain[i], (bp.doc + 1) - 1)
      BY <2>7, DocAtFacts
    <2>9. (bp.doc + 1) - 1 = bp.doc
      BY <2>6
    <2>10. NewTenants[w.doc] = docmap.docs[w.doc + 1].tenant
      BY <2>6 DEF NewTenants
    <2>11. v[p] = tp_segment_get_tenant_id(chain[i], bp.doc)
      BY <1>6, <2>2
    <2> QED BY <1>7, <2>1, <2>3, <2>8, <2>9, <2>10, <2>11
  <1>10. PICK A, B : A = 1 .. c /\ B = 1 .. l
    OBVIOUS
  <1>11. IsFiniteSet(A) /\ IsFiniteSet(B)
    BY <1>10, IntervalCard
  <1>12. CountsOf(A, x) = CountsOf(B, y)
    <2>1. Pairing(f, A, S) /\ Pairing(g, B, S) /\ (\A a \in A : x[a] = v[f[a]]) /\ \A b \in B : y[b] = v[g[b]]
      BY <1>3, <1>5, <1>8, <1>9, <1>10
    <2> QED BY <1>11, <2>1, SameCounts
  <1>13. merged_tdf(wr) = CountsOf(A, x)
    <2>1. {wr.collected[n].tenant_id : n \in DOMAIN wr.collected} = {x[n] : n \in A}
      BY <1>1, <1>2, <1>7, <1>10
    <2>2. \A z : {n \in DOMAIN wr.collected : wr.collected[n].tenant_id = z} = {n \in A : x[n] = z}
      BY <1>1, <1>2, <1>7, <1>10
    <2> QED BY <2>1, <2>2 DEF merged_tdf, CountsOf
  <1>14. tenant_docfreq(NewTenants, L) = CountsOf(B, y)
    <2>1. {NewTenants[L[n].doc] : n \in DOMAIN L} = {y[n] : n \in B}
      BY <1>4, <1>7, <1>10
    <2>2. \A z : {n \in DOMAIN L : NewTenants[L[n].doc] = z} = {n \in B : y[n] = z}
      BY <1>4, <1>7, <1>10
    <2> QED BY <2>1, <2>2 DEF tenant_docfreq, CountsOf
  <1> QED BY <1>1, <1>12, <1>13, <1>14

(* A segment, section by section. *)
Record(num, ctid, norm, tenant, has, ordered, ranges, post, skip, df, tdf, stats) ==
    [num_docs |-> num, ctid |-> ctid, norm |-> norm, tenant |-> tenant, has_tenant_data |-> has,
     tenant_ordered |-> ordered, ranges |-> ranges, post |-> post, skip |-> skip, doc_freq |-> df,
     tenant_df |-> tdf, tenant_stats |-> stats]

(* Replacing the tenant document frequencies of a segment. *)
LEMMA RecordUpdate ==
    ASSUME NEW a, NEW b, NEW c, NEW d, NEW e, NEW f, NEW g, NEW h, NEW i, NEW j, NEW k, NEW l, NEW x,
           NEW seg, seg = Record(a, b, c, d, e, f, g, h, i, j, k, l)
    PROVE  [seg EXCEPT !.tenant_df = x] = Record(a, b, c, d, e, f, g, h, i, j, x, l) /\ seg.tenant_stats = l
  BY DEF Record

(* Segment looks at the map only through these. *)
SameMap(m1, m2) ==
    /\ Len(m1.docs) = Len(m2.docs) /\ DOMAIN m1.docs = 1 .. Len(m1.docs) /\ DOMAIN m2.docs = 1 .. Len(m2.docs)
    /\ Len(m1.docs) \in Nat
    /\ \A n \in 1 .. Len(m1.docs) : m1.docs[n].ctid = m2.docs[n].ctid /\ m1.docs[n].tenant = m2.docs[n].tenant
    /\ m1.norm = m2.norm /\ m1.tenant_ordered = m2.tenant_ordered /\ m1.ranges = m2.ranges

(* ... so equal lists over such maps give equal segments. *)
LEMMA SameSegment ==
    ASSUME NEW m1, NEW m2, SameMap(m1, m2), NEW lists, NEW has, NEW stats
    PROVE  Segment(m1, lists, has, stats) = Segment(m2, lists, has, stats)
  <1>1. PICK num \in Nat : num = Len(m1.docs) /\ num = Len(m2.docs) /\ DOMAIN m1.docs = 1 .. num /\ DOMAIN m2.docs = 1 .. num
    BY DEF SameMap
  <1>2. [n \in DOMAIN m1.docs |-> m1.docs[n].ctid] = [n \in DOMAIN m2.docs |-> m2.docs[n].ctid]
    BY <1>1 DEF SameMap
  <1>3. [n \in DOMAIN m1.docs |-> m1.docs[n].tenant] = [n \in DOMAIN m2.docs |-> m2.docs[n].tenant]
    BY <1>1 DEF SameMap
  <1>4. [id \in 0 .. Len(m1.docs) - 1 |-> m1.docs[id + 1].tenant] = [id \in 0 .. Len(m2.docs) - 1 |-> m2.docs[id + 1].tenant]
    <2>1. \A id \in 0 .. num - 1 : id + 1 \in 1 .. num
      OBVIOUS
    <2>2. \A id \in 0 .. num - 1 : m1.docs[id + 1].tenant = m2.docs[id + 1].tenant
      BY <1>1, <2>1 DEF SameMap
    <2> QED BY <1>1, <2>2
  <1>5. m1.norm = m2.norm /\ m1.tenant_ordered = m2.tenant_ordered /\ m1.ranges = m2.ranges /\ Len(m1.docs) = Len(m2.docs)
    BY DEF SameMap
  <1> QED BY <1>2, <1>3, <1>4, <1>5, Zenon DEF Segment

(* The ranges depend on the tenants in their order alone. *)
LEMMA SameRanges ==
    ASSUME NEW num \in Nat, NEW u, NEW v, Len(u) = num, Len(v) = num,
           \A n \in 1 .. num : u[n].tenant = v[n].tenant
    PROVE  tenant_ranges(u) = tenant_ranges(v)
  <1> DEFINE Ends(o) == {i \in 1 .. num : (IF i < num THEN o[i + 1].tenant ELSE UINT32_MAX) # o[i].tenant}
             From(o, i) == Max({0} \cup {j \in Ends(o) : j < i})
             Runs(o) == {[tenant |-> o[i].tenant, first |-> From(o, i), count |-> i - From(o, i)] :
                           i \in {e \in Ends(o) : o[e].tenant # 0}}
  <1>1. tenant_ranges(u) = Runs(u) /\ tenant_ranges(v) = Runs(v)
    BY DEF tenant_ranges
  <1>2. Ends(u) = Ends(v)
    <2>1. \A i \in 1 .. num : i < num => i + 1 \in 1 .. num
      OBVIOUS
    <2>2. ASSUME NEW i \in 1 .. num PROVE i \in Ends(u) <=> i \in Ends(v)
      <3>1. CASE i < num
        <4>1. u[i + 1].tenant = v[i + 1].tenant /\ u[i].tenant = v[i].tenant
          BY <2>1, <3>1
        <4> QED BY <3>1, <4>1
      <3>2. CASE ~(i < num)
        BY <3>2
      <3> QED BY <3>1, <3>2
    <2> QED BY <2>2
  <1>3. \A i \in Ends(u) : i \in 1 .. num
    OBVIOUS
  <1> HIDE DEF Ends
  <1>4. \A i : From(u, i) = From(v, i)
    BY <1>2
  <1>5. {e \in Ends(u) : u[e].tenant # 0} = {e \in Ends(v) : v[e].tenant # 0}
    BY <1>2, <1>3
  <1> HIDE DEF From
  <1>6. Runs(u) = Runs(v)
    BY <1>2, <1>3, <1>4, <1>5
  <1> QED BY <1>1, <1>6

(* Finalizing the union gives the map of the merge. *)
LEMMA UnionMap ==
    ASSUME Finished, NoReusedCtid, NEW map, map = tp_docmap_finalize(Union)
    PROVE  SameMap(map, docmap) /\ map.docs = UnionOrder /\ map.norm = docmap.norm
  <1>1. PICK D, order, num, E : /\ D = Union /\ order = UnionOrder /\ num = Len(docmap.docs) /\ E = tp_docmap_add(sources)
    OBVIOUS
  <1>2. doc_order(D) = order /\ (has_tenants(D) <=> has_tenants(E))
    BY <1>1, UnionSorted
  <1>3. UnionOK(D, order, num)
    BY <1>1, UnionListed
  <1>4. MapOK(docmap, sources, opened, E)
    BY <1>1, FinishedFacts
  <1>5. /\ num \in Nat /\ order \in [1 .. num -> D] /\ Len(order) = num /\ DOMAIN order = 1 .. num
        /\ \A n \in 1 .. num : /\ order[n].ctid = docmap.docs[n].ctid /\ order[n].tenant = docmap.docs[n].tenant
                               /\ order[n].len = docmap.docs[n].len
    BY <1>3 DEF UnionOK
  <1>6. /\ Len(docmap.docs) = num /\ DOMAIN docmap.docs = 1 .. num
        /\ docmap.norm = [n \in 1 .. num |-> encode_fieldnorm(docmap.docs[n].len)]
    BY <1>1, <1>4 DEF MapOK
  <1>7. docmap.tenant_ordered = has_tenants(E)
    BY <1>4, Zenon DEF MapOK
  <1>8. docmap.ranges = IF has_tenants(E) THEN tenant_ranges(docmap.docs) ELSE {}
    BY <1>4, Zenon DEF MapOK
  <1>9. map = [docs |-> order, norm |-> [i \in DOMAIN order |-> encode_fieldnorm(order[i].len)],
               tenant_ordered |-> has_tenants(D), ranges |-> IF has_tenants(D) THEN tenant_ranges(order) ELSE {}]
    BY <1>1, <1>2 DEF tp_docmap_finalize
  <1>10. map.docs = order /\ map.norm = [n \in 1 .. num |-> encode_fieldnorm(order[n].len)]
    BY <1>5, <1>9
  <1>11. map.norm = docmap.norm
    BY <1>5, <1>6, <1>10
  <1>12. has_tenants(D) = has_tenants(E)
    BY <1>2 DEF has_tenants
  <1>13. map.tenant_ordered = has_tenants(D) /\ map.ranges = IF has_tenants(D) THEN tenant_ranges(order) ELSE {}
    BY <1>9
  <1>14. map.tenant_ordered = docmap.tenant_ordered
    BY <1>7, <1>12, <1>13, Zenon
  <1>15. tenant_ranges(order) = tenant_ranges(docmap.docs)
    <2>1. PICK u, v : u = order /\ v = docmap.docs
      OBVIOUS
    <2>2. Len(u) = num /\ Len(v) = num /\ \A n \in 1 .. num : u[n].tenant = v[n].tenant
      BY <1>5, <1>6, <2>1
    <2>3. tenant_ranges(u) = tenant_ranges(v)
      BY <1>5, <2>2, SameRanges
    <2> QED BY <2>1, <2>3
  <1>16. map.ranges = docmap.ranges
    <2>1. CASE has_tenants(D)
      <3>1. map.ranges = tenant_ranges(order) /\ docmap.ranges = tenant_ranges(docmap.docs)
        BY <1>2, <1>8, <1>13, <2>1, Zenon
      <3> QED BY <1>15, <3>1
    <2>2. CASE ~has_tenants(D)
      <3>1. map.ranges = {} /\ docmap.ranges = {}
        BY <1>2, <1>8, <1>13, <2>2, Zenon
      <3> QED BY <3>1
    <2> QED BY <2>1, <2>2
  <1>17. SameMap(map, docmap)
    <2>1. /\ Len(map.docs) = Len(docmap.docs) /\ DOMAIN map.docs = 1 .. Len(map.docs)
          /\ DOMAIN docmap.docs = 1 .. Len(docmap.docs) /\ Len(map.docs) \in Nat
      BY <1>5, <1>6, <1>10
    <2>2. \A n \in 1 .. Len(map.docs) : map.docs[n].ctid = docmap.docs[n].ctid /\ map.docs[n].tenant = docmap.docs[n].tenant
      BY <1>5, <1>10
    <2> QED BY <1>11, <1>14, <1>16, <2>1, <2>2 DEF SameMap
  <1> QED BY <1>1, <1>10, <1>11, <1>17

(* tp_write_segment of the union, with the map and the lists of the merge. *)
LEMMA UnionWritten ==
    ASSUME Finished, NoReusedCtid, NEW has, NEW stats
    PROVE  tp_write_segment(Union, has, stats) = Segment(docmap, MergedLists, has, stats)
  <1>1. PICK map : map = tp_docmap_finalize(Union)
    OBVIOUS
  <1>2. SameMap(map, docmap) /\ map.docs = UnionOrder /\ map.norm = docmap.norm
    BY <1>1, UnionMap
  <1>3. PICK lists : lists = [t \in {t \in Term : {n \in DOMAIN map.docs : map.docs[n].tf[t] > 0} # {}} |->
                    Sorted({BlockPosting(n - 1, map.docs[n].tf[t], map.norm[n]) :
                              n \in {k \in DOMAIN map.docs : map.docs[k].tf[t] > 0}},
                           cmp_block_posting_by_doc_id)]
    OBVIOUS
  <1>4. tp_write_segment(Union, has, stats) = Segment(map, lists, has, stats)
    BY <1>1, <1>3 DEF tp_write_segment
  <1>5. lists = [t \in {t \in Term : OccursIn(t) # {}} |->
                   Sorted(Entries(UnionOrder, docmap.norm, t), cmp_block_posting_by_doc_id)]
    BY <1>2, <1>3 DEF OccursIn, Entries
  <1>6. \A t \in MergedTerms : MergedLists[t] = Sorted(Entries(UnionOrder, docmap.norm, t), cmp_block_posting_by_doc_id)
    BY MergedListSorted
  <1>7. MergedLists = [t \in MergedTerms |-> MergedLists[t]]
    BY DEF MergedLists
  <1>8. lists = MergedLists
    BY <1>5, <1>6, <1>7, MergedTermsWritten, Zenon
  <1>9. PICK m1, m2, ls : m1 = map /\ m2 = docmap /\ ls = lists
    OBVIOUS
  <1>10. Segment(m1, ls, has, stats) = Segment(m2, ls, has, stats)
    BY <1>2, <1>9, SameSegment
  <1> QED BY <1>4, <1>8, <1>9, <1>10

(* The merged segment is the one that is written for the union. *)
LEMMA MergedIsWritten ==
    ASSUME Finished, NoReusedCtid, NEW m, m = write_merged_segment
    PROVE  m = tp_write_segment(Union, any_tenant, m.tenant_stats)
  <1>1. PICK any, stats, lists, tdfs :
          /\ any = any_tenant /\ stats = (IF any_tenant THEN merged_tenant_stats ELSE << >>)
          /\ lists = MergedLists /\ tdfs = MergedTdfs
    OBVIOUS
  <1>2. PICK seg : seg = Segment(docmap, lists, any, stats)
    OBVIOUS
  <1>3. m = IF any THEN [seg EXCEPT !.tenant_df = tdfs] ELSE seg
    <2>1. DOMAIN lists = MergedTerms
      BY <1>1 DEF MergedLists
    <2> QED BY <1>1, <1>2, <2>1 DEF write_merged_segment, MergedLists, MergedTdfs, IndexOf, MergedTerms
  <1>4. DOMAIN lists = MergedTerms
    BY <1>1 DEF MergedLists
  <1>5. PICK a, b, c, d, f, g, i, j :
          seg = Record(a, b, c, d, any, f, g, lists, i, j,
                       IF any THEN [t \in DOMAIN lists |-> tenant_docfreq(NewTenants, lists[t])] ELSE << >>, stats)
    BY <1>2, Zenon DEF Segment, Record, NewTenants
  <1>6. m = seg /\ seg.tenant_stats = stats
    <2>1. CASE any
      <3>1. tdfs = [t \in DOMAIN lists |-> tenant_docfreq(NewTenants, lists[t])]
        BY <1>1, <1>4, TdfWritten DEF MergedTdfs
      <3>2. seg = Record(a, b, c, d, any, f, g, lists, i, j, tdfs, stats)
        BY <1>5, <2>1, <3>1, Zenon
      <3>3. [seg EXCEPT !.tenant_df = tdfs] = seg /\ seg.tenant_stats = stats
        BY <3>2, RecordUpdate
      <3> QED BY <1>3, <2>1, <3>3
    <2>2. CASE ~any
      <3>1. PICK k : seg = Record(a, b, c, d, any, f, g, lists, i, j, k, stats)
        BY <1>5
      <3>2. seg.tenant_stats = stats
        BY <3>1, RecordUpdate
      <3> QED BY <1>3, <2>2, <3>2
    <2> QED BY <2>1, <2>2
  <1>7. tp_write_segment(Union, any, stats) = Segment(docmap, MergedLists, any, stats)
    BY UnionWritten
  <1>8. m = tp_write_segment(Union, any, m.tenant_stats)
    BY <1>1, <1>2, <1>6, <1>7
  <1>9. any = any_tenant
    BY <1>1
  <1> QED BY <1>8, <1>9, Zenon

(* MergedAsWritten: in every state, a segment a merge is about to link is, section by
   section, the segment tp_write_segment would have written for the documents of all its
   sources, when no CTID was reused. *)
THEOREM WrittenAsOne == Spec => []MergedAsWritten
  <1>1. MergeInv => MergedAsWritten
    <2> SUFFICES ASSUME MergeInv, pc = "link", NoReusedCtid
                 PROVE  merged = tp_write_segment(StoredDocs({sources[i].reader : i \in DOMAIN sources}),
                                                  any_tenant, merged.tenant_stats)
      BY DEF MergedAsWritten
    <2>1. Finished /\ merged = write_merged_segment
      BY DEF Finished, MergeInv, MergedInv
    <2>2. PICK m : m = merged
      OBVIOUS
    <2>3. m = tp_write_segment(Union, any_tenant, m.tenant_stats)
      BY <2>1, <2>2, MergedIsWritten
    <2> QED BY <2>2, <2>3 DEF Union
  <1> QED BY <1>1, MergeInvHolds, PTL
=============================================================================
