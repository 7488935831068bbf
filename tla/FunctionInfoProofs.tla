-------------------------- MODULE FunctionInfoProofs -------------------------
(***************************************************************************)
(* Proofs about the function information: for any crates, functions and    *)
(* extents, the merge depends on the directory's contents only and loses   *)
(* nothing, and dedup leaves one entry for each place.                     *)
(*                                                                         *)
(* First what the two library algorithms do, for a list of any length: a   *)
(* sort puts every element at a place of its own, the greater ones later,  *)
(* and dedup_by keeps one of several neighbours.                           *)
(***************************************************************************)
EXTENDS FunctionInfo, SequenceTheorems, FiniteSetTheorems, WellFoundedInduction, TLAPS

-----------------------------------------------------------------------------
(* Counting, and lists that are put together. *)

\* Counting from a to n, with the set of the numbers for which something holds.
LEMMA CountUp ==
    ASSUME NEW n \in Nat, NEW a \in 0..n, NEW T \in SUBSET (a..n), a \in T,
           \A i \in a..n : i \in T /\ i # n => i + 1 \in T
    PROVE  T = a..n
<1> SUFFICES ASSUME T # a..n PROVE FALSE
  OBVIOUS
<1> DEFINE Rest == (a..n) \ T
<1> DEFINE Below(x) == {y \in Rest : y < x}
           Belows == {Below(x) : x \in Rest}
<1>1. IsWellFoundedOn(StrictSubsetOrdering(Rest), SUBSET Rest)
  <2>1. IsFiniteSet(Rest)
    BY FS_Interval, FS_Subset
  <2> QED
    BY <2>1, FS_StrictSubsetOrderingWellFounded, FS_FiniteSubsetsOfFinite
<1>2. Belows \subseteq SUBSET Rest /\ Belows # {}
  OBVIOUS
<1>3. PICK A \in Belows : \A B \in Belows : ~ (<<B, A>> \in StrictSubsetOrdering(Rest))
  <2> HIDE DEF Belows, Rest
  <2> QED
    BY <1>1, <1>2, WFMin
<1>4. PICK x \in Rest : A = Below(x)
  OBVIOUS
<1>5. x # a /\ x - 1 \in a..n
  OBVIOUS
<1>6. x - 1 \in Rest
  BY <1>5
<1>7. Below(x - 1) \subseteq Below(x) /\ Below(x - 1) # Below(x)
  <2>1. x - 1 \in Below(x) /\ x - 1 \notin Below(x - 1)
    BY <1>6
  <2>2. \A y \in Rest : y < x - 1 => y < x
    BY <1>5
  <2> QED
    BY <2>1, <2>2
<1>8. <<Below(x - 1), Below(x)>> \in StrictSubsetOrdering(Rest)
  BY <1>7 DEF StrictSubsetOrdering
<1> QED
  BY <1>3, <1>4, <1>6, <1>8

LEMMA ConcatElems ==
    ASSUME NEW S, NEW s \in Seq(S), NEW t \in Seq(S)
    PROVE  s \o t \in Seq(S) /\ Range(s \o t) = Range(s) \cup Range(t)
<1>1. /\ s \o t \in Seq(S)
      /\ Len(s \o t) = Len(s) + Len(t)
      /\ \A i \in 1..(Len(s) + Len(t)) : (s \o t)[i] = IF i <= Len(s) THEN s[i] ELSE t[i - Len(s)]
  BY ConcatProperties
<1>2. /\ DOMAIN s = 1..Len(s) /\ DOMAIN t = 1..Len(t) /\ Len(s) \in Nat /\ Len(t) \in Nat
      /\ DOMAIN (s \o t) = 1..(Len(s) + Len(t))
  BY <1>1, LenProperties
<1>3. \A i \in 1..Len(t) : (s \o t)[i + Len(s)] = t[i] /\ i + Len(s) \in 1..(Len(s) + Len(t))
  BY <1>1, <1>2
<1>4. \A i \in 1..Len(s) : (s \o t)[i] = s[i] /\ i \in 1..(Len(s) + Len(t))
  BY <1>1, <1>2
<1>5. \A i \in 1..(Len(s) + Len(t)) : i \in 1..Len(s) \/ (i - Len(s) \in 1..Len(t) /\ ~(i <= Len(s)))
  BY <1>2
<1>6. Range(s \o t) \subseteq Range(s) \cup Range(t)
  BY <1>1, <1>2, <1>5 DEF Range
<1>7. Range(s) \subseteq Range(s \o t) /\ Range(t) \subseteq Range(s \o t)
  BY <1>2, <1>3, <1>4 DEF Range
<1> QED
  BY <1>1, <1>6, <1>7

\* FlattenSeq's recursion is well defined, and its result is a list of
\* elements that holds the elements of every list.
LEMMA Flattened ==
    ASSUME NEW S, NEW seqs \in Seq(Seq(S))
    PROVE  /\ FlattenSeq(seqs) \in Seq(S)
           /\ Range(FlattenSeq(seqs)) = UNION {Range(seqs[p]) : p \in DOMAIN seqs}
<1> DEFINE n == Len(seqs)
<1>1. n \in Nat /\ DOMAIN seqs = 1..n /\ \A p \in 1..n : seqs[p] \in Seq(S)
  BY LenProperties, ElementOfSeq
<1>2. CASE n = 0
  <2>1. seqs = <<>> /\ FlattenSeq(seqs) = seqs
    BY <1>2, EmptySeq DEF FlattenSeq
  <2>2. DOMAIN seqs = {}
    BY <1>1, <1>2
  <2> QED
    BY <2>1, <2>2, EmptySeq DEF Range
<1>3. CASE n # 0
  <2> DEFINE Flat(f, m) == f = [i \in 1..m |-> IF i = 1 THEN seqs[i] ELSE f[i - 1] \o seqs[i]]
             Solved == {m \in 1..n : \E f : Flat(f, m)}
             flat == CHOOSE f : Flat(f, n)
  <2>1. 1 \in Solved
    <3>1. Flat([i \in 1..1 |-> seqs[1]], 1)
      <4>1. \A i \in 1..1 : i = 1
        OBVIOUS
      <4> QED
        BY <4>1
    <3>2. 1 \in 1..n
      BY <1>1, <1>3
    <3> HIDE DEF Flat
    <3> QED
      BY <3>1, <3>2
  <2>2. ASSUME NEW m \in 1..n, m \in Solved, m # n
        PROVE  m + 1 \in Solved
    <3>1. PICK f : Flat(f, m)
      BY <2>2
    <3> DEFINE g == [i \in 1..(m + 1) |-> IF i <= m THEN f[i] ELSE f[m] \o seqs[m + 1]]
               h == [i \in 1..(m + 1) |-> IF i = 1 THEN seqs[i] ELSE g[i - 1] \o seqs[i]]
    <3>2. ASSUME NEW i \in 1..(m + 1)
          PROVE  g[i] = h[i]
      <4>1. m \in Nat \ {0} /\ 1 \in 1..(m + 1) /\ m \in 1..m
        BY <1>1
      <4>2. CASE i <= m
        <5>1. i \in 1..m /\ g[i] = f[i]
          BY <4>1, <4>2
        <5>2. f[i] = IF i = 1 THEN seqs[i] ELSE f[i - 1] \o seqs[i]
          BY <3>1, <5>1
        <5>3. i # 1 => g[i - 1] = f[i - 1]
          BY <4>1, <5>1
        <5> QED
          BY <5>1, <5>2, <5>3
      <4>3. CASE ~(i <= m)
        <5>1. i = m + 1 /\ i # 1 /\ i - 1 = m /\ m \in 1..(m + 1) /\ m <= m
          BY <4>1, <4>3
        <5>2. g[i] = f[m] \o seqs[m + 1] /\ g[m] = f[m]
          BY <5>1, <4>3
        <5> QED
          BY <5>1, <5>2
      <4> QED
        BY <4>2, <4>3
    <3>3. g = h
      BY <3>2
    <3>4. Flat(g, m + 1)
      BY <3>3
    <3>5. m + 1 \in 1..n
      <4>1. m # n
        BY <2>2
      <4> HIDE DEF n, Solved, Flat
      <4> QED
        BY <1>1, <4>1
    <3> HIDE DEF g, Flat
    <3> QED
      BY <3>4, <3>5
  <2>3. n \in Solved
    <3> HIDE DEF Solved
    <3>1. Solved \in SUBSET (1..n)
      BY DEF Solved
    <3>2. 1 \in 0..n
      BY <1>1, <1>3
    <3>3. \A i \in 1..n : i \in Solved /\ i # n => i + 1 \in Solved
      BY <2>2
    <3>4. Solved = 1..n
      <4> HIDE DEF n
      <4> QED
        BY <1>1, <2>1, <3>1, <3>2, <3>3, CountUp
    <3> QED
      BY <1>1, <1>3, <3>4
  <2>4. Flat(flat, n)
    <3> HIDE DEF Flat
    <3> QED
      BY <2>3
  <2>5. FlattenSeq(seqs) = flat[n]
    BY <1>3 DEF FlattenSeq
  <2> HIDE DEF flat
  <2> DEFINE Before(i) == UNION {Range(seqs[p]) : p \in 1..i}
             Good == {i \in 1..n : flat[i] \in Seq(S) /\ Range(flat[i]) = Before(i)}
  <2>6. 1 \in Good
    <3>1. flat[1] = seqs[1] /\ 1 \in 1..n
      BY <1>1, <1>3, <2>4
    <3>2. Before(1) = Range(seqs[1])
      <4>1. 1..1 = {1}
        OBVIOUS
      <4> QED
        BY <4>1
    <3> QED
      BY <1>1, <3>1, <3>2
  <2>7. ASSUME NEW i \in 1..n, i \in Good, i # n
        PROVE  i + 1 \in Good
    <3>1. i + 1 \in 1..n /\ i + 1 # 1 /\ (i + 1) - 1 = i /\ 1..(i + 1) = (1..i) \cup {i + 1}
      BY <1>1, <2>7
    <3>2. flat[i + 1] = flat[i] \o seqs[i + 1]
      BY <2>4, <3>1
    <3>3. /\ flat[i + 1] \in Seq(S)
          /\ Range(flat[i + 1]) = Range(flat[i]) \cup Range(seqs[i + 1])
      BY <1>1, <2>7, <3>1, <3>2, ConcatElems
    <3>4. Before(i + 1) = Before(i) \cup Range(seqs[i + 1])
      BY <3>1
    <3> HIDE DEF Before
    <3> QED
      BY <2>7, <3>1, <3>3, <3>4
  <2>8. n \in Good
    <3> HIDE DEF Good
    <3>1. Good \in SUBSET (1..n)
      BY DEF Good
    <3>2. 1 \in 0..n
      BY <1>1, <1>3
    <3>3. \A i \in 1..n : i \in Good /\ i # n => i + 1 \in Good
      BY <2>7
    <3>4. Good = 1..n
      <4> HIDE DEF n
      <4> QED
        BY <1>1, <2>6, <3>1, <3>2, <3>3, CountUp
    <3> QED
      BY <1>1, <1>3, <3>4
  <2> QED
    BY <1>1, <2>5, <2>8
<1> QED
  BY <1>2, <1>3

\* Whatever the order a hash set is iterated in, everything in it comes.
LEMMA OrderKeepsAll ==
    ASSUME NEW S, IsFiniteSet(S), NEW v \in SetToSeqs(S)
    PROVE  Range(v) = S
<1> DEFINE n == Cardinality(S)
<1>1. n \in Nat
  BY FS_CardinalityType
<1>2. v \in [1..n -> S] /\ \A i, j \in 1..n : i # j => v[i] # v[j]
  BY DEF SetToSeqs
<1>3. v \in Injection(1..n, S)
  BY <1>2 DEF Injection, IsInjective
<1>4. IsFiniteSet(1..n) /\ Cardinality(1..n) = n
  BY <1>1, FS_Interval
<1>5. v \in Surjection(1..n, S)
  <2> HIDE DEF n
  <2>1. Cardinality(S) = n
    BY DEF n
  <2> QED
    BY <1>3, <1>4, <2>1, FS_Injection
<1> QED
  BY <1>2, <1>5 DEF Surjection, Range

-----------------------------------------------------------------------------
(* Sorting. *)

\* A set of pairs that is a strict total order.
TotalOrder(B, T) ==
    /\ \A x, y \in T : <<x, y>> \in B \/ x = y \/ <<y, x>> \in B
    /\ \A x, y \in T : <<x, y>> \in B => x # y /\ <<y, x>> \notin B
    /\ \A x, y, z \in T : <<x, y>> \in B /\ <<y, z>> \in B => <<x, z>> \in B

SortedBy(s, B) == Sorted(s, LAMBDA x, y : <<x, y>> \in B)

\* The elements of a list with where they are, and those that come no later
\* than one of them.
Items(s) == {<<n, s[n]>> : n \in DOMAIN s}
Upto(s, B, x) ==
    {y \in Items(s) : <<y[2], x[2]>> \in B \/ (y[2] = x[2] /\ y[1] <= x[1])}

LEMMA ItemsCounted ==
    ASSUME NEW T, NEW s \in Seq(T)
    PROVE  /\ IsFiniteSet(Items(s)) /\ Cardinality(Items(s)) = Len(s)
           /\ \A x \in Items(s) : /\ x[1] \in 1..Len(s) /\ x[2] = s[x[1]] /\ x[2] \in T
                                  /\ x = <<x[1], x[2]>>
<1> DEFINE L == Len(s)
<1>1. L \in Nat /\ DOMAIN s = 1..L /\ \A n \in 1..L : s[n] \in T
  BY LenProperties, ElementOfSeq
<1>2. Items(s) = {<<n, s[n]>> : n \in 1..L}
  BY <1>1 DEF Items
<1> DEFINE at == [n \in 1..L |-> <<n, s[n]>>]
<1>3. at \in Bijection(1..L, Items(s))
  <2>1. at \in [1..L -> Items(s)]
    BY <1>2
  <2>2. \A m, n \in 1..L : at[m] = at[n] => m = n
    OBVIOUS
  <2>3. \A x \in Items(s) : \E n \in 1..L : at[n] = x
    BY <1>2
  <2> QED
    BY <2>1, <2>2, <2>3 DEF Bijection, Injection, Surjection, IsInjective
<1>4. IsFiniteSet(1..L) /\ Cardinality(1..L) = L
  <2> HIDE DEF L
  <2> QED
    BY <1>1, FS_Interval
<1>5. IsFiniteSet(Items(s)) /\ Cardinality(Items(s)) = L
  <2>1. ExistsBijection(1..L, Items(s))
    BY <1>3 DEF ExistsBijection
  <2> HIDE DEF at
  <2> QED
    BY <1>4, <2>1, FS_Bijection
<1>6. ASSUME NEW x \in Items(s)
      PROVE  x[1] \in 1..L /\ x[2] = s[x[1]] /\ x[2] \in T /\ x = <<x[1], x[2]>>
  BY <1>1, <1>2
<1> QED
  <2> HIDE DEF at
  <2> QED
    BY <1>5, <1>6

\* Every place is taken by one element, what comes before another being placed
\* before it.
OwnPlaces(s, B) ==
    LET Rank(x) == Cardinality(Upto(s, B, x))
        Earlier(x, y) == Rank(x) < Rank(y) /\ (<<x[2], y[2]>> \in B \/ x[2] = y[2])
    IN  /\ \A x \in Items(s) : Rank(x) \in 1..Len(s)
        /\ \A x, y \in Items(s) : x = y \/ Earlier(x, y) \/ Earlier(y, x)
        /\ \A k \in 1..Len(s) : \E x \in Items(s) : Rank(x) = k

LEMMA Places ==
    ASSUME NEW T, NEW B, TotalOrder(B, T), NEW s \in Seq(T)
    PROVE  OwnPlaces(s, B)
<1> DEFINE L == Len(s)
           I == Items(s)
           U(x) == Upto(s, B, x)
           Before(x, y) == <<x[2], y[2]>> \in B \/ (x[2] = y[2] /\ x[1] < y[1])
<1>1. L \in Nat
  BY LenProperties
<1>2. /\ IsFiniteSet(I) /\ Cardinality(I) = L
      /\ \A x \in I : x[1] \in 1..L /\ x[2] = s[x[1]] /\ x[2] \in T /\ x = <<x[1], x[2]>>
  BY ItemsCounted
<1>3. \A x \in I : U(x) \subseteq I /\ x \in U(x)
  BY <1>2 DEF Upto
<1>4. \A x \in I : IsFiniteSet(U(x)) /\ Cardinality(U(x)) \in 1..L
  <2> SUFFICES ASSUME NEW x \in I
               PROVE  IsFiniteSet(U(x)) /\ Cardinality(U(x)) \in 1..L
    OBVIOUS
  <2>1. IsFiniteSet(U(x)) /\ Cardinality(U(x)) <= L
    BY <1>2, <1>3, FS_Subset
  <2>2. Cardinality(U(x)) \in Nat /\ Cardinality(U(x)) # 0
    BY <1>3, <2>1, FS_CardinalityType, FS_EmptySet
  <2> HIDE DEF U, L
  <2> QED
    BY <1>1, <2>1, <2>2
<1>5. ASSUME NEW x \in I, NEW y \in I, Before(x, y)
      PROVE  Cardinality(U(x)) < Cardinality(U(y))
  <2>1. ASSUME NEW z \in U(x)
        PROVE  z \in U(y)
    <3>1. z \in I /\ (<<z[2], x[2]>> \in B \/ (z[2] = x[2] /\ z[1] <= x[1]))
      BY DEF Upto
    <3>2. x[2] \in T /\ y[2] \in T /\ z[2] \in T /\ x[1] \in Nat /\ y[1] \in Nat /\ z[1] \in Nat
      BY <1>1, <1>2, <3>1
    <3>3. CASE z[2] = x[2] /\ x[2] = y[2]
      <4>1. z[1] <= y[1]
        BY <1>5, <3>1, <3>2, <3>3 DEF TotalOrder
      <4> QED
        BY <3>1, <3>3, <4>1 DEF Upto
    <3>4. CASE z[2] # x[2] \/ x[2] # y[2]
      <4>1. <<z[2], y[2]>> \in B
        <5>1. <<x[2], y[2]>> \in B \/ x[2] = y[2]
          BY <1>5
        <5>2. <<z[2], x[2]>> \in B \/ z[2] = x[2]
          BY <3>1
        <5>3. <<z[2], x[2]>> \in B /\ <<x[2], y[2]>> \in B => <<z[2], y[2]>> \in B
          BY <3>2 DEF TotalOrder
        <5> QED
          BY <3>4, <5>1, <5>2, <5>3
      <4> QED
        BY <3>1, <4>1 DEF Upto
    <3> QED
      BY <3>3, <3>4
  <2>2. y \notin U(x) /\ y \in U(y)
    BY <1>2, <1>5 DEF Upto, TotalOrder
  <2>3. Cardinality(U(x)) <= Cardinality(U(y)) /\ Cardinality(U(x)) # Cardinality(U(y))
    BY <1>4, <2>1, <2>2, FS_Subset
  <2> HIDE DEF U, L, I
  <2> QED
    BY <1>1, <1>4, <2>3
<1>6. \A x, y \in I : x = y \/ Before(x, y) \/ Before(y, x)
  <2> SUFFICES ASSUME NEW x \in I, NEW y \in I
               PROVE  x = y \/ Before(x, y) \/ Before(y, x)
    OBVIOUS
  <2>1. x[2] \in T /\ y[2] \in T
    BY <1>2
  <2>2. CASE x[2] # y[2]
    BY <2>1, <2>2 DEF TotalOrder
  <2>3. CASE x[2] = y[2]
    <3>1. x[1] = y[1] => x = y
      BY <1>2, <2>3
    <3>2. x[1] \in Nat /\ y[1] \in Nat
      BY <1>1, <1>2
    <3>3. x[1] = y[1] \/ x[1] < y[1] \/ y[1] < x[1]
      BY <3>2
    <3> QED
      BY <2>3, <3>1, <3>3
  <2> QED
    BY <2>2, <2>3
<1> DEFINE place == [x \in I |-> Cardinality(U(x))]
<1>7. place \in Surjection(I, 1..L)
  <2>1. place \in [I -> 1..L]
    BY <1>4
  <2>2. \A x, y \in I : place[x] = place[y] => x = y
    <3> HIDE DEF U, L, I, Before
    <3> QED
      BY <1>1, <1>4, <1>5, <1>6
  <2>3. place \in Injection(I, 1..L)
    BY <2>1, <2>2 DEF Injection, IsInjective
  <2>4. IsFiniteSet(1..L) /\ Cardinality(1..L) = L
    BY <1>1, FS_Interval
  <2> HIDE DEF place, I, L
  <2> QED
    BY <1>2, <2>3, <2>4, FS_Injection
<1>8. \A k \in 1..L : \E x \in I : Cardinality(U(x)) = k
  BY <1>7 DEF Surjection
<1>9. \A x, y \in I :
        \/ x = y
        \/ Cardinality(U(x)) < Cardinality(U(y)) /\ (<<x[2], y[2]>> \in B \/ x[2] = y[2])
        \/ Cardinality(U(y)) < Cardinality(U(x)) /\ (<<y[2], x[2]>> \in B \/ y[2] = x[2])
  <2> HIDE DEF U, I
  <2> QED
    BY <1>5, <1>6
<1> QED
  BY <1>4, <1>8, <1>9 DEF OwnPlaces

\* The sorted list: at[k] is the element that k elements come no later than.
LEMMA SortedPlaced ==
    ASSUME NEW T, NEW B, TotalOrder(B, T), NEW s \in Seq(T)
    PROVE  \E at \in [1..Len(s) -> Items(s)] :
             /\ SortedBy(s, B) = [k \in 1..Len(s) |-> at[k][2]]
             /\ \A k \in 1..Len(s) : Cardinality(Upto(s, B, at[k])) = k
             /\ \A x \in Items(s) : \E k \in 1..Len(s) : at[k] = x
<1> DEFINE L == Len(s)
           I == Items(s)
           Rank(x) == Cardinality(Upto(s, B, x))
           placed == {<<Rank(x), x[2]>> : x \in I}
           At(k) == CHOOSE p \in placed : p[1] = k
           at == [k \in 1..L |-> CHOOSE x \in I : Rank(x) = k]
<1>1. L \in Nat /\ DOMAIN s = 1..L
  BY LenProperties
<1>2. /\ \A x \in I : Rank(x) \in 1..L
      /\ \A k \in 1..L : \E x \in I : Rank(x) = k
      /\ \A x, y \in I : x # y => Rank(x) < Rank(y) \/ Rank(y) < Rank(x)
  <2>1. OwnPlaces(s, B)
    BY Places
  <2> QED
    BY <2>1 DEF OwnPlaces
<1>3. \A x, y \in I : Rank(x) = Rank(y) => x = y
  <2> HIDE DEF I, Rank, L
  <2> QED
    BY <1>1, <1>2
<1>4. \A k \in 1..L : at[k] \in I /\ Rank(at[k]) = k
  <2> HIDE DEF I, Rank
  <2> QED
    BY <1>2
<1>5. SortedBy(s, B) = [k \in 1..L |-> At(k)[2]]
  BY <1>1 DEF SortedBy, Sorted, Upto, Items
<1>6. ASSUME NEW k \in 1..L
      PROVE  At(k) = <<k, at[k][2]>>
  <2>1. <<k, at[k][2]>> \in placed
    <3> HIDE DEF I, Rank, at
    <3> QED
      BY <1>4
  <2>2. ASSUME NEW p \in placed, p[1] = k
        PROVE  p = <<k, at[k][2]>>
    <3>1. PICK x \in I : p = <<Rank(x), x[2]>>
      OBVIOUS
    <3>2. Rank(x) = k
      BY <2>2, <3>1
    <3>3. x = at[k]
      <4> HIDE DEF I, Rank, at
      <4> QED
        BY <1>3, <1>4, <3>2
    <3> HIDE DEF I, Rank, at
    <3> QED
      BY <3>1, <3>2, <3>3
  <2>3. <<k, at[k][2]>>[1] = k
    OBVIOUS
  <2> HIDE DEF placed, at
  <2> QED
    BY <2>1, <2>2, <2>3
<1>7. SortedBy(s, B) = [k \in 1..L |-> at[k][2]]
  <2> HIDE DEF At, at, L
  <2>1. \A k \in 1..L : At(k)[2] = at[k][2]
    BY <1>6
  <2> QED
    BY <1>5, <2>1
<1>8. \A x \in I : \E k \in 1..L : at[k] = x
  <2> HIDE DEF I, Rank, at
  <2> QED
    BY <1>2, <1>3, <1>4
<1>9. at \in [1..L -> I]
  <2>1. \A k \in 1..L : (CHOOSE x \in I : Rank(x) = k) \in I
    BY <1>4
  <2> HIDE DEF I, Rank
  <2> QED
    BY <2>1
<1> QED
  <2> HIDE DEF at
  <2> QED
    BY <1>4, <1>7, <1>8, <1>9

\* A sort keeps the elements and puts the greater ones later.
LEMMA SortedFacts ==
    ASSUME NEW T, NEW B, TotalOrder(B, T), NEW s \in Seq(T)
    PROVE  LET t == SortedBy(s, B) IN
           /\ t \in Seq(T) /\ Len(t) = Len(s) /\ Range(t) = Range(s)
           /\ \A k, l \in 1..Len(s) : k < l => <<t[k], t[l]>> \in B \/ t[k] = t[l]
<1> DEFINE L == Len(s)
           t == SortedBy(s, B)
<1>1. L \in Nat /\ DOMAIN s = 1..L
  BY LenProperties
<1>2. PICK at \in [1..L -> Items(s)] :
        /\ t = [k \in 1..L |-> at[k][2]]
        /\ \A k \in 1..L : Cardinality(Upto(s, B, at[k])) = k
        /\ \A x \in Items(s) : \E k \in 1..L : at[k] = x
  BY SortedPlaced
<1> HIDE DEF t
<1>3. \A x \in Items(s) : x[1] \in 1..L /\ x[2] = s[x[1]] /\ x[2] \in T
  BY ItemsCounted
<1>4. /\ t \in [1..L -> T]
      /\ \A k \in 1..L : t[k] = at[k][2] /\ t[k] = s[at[k][1]] /\ at[k][1] \in 1..L
  BY <1>2, <1>3
<1>5. t \in Seq(T) /\ Len(t) = L
  BY <1>1, <1>4, SeqDef
<1>6. Range(t) = Range(s)
  <2>1. Range(t) \subseteq Range(s)
    BY <1>1, <1>2, <1>4 DEF Range
  <2>2. ASSUME NEW n \in 1..L
        PROVE  s[n] \in Range(t)
    <3>1. <<n, s[n]>> \in Items(s)
      BY <1>1 DEF Items
    <3>2. PICK k \in 1..L : at[k] = <<n, s[n]>>
      BY <1>2, <3>1
    <3> QED
      BY <1>2, <3>2 DEF Range
  <2> QED
    BY <1>1, <2>1, <2>2 DEF Range
<1>7. ASSUME NEW k \in 1..L, NEW l \in 1..L, k < l
      PROVE  <<t[k], t[l]>> \in B \/ t[k] = t[l]
  <2>1. at[k] \in Items(s) /\ at[l] \in Items(s)
    OBVIOUS
  <2>2. /\ Cardinality(Upto(s, B, at[k])) = k /\ Cardinality(Upto(s, B, at[l])) = l
    BY <1>2
  <2>3. \/ at[k] = at[l]
        \/ k < l /\ (<<at[k][2], at[l][2]>> \in B \/ at[k][2] = at[l][2])
        \/ l < k
    <3>1. OwnPlaces(s, B)
      BY Places
    <3>2. \/ at[k] = at[l]
          \/ /\ Cardinality(Upto(s, B, at[k])) < Cardinality(Upto(s, B, at[l]))
             /\ <<at[k][2], at[l][2]>> \in B \/ at[k][2] = at[l][2]
          \/ Cardinality(Upto(s, B, at[l])) < Cardinality(Upto(s, B, at[k]))
      BY <2>1, <3>1 DEF OwnPlaces
    <3> QED
      BY <2>2, <3>2
  <2>4. ~(l < k)
    BY <1>7
  <2> QED
    BY <1>4, <2>3, <2>4
<1> QED
  BY <1>5, <1>6, <1>7 DEF t

\* What a sort makes of a list without repetitions depends on its elements
\* only, and not on their order.
LEMMA SortForgetsOrder ==
    ASSUME NEW T, NEW B, TotalOrder(B, T), NEW s \in Seq(T), NEW u \in Seq(T),
           Len(s) = Len(u), Range(s) = Range(u),
           \A m, n \in 1..Len(s) : m # n => s[m] # s[n] /\ u[m] # u[n]
    PROVE  SortedBy(s, B) = SortedBy(u, B)
<1> DEFINE Placed(v) == {<<Cardinality(Upto(v, B, x)), x[2]>> : x \in Items(v)}
           Least(y) == {z \in Range(s) : <<z, y>> \in B \/ z = y}
           ByValue == {<<Cardinality(Least(y)), y>> : y \in Range(s)}
<1>1. ASSUME NEW v \in Seq(T), Len(v) = Len(s), Range(v) = Range(s),
             \A m, n \in 1..Len(s) : m # n => v[m] # v[n]
      PROVE  SortedBy(v, B) = [k \in 1..Len(s) |-> (CHOOSE p \in ByValue : p[1] = k)[2]]
  <2>1. Len(s) \in Nat /\ DOMAIN v = 1..Len(s)
    BY <1>1, LenProperties
  <2>2. /\ IsFiniteSet(Items(v))
        /\ \A x \in Items(v) : x[1] \in 1..Len(s) /\ x[2] = v[x[1]] /\ x = <<x[1], x[2]>>
    BY <1>1, ItemsCounted
  <2>3. Range(v) = {x[2] : x \in Items(v)}
    <3>1. \A n \in 1..Len(s) : <<n, v[n]>> \in Items(v) /\ <<n, v[n]>>[2] = v[n]
      BY <2>1 DEF Items
    <3>2. ASSUME NEW z \in Range(v)
          PROVE  \E x \in Items(v) : z = x[2]
      <4>1. PICK n \in 1..Len(s) : z = v[n]
        BY <2>1 DEF Range
      <4> QED
        BY <3>1, <4>1
    <3>3. {x[2] : x \in Items(v)} \subseteq Range(v)
      BY <2>1, <2>2 DEF Range
    <3> QED
      BY <3>2, <3>3
  <2>4. \A x, y \in Items(v) : x[2] = y[2] => x = y
    BY <1>1, <2>2
  <2>5. ASSUME NEW x \in Items(v)
        PROVE  Cardinality(Upto(v, B, x)) = Cardinality(Least(x[2]))
    <3> DEFINE U == Upto(v, B, x)
               second == [y \in U |-> y[2]]
    <3>1. U = {y \in Items(v) : <<y[2], x[2]>> \in B \/ y = x}
      BY <2>1, <2>2, <2>4 DEF Upto
    <3>2. second \in [U -> Least(x[2])]
      BY <1>1, <2>3, <3>1
    <3>3. \A y, z \in U : second[y] = second[z] => y = z
      BY <2>4, <3>1
    <3>4. ASSUME NEW z \in Least(x[2])
          PROVE  \E y \in U : second[y] = z
      <4>1. z \in Range(v) /\ (<<z, x[2]>> \in B \/ z = x[2])
        BY <1>1, <3>4
      <4>2. PICK y \in Items(v) : z = y[2]
        BY <2>3, <4>1
      <4>3. y \in U
        <5> HIDE DEF U
        <5> QED
          BY <2>4, <3>1, <4>1, <4>2
      <4> QED
        BY <4>2, <4>3
    <3>5. ExistsBijection(U, Least(x[2]))
      <4>1. \A z \in Least(x[2]) : \E y \in U : second[y] = z
        BY <3>4
      <4> HIDE DEF U, Least, second
      <4>2. second \in Injection(U, Least(x[2]))
        BY <3>2, <3>3 DEF Injection, IsInjective
      <4>3. second \in Surjection(U, Least(x[2]))
        BY <3>2, <4>1 DEF Surjection
      <4> QED
        BY <4>2, <4>3 DEF ExistsBijection, Bijection
    <3>6. IsFiniteSet(U)
      BY <2>2, <3>1, FS_Subset
    <3> HIDE DEF U, Least
    <3>7. Cardinality(Least(x[2])) = Cardinality(U)
      BY <3>5, <3>6, FS_Bijection
    <3> QED
      BY <3>7 DEF U
  <2>6. Placed(v) = ByValue
    <3> HIDE DEF Least
    <3> QED
      BY <1>1, <2>3, <2>5
  <2>7. SortedBy(v, B) = [k \in 1..Len(s) |-> (CHOOSE p \in Placed(v) : p[1] = k)[2]]
    BY <2>1 DEF SortedBy, Sorted, Upto, Items
  <2> HIDE DEF Placed, ByValue
  <2> QED
    BY <2>6, <2>7
<1> HIDE DEF ByValue
<1> QED
  BY <1>1

-----------------------------------------------------------------------------
(* Vec::dedup_by. *)

\* A recursion that steps from value to value of a set has a solution.
Solves(f, S, m, F, base) ==
    /\ f \in [0..m -> S]
    /\ f[0] = base
    /\ \A i \in 1..m : f[i] = F[i][f[i - 1]]

LEMMA Iterated ==
    ASSUME NEW S, NEW n \in Nat, NEW F \in [1..n -> [S -> S]], NEW base \in S
    PROVE  \E f : Solves(f, S, n, F, base)
<1> DEFINE Solution(f, m) == Solves(f, S, m, F, base)
           Solved == {m \in 0..n : \E f : Solution(f, m)}
<1>1. 0 \in Solved
  <2>1. Solution([i \in 0..0 |-> base], 0)
    BY DEF Solves
  <2>2. 0 \in 0..n
    OBVIOUS
  <2> HIDE DEF Solution
  <2> QED
    BY <2>1, <2>2
<1>2. ASSUME NEW m \in 0..n, m \in Solved, m # n
      PROVE  m + 1 \in Solved
  <2>1. PICK f : Solution(f, m)
    BY <1>2
  <2>2. m \in Nat /\ m + 1 \in 1..n /\ m + 1 \in 0..n
    BY <1>2
  <2> DEFINE g == [i \in 0..(m + 1) |-> IF i <= m THEN f[i] ELSE F[m + 1][f[m]]]
  <2>3. f[m] \in S
    BY <2>1, <2>2 DEF Solves
  <2>4. F[m + 1][f[m]] \in S
    <3>1. F[m + 1] \in [S -> S]
      BY <2>2
    <3> QED
      BY <2>3, <3>1
  <2>5. \A i \in 0..(m + 1) : (i <= m => i \in 0..m) /\ (~(i <= m) => i = m + 1)
    BY <2>2
  <2>6. g \in [0..(m + 1) -> S]
    BY <2>1, <2>4, <2>5 DEF Solves
  <2>7. g[0] = base
    BY <2>1, <2>2 DEF Solves
  <2>8. ASSUME NEW i \in 1..(m + 1)
        PROVE  g[i] = F[i][g[i - 1]]
    <3>1. /\ i \in 0..(m + 1) /\ i - 1 \in 0..(m + 1) /\ i - 1 <= m
          /\ i \in 1..m \/ i = m + 1
      BY <2>2
    <3>2. g[i - 1] = f[i - 1]
      BY <3>1
    <3>3. CASE i \in 1..m
      <4>1. g[i] = f[i]
        BY <3>1, <3>3
      <4> QED
        BY <2>1, <3>2, <3>3, <4>1 DEF Solves
    <3>4. CASE i = m + 1
      <4>1. g[i] = F[m + 1][f[m]] /\ i - 1 = m
        BY <2>2, <3>1, <3>4
      <4> QED
        BY <3>2, <3>4, <4>1
    <3> QED
      BY <3>1, <3>3, <3>4
  <2>9. Solution(g, m + 1)
    <3> HIDE DEF g
    <3> QED
      BY <2>6, <2>7, <2>8 DEF Solves
  <2> HIDE DEF Solution, g
  <2> QED
    BY <2>2, <2>9
<1>3. Solved = 0..n
  <2>1. Solved \in SUBSET (0..n)
    BY DEF Solved
  <2>2. \A i \in 0..n : i \in Solved /\ i # n => i + 1 \in Solved
    <3> HIDE DEF Solved
    <3> QED
      BY <1>2
  <2> HIDE DEF Solved
  <2>3. 0 \in 0..n
    OBVIOUS
  <2> QED
    BY <1>1, <2>1, <2>2, <2>3, CountUp
<1>4. n \in Solved
  <2> HIDE DEF Solved
  <2>1. n \in 0..n
    OBVIOUS
  <2> QED
    BY <1>3, <2>1
<1> QED
  BY <1>4

LEMMA AppendElems ==
    ASSUME NEW S, NEW s \in Seq(S), NEW e \in S
    PROVE  /\ Append(s, e) \in Seq(S) /\ Append(s, e) # <<>>
           /\ Len(Append(s, e)) = Len(s) + 1 /\ Last(Append(s, e)) = e
           /\ \A k \in 1..Len(s) : Append(s, e)[k] = s[k]
           /\ Range(Append(s, e)) = Range(s) \cup {e}
<1> DEFINE t == Append(s, e)
<1>1. /\ t \in Seq(S) /\ Len(t) = Len(s) + 1
      /\ \A k \in 1..Len(s) : t[k] = s[k]
      /\ t[Len(s) + 1] = e
  OBVIOUS
<1>2. Len(s) \in Nat /\ DOMAIN s = 1..Len(s) /\ DOMAIN t = 1..(Len(s) + 1)
  BY <1>1, LenProperties
<1>3. t # <<>>
  BY <1>1, <1>2, EmptySeq
<1>4. \A k \in 1..(Len(s) + 1) : k \in 1..Len(s) \/ k = Len(s) + 1
  BY <1>2
<1>5. Len(s) + 1 \in 1..(Len(s) + 1) /\ \A k \in 1..Len(s) : k \in 1..(Len(s) + 1)
  BY <1>2
<1> HIDE DEF t
<1>6. Range(t) \subseteq Range(s) \cup {e}
  BY <1>1, <1>2, <1>4 DEF Range
<1>7. Range(s) \subseteq Range(t) /\ e \in Range(t)
  BY <1>1, <1>2, <1>5 DEF Range
<1>8. Last(t) = e
  BY <1>1 DEF Last
<1> QED
  BY <1>1, <1>3, <1>6, <1>7, <1>8 DEF t

LEMMA LastIsElem ==
    ASSUME NEW S, NEW s \in Seq(S), s # <<>>
    PROVE  Len(s) \in 1..Len(s) /\ Last(s) = s[Len(s)] /\ Last(s) \in Range(s) /\ Last(s) \in S
<1>1. Len(s) \in Nat \ {0} /\ DOMAIN s = 1..Len(s)
  BY EmptySeq, LenProperties
<1>2. Len(s) \in 1..Len(s)
  BY <1>1
<1> QED
  BY <1>1, <1>2, ElementOfSeq DEF Last, Range

\* Dropping what equals its neighbour drops no element.
LEMMA KeptByEquality ==
    ASSUME NEW S, NEW s \in Seq(S)
    PROVE  /\ DedupBy(s, LAMBDA a, b : a = b) \in Seq(S)
           /\ Range(DedupBy(s, LAMBDA a, b : a = b)) = Range(s)
<1> DEFINE n == Len(s)
           Step(i, b) == IF b # <<>> /\ s[i] = Last(b) THEN b ELSE Append(b, s[i])
           F == [i \in 1..n |-> [b \in Seq(S) |-> Step(i, b)]]
           Keeps(f) == f = [i \in 0..n |-> IF i = 0 THEN <<>> ELSE Step(i, f[i - 1])]
           kept == CHOOSE f : Keeps(f)
           Prefix(i) == {s[m] : m \in 1..i}
           Good == {i \in 0..n : kept[i] \in Seq(S) /\ Range(kept[i]) = Prefix(i)}
<1>1. n \in Nat /\ DOMAIN s = 1..n /\ \A i \in 1..n : s[i] \in S
  BY LenProperties, ElementOfSeq
<1>2. <<>> \in Seq(S) /\ Range(<<>>) = {}
  BY EmptySeq DEF Range
<1>3. \A i \in 1..n : \A b \in Seq(S) : Step(i, b) \in Seq(S)
  BY <1>1, AppendElems
<1>4. PICK f \in [0..n -> Seq(S)] : f[0] = <<>> /\ \A i \in 1..n : f[i] = F[i][f[i - 1]]
  <2>1. F \in [1..n -> [Seq(S) -> Seq(S)]]
    <3> HIDE DEF Step
    <3> QED
      BY <1>3
  <2> DEFINE Q == Seq(S)
             none == <<>>
  <2> HIDE DEF F, n
  <2>2. F \in [1..n -> [Q -> Q]] /\ none \in Q
    BY <1>2, <2>1
  <2>3. \E f : Solves(f, Q, n, F, none)
    <3> HIDE DEF Q, none
    <3> QED
      BY <1>1, <2>2, Iterated
  <2> QED
    BY <2>3 DEF Solves
<1>5. Keeps(f)
  <2>1. ASSUME NEW i \in 1..n
        PROVE  f[i] = Step(i, f[i - 1])
    <3>1. i - 1 \in 0..n
      BY <1>1
    <3> HIDE DEF Step, n
    <3> QED
      BY <1>4, <3>1
  <2>2. \A i \in 0..n : i = 0 \/ i \in 1..n
    BY <1>1
  <2> DEFINE g == [i \in 0..n |-> IF i = 0 THEN <<>> ELSE Step(i, f[i - 1])]
  <2>3. \A i \in 0..n : f[i] = g[i]
    <3> HIDE DEF Step
    <3> QED
      BY <1>4, <2>1, <2>2
  <2>4. f = g
    <3> HIDE DEF Step
    <3> QED
      BY <2>3
  <2> QED
    BY <2>4
<1>6. Keeps(kept)
  <2> HIDE DEF Keeps
  <2> QED
    BY <1>5
<1>7. DedupBy(s, LAMBDA a, b : a = b) = kept[n]
  BY DEF DedupBy
<1> HIDE DEF kept
<1>8. /\ kept[0] = <<>>
      /\ \A i \in 1..n : kept[i] = Step(i, kept[i - 1])
  <2>1. 0 \in 0..n /\ \A i \in 1..n : i \in 0..n /\ i # 0
    BY <1>1
  <2> HIDE DEF Step
  <2> QED
    BY <1>6, <2>1
<1>9. 0 \in Good
  <2>1. 0 \in 0..n /\ 1..0 = {}
    BY <1>1
  <2>2. Prefix(0) = {}
    BY <2>1
  <2> HIDE DEF Prefix
  <2> QED
    BY <1>2, <1>8, <2>1, <2>2
<1>10. ASSUME NEW i \in 0..n, i \in Good, i # n
       PROVE  i + 1 \in Good
  <2>1. i + 1 \in 0..n /\ i + 1 \in 1..n /\ (i + 1) - 1 = i /\ 1..(i + 1) = (1..i) \cup {i + 1}
    <3>1. i # n
      BY <1>10
    <3> HIDE DEF n, Good
    <3> QED
      BY <1>1, <3>1
  <2>2. kept[i + 1] = Step(i + 1, kept[i])
    BY <1>8, <2>1
  <2>3. kept[i] \in Seq(S) /\ Range(kept[i]) = Prefix(i)
    BY <1>10
  <2>4. Prefix(i + 1) = Prefix(i) \cup {s[i + 1]}
    BY <2>1
  <2> HIDE DEF Prefix
  <2>5. CASE kept[i] # <<>> /\ s[i + 1] = Last(kept[i])
    <3>1. kept[i + 1] = kept[i] /\ s[i + 1] \in Range(kept[i])
      BY <2>2, <2>3, <2>5, LastIsElem
    <3> QED
      BY <2>1, <2>3, <2>4, <3>1
  <2>6. CASE ~(kept[i] # <<>> /\ s[i + 1] = Last(kept[i]))
    <3>1. kept[i + 1] = Append(kept[i], s[i + 1])
      BY <2>2, <2>6
    <3>2. kept[i + 1] \in Seq(S) /\ Range(kept[i + 1]) = Range(kept[i]) \cup {s[i + 1]}
      BY <1>1, <2>1, <2>3, <3>1, AppendElems
    <3> QED
      BY <2>1, <2>3, <2>4, <3>2
  <2> QED
    BY <2>5, <2>6
<1>11. n \in Good
  <2>1. Good \in SUBSET (0..n)
    BY DEF Good
  <2>2. \A i \in 0..n : i \in Good /\ i # n => i + 1 \in Good
    <3> HIDE DEF Good
    <3> QED
      BY <1>10
  <2>3. 0 \in 0..n /\ n \in 0..n
    BY <1>1
  <2> HIDE DEF Good, n
  <2>4. Good = 0..n
    BY <1>1, <1>9, <2>1, <2>2, <2>3, CountUp
  <2> QED
    BY <2>3, <2>4
<1> QED
  BY <1>1, <1>7, <1>11 DEF Range

-----------------------------------------------------------------------------
(* The library's dedup. *)

Ascending == {p \in Info \X Info : Less(p[1], p[2])}
Descending == {p \in Info \X Info : Less(p[2], p[1])}

LEMMA InfoFields ==
    ASSUME NEW a \in Info
    PROVE  /\ a.instance \in Nat /\ a.source_file \in Nat
           /\ a.line_start \in Nat /\ a.line_end \in Nat
BY InfoAssumption DEF Info

LEMMA InfoEqual ==
    ASSUME NEW a \in Info, NEW b \in Info, a.instance = b.instance,
           a.source_file = b.source_file, a.line_start = b.line_start, a.line_end = b.line_end
    PROVE  a = b
BY DEF Info

\* The derived order is total, and so is its reverse.
LEMMA LessIsTotal ==
    TotalOrder(Ascending, Info) /\ TotalOrder(Descending, Info)
<1>1. \A a, b \in Info : /\ <<a, b>> \in Ascending <=> Less(a, b)
                         /\ <<a, b>> \in Descending <=> Less(b, a)
  BY DEF Ascending, Descending
<1>2. ASSUME NEW a \in Info, NEW b \in Info
      PROVE  Less(a, b) \/ a = b \/ Less(b, a)
  <2>1. CASE a.instance = b.instance /\ a.source_file = b.source_file /\ a.line_start = b.line_start
    <3>1. a.line_end = b.line_end => a = b
      BY <2>1, InfoEqual
    <3> QED
      BY <2>1, <3>1, InfoFields DEF Less
  <2> QED
    BY <2>1, InfoFields DEF Less
<1>3. ASSUME NEW a \in Info, NEW b \in Info, Less(a, b)
      PROVE  a # b /\ ~Less(b, a)
  BY <1>3, InfoFields DEF Less
<1>4. ASSUME NEW a \in Info, NEW b \in Info, NEW c \in Info, Less(a, b), Less(b, c)
      PROVE  Less(a, c)
  BY <1>4, InfoFields DEF Less
<1>5. \A a, b, c \in Info : Less(a, b) /\ Less(b, c) => Less(a, c)
  BY <1>4
<1>6. TotalOrder(Ascending, Info)
  BY <1>1, <1>2, <1>3, <1>5 DEF TotalOrder
<1>7. TotalOrder(Descending, Info)
  BY <1>1, <1>2, <1>3, <1>5 DEF TotalOrder
<1> QED
  BY <1>6, <1>7

\* The pair that is placed at k.
At(placed, k) == CHOOSE p \in placed : p[1] = k

LEMMA SortsByLess ==
    ASSUME NEW s \in Seq(Info)
    PROVE  /\ Sorted(s, Less) = SortedBy(s, Ascending)
           /\ Sorted(s, LAMBDA a, b : Less(b, a)) = SortedBy(s, Descending)
<1>1. \A x \in Items(s) : x[2] \in Info
  BY ItemsCounted
<1>2. \A x, y \in Items(s) : /\ <<x[2], y[2]>> \in Ascending <=> Less(x[2], y[2])
                             /\ <<x[2], y[2]>> \in Descending <=> Less(y[2], x[2])
  BY <1>1 DEF Ascending, Descending
<1> DEFINE Below(x) == {y \in Items(s) : Less(y[2], x[2]) \/ (y[2] = x[2] /\ y[1] <= x[1])}
           Above(x) == {y \in Items(s) : Less(x[2], y[2]) \/ (y[2] = x[2] /\ y[1] <= x[1])}
           Up == {<<Cardinality(Below(x)), x[2]>> : x \in Items(s)}
           Down == {<<Cardinality(Above(x)), x[2]>> : x \in Items(s)}
           Placed(B) == {<<Cardinality(Upto(s, B, x)), x[2]>> : x \in Items(s)}
<1>3. \A x \in Items(s) : Below(x) = Upto(s, Ascending, x) /\ Above(x) = Upto(s, Descending, x)
  BY <1>2 DEF Upto
<1>4. Up = Placed(Ascending) /\ Down = Placed(Descending)
  <2> HIDE DEF Below, Above
  <2> QED
    BY <1>3
<1>5. /\ SortedBy(s, Ascending) = [k \in DOMAIN s |-> At(Placed(Ascending), k)[2]]
      /\ SortedBy(s, Descending) = [k \in DOMAIN s |-> At(Placed(Descending), k)[2]]
  BY DEF SortedBy, Sorted, Upto, Items, At
<1>6. Sorted(s, Less) = [k \in DOMAIN s |-> At(Up, k)[2]]
  BY DEF Sorted, Items, At
<1>7. Sorted(s, LAMBDA a, b : Less(b, a)) = [k \in DOMAIN s |-> At(Down, k)[2]]
  BY DEF Sorted, Items, At
<1>8. [k \in DOMAIN s |-> At(Up, k)[2]] = [k \in DOMAIN s |-> At(Placed(Ascending), k)[2]]
  <2> HIDE DEF Up, Placed
  <2> QED
    BY <1>4
<1>9. [k \in DOMAIN s |-> At(Down, k)[2]] = [k \in DOMAIN s |-> At(Placed(Descending), k)[2]]
  <2> HIDE DEF Down, Placed
  <2> QED
    BY <1>4
<1> HIDE DEF Up, Down, Placed
<1>10. Sorted(s, Less) = SortedBy(s, Ascending)
  BY <1>5, <1>6, <1>8
<1>11. Sorted(s, LAMBDA a, b : Less(b, a)) = SortedBy(s, Descending)
  BY <1>5, <1>7, <1>9
<1> QED
  BY <1>10, <1>11

\* What is written of a crate's functions is what it collected.
LEMMA ListedFacts ==
    ASSUME NEW infos \in Seq(Info)
    PROVE  Listed(infos) \in Seq(Info) /\ Range(Listed(infos)) = Range(infos)
<1> DEFINE t == Sorted(infos, Less)
<1>1. t \in Seq(Info) /\ Range(t) = Range(infos)
  <2>1. t = SortedBy(infos, Ascending)
    BY SortsByLess
  <2> HIDE DEF t
  <2> QED
    BY <2>1, SortedFacts, LessIsTotal
<1>2. Listed(infos) = DedupBy(t, LAMBDA a, b : a = b)
  BY DEF Listed
<1> HIDE DEF t
<1> QED
  BY <1>1, <1>2, KeptByEquality

\* The steps of dedup_by when it is called by dedup.
LEMMA KeptByDedupFn ==
    ASSUME NEW s \in Seq(Info)
    PROVE  \E kept :
             /\ kept[0] = <<>>
             /\ \A i \in 1..Len(s) :
                  kept[i] = IF kept[i - 1] # <<>> /\ dedup_fn(s[i], Last(kept[i - 1]))
                            THEN kept[i - 1] ELSE Append(kept[i - 1], s[i])
             /\ DedupBy(s, dedup_fn) = kept[Len(s)]
<1> DEFINE n == Len(s)
           Step(i, b) == IF b # <<>> /\ dedup_fn(s[i], Last(b)) THEN b ELSE Append(b, s[i])
           F == [i \in 1..n |-> [b \in Seq(Info) |-> Step(i, b)]]
           Keeps(f) == f = [i \in 0..n |-> IF i = 0 THEN <<>> ELSE Step(i, f[i - 1])]
           kept == CHOOSE f : Keeps(f)
<1>1. n \in Nat /\ \A i \in 1..n : s[i] \in Info
  BY LenProperties, ElementOfSeq
<1>2. \A i \in 1..n : \A b \in Seq(Info) : Step(i, b) \in Seq(Info)
  BY <1>1, AppendElems
<1>3. PICK f \in [0..n -> Seq(Info)] : f[0] = <<>> /\ \A i \in 1..n : f[i] = F[i][f[i - 1]]
  <2>1. F \in [1..n -> [Seq(Info) -> Seq(Info)]]
    <3> HIDE DEF Step
    <3> QED
      BY <1>2
  <2> DEFINE Q == Seq(Info)
             none == <<>>
  <2> HIDE DEF F, n
  <2>2. F \in [1..n -> [Q -> Q]] /\ none \in Q
    BY <2>1, EmptySeq
  <2>3. \E f : Solves(f, Q, n, F, none)
    <3> HIDE DEF Q, none
    <3> QED
      BY <1>1, <2>2, Iterated
  <2> QED
    BY <2>3 DEF Solves
<1>4. Keeps(f)
  <2>1. ASSUME NEW i \in 1..n
        PROVE  f[i] = Step(i, f[i - 1])
    <3>1. i - 1 \in 0..n
      BY <1>1
    <3> HIDE DEF Step, n
    <3> QED
      BY <1>3, <3>1
  <2>2. \A i \in 0..n : i = 0 \/ i \in 1..n
    BY <1>1
  <2> DEFINE g == [i \in 0..n |-> IF i = 0 THEN <<>> ELSE Step(i, f[i - 1])]
  <2>3. \A i \in 0..n : f[i] = g[i]
    <3> HIDE DEF Step
    <3> QED
      BY <1>3, <2>1, <2>2
  <2>4. f = g
    <3> HIDE DEF Step
    <3> QED
      BY <2>3
  <2> QED
    BY <2>4
<1>5. Keeps(kept)
  <2> HIDE DEF Keeps
  <2> QED
    BY <1>4
<1>6. DedupBy(s, dedup_fn) = kept[n]
  BY DEF DedupBy
<1> HIDE DEF kept
<1>7. kept[0] = <<>> /\ \A i \in 1..n : kept[i] = Step(i, kept[i - 1])
  <2>1. 0 \in 0..n /\ \A i \in 1..n : i \in 0..n /\ i # 0
    BY <1>1
  <2> HIDE DEF Step
  <2> QED
    BY <1>5, <2>1
<1> QED
  BY <1>6, <1>7

\* What dedup leaves: for each place one entry, no other ends further down.
OnePerPlace(v, d) ==
    /\ Range(d) \subseteq Range(v)
    /\ \A e \in Range(v) : \E k \in 1..Len(d) :
         Place(d[k]) = Place(e) /\ e.line_end <= d[k].line_end
    /\ \A k, l \in 1..Len(d) : k # l => Place(d[k]) # Place(d[l])

\* The places in the order of the list that dedup goes through.
LEMMA PlacesDescend ==
    ASSUME NEW e \in Info, NEW b \in Info, Less(e, b) \/ b = e
    PROVE  /\ dedup_fn(e, b) <=> Place(b) = Place(e)
           /\ Place(b) = Place(e) => e.line_end <= b.line_end
           /\ Place(b) # Place(e) =>
                \A a \in Info : Less(b, a) \/ a = b => Place(a) # Place(e)
<1>1. Place(b) = Place(e) <=> /\ b.instance = e.instance /\ b.source_file = e.source_file
                              /\ b.line_start = e.line_start
  BY DEF Place
<1>2. dedup_fn(e, b) <=> Place(b) = Place(e)
  BY <1>1, InfoFields DEF dedup_fn, Less
<1>3. Place(b) = Place(e) => e.line_end <= b.line_end
  BY <1>1, InfoFields DEF Less
<1>4. ASSUME Place(b) # Place(e), NEW a \in Info, Less(b, a) \/ a = b
      PROVE  Place(a) # Place(e)
  <2>1. ~ (a.instance = e.instance /\ a.source_file = e.source_file /\ a.line_start = e.line_start)
    BY <1>1, <1>4, InfoFields DEF Less
  <2> QED
    BY <2>1 DEF Place
<1> QED
  BY <1>2, <1>3, <1>4

\* The next entry of the sorted list repeats the place that is kept last, and
\* is then covered by it, or has a place that comes after all of them.
LEMMA DedupFacts ==
    ASSUME NEW v \in Seq(Info)
    PROVE  dedup(v) \in Seq(Info) /\ OnePerPlace(v, dedup(v))
<1> DEFINE t == SortedBy(v, Descending)
           n == Len(t)
<1>1. dedup(v) = DedupBy(t, dedup_fn)
  <2>1. Sorted(v, LAMBDA a, b : Less(b, a)) = t
    BY SortsByLess
  <2> HIDE DEF t
  <2> QED
    BY <2>1 DEF dedup
<1>2. t \in Seq(Info) /\ Len(t) = Len(v) /\ Range(t) = Range(v)
  BY SortedFacts, LessIsTotal
<1>3. \A k, l \in 1..n : k < l => Less(t[l], t[k]) \/ t[k] = t[l]
  <2>1. \A k, l \in 1..Len(v) : k < l => <<t[k], t[l]>> \in Descending \/ t[k] = t[l]
    BY SortedFacts, LessIsTotal
  <2> HIDE DEF t
  <2> QED
    BY <1>2, <2>1 DEF Descending
<1> HIDE DEF t
<1>4. n \in Nat /\ DOMAIN t = 1..n /\ \A i \in 1..n : t[i] \in Info /\ t[i] \in Range(t)
  BY <1>2, LenProperties, ElementOfSeq DEF Range
<1>5. PICK kept :
        /\ kept[0] = <<>>
        /\ \A i \in 1..n :
             kept[i] = IF kept[i - 1] # <<>> /\ dedup_fn(t[i], Last(kept[i - 1]))
                       THEN kept[i - 1] ELSE Append(kept[i - 1], t[i])
        /\ DedupBy(t, dedup_fn) = kept[n]
  BY <1>2, KeptByDedupFn
<1> DEFINE Prefix(i) == {t[m] : m \in 1..i}
           LastCurrent(i) == i # 0 => kept[i] # <<>> /\ Place(Last(kept[i])) = Place(t[i])
           FromPrefix(i) == kept[i] \in Seq(Info) /\ Range(kept[i]) \subseteq Prefix(i)
           Covers(i) == \A e \in Prefix(i) : \E k \in 1..Len(kept[i]) :
                          /\ Place(kept[i][k]) = Place(e)
                          /\ e.line_end <= kept[i][k].line_end
           Single(i) == \A k, l \in 1..Len(kept[i]) :
                          k # l => Place(kept[i][k]) # Place(kept[i][l])
           Good == {i \in 0..n : LastCurrent(i) /\ FromPrefix(i) /\ Covers(i) /\ Single(i)}
<1>6. 0 \in Good
  <2>1. Prefix(0) = {} /\ 0 \in 0..n
    BY <1>4
  <2>2. kept[0] = <<>> /\ Range(kept[0]) = {} /\ 1..Len(kept[0]) = {} /\ kept[0] \in Seq(Info)
    BY <1>5, EmptySeq DEF Range
  <2> HIDE DEF Prefix
  <2> QED
    BY <2>1, <2>2
<1>7. ASSUME NEW i \in 0..n, i \in Good, i # n
      PROVE  i + 1 \in Good
  <2> DEFINE b == kept[i]
             e == t[i + 1]
  <2>1. /\ i \in Nat /\ i + 1 \in 0..n /\ i + 1 \in 1..n /\ (i + 1) - 1 = i /\ i + 1 # 0
        /\ \A m \in 1..i : m \in 1..n /\ m < i + 1
    <3>1. i # n
      BY <1>7
    <3> HIDE DEF n, Good
    <3> QED
      BY <1>4, <3>1
  <2>2. Prefix(i + 1) = Prefix(i) \cup {e}
    <3>1. 1..(i + 1) = (1..i) \cup {i + 1}
      BY <2>1
    <3> QED
      BY <3>1
  <2>3. LastCurrent(i) /\ FromPrefix(i) /\ Covers(i) /\ Single(i)
    BY <1>7
  <2>4. e \in Info /\ e \in Range(t)
    BY <1>4, <2>1
  <2>5. ASSUME NEW a \in Prefix(i)
        PROVE  a \in Info /\ a \in Range(t) /\ (Less(e, a) \/ a = e)
    <3>1. PICK m \in 1..i : a = t[m]
      OBVIOUS
    <3> QED
      BY <1>3, <1>4, <2>1, <3>1
  <2>6. b \in Seq(Info) /\ DOMAIN b = 1..Len(b) /\ Len(b) \in Nat
        /\ \A k \in 1..Len(b) : b[k] \in Prefix(i)
    BY <2>3, LenProperties DEF Range
  <2>7. kept[i + 1] = IF b # <<>> /\ dedup_fn(e, Last(b)) THEN b ELSE Append(b, e)
    BY <1>5, <2>1
  <2> HIDE DEF Prefix, b, e
  <2>8. CASE b # <<>> /\ Place(Last(b)) = Place(e)
    <3>1. Last(b) \in Prefix(i) /\ Len(b) \in 1..Len(b) /\ Last(b) = b[Len(b)]
      BY <2>6, <2>8, LastIsElem
    <3>2. Last(b) \in Info /\ Last(b) \in Range(t) /\ (Less(e, Last(b)) \/ Last(b) = e)
      BY <2>5, <3>1
    <3>3. dedup_fn(e, Last(b)) /\ e.line_end <= Last(b).line_end
      BY <2>4, <2>8, <3>2, PlacesDescend
    <3>6. kept[i + 1] = b
      BY <2>7, <2>8, <3>3
    <3>7. LastCurrent(i + 1)
      BY <2>8, <3>6 DEF e
    <3>8. FromPrefix(i + 1) /\ Single(i + 1)
      BY <2>2, <2>3, <3>6 DEF b
    <3>9. Covers(i + 1)
      <4> SUFFICES ASSUME NEW x \in Prefix(i) \cup {e}
                   PROVE  \E k \in 1..Len(b) : Place(b[k]) = Place(x) /\ x.line_end <= b[k].line_end
        BY <2>2, <3>6
      <4>1. CASE x \in Prefix(i)
        BY <2>3, <4>1 DEF b
      <4>2. CASE x = e
        BY <2>8, <3>1, <3>3, <4>2
      <4> QED
        BY <4>1, <4>2
    <3> QED
      BY <2>1, <3>7, <3>8, <3>9
  <2>9. CASE ~(b # <<>> /\ Place(Last(b)) = Place(e))
    <3>1. kept[i + 1] = Append(b, e)
      <4>1. b # <<>> => ~ dedup_fn(e, Last(b))
        <5> SUFFICES ASSUME b # <<>> PROVE ~ dedup_fn(e, Last(b))
          OBVIOUS
        <5>1. Last(b) \in Prefix(i)
          BY <2>6, LastIsElem
        <5> QED
          BY <2>4, <2>5, <2>9, <5>1, PlacesDescend
      <4> QED
        BY <2>7, <4>1
    <3> DEFINE d == Append(b, e)
    <3>2. /\ d \in Seq(Info) /\ d # <<>> /\ Len(d) = Len(b) + 1 /\ Last(d) = e
          /\ \A k \in 1..Len(b) : d[k] = b[k]
          /\ Range(d) = Range(b) \cup {e}
      BY <2>4, <2>6, AppendElems
    <3>3. d[Len(b) + 1] = e
      BY <3>2 DEF Last
    <3> HIDE DEF d
    <3>4. \A k \in 1..(Len(b) + 1) : k \in 1..Len(b) \/ k = Len(b) + 1
      BY <2>6
    <3>5. Len(b) + 1 \in 1..(Len(b) + 1) /\ \A k \in 1..Len(b) : k \in 1..(Len(b) + 1)
      BY <2>6
    <3>6. ASSUME NEW k \in 1..Len(b)
          PROVE  Place(b[k]) # Place(e)
      <4>1. i # 0
        <5>1. i = 0 => Prefix(i) = {}
          BY <1>4 DEF Prefix
        <5> QED
          BY <2>6, <3>6, <5>1
      <4>2. i \in 1..i /\ t[i] \in Prefix(i) /\ Place(t[i]) = Place(Last(b)) /\ b # <<>>
        <5>1. i \in 1..i
          BY <2>1, <4>1
        <5>2. t[i] \in Prefix(i)
          BY <5>1 DEF Prefix
        <5> QED
          BY <2>3, <4>1, <5>1, <5>2 DEF b
      <4>3. Place(t[i]) # Place(e)
        BY <2>9, <4>2
      <4>4. PICK m \in 1..i : b[k] = t[m]
        BY <2>6 DEF Prefix
      <4>5. m = i \/ Less(t[i], t[m]) \/ t[m] = t[i]
        <5>1. m \in 1..n /\ i \in 1..n /\ (m = i \/ m < i)
          BY <2>1, <4>2
        <5> QED
          BY <1>3, <5>1
      <4>6. t[i] \in Info /\ t[m] \in Info /\ (Less(e, t[i]) \/ t[i] = e)
        BY <1>4, <2>1, <2>5, <4>2
      <4> QED
        BY <2>4, <4>3, <4>4, <4>5, <4>6, PlacesDescend
    <3>7. LastCurrent(i + 1)
      BY <3>1, <3>2 DEF d, e
    <3>8. FromPrefix(i + 1)
      <4>1. Range(b) \subseteq Prefix(i)
        BY <2>3 DEF b
      <4> QED
        BY <2>2, <3>1, <3>2, <4>1 DEF d
    <3>9. Single(i + 1)
      <4> SUFFICES ASSUME NEW k \in 1..(Len(b) + 1), NEW l \in 1..(Len(b) + 1), k # l
                   PROVE  Place(d[k]) # Place(d[l])
        BY <3>1, <3>2 DEF d
      <4>1. \A x, y \in 1..Len(b) : x # y => Place(b[x]) # Place(b[y])
        BY <2>3 DEF b
      <4> QED
        BY <3>2, <3>3, <3>4, <3>6, <4>1
    <3>10. Covers(i + 1)
      <4> SUFFICES ASSUME NEW x \in Prefix(i) \cup {e}
                   PROVE  \E k \in 1..(Len(b) + 1) :
                            Place(d[k]) = Place(x) /\ x.line_end <= d[k].line_end
        BY <2>2, <3>1, <3>2 DEF d
      <4>1. CASE x \in Prefix(i)
        <5>1. PICK k \in 1..Len(b) : Place(b[k]) = Place(x) /\ x.line_end <= b[k].line_end
          BY <2>3, <4>1 DEF b
        <5> QED
          BY <3>2, <3>5, <5>1
      <4>2. CASE x = e
        <5>1. e.line_end <= e.line_end
          BY <2>4, InfoFields
        <5> QED
          BY <3>3, <3>5, <4>2, <5>1
      <4> QED
        BY <4>1, <4>2
    <3> HIDE DEF LastCurrent, FromPrefix, Single, Covers
    <3> QED
      BY <2>1, <3>7, <3>8, <3>9, <3>10
  <2> QED
    BY <2>8, <2>9
<1>8. n \in Good
  <2>1. Good \in SUBSET (0..n)
    BY DEF Good
  <2>2. \A i \in 0..n : i \in Good /\ i # n => i + 1 \in Good
    <3> HIDE DEF Good
    <3> QED
      BY <1>7
  <2>3. 0 \in 0..n /\ n \in 0..n
    BY <1>4
  <2> HIDE DEF Good, n
  <2>4. Good = 0..n
    BY <1>4, <1>6, <2>1, <2>2, <2>3, CountUp
  <2> QED
    BY <2>3, <2>4
<1>9. Prefix(n) = Range(v)
  BY <1>2, <1>4 DEF Range
<1> HIDE DEF Prefix, n
<1> QED
  BY <1>1, <1>5, <1>8, <1>9 DEF OnePerPlace

-----------------------------------------------------------------------------
(* The files, their merge and the deduplicated list. *)

\* What a crate knows, and all that is known.
Entries(c) == {new(c, i) : i \in collected[c]}
AllEntries == UNION {Entries(c) : c \in Crate}

Inputs ==
    /\ span \in [Def -> Span]
    /\ collected \in [Crate -> SUBSET Instance]

\* A file holds what its crate knows.
Files ==
    /\ IsFiniteSet(DOMAIN dir)
    /\ \A p \in DOMAIN dir : \E c \in Crate :
         p = JsonPath(c) /\ dir[p] \in Seq(Info) /\ Range(dir[p]) = Entries(c)

\* The merged list holds what all of them know, and what is deduplicated is
\* the merged list.
Merged == merged \in Seq(Info) /\ (merged # None => Range(merged) = AllEntries)
Deduped == deduped # None => merged # None /\ deduped = dedup(merged)

InfoInv == Inputs /\ Files /\ Merged /\ Deduped

\* An entry is well formed and tells where its function is written.
LEMMA EntryFacts ==
    ASSUME Inputs, NEW c \in Crate, NEW i \in collected[c]
    PROVE  /\ i \in Instance /\ i.def \in Def /\ i.name \in Nat
           /\ span[i.def].first \in Nat \ {0} /\ End(c, i.def) \in Nat \ {0}
           /\ new(c, i) \in Info
<1>1. i \in Instance /\ i.def \in Def /\ i.name \in Nat
  BY InfoAssumption DEF Inputs
<1>2. span[i.def] \in Span
  BY <1>1 DEF Inputs
<1>3. /\ span[i.def].first \in Line(Span) /\ span[i.def].header \in Line(Span)
      /\ span[i.def].last \in Line(Span)
  BY <1>2 DEF Line
<1>4. /\ span[i.def].first \in Nat \ {0} /\ span[i.def].header \in Nat \ {0}
      /\ span[i.def].last \in Nat \ {0}
  BY <1>3, InfoAssumption
<1>5. End(c, i.def) \in Nat \ {0}
  BY <1>4 DEF End
<1>6. \A line \in Nat : pos_to_line_nr(line) \in 0..LineMax
  BY InfoAssumption DEF pos_to_line_nr
<1>7. SourceFile[c][i.def] \in Nat
  BY <1>1, InfoAssumption
<1>8. new(c, i) \in Info
  BY <1>1, <1>4, <1>5, <1>6, <1>7 DEF new, Info
<1> QED
  BY <1>1, <1>4, <1>5, <1>8

\* The paths of the directory, a name and a number, and their order.
Path == Nat \X Nat
PathLess ==
    {x \in Path \X Path : x[1][1] < x[2][1] \/ (x[1][1] = x[2][1] /\ x[1][2] < x[2][2])}

LEMMA PathOrder ==
    TotalOrder(PathLess, Path)
<1>1. \A x, y \in Path : <<x, y>> \in PathLess <=> (x[1] < y[1] \/ (x[1] = y[1] /\ x[2] < y[2]))
  BY DEF PathLess
<1>2. \A x \in Path : x[1] \in Nat /\ x[2] \in Nat /\ x = <<x[1], x[2]>>
  BY DEF Path
<1>3. \A x, y \in Path : x[1] = y[1] /\ x[2] = y[2] => x = y
  BY <1>2
<1>4. ASSUME NEW x \in Path, NEW y \in Path
      PROVE  <<x, y>> \in PathLess \/ x = y \/ <<y, x>> \in PathLess
  <2>1. x[1] < y[1] \/ x[1] = y[1] \/ y[1] < x[1]
    BY <1>2
  <2>2. x[2] < y[2] \/ x[2] = y[2] \/ y[2] < x[2]
    BY <1>2
  <2> QED
    BY <1>1, <1>3, <2>1, <2>2
<1>5. ASSUME NEW x \in Path, NEW y \in Path, <<x, y>> \in PathLess
      PROVE  x # y /\ <<y, x>> \notin PathLess
  BY <1>1, <1>2, <1>5
<1>6. ASSUME NEW x \in Path, NEW y \in Path, NEW z \in Path, <<x, y>> \in PathLess, <<y, z>> \in PathLess
      PROVE  <<x, z>> \in PathLess
  BY <1>1, <1>2, <1>6
<1> QED
  BY <1>4, <1>5, <1>6 DEF TotalOrder

LEMMA SortsPaths ==
    ASSUME NEW v \in Seq(Path)
    PROVE  InOrder(v) = SortedBy(v, PathLess)
<1> DEFINE Upto1(x) == {y \in Items(v) :
               (y[2][1] < x[2][1] \/ (y[2][1] = x[2][1] /\ y[2][2] < x[2][2]))
               \/ (y[2] = x[2] /\ y[1] <= x[1])}
           Placed1 == {<<Cardinality(Upto1(x)), x[2]>> : x \in Items(v)}
           Placed == {<<Cardinality(Upto(v, PathLess, x)), x[2]>> : x \in Items(v)}
<1>1. \A x \in Items(v) : x[2] \in Path
  BY ItemsCounted
<1>2. \A x \in Items(v) : Upto1(x) = Upto(v, PathLess, x)
  BY <1>1 DEF Upto, PathLess
<1>3. Placed1 = Placed
  <2> HIDE DEF Upto1
  <2> QED
    BY <1>2
<1>4. InOrder(v) = [k \in DOMAIN v |-> At(Placed1, k)[2]]
  BY DEF InOrder, Sorted, Items, At
<1>5. SortedBy(v, PathLess) = [k \in DOMAIN v |-> At(Placed, k)[2]]
  BY DEF SortedBy, Sorted, Upto, Items, At
<1>6. [k \in DOMAIN v |-> At(Placed1, k)[2]] = [k \in DOMAIN v |-> At(Placed, k)[2]]
  <2> HIDE DEF Placed1, Placed
  <2> QED
    BY <1>3
<1> HIDE DEF Placed1, Placed
<1> QED
  BY <1>4, <1>5, <1>6

\* A listing of the directory has every path once.
LEMMA ListingFacts ==
    ASSUME NEW D \in SUBSET Path, IsFiniteSet(D), NEW v \in SetToSeqs(D)
    PROVE  /\ v \in Seq(Path) /\ Len(v) = Cardinality(D) /\ Range(v) = D
           /\ \A m, n \in 1..Len(v) : m # n => v[m] # v[n]
           /\ DOMAIN v = 1..Cardinality(D) /\ Cardinality(D) \in Nat
<1>1. Cardinality(D) \in Nat
  BY FS_CardinalityType
<1>2. v \in [1..Cardinality(D) -> D] /\ \A m, n \in 1..Cardinality(D) : m # n => v[m] # v[n]
  BY DEF SetToSeqs
<1>3. v \in Seq(D) /\ Len(v) = Cardinality(D)
  BY <1>1, <1>2, SeqDef
<1>4. v \in Seq(Path)
  BY <1>3, SeqMonotonic
<1>5. Range(v) = D
  BY OrderKeepsAll
<1> QED
  BY <1>1, <1>2, <1>3, <1>4, <1>5

\* Sorted, it depends on the directory's contents only.
LEMMA PathsSorted ==
    ASSUME NEW D \in SUBSET Path, IsFiniteSet(D), NEW p \in SetToSeqs(D), NEW q \in SetToSeqs(D)
    PROVE  InOrder(p) = InOrder(q) /\ DOMAIN p = DOMAIN q
<1>1. /\ p \in Seq(Path) /\ q \in Seq(Path) /\ Len(p) = Len(q) /\ Range(p) = Range(q)
      /\ \A m, n \in 1..Len(p) : m # n => p[m] # p[n] /\ q[m] # q[n]
      /\ DOMAIN p = DOMAIN q
  BY ListingFacts
<1>2. SortedBy(p, PathLess) = SortedBy(q, PathLess)
  BY <1>1, PathOrder, SortForgetsOrder
<1> QED
  BY <1>1, <1>2, SortsPaths

\* and still has every path.
LEMMA PathsKept ==
    ASSUME NEW D \in SUBSET Path, IsFiniteSet(D), NEW p \in SetToSeqs(D)
    PROVE  /\ Len(p) \in Nat /\ DOMAIN p = 1..Len(p)
           /\ DOMAIN InOrder(p) = 1..Len(p) /\ Range(InOrder(p)) = D
<1>1. p \in Seq(Path) /\ Range(p) = D /\ Len(p) \in Nat /\ DOMAIN p = 1..Len(p)
  BY ListingFacts
<1>2. InOrder(p) = SortedBy(p, PathLess)
  BY <1>1, SortsPaths
<1> DEFINE t == SortedBy(p, PathLess)
<1>3. t \in Seq(Path) /\ Len(t) = Len(p) /\ Range(t) = Range(p)
  BY <1>1, PathOrder, SortedFacts
<1> HIDE DEF t
<1>4. DOMAIN t = 1..Len(p)
  BY <1>3, LenProperties
<1> QED
  BY <1>1, <1>2, <1>3, <1>4 DEF t

LEMMA DirPaths ==
    ASSUME Files
    PROVE  DOMAIN dir \in SUBSET Path /\ IsFiniteSet(DOMAIN dir)
<1>1. \A c \in Crate : JsonPath(c) \in Path
  BY InfoAssumption DEF JsonPath, Path
<1>2. \A p \in DOMAIN dir : p \in Path
  BY <1>1 DEF Files
<1>3. IsFiniteSet(DOMAIN dir)
  BY DEF Files
<1> QED
  BY <1>2, <1>3

\* The merge of all files: every crate has its own.
LEMMA MergeFacts ==
    ASSUME Inputs, Files, \A c \in Crate : JsonPath(c) \in DOMAIN dir,
           NEW paths \in SetToSeqs(DOMAIN dir)
    PROVE  Merge(paths) \in Seq(Info) /\ Range(Merge(paths)) = AllEntries
<1>1. DOMAIN dir \in SUBSET Path /\ IsFiniteSet(DOMAIN dir)
  BY DirPaths
<1> DEFINE L == Len(paths)
           order == InOrder(paths)
           seqs == [n \in 1..L |-> dir[order[n]]]
<1>2. /\ L \in Nat /\ DOMAIN paths = 1..L
      /\ DOMAIN order = 1..L /\ Range(order) = DOMAIN dir
  BY <1>1, PathsKept
<1>3. Merge(paths) = FlattenSeq(seqs)
  BY <1>2 DEF Merge
<1> HIDE DEF order, L
<1>4. \A n \in 1..L : order[n] \in DOMAIN dir
  BY <1>2 DEF Range
<1>5. \A p \in DOMAIN dir : \E n \in 1..L : order[n] = p
  BY <1>2 DEF Range
<1>6. \A p \in DOMAIN dir : dir[p] \in Seq(Info)
  BY DEF Files
<1>7. seqs \in Seq(Seq(Info)) /\ DOMAIN seqs = 1..L
  <2>1. seqs \in [1..L -> Seq(Info)]
    BY <1>4, <1>6
  <2> HIDE DEF seqs
  <2> QED
    BY <1>2, <2>1, SeqDef
<1>8. /\ FlattenSeq(seqs) \in Seq(Info)
      /\ Range(FlattenSeq(seqs)) = UNION {Range(seqs[p]) : p \in DOMAIN seqs}
  <2> HIDE DEF seqs
  <2> QED
    BY <1>7, Flattened
<1>9. UNION {Range(seqs[p]) : p \in DOMAIN seqs} = UNION {Range(dir[p]) : p \in DOMAIN dir}
  <2>1. \A n \in 1..L : seqs[n] = dir[order[n]]
    OBVIOUS
  <2> HIDE DEF seqs
  <2>2. \A n \in 1..L : \E p \in DOMAIN dir : Range(seqs[n]) = Range(dir[p])
    BY <1>4, <2>1
  <2>3. \A p \in DOMAIN dir : \E n \in 1..L : Range(seqs[n]) = Range(dir[p])
    BY <1>5, <2>1
  <2> QED
    BY <1>7, <2>2, <2>3
<1>10. UNION {Range(dir[p]) : p \in DOMAIN dir} = AllEntries
  <2>1. \A p \in DOMAIN dir : \E c \in Crate : Range(dir[p]) = Entries(c)
    BY DEF Files
  <2>2. \A c \in Crate : Range(dir[JsonPath(c)]) = Entries(c)
    BY DEF Files, JsonPath
  <2>3. UNION {Range(dir[p]) : p \in DOMAIN dir} \subseteq AllEntries
    BY <2>1 DEF AllEntries
  <2>4. AllEntries \subseteq UNION {Range(dir[p]) : p \in DOMAIN dir}
    BY <2>2 DEF AllEntries
  <2> QED
    BY <2>3, <2>4
<1> HIDE DEF seqs
<1> QED
  BY <1>3, <1>8, <1>9, <1>10

LEMMA NoneIsEmpty ==
    ASSUME NEW S
    PROVE  None \in Seq(S) /\ Range(None) = {} /\ \A s \in Seq(S) : Range(s) = {} => s = None
<1>1. None \in Seq(S) /\ Range(None) = {}
  BY EmptySeq DEF None, Range
<1>2. ASSUME NEW s \in Seq(S), s # None
      PROVE  Range(s) # {}
  BY <1>2, LastIsElem DEF None
<1> QED
  BY <1>1, <1>2

LEMMA MergedDedups ==
    ASSUME Inputs, Merged
    PROVE  /\ dedup(merged) \in Seq(Info) /\ OnePerPlace(merged, dedup(merged))
           /\ dedup(merged) # None => merged # None
<1>1. dedup(merged) \in Seq(Info) /\ OnePerPlace(merged, dedup(merged))
  BY DedupFacts DEF Merged
<1>2. merged = None => Range(dedup(merged)) = {}
  BY <1>1, NoneIsEmpty DEF OnePerPlace
<1> QED
  BY <1>1, <1>2, NoneIsEmpty

LEMMA InitInfo ==
    Init => InfoInv
<1> SUFFICES ASSUME Init PROVE InfoInv
  OBVIOUS
<1>1. Inputs
  BY DEF Init, Inputs
<1>2. DOMAIN dir = {}
  BY DEF Init
<1>3. Files
  BY <1>2, FS_EmptySet DEF Files
<1>4. Merged /\ Deduped
  BY NoneIsEmpty DEF Init, Merged, Deduped
<1> QED
  BY <1>1, <1>3, <1>4 DEF InfoInv

LEMMA AnalysisStep ==
    ASSUME InfoInv, NEW c \in Crate, Analysis(c)
    PROVE  InfoInv'
<1>1. PICK order \in SetToSeqs(collected[c]) :
        LET list == Listed([n \in DOMAIN order |-> new(c, order[n])]) IN
        dir' = [p \in DOMAIN dir \cup {JsonPath(c)} |-> IF p = JsonPath(c) THEN list ELSE dir[p]]
  BY DEF Analysis
<1>2. UNCHANGED <<span, collected, merged, deduped>> /\ Inputs /\ Files /\ Merged /\ Deduped
  BY DEF Analysis, InfoInv
<1> DEFINE S == collected[c]
           N == Cardinality(S)
           infos == [n \in DOMAIN order |-> new(c, order[n])]
           list == Listed(infos)
<1>3. IsFiniteSet(S) /\ N \in Nat
  <2>1. S \in SUBSET Instance
    BY <1>2 DEF Inputs
  <2> HIDE DEF S
  <2> QED
    BY <2>1, InfoAssumption, FS_Subset, FS_CardinalityType DEF N
<1>4. order \in [1..N -> S] /\ Range(order) = S
  BY <1>3, OrderKeepsAll DEF SetToSeqs
<1>5. infos \in Seq(Info) /\ DOMAIN infos = 1..N
  <2>1. \A n \in 1..N : new(c, order[n]) \in Info
    BY <1>2, <1>4, EntryFacts
  <2>2. infos \in [1..N -> Info]
    BY <1>4, <2>1
  <2> HIDE DEF infos, N
  <2> QED
    BY <1>3, <2>2, SeqDef
<1>6. Range(infos) = Entries(c)
  BY <1>4 DEF Range, Entries
<1>7. list \in Seq(Info) /\ Range(list) = Entries(c)
  <2> HIDE DEF infos
  <2> QED
    BY <1>5, <1>6, ListedFacts
<1>8. /\ DOMAIN dir' = DOMAIN dir \cup {JsonPath(c)} /\ dir'[JsonPath(c)] = list
      /\ \A p \in DOMAIN dir : p # JsonPath(c) => dir'[p] = dir[p]
  <2> HIDE DEF list
  <2>1. dir' = [p \in DOMAIN dir \cup {JsonPath(c)} |-> IF p = JsonPath(c) THEN list ELSE dir[p]]
    BY <1>1 DEF list
  <2> QED
    BY <2>1
<1> HIDE DEF list
<1>9. \A d \in Crate : Entries(d)' = Entries(d)
  BY <1>2 DEF Entries, new, End
<1>10. Files'
  <2>1. IsFiniteSet(DOMAIN dir')
    BY <1>2, <1>8, FS_AddElement DEF Files
  <2>2. ASSUME NEW p \in DOMAIN dir'
        PROVE  \E d \in Crate : p = JsonPath(d) /\ dir'[p] \in Seq(Info) /\ Range(dir'[p]) = Entries(d)
    <3>1. CASE p = JsonPath(c)
      BY <1>7, <1>8, <3>1
    <3>2. CASE p # JsonPath(c)
      <4>1. p \in DOMAIN dir /\ dir'[p] = dir[p]
        BY <1>8, <3>2
      <4> QED
        BY <1>2, <4>1 DEF Files
    <3> QED
      BY <3>1, <3>2
  <2> QED
    BY <1>9, <2>1, <2>2 DEF Files
<1>11. Inputs' /\ Merged' /\ Deduped'
  <2>1. AllEntries' = AllEntries
    BY <1>9 DEF AllEntries
  <2> QED
    BY <1>2, <2>1 DEF Inputs, Merged, Deduped
<1> QED
  BY <1>10, <1>11 DEF InfoInv

\* What the files and the merged list are compared with does not change.
LEMMA SameEntries ==
    ASSUME UNCHANGED <<span, collected>>
    PROVE  AllEntries' = AllEntries /\ \A c \in Crate : Entries(c)' = Entries(c)
BY DEF AllEntries, Entries, new, End

LEMMA MergeStep ==
    ASSUME InfoInv, MergeAnalysis
    PROVE  InfoInv'
<1>1. /\ merged = None /\ UNCHANGED <<span, collected, dir, deduped>>
      /\ \A c \in Crate : JsonPath(c) \in DOMAIN dir
      /\ \E paths \in SetToSeqs(DOMAIN dir) : merged' = Merge(paths)
  BY DEF MergeAnalysis
<1>2. Inputs /\ Files /\ Deduped
  BY DEF InfoInv
<1>3. AllEntries' = AllEntries /\ \A c \in Crate : Entries(c)' = Entries(c)
  BY <1>1, SameEntries
<1>4. merged' \in Seq(Info) /\ Range(merged') = AllEntries
  BY <1>1, <1>2, MergeFacts
<1>5. Inputs' /\ Merged'
  BY <1>1, <1>2, <1>3, <1>4 DEF Inputs, Merged
<1>6. Files'
  BY <1>1, <1>2, <1>3 DEF Files
<1>7. Deduped'
  BY <1>1, <1>2 DEF Deduped
<1> QED
  BY <1>5, <1>6, <1>7 DEF InfoInv

LEMMA DedupStep ==
    ASSUME InfoInv, Dedup
    PROVE  InfoInv'
<1>1. deduped' = dedup(merged) /\ UNCHANGED <<span, collected, dir, merged>>
  BY DEF Dedup
<1>2. Inputs /\ Files /\ Merged
  BY DEF InfoInv
<1>3. AllEntries' = AllEntries /\ \A c \in Crate : Entries(c)' = Entries(c)
  BY <1>1, SameEntries
<1>4. Inputs' /\ Merged'
  BY <1>1, <1>2, <1>3 DEF Inputs, Merged
<1>5. Files'
  BY <1>1, <1>2, <1>3 DEF Files
<1>6. Deduped'
  BY <1>1, <1>2, MergedDedups DEF Deduped
<1> QED
  BY <1>4, <1>5, <1>6 DEF InfoInv

LEMMA InfoStep ==
    InfoInv /\ [Next]_vars => InfoInv'
<1> SUFFICES ASSUME InfoInv, [Next]_vars PROVE InfoInv'
  OBVIOUS
<1>1. ASSUME NEW c \in Crate, Analysis(c)
      PROVE  InfoInv'
  BY <1>1, AnalysisStep
<1>2. CASE MergeAnalysis
  BY <1>2, MergeStep
<1>3. CASE Dedup
  BY <1>3, DedupStep
<1>4. CASE UNCHANGED vars
  <2>1. UNCHANGED <<span, collected, dir, merged, deduped>>
    BY <1>4 DEF vars
  <2>2. AllEntries' = AllEntries /\ \A c \in Crate : Entries(c)' = Entries(c)
    BY <2>1, SameEntries
  <2> QED
    BY <2>1, <2>2 DEF InfoInv, Inputs, Files, Merged, Deduped
<1> QED
  BY <1>1, <1>2, <1>3, <1>4 DEF Next

LEMMA InfoInvariant ==
    Spec => []InfoInv
<1> QED
  BY InitInfo, InfoStep, PTL DEF Spec

-----------------------------------------------------------------------------
(* Theorems. *)

\* Every list holds well-formed entries: a line number fits in its 16 bits.
THEOREM TypeCorrect ==
    Spec => []TypeOK
<1>1. InfoInv => TypeOK
  <2> SUFFICES ASSUME InfoInv PROVE TypeOK
    OBVIOUS
  <2>1. Inputs /\ Files /\ Merged /\ Deduped
    BY DEF InfoInv
  <2>2. DOMAIN dir \subseteq Nat \X Nat
    BY <2>1, DirPaths DEF Path
  <2>3. \A s \in Seq(Info) : Range(s) \subseteq Info
    BY LenProperties, ElementOfSeq DEF Range
  <2>4. \A p \in DOMAIN dir : Range(dir[p]) \subseteq Info
    BY <2>1, <2>3 DEF Files
  <2>5. Range(merged) \subseteq Info
    BY <2>1, <2>3 DEF Merged
  <2>6. deduped \in Seq(Info)
    <3>1. CASE deduped = None
      BY <3>1, NoneIsEmpty
    <3>2. CASE deduped # None
      BY <2>1, <3>2, MergedDedups DEF Deduped
    <3> QED
      BY <3>1, <3>2
  <2> QED
    BY <2>1, <2>2, <2>3, <2>4, <2>5, <2>6 DEF TypeOK, Inputs
<1> QED
  BY <1>1, InfoInvariant, PTL

\* merge_analysis has one result only, whatever order the directory is listed in.
THEOREM MergeIsDeterministic ==
    Spec => []SameInAnyOrder
<1>1. InfoInv => SameInAnyOrder
  <2> SUFFICES ASSUME InfoInv, NEW p \in SetToSeqs(DOMAIN dir), NEW q \in SetToSeqs(DOMAIN dir)
               PROVE  Merge(p) = Merge(q)
    BY DEF SameInAnyOrder
  <2>1. DOMAIN dir \in SUBSET Path /\ IsFiniteSet(DOMAIN dir)
    BY DirPaths DEF InfoInv
  <2>2. InOrder(p) = InOrder(q) /\ DOMAIN p = DOMAIN q
    BY <2>1, PathsSorted
  <2> QED
    BY <2>2 DEF Merge
<1> QED
  BY <1>1, InfoInvariant, PTL

\* Every function that a crate has collected is in analysis.json as the crate
\* saw it, also when crates have the same name.
THEOREM MergeLosesNothing ==
    Spec => []NothingLost
<1>1. InfoInv => NothingLost
  <2> SUFFICES ASSUME InfoInv, merged # None, NEW c \in Crate, NEW i \in collected[c]
               PROVE  \E e \in Range(merged) :
                        /\ e.instance = i.name
                        /\ e.source_file = SourceFile[c][i.def]
                        /\ span[i.def].first <= LineMax => e.line_start = span[i.def].first
                        /\ End(c, i.def) <= LineMax => e.line_end = End(c, i.def)
    BY DEF NothingLost
  <2>1. new(c, i) \in Range(merged)
    BY DEF InfoInv, Merged, AllEntries, Entries
  <2>2. /\ new(c, i).instance = i.name
        /\ new(c, i).source_file = SourceFile[c][i.def]
        /\ span[i.def].first <= LineMax => new(c, i).line_start = span[i.def].first
        /\ End(c, i.def) <= LineMax => new(c, i).line_end = End(c, i.def)
    BY DEF new, pos_to_line_nr
  <2> QED
    BY <2>1, <2>2
<1> QED
  BY <1>1, InfoInvariant, PTL

\* However each crate names the files and whatever functions are printed
\* alike, dedup leaves one entry for each name, file and first line reported,
\* and it ends where the report that goes furthest down ends.
THEOREM DedupKeepsBest ==
    Spec => []BestSurvives
<1>1. InfoInv => BestSurvives
  <2> SUFFICES ASSUME InfoInv, deduped # None
               PROVE  /\ Range(deduped) \subseteq Reported
                      /\ \A e \in Reported : \E n \in DOMAIN deduped :
                           /\ {m \in DOMAIN deduped : Place(deduped[m]) = Place(e)} = {n}
                           /\ e.line_end <= deduped[n].line_end
    BY DEF BestSurvives
  <2>1. Range(merged) = Reported
    BY DEF InfoInv, Merged, Deduped, AllEntries, Entries, Reported
  <2>2. deduped \in Seq(Info) /\ OnePerPlace(merged, deduped)
    BY MergedDedups DEF InfoInv, Deduped
  <2>3. DOMAIN deduped = 1..Len(deduped)
    BY <2>2, LenProperties
  <2>4. ASSUME NEW e \in Reported
        PROVE  \E n \in DOMAIN deduped :
                 /\ {m \in DOMAIN deduped : Place(deduped[m]) = Place(e)} = {n}
                 /\ e.line_end <= deduped[n].line_end
    <3>1. PICK n \in 1..Len(deduped) : Place(deduped[n]) = Place(e) /\ e.line_end <= deduped[n].line_end
      BY <2>1, <2>2 DEF OnePerPlace
    <3>2. \A m \in 1..Len(deduped) : Place(deduped[m]) = Place(e) => m = n
      BY <2>2, <3>1 DEF OnePerPlace
    <3> QED
      BY <2>3, <3>1, <3>2
  <2> QED
    BY <2>1, <2>2, <2>4 DEF OnePerPlace
<1> QED
  BY <1>1, InfoInvariant, PTL
=============================================================================
