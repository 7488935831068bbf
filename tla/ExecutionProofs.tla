--------------------------- MODULE ExecutionProofs --------------------------
(***************************************************************************)
(* Proofs about the item visitor and about the analysis together with the  *)
(* program it analyses.                                                    *)
(*                                                                         *)
(* First collect_alloc_items, for any allocations memory and anonymous     *)
(* statics of which do not lead back to themselves: the recursion defines  *)
(* a list of items for every pointer, which holds the lists of all         *)
(* pointers it follows.  Then, for every crate, every compiler data that   *)
(* MirVisitor and Execution assume, and every execution, what is executed  *)
(* has been collected.                                                     *)
(***************************************************************************)
EXTENDS Execution, ReachabilityProofs, WellFoundedInduction

-----------------------------------------------------------------------------
(* The concatenation of several lists. *)

\* Counting up to n, with the set of the numbers for which something holds.
LEMMA CountUp ==
    ASSUME NEW n \in Nat \ {0}, NEW T \in SUBSET (1..n), 1 \in T,
           \A i \in 1..n : i \in T /\ i # n => i + 1 \in T
    PROVE  T = 1..n
<1> SUFFICES ASSUME T # 1..n PROVE FALSE
  OBVIOUS
<1> DEFINE Rest == (1..n) \ T
<1> DEFINE Below(x) == {y \in Rest : y < x}
           Belows == {Below(x) : x \in Rest}
<1>1. IsWellFoundedOn(StrictSubsetOrdering(Rest), SUBSET Rest)
  <2>1. IsFiniteSet(Rest)
    BY FS_Interval, FS_Subset
  <2> QED
    BY <2>1, FS_StrictSubsetOrderingWellFounded, FS_FiniteSubsetsOfFinite
<1>2. Belows \subseteq SUBSET Rest /\ Belows # {}
  OBVIOUS
<1>3. PICK A \in Belows : \A B \in Belows : ~ (<<B, A>> \in StrictSubsetOrdering(Rest))
  <2> HIDE DEF Belows, Rest
  <2> QED
    BY <1>1, <1>2, WFMin
<1>4. PICK x \in Rest : A = Below(x)
  OBVIOUS
<1>5. x # 1 /\ x - 1 \in 1..n
  OBVIOUS
<1>6. x - 1 \in Rest
  BY <1>5
<1>7. Below(x - 1) \subseteq Below(x) /\ Below(x - 1) # Below(x)
  <2>1. x - 1 \in Below(x) /\ x - 1 \notin Below(x - 1)
    BY <1>6
  <2>2. \A y \in Rest : y < x - 1 => y < x
    BY <1>5
  <2> QED
    BY <2>1, <2>2
<1>8. <<Below(x - 1), Below(x)>> \in StrictSubsetOrdering(Rest)
  BY <1>7 DEF StrictSubsetOrdering
<1> QED
  BY <1>3, <1>4, <1>6, <1>8

LEMMA ConcatElems ==
    ASSUME NEW S, NEW s \in Seq(S), NEW t \in Seq(S)
    PROVE  s \o t \in Seq(S) /\ Range(s \o t) = Range(s) \cup Range(t)
<1>1. /\ s \o t \in Seq(S)
      /\ Len(s \o t) = Len(s) + Len(t)
      /\ \A i \in 1..(Len(s) + Len(t)) : (s \o t)[i] = IF i <= Len(s) THEN s[i] ELSE t[i - Len(s)]
  BY ConcatProperties
<1>2. /\ DOMAIN s = 1..Len(s) /\ DOMAIN t = 1..Len(t) /\ Len(s) \in Nat /\ Len(t) \in Nat
      /\ DOMAIN (s \o t) = 1..(Len(s) + Len(t))
  BY <1>1, LenProperties
<1>3. \A i \in 1..Len(t) : (s \o t)[i + Len(s)] = t[i] /\ i + Len(s) \in 1..(Len(s) + Len(t))
  BY <1>1, <1>2
<1>4. \A i \in 1..Len(s) : (s \o t)[i] = s[i] /\ i \in 1..(Len(s) + Len(t))
  BY <1>1, <1>2
<1>5. \A i \in 1..(Len(s) + Len(t)) : i \in 1..Len(s) \/ (i - Len(s) \in 1..Len(t) /\ ~(i <= Len(s)))
  BY <1>2
<1>6. Range(s \o t) \subseteq Range(s) \cup Range(t)
  BY <1>1, <1>2, <1>5 DEF Range
<1>7. Range(s) \subseteq Range(s \o t) /\ Range(t) \subseteq Range(s \o t)
  BY <1>2, <1>3, <1>4 DEF Range
<1> QED
  BY <1>1, <1>6, <1>7

\* FlattenSeq's recursion is well defined, and its result is a list of
\* elements that holds the elements of every list.
LEMMA Flattened ==
    ASSUME NEW S, NEW seqs \in Seq(Seq(S))
    PROVE  /\ FlattenSeq(seqs) \in Seq(S)
           /\ Range(FlattenSeq(seqs)) = UNION {Range(seqs[p]) : p \in DOMAIN seqs}
<1> DEFINE n == Len(seqs)
<1>1. n \in Nat /\ DOMAIN seqs = 1..n /\ \A p \in 1..n : seqs[p] \in Seq(S)
  BY LenProperties, ElementOfSeq
<1>2. CASE n = 0
  <2>1. seqs = <<>> /\ FlattenSeq(seqs) = seqs
    BY <1>2, EmptySeq DEF FlattenSeq
  <2>2. DOMAIN seqs = {}
    BY <1>1, <1>2
  <2> QED
    BY <2>1, <2>2, EmptySeq DEF Range
<1>3. CASE n # 0
  <2> DEFINE Flat(f, m) == f = [i \in 1..m |-> IF i = 1 THEN seqs[i] ELSE f[i - 1] \o seqs[i]]
             Solved == {m \in 1..n : \E f : Flat(f, m)}
             flat == CHOOSE f : Flat(f, n)
  <2>1. 1 \in Solved
    <3>1. Flat([i \in 1..1 |-> seqs[1]], 1)
      <4>1. \A i \in 1..1 : i = 1
        OBVIOUS
      <4> QED
        BY <4>1
    <3>2. 1 \in 1..n
      BY <1>1, <1>3
    <3> HIDE DEF Flat
    <3> QED
      BY <3>1, <3>2
  <2>2. ASSUME NEW m \in 1..n, m \in Solved, m # n
        PROVE  m + 1 \in Solved
    <3>1. PICK f : Flat(f, m)
      BY <2>2
    <3> DEFINE g == [i \in 1..(m + 1) |-> IF i <= m THEN f[i] ELSE f[m] \o seqs[m + 1]]
               h == [i \in 1..(m + 1) |-> IF i = 1 THEN seqs[i] ELSE g[i - 1] \o seqs[i]]
    <3>2. ASSUME NEW i \in 1..(m + 1)
          PROVE  g[i] = h[i]
      <4>1. m \in Nat \ {0} /\ 1 \in 1..(m + 1) /\ m \in 1..m
        BY <1>1
      <4>2. CASE i <= m
        <5>1. i \in 1..m /\ g[i] = f[i]
          BY <4>1, <4>2
        <5>2. f[i] = IF i = 1 THEN seqs[i] ELSE f[i - 1] \o seqs[i]
          BY <3>1, <5>1
        <5>3. i # 1 => g[i - 1] = f[i - 1]
          BY <4>1, <5>1
        <5> QED
          BY <5>1, <5>2, <5>3
      <4>3. CASE ~(i <= m)
        <5>1. i = m + 1 /\ i # 1 /\ i - 1 = m /\ m \in 1..(m + 1) /\ m <= m
          BY <4>1, <4>3
        <5>2. g[i] = f[m] \o seqs[m + 1] /\ g[m] = f[m]
          BY <5>1, <4>3
        <5> QED
          BY <5>1, <5>2
      <4> QED
        BY <4>2, <4>3
    <3>3. g = h
      BY <3>2
    <3>4. Flat(g, m + 1)
      BY <3>3
    <3>5. m + 1 \in 1..n
      <4>1. m # n
        BY <2>2
      <4> HIDE DEF n, Solved, Flat
      <4> QED
        BY <1>1, <4>1
    <3> HIDE DEF g, Flat
    <3> QED
      BY <3>4, <3>5
  <2>3. n \in Solved
    <3> HIDE DEF Solved
    <3>1. Solved \in SUBSET (1..n)
      BY DEF Solved
    <3>2. Solved = 1..n
      BY <1>1, <1>3, <2>1, <2>2, <3>1, CountUp
    <3> QED
      BY <1>1, <1>3, <3>2
  <2>4. Flat(flat, n)
    <3> HIDE DEF Flat
    <3> QED
      BY <2>3
  <2>5. FlattenSeq(seqs) = flat[n]
    BY <1>3 DEF FlattenSeq
  <2> HIDE DEF flat
  <2> DEFINE Before(i) == UNION {Range(seqs[p]) : p \in 1..i}
             Good == {i \in 1..n : flat[i] \in Seq(S) /\ Range(flat[i]) = Before(i)}
  <2>6. 1 \in Good
    <3>1. flat[1] = seqs[1] /\ 1 \in 1..n
      BY <1>1, <1>3, <2>4
    <3>2. Before(1) = Range(seqs[1])
      <4>1. 1..1 = {1}
        OBVIOUS
      <4> QED
        BY <4>1
    <3> QED
      BY <1>1, <3>1, <3>2
  <2>7. ASSUME NEW i \in 1..n, i \in Good, i # n
        PROVE  i + 1 \in Good
    <3>1. i + 1 \in 1..n /\ i + 1 # 1 /\ (i + 1) - 1 = i /\ 1..(i + 1) = (1..i) \cup {i + 1}
      BY <1>1, <2>7
    <3>2. flat[i + 1] = flat[i] \o seqs[i + 1]
      BY <2>4, <3>1
    <3>3. /\ flat[i + 1] \in Seq(S)
          /\ Range(flat[i + 1]) = Range(flat[i]) \cup Range(seqs[i + 1])
      BY <1>1, <2>7, <3>1, <3>2, ConcatElems
    <3>4. Before(i + 1) = Before(i) \cup Range(seqs[i + 1])
      BY <3>1
    <3> HIDE DEF Before
    <3> QED
      BY <2>7, <3>1, <3>3, <3>4
  <2>8. n \in Good
    <3> HIDE DEF Good
    <3>1. Good \in SUBSET (1..n)
      BY DEF Good
    <3>2. Good = 1..n
      BY <1>1, <1>3, <2>6, <2>7, <3>1, CountUp
    <3> QED
      BY <1>1, <1>3, <3>2
  <2> QED
    BY <1>1, <2>5, <2>8
<1> QED
  BY <1>2, <1>3

-----------------------------------------------------------------------------
(* The recursion of collect_alloc_items. *)

\* One level of it: f gives the items of the pointers it follows.
OneLevel(a, f) ==
    LET alloc == GlobalAlloc(a)
        IfLocal(x, item) == IF should_codegen_locally(x) THEN <<item>> ELSE <<>>
    IN  CASE alloc.kind = "Function" -> IfLocal(alloc.fn, Fn(alloc.fn))
          [] alloc.kind = "TypeId" -> <<>>
          [] alloc.kind = "Static" /\ alloc.def \notin AnonStatic ->
                IfLocal(alloc.def, StaticItem(alloc.def))
          [] OTHER ->
                FlattenSeq([p \in DOMAIN Pointers(alloc) |-> f[Pointers(alloc)[p]]])

\* The kinds of allocations, and where the recursion goes on.
LEMMA Kinds ==
    ASSUME NEW a \in Alloc
    PROVE  LET alloc == GlobalAlloc(a) IN
           /\ alloc.kind \in {"Function", "TypeId", "Static", "Memory", "VTable"}
           /\ alloc.kind = "Function" => alloc.fn \in Instance
           /\ alloc.kind = "Static" => alloc.def \in Static
           /\ alloc.kind = "VTable" => alloc.vtable \in Ty \X Trait
           /\ alloc.kind \in {"Static", "Memory", "VTable"} => Pointers(alloc) \in Seq(Alloc)
BY CompilerData DEF GlobalAllocs, Pointers

Leaf(alloc) ==
    \/ alloc.kind \in {"Function", "TypeId"}
    \/ alloc.kind = "Static" /\ alloc.def \notin AnonStatic

LEMMA FollowsPointers ==
    ASSUME NEW a \in Alloc
    PROVE  /\ Follows(a) = IF Leaf(GlobalAlloc(a)) THEN {} ELSE Range(Pointers(GlobalAlloc(a)))
           /\ Follows(a) \subseteq Alloc
<1>1. Follows(a) = IF Leaf(GlobalAlloc(a)) THEN {} ELSE Range(Pointers(GlobalAlloc(a)))
  BY Kinds DEF Follows, Leaf
<1>2. ~Leaf(GlobalAlloc(a)) => Pointers(GlobalAlloc(a)) \in Seq(Alloc)
  BY Kinds DEF Leaf
<1>3. \A s \in Seq(Alloc) : Range(s) \subseteq Alloc
  BY LenProperties, ElementOfSeq DEF Range
<1> QED
  BY <1>1, <1>2, <1>3

\* It depends on the items of these pointers only.
LEMMA SameLevel ==
    ASSUME NEW a \in Alloc, NEW f, NEW g, \A b \in Follows(a) : f[b] = g[b]
    PROVE  OneLevel(a, f) = OneLevel(a, g)
<1> DEFINE alloc == GlobalAlloc(a)
           Of(h) == [p \in DOMAIN Pointers(alloc) |-> h[Pointers(alloc)[p]]]
<1>1. CASE Leaf(alloc)
  BY <1>1 DEF OneLevel, Leaf
<1>2. CASE ~Leaf(alloc)
  <2>1. \A p \in DOMAIN Pointers(alloc) : Pointers(alloc)[p] \in Follows(a)
    BY <1>2, FollowsPointers DEF Range
  <2>2. Of(f) = Of(g)
    BY <2>1
  <2>3. \A h : OneLevel(a, h) = FlattenSeq(Of(h))
    BY <1>2, Kinds DEF OneLevel, Leaf
  <2> QED
    BY <2>2, <2>3
<1> QED
  BY <1>1, <1>2

\* A solution for some allocations, which are followed within them.
Solves(f, D) ==
    \A a \in D : Follows(a) \subseteq D /\ f[a] = OneLevel(a, f)

LEMMA SolutionsAgree ==
    ASSUME NEW D \in SUBSET Alloc, NEW f, Solves(f, D),
           NEW E \in SUBSET Alloc, NEW g, Solves(g, E)
    PROVE  \A a \in D \cap E : f[a] = g[a]
<1> DEFINE Bad == {a \in D \cap E : f[a] # g[a]}
<1> SUFFICES ASSUME Bad # {} PROVE FALSE
  OBVIOUS
<1>1. PICK a \in Bad : Follows(a) \cap Bad = {}
  <2>1. Bad \in SUBSET Alloc
    OBVIOUS
  <2> HIDE DEF Bad
  <2> QED
    BY <2>1, RecursionEnds
<1>2. \A b \in Follows(a) : f[b] = g[b]
  BY <1>1 DEF Solves
<1>3. OneLevel(a, f) = OneLevel(a, g)
  BY <1>2, SameLevel
<1> QED
  BY <1>3 DEF Solves

\* collect_alloc_items, which keeps no visited set, has a result for every
\* pointer, the one its equation gives, when memory and anonymous statics do
\* not lead back to themselves.
THEOREM RecursionDefines ==
    collect_alloc_items = [a \in Alloc |-> OneLevel(a, collect_alloc_items)]
<1> DEFINE Good == {a \in Alloc : \E D \in SUBSET Alloc : \E f : a \in D /\ Solves(f, D)}
           IsValue(a, v) == \E D \in SUBSET Alloc : \E f : a \in D /\ Solves(f, D) /\ v = f[a]
           F == [a \in Good |-> CHOOSE v : IsValue(a, v)]
<1>1. ASSUME NEW D \in SUBSET Alloc, NEW f, Solves(f, D), NEW a \in D
      PROVE  a \in Good /\ F[a] = f[a]
  <2>1. a \in Good /\ IsValue(a, f[a])
    BY <1>1
  <2>2. IsValue(a, F[a])
    <3> HIDE DEF IsValue, Good
    <3> QED
      BY <2>1
  <2>3. PICK E \in SUBSET Alloc : \E g : a \in E /\ Solves(g, E) /\ F[a] = g[a]
    BY <2>2
  <2>4. PICK g : a \in E /\ Solves(g, E) /\ F[a] = g[a]
    BY <2>3
  <2>5. f[a] = g[a]
    BY <1>1, <2>4, SolutionsAgree
  <2> QED
    BY <2>1, <2>4, <2>5
<1>2. Solves(F, Good)
  <2> SUFFICES ASSUME NEW a \in Good PROVE Follows(a) \subseteq Good /\ F[a] = OneLevel(a, F)
    BY DEF Solves
  <2>1. PICK D \in SUBSET Alloc : \E f : a \in D /\ Solves(f, D)
    OBVIOUS
  <2>2. PICK f : a \in D /\ Solves(f, D)
    BY <2>1
  <2> HIDE DEF Good, F
  <2>3. Follows(a) \subseteq D /\ f[a] = OneLevel(a, f)
    BY <2>2 DEF Solves
  <2>4. \A b \in Follows(a) : b \in Good /\ F[b] = f[b]
    BY <1>1, <2>2, <2>3
  <2>5. OneLevel(a, F) = OneLevel(a, f)
    BY <2>2, <2>4, SameLevel
  <2> QED
    BY <1>1, <2>2, <2>3, <2>4, <2>5
<1>3. Good = Alloc
  <2> SUFFICES ASSUME Alloc \ Good # {} PROVE FALSE
    OBVIOUS
  <2>1. PICK a \in Alloc \ Good : Follows(a) \cap (Alloc \ Good) = {}
    <3> HIDE DEF Good
    <3> QED
      BY RecursionEnds
  <2> DEFINE All == Good \cup {a}
             G == [x \in All |-> IF x = a THEN OneLevel(a, F) ELSE F[x]]
  <2> HIDE DEF Good, F
  <2>2. Follows(a) \subseteq Good
    BY <2>1, FollowsPointers
  <2>3. \A x \in Good : G[x] = F[x] /\ Follows(x) \subseteq Good
    BY <1>2, <2>1 DEF Solves
  <2>4. ASSUME NEW x \in All
        PROVE  G[x] = OneLevel(x, F) /\ Follows(x) \subseteq Good
    BY <1>2, <2>2, <2>3 DEF Solves
  <2>5. Good \subseteq Alloc
    BY DEF Good
  <2>6. ASSUME NEW x \in All
        PROVE  OneLevel(x, F) = OneLevel(x, G)
    <3>1. \A b \in Follows(x) : F[b] = G[b]
      BY <2>3, <2>4
    <3>2. x \in Alloc
      BY <2>1, <2>5
    <3> HIDE DEF G
    <3> QED
      BY <3>1, <3>2, SameLevel
  <2>7. Solves(G, All)
    <3> HIDE DEF G
    <3> QED
      BY <2>4, <2>6 DEF Solves
  <2>8. a \in Good
    <3>1. All \in SUBSET Alloc /\ a \in All
      BY <2>1, <2>5
    <3> HIDE DEF All, G
    <3> QED
      BY <1>1, <2>7, <3>1
  <2> QED
    BY <2>1, <2>8
<1>4. F = [a \in Alloc |-> OneLevel(a, F)]
  <2>1. F = [a \in Good |-> F[a]]
    OBVIOUS
  <2> HIDE DEF F, Good
  <2> QED
    BY <1>2, <1>3, <2>1 DEF Solves
<1>5. collect_alloc_items = CHOOSE f : f = [a \in Alloc |-> OneLevel(a, f)]
  BY DEF collect_alloc_items, OneLevel
<1> HIDE DEF F
<1> QED
  BY <1>4, <1>5

-----------------------------------------------------------------------------
(* What it returns. *)

\* A list of items, for every pointer.
LEMMA AllocItemsType ==
    ASSUME NEW a \in Alloc
    PROVE  collect_alloc_items[a] \in Seq(MonoItem)
<1> DEFINE Bad == {b \in Alloc : collect_alloc_items[b] \notin Seq(MonoItem)}
<1> SUFFICES ASSUME Bad # {} PROVE FALSE
  OBVIOUS
<1>1. PICK b \in Bad : Follows(b) \cap Bad = {}
  <2>1. Bad \in SUBSET Alloc
    OBVIOUS
  <2> HIDE DEF Bad
  <2> QED
    BY <2>1, RecursionEnds
<1>2. \A x \in Follows(b) : collect_alloc_items[x] \in Seq(MonoItem)
  BY <1>1, FollowsPointers
<1>3. collect_alloc_items[b] = OneLevel(b, collect_alloc_items)
  BY RecursionDefines
<1> DEFINE alloc == GlobalAlloc(b)
<1>4. CASE Leaf(alloc)
  <2>1. \/ OneLevel(b, collect_alloc_items) = <<>>
        \/ /\ alloc.kind = "Function"
           /\ OneLevel(b, collect_alloc_items) = <<Fn(alloc.fn)>>
        \/ /\ alloc.kind = "Static"
           /\ OneLevel(b, collect_alloc_items) = <<StaticItem(alloc.def)>>
    BY <1>4 DEF OneLevel, Leaf
  <2>2. alloc.kind = "Function" => Fn(alloc.fn) \in MonoItem
    BY Kinds DEF MonoItem
  <2>3. alloc.kind = "Static" => StaticItem(alloc.def) \in MonoItem
    BY Kinds DEF MonoItem
  <2>4. \A x \in MonoItem : <<x>> \in Seq(MonoItem)
    OBVIOUS
  <2> QED
    BY <1>3, <2>1, <2>2, <2>3, <2>4, EmptySeq
<1>5. CASE ~Leaf(alloc)
  <2> DEFINE lists == [p \in DOMAIN Pointers(alloc) |-> collect_alloc_items[Pointers(alloc)[p]]]
  <2>1. Pointers(alloc) \in Seq(Alloc)
    BY <1>5, Kinds DEF Leaf
  <2>2. DOMAIN Pointers(alloc) = 1..Len(Pointers(alloc)) /\ Len(Pointers(alloc)) \in Nat
    BY <2>1, LenProperties
  <2>3. \A p \in DOMAIN Pointers(alloc) : Pointers(alloc)[p] \in Follows(b)
    BY <1>5, FollowsPointers DEF Range
  <2>4. lists \in Seq(Seq(MonoItem))
    BY <1>2, <2>2, <2>3, IsASeq
  <2>5. OneLevel(b, collect_alloc_items) = FlattenSeq(lists)
    BY <1>5, Kinds DEF OneLevel, Leaf
  <2> QED
    BY <1>3, <2>4, <2>5, Flattened
<1> QED
  BY <1>4, <1>5

\* A pointer to a function or a named static is that item, and the items of a
\* pointer include those of every pointer it is followed to.
LEMMA AllocItemsOf ==
    ASSUME NEW a \in Alloc
    PROVE  LET alloc == GlobalAlloc(a) IN
           /\ alloc.kind = "Function" /\ alloc.fn \notin Foreign
                => collect_alloc_items[a] = <<Fn(alloc.fn)>>
           /\ alloc.kind = "Static" /\ alloc.def \notin AnonStatic \cup Foreign
                => collect_alloc_items[a] = <<StaticItem(alloc.def)>>
           /\ \A b \in Follows(a) : Range(collect_alloc_items[b]) \subseteq Range(collect_alloc_items[a])
<1> DEFINE alloc == GlobalAlloc(a)
           lists == [p \in DOMAIN Pointers(alloc) |-> collect_alloc_items[Pointers(alloc)[p]]]
<1>1. collect_alloc_items[a] = OneLevel(a, collect_alloc_items)
  BY RecursionDefines
<1>2. alloc.kind = "Function" /\ alloc.fn \notin Foreign => collect_alloc_items[a] = <<Fn(alloc.fn)>>
  BY <1>1 DEF OneLevel, should_codegen_locally
<1>3. alloc.kind = "Static" /\ alloc.def \notin AnonStatic \cup Foreign
        => collect_alloc_items[a] = <<StaticItem(alloc.def)>>
  BY <1>1 DEF OneLevel, should_codegen_locally
<1>4. ASSUME NEW b \in Follows(a)
      PROVE  Range(collect_alloc_items[b]) \subseteq Range(collect_alloc_items[a])
  <2>1. ~Leaf(alloc) /\ b \in Range(Pointers(alloc))
    BY <1>4, FollowsPointers
  <2>2. Pointers(alloc) \in Seq(Alloc)
    BY <2>1, Kinds DEF Leaf
  <2>3. DOMAIN Pointers(alloc) = 1..Len(Pointers(alloc)) /\ Len(Pointers(alloc)) \in Nat
    BY <2>2, LenProperties
  <2>4. \A p \in DOMAIN Pointers(alloc) : Pointers(alloc)[p] \in Alloc
    BY <2>2, <2>3, ElementOfSeq
  <2>5. lists \in Seq(Seq(MonoItem))
    BY <2>3, <2>4, AllocItemsType, IsASeq
  <2>6. OneLevel(a, collect_alloc_items) = FlattenSeq(lists)
    BY <2>1, Kinds DEF OneLevel, Leaf
  <2>7. PICK p \in DOMAIN Pointers(alloc) : b = Pointers(alloc)[p]
    BY <2>1 DEF Range
  <2>8. p \in DOMAIN lists /\ lists[p] = collect_alloc_items[b]
    BY <2>7
  <2> HIDE DEF lists
  <2>9. Range(lists[p]) \subseteq Range(FlattenSeq(lists))
    BY <2>5, <2>8, Flattened
  <2> QED
    BY <1>1, <2>6, <2>8, <2>9
<1> QED
  BY <1>2, <1>3, <1>4

\* The entries made of an allocation's pointers are items, and no item of any
\* of the pointers is missing.
LEMMA PtrItemsOf ==
    ASSUME NEW ptrs \in Seq(Alloc)
    PROVE  /\ PtrItems(ptrs) \in Seq([item : MonoItem, reason : {"Static"}])
           /\ \A b \in Range(ptrs) : \A x \in Range(collect_alloc_items[b]) :
                \E e \in Range(PtrItems(ptrs)) : e.item = x
<1> DEFINE lists == [p \in DOMAIN ptrs |-> collect_alloc_items[ptrs[p]]]
           items == FlattenSeq(lists)
<1>1. DOMAIN ptrs = 1..Len(ptrs) /\ Len(ptrs) \in Nat /\ \A p \in DOMAIN ptrs : ptrs[p] \in Alloc
  BY LenProperties, ElementOfSeq
<1>2. lists \in Seq(Seq(MonoItem))
  BY <1>1, AllocItemsType, IsASeq
<1>3. items \in Seq(MonoItem) /\ Range(items) = UNION {Range(lists[p]) : p \in DOMAIN lists}
  <2> HIDE DEF lists
  <2> QED
    BY <1>2, Flattened
<1>4. PtrItems(ptrs) = [p \in DOMAIN items |-> [item |-> items[p], reason |-> "Static"]]
  BY DEF PtrItems
<1>5. \A b \in Range(ptrs) : Range(collect_alloc_items[b]) \subseteq Range(items)
  <2> SUFFICES ASSUME NEW b \in Range(ptrs) PROVE Range(collect_alloc_items[b]) \subseteq Range(items)
    OBVIOUS
  <2>1. PICK p \in DOMAIN ptrs : b = ptrs[p]
    BY DEF Range
  <2>2. p \in DOMAIN lists /\ lists[p] = collect_alloc_items[b]
    BY <2>1
  <2> HIDE DEF lists
  <2> QED
    BY <1>3, <2>2
<1> HIDE DEF items
<1>6. DOMAIN items = 1..Len(items) /\ Len(items) \in Nat /\ \A p \in DOMAIN items : items[p] \in MonoItem
  BY <1>3, LenProperties, ElementOfSeq
<1>7. PtrItems(ptrs) \in Seq([item : MonoItem, reason : {"Static"}])
  <2>1. \A p \in 1..Len(items) :
            [item |-> items[p], reason |-> "Static"] \in [item : MonoItem, reason : {"Static"}]
    BY <1>6
  <2> QED
    BY <1>4, <1>6, <2>1, IsASeq
<1>8. \A x \in Range(items) : \E e \in Range(PtrItems(ptrs)) : e.item = x
  <2> SUFFICES ASSUME NEW x \in Range(items) PROVE \E e \in Range(PtrItems(ptrs)) : e.item = x
    OBVIOUS
  <2>1. PICK p \in DOMAIN items : x = items[p]
    BY DEF Range
  <2>2. p \in DOMAIN PtrItems(ptrs) /\ PtrItems(ptrs)[p] = [item |-> x, reason |-> "Static"]
    BY <1>4, <2>1
  <2> QED
    BY <2>2 DEF Range
<1> QED
  BY <1>5, <1>7, <1>8

\* The items of one of the pointers are in the list of all of them.
LEMMA PtrListed ==
    ASSUME NEW ptrs \in Seq(Alloc), NEW b \in Range(ptrs), NEW y \in Range(collect_alloc_items[b])
    PROVE  \E e \in Range(PtrItems(ptrs)) : e.item = y
BY PtrItemsOf

\* Whatever the order a hash set is iterated in, everything in it comes.
LEMMA OrderKeepsAll ==
    ASSUME NEW S, IsFiniteSet(S), NEW v \in SetToSeqs(S)
    PROVE  Range(v) = S
<1> DEFINE n == Cardinality(S)
<1>1. n \in Nat
  BY FS_CardinalityType
<1>2. v \in [1..n -> S] /\ \A i, j \in 1..n : i # j => v[i] # v[j]
  BY DEF SetToSeqs
<1>3. v \in Injection(1..n, S)
  BY <1>2 DEF Injection, IsInjective
<1>4. IsFiniteSet(1..n) /\ Cardinality(1..n) = n
  BY <1>1, FS_Interval
<1>5. v \in Surjection(1..n, S)
  <2> HIDE DEF n
  <2>1. Cardinality(S) = n
    BY DEF n
  <2> QED
    BY <1>3, <1>4, <2>1, FS_Injection
<1> QED
  BY <1>2, <1>5 DEF Surjection, Range

-----------------------------------------------------------------------------
(* What a finished analysis has collected. *)

\* The item a function's body mentions.
LEMMA MentionedIsSucc ==
    ASSUME NEW c \in Crate, NEW i \in HasBody, Fn(i) \in Item,
           NEW x \in Body(c, i), NEW e \in Visited(x)
    PROVE  /\ e.item \in Succ(c, Fn(i))
           /\ \A v \in Visit(c, Fn(i)) : e \in Range(v)
<1> DEFINE S == UNION {Visited(y) : y \in Body(c, i)}
<1>1. IsFiniteSet(S) /\ e \in S
  BY CompilerData, MirBodies
<1>2. VisitItem(c, Fn(i)) = SetToSeqs(S)
  BY DEF VisitItem, visit_fn, Fn
<1>3. ASSUME NEW v \in Visit(c, Fn(i))
      PROVE  e \in Range(v) /\ Mentioned(v) = Succ(c, Fn(i))
  <2>1. v \in SetToSeqs(S)
    BY <1>2, VisitsMir
  <2> HIDE DEF S
  <2>2. Range(v) = S
    BY <1>1, <2>1, OrderKeepsAll
  <2> QED
    BY <1>1, <2>2, VisitFacts
<1>4. Visit(c, Fn(i)) # {}
  BY VisitType
<1>5. ASSUME NEW v \in Visit(c, Fn(i))
      PROVE  e.item \in Mentioned(v)
  BY <1>3, <1>5 DEF Mentioned, Range
<1> QED
  BY <1>3, <1>4, <1>5

\* The items a static's initializer leads to.
LEMMA InitializerIsSucc ==
    ASSUME NEW c \in Crate, NEW d \in Static \ AnonStatic, StaticItem(d) \in Item,
           NEW b \in Range(Initializer(d))
    PROVE  Range(collect_alloc_items[b]) \subseteq Succ(c, StaticItem(d))
<1> SUFFICES ASSUME NEW x \in Range(collect_alloc_items[b])
             PROVE  x \in Succ(c, StaticItem(d))
  OBVIOUS
<1> DEFINE drop == [item |-> Fn(DropGlue(StaticTy(d))), reason |-> "StaticDrop"]
           ptrs == Initializer(d)
           E == [item : MonoItem, reason : {"Static", "StaticDrop"}]
<1>1. VisitItem(c, StaticItem(d)) = {<<drop>> \o PtrItems(ptrs)}
  BY DEF VisitItem, visit_static, StaticItem
<1>2. ptrs \in Seq(Alloc) /\ drop \in E
  BY CompilerData DEF MonoItem
<1>3. PICK e \in Range(PtrItems(ptrs)) : e.item = x
  <2> HIDE DEF ptrs
  <2>1. b \in Range(ptrs)
    BY DEF ptrs
  <2> QED
    BY <1>2, <2>1, PtrListed
<1>4. <<drop>> \in Seq(E) /\ PtrItems(ptrs) \in Seq(E)
  <2>1. PtrItems(ptrs) \in Seq([item : MonoItem, reason : {"Static"}])
    BY <1>2, PtrItemsOf
  <2>2. [item : MonoItem, reason : {"Static"}] \subseteq E
    OBVIOUS
  <2>3. <<drop>> \in Seq(E)
    BY <1>2
  <2> HIDE DEF E, drop, ptrs
  <2>4. Seq([item : MonoItem, reason : {"Static"}]) \subseteq Seq(E)
    BY <2>2, SeqMonotonic
  <2> QED
    BY <2>1, <2>3, <2>4
<1>5. e \in Range(<<drop>> \o PtrItems(ptrs))
  <2>1. Range(<<drop>> \o PtrItems(ptrs)) = Range(<<drop>>) \cup Range(PtrItems(ptrs))
    <3> DEFINE first == <<drop>>
               others == PtrItems(ptrs)
    <3>1. first \in Seq(E) /\ others \in Seq(E)
      BY <1>4
    <3> HIDE DEF E, drop, ptrs, first, others
    <3>2. Range(first \o others) = Range(first) \cup Range(others)
      BY <3>1, ConcatElems
    <3> QED
      BY <3>2 DEF first, others
  <2> QED
    BY <1>3, <2>1
<1>6. PICK v \in Visit(c, StaticItem(d)) : TRUE
  BY VisitType
<1>7. v = <<drop>> \o PtrItems(ptrs) /\ Mentioned(v) = Succ(c, StaticItem(d))
  BY <1>1, <1>6, VisitsMir, VisitFacts
<1>8. e.item \in Mentioned(v)
  BY <1>5, <1>7 DEF Mentioned, Range
<1> QED
  BY <1>3, <1>7, <1>8

-----------------------------------------------------------------------------
(* The inductive invariant of the execution.  That an entered function has *)
(* been collected does not say why the next one will be: the reason can be *)
(* a pointer or a vtable that another function has made, or memory that    *)
(* was reached through several pointers.                                   *)

\* The program runs when the analysis has returned.
NotBefore == pc # "done" => entered = {} /\ held = {} /\ calls = {}

\* What is entered has been collected, and was visited with its body.
EnteredCovered == \A i \in entered : i \in HasBody /\ Fn(i) \in collected

\* Whatever can be called or loaded through what the program holds has been
\* collected.
HeldCovered ==
    /\ \A i \in Instance : FnPtr(i) \in held /\ Interpreted(i) => Fn(i) \in collected
    /\ \A t \in Ty, r \in Trait : Vtable(<<t, r>>) \in held =>
        \A m \in VtableMethods(t, r) \cup {DropGlue(t)} : Interpreted(m) => Fn(m) \in collected
    /\ \A a \in Alloc : Ptr(a) \in held => Range(collect_alloc_items[a]) \subseteq collected
    /\ \A d \in Static : ThreadLocal(d) \in held => d \notin AnonStatic /\ StaticItem(d) \in collected

ExecInv == NotBefore /\ EnteredCovered /\ HeldCovered /\ CallsAreEdges

\* The analysis does not notice the execution.
GraphInv == WorkInv /\ EdgeInv

LEMMA AnalysisInvariant == ExecSpec => []GraphInv
<1>1. ExecInit => GraphInv
  BY WorkInit DEF ExecInit, Init, EdgeInv, VisitedOnce, GraphInv
<1>2. GraphInv /\ [ExecNext]_<<vars, exec>> => GraphInv'
  <2>1. [ExecNext]_<<vars, exec>> => [Next]_vars
    BY DEF ExecNext, Analyse, Start, CallDirect, CallVirtual, CallPointer, DropConcrete, DropDyn,
           Cast, UseConst, Deref
  <2> QED
    BY <2>1, WorkStep, EdgeStep DEF GraphInv
<1> QED
  BY <1>1, <1>2, PTL DEF ExecSpec

\* A finished analysis is closed: what a collected item mentions is collected.
LEMMA DoneIsClosed ==
    ASSUME GraphInv, pc = "done"
    PROVE  /\ crate \in Crate /\ collected \subseteq Item
           /\ Roots(crate) \subseteq collected
           /\ \A i \in collected : Succ(crate, i) \subseteq collected
           /\ \A i \in collected : edges[i] \in Visit(crate, i)
<1>1. collected = Reachable(crate) /\ crate \in Crate /\ collected \subseteq Item
  BY EmptyQueueIsComplete DEF GraphInv, WorkInv, TypeOK, Ended
<1>2. Roots(crate) \subseteq collected /\ \A i \in collected : Succ(crate, i) \subseteq collected
  BY <1>1, ReachableIsClosed DEF Closed
<1> QED
  BY <1>1, <1>2 DEF GraphInv, EdgeInv, VisitedOnce

\* What occurs in a function that is executed has been collected.
LEMMA OccurrenceCollected ==
    ASSUME GraphInv, EnteredCovered, NEW i, NEW x, Executing(i, x), NEW e \in Visited(x)
    PROVE  e.item \in collected /\ e \in Range(edges[Fn(i)])
<1>1. i \in HasBody /\ Fn(i) \in collected /\ x \in Body(crate, i) /\ pc = "done"
  BY DEF Executing, EnteredCovered
<1>2. crate \in Crate /\ Fn(i) \in Item
  BY <1>1, DoneIsClosed
<1>3. e.item \in Succ(crate, Fn(i)) /\ \A v \in Visit(crate, Fn(i)) : e \in Range(v)
  BY <1>1, <1>2, MentionedIsSucc
<1> QED
  BY <1>1, <1>3, DoneIsClosed

\* A call or a drop of a function that has MIR is recorded as a direct call.
LEMMA DirectCollected ==
    ASSUME GraphInv, EnteredCovered, NEW i, NEW x, Executing(i, x), NEW j, Interpreted(j),
           \/ x.op = "Call" /\ x.fn = j
           \/ x.op = "Drop" /\ DropGlue(x.ty) = j
    PROVE  /\ j \in HasBody /\ Fn(j) \in collected
           /\ [item |-> Fn(j), reason |-> "DirectCall"] \in Range(edges[Fn(i)])
<1> DEFINE e == [item |-> Fn(j), reason |-> "DirectCall"]
<1>1. e \in collect_instance(j, TRUE)
  BY DEF Interpreted, collect_instance, should_codegen_locally
<1>2. e \in Visited(x)
  BY <1>1 DEF Visited, visit_terminator
<1>3. e.item = Fn(j) /\ j \in HasBody
  BY DEF Interpreted
<1> HIDE DEF e
<1>4. e.item \in collected /\ e \in Range(edges[Fn(i)])
  BY <1>2, OccurrenceCollected
<1> QED
  BY <1>3, <1>4 DEF e

\* The methods and the destructor of a type, of which a vtable is made.
LEMMA VtableCollected ==
    ASSUME GraphInv, EnteredCovered, NEW i, NEW x, Executing(i, x),
           x.op = "Unsize", x.src \in Ty, x.dst \in Trait,
           NEW m \in VtableMethods(x.src, x.dst) \cup {DropGlue(x.src)}, Interpreted(m)
    PROVE  Fn(m) \in collected
<1>1. x.src \notin Trait
  BY Vtables
<1>2. Visited(x) = collect_vtable_methods(x.src, x.dst)
  BY <1>1 DEF Visited, visit_rvalue
<1>3. PICK e \in collect_vtable_methods(x.src, x.dst) : e.item = Fn(m)
  <2>1. CASE m \in VtableMethods(x.src, x.dst)
    <3>1. [item |-> Fn(m), reason |-> "VTableMethod"] \in collect_vtable_methods(x.src, x.dst)
      BY <2>1 DEF collect_vtable_methods, Interpreted, should_codegen_locally
    <3> QED
      BY <3>1
  <2>2. CASE m = DropGlue(x.src)
    <3>1. [item |-> Fn(m), reason |-> "IndirectCall"] \in collect_vtable_methods(x.src, x.dst)
      BY <2>2 DEF collect_vtable_methods, collect_instance, Interpreted, should_codegen_locally
    <3> QED
      BY <3>1
  <2> QED
    BY <2>1, <2>2
<1> QED
  BY <1>2, <1>3, OccurrenceCollected

\* A constant the compiler had evaluated.
LEMMA ConstCollected ==
    ASSUME GraphInv, EnteredCovered, NEW i, NEW x, Executing(i, x),
           x.op = "Const", x.kind = "Allocated", NEW b \in Range(x.ptrs)
    PROVE  Range(collect_alloc_items[b]) \subseteq collected
<1>1. crate \in Crate /\ i \in Instance /\ x \in Body(crate, i)
  BY DoneIsClosed, CompilerData DEF Executing, EnteredCovered
<1>2. x.ptrs \in Seq(Alloc)
  BY <1>1, MirBodies
<1>3. Visited(x) = Range(PtrItems(x.ptrs))
  BY DEF Visited, visit_const_operand
<1> DEFINE ptrs == x.ptrs
<1>4. ptrs \in Seq(Alloc) /\ b \in Range(ptrs) /\ Visited(x) = Range(PtrItems(ptrs))
  BY <1>2, <1>3
<1> HIDE DEF ptrs
<1>5. ASSUME NEW y \in Range(collect_alloc_items[b])
      PROVE  \E e \in Visited(x) : e.item = y
  <2>1. \E e \in Range(PtrItems(ptrs)) : e.item = y
    BY <1>4, PtrListed
  <2> QED
    BY <1>4, <2>1
<1> QED
  BY <1>5, OccurrenceCollected

-----------------------------------------------------------------------------
(* The steps of the execution. *)

\* The compiler has evaluated every constant a body uses; the analysis passes
\* over the others.
Evaluated ==
    \A c \in Crate, i \in Instance : \A x \in Body(c, i) : x.op = "Const" => x.kind # "Unevaluated"

LEMMA ExecInit_Inv == ExecInit => ExecInv
BY DEF ExecInit, ExecInv, NotBefore, EnteredCovered, HeldCovered, CallsAreEdges

\* Tags keep the kinds of what is held apart.
LEMMA Tags ==
    /\ \A i, j : FnPtr(i) = FnPtr(j) => i = j
    /\ \A t, u : Vtable(t) = Vtable(u) => t = u
    /\ \A a, b : Ptr(a) = Ptr(b) => a = b
    /\ \A d, e : ThreadLocal(d) = ThreadLocal(e) => d = e
    /\ \A x, y : /\ FnPtr(x) # Vtable(y) /\ FnPtr(x) # Ptr(y) /\ FnPtr(x) # ThreadLocal(y)
                 /\ Vtable(x) # Ptr(y) /\ Vtable(x) # ThreadLocal(y) /\ Ptr(x) # ThreadLocal(y)
BY DEF FnPtr, Vtable, Ptr, ThreadLocal

\* A step of the analysis: nothing runs until it has ended, and afterwards it
\* takes no step.
LEMMA AnalyseStep == GraphInv /\ ExecInv /\ Analyse => ExecInv'
<1> SUFFICES ASSUME GraphInv, ExecInv, Analyse PROVE ExecInv'
  OBVIOUS
<1>1. pc # "done"
  BY DEF Analyse, Next, Collect, Skip, VisitNew, AddEdge, EdgesAdded, Extend, Extended, Finish
<1>2. entered' = {} /\ held' = {} /\ calls' = {}
  BY <1>1 DEF Analyse, exec, ExecInv, NotBefore
<1> QED
  BY <1>2 DEF ExecInv, NotBefore, EnteredCovered, HeldCovered, CallsAreEdges

\* A step that enters a function.
LEMMA EnterStep ==
    ASSUME ExecInv, pc = "done", NEW i \in HasBody, Fn(i) \in collected, Enter(i),
           UNCHANGED <<vars, held>>,
           \A call \in calls' \ calls :
                [item |-> Fn(call[2]), reason |-> "DirectCall"] \in Range(edges[Fn(call[1])])
    PROVE  ExecInv'
<1>1. /\ pc' = pc /\ collected' = collected /\ edges' = edges /\ held' = held
      /\ entered' = entered \cup {i}
  BY DEF Enter, vars, graph, visit
<1>2. NotBefore' /\ EnteredCovered'
  BY <1>1 DEF ExecInv, NotBefore, EnteredCovered
<1>3. HeldCovered'
  BY <1>1 DEF ExecInv, HeldCovered
<1>4. CallsAreEdges'
  BY <1>1 DEF ExecInv, CallsAreEdges
<1> QED
  BY <1>2, <1>3, <1>4 DEF ExecInv

\* A step that gets hold of pointers and vtables.
LEMMA HoldStep ==
    ASSUME ExecInv, pc = "done", NEW ps, Hold(ps), UNCHANGED <<vars, entered, calls>>,
           \A i \in Instance : FnPtr(i) \in ps /\ Interpreted(i) => Fn(i) \in collected,
           \A t \in Ty, r \in Trait : Vtable(<<t, r>>) \in ps =>
                \A m \in VtableMethods(t, r) \cup {DropGlue(t)} : Interpreted(m) => Fn(m) \in collected,
           \A a \in Alloc : Ptr(a) \in ps => Range(collect_alloc_items[a]) \subseteq collected,
           \A d \in Static : ThreadLocal(d) \in ps => d \notin AnonStatic /\ StaticItem(d) \in collected
    PROVE  ExecInv'
<1>1. /\ pc' = pc /\ collected' = collected /\ edges' = edges
      /\ entered' = entered /\ calls' = calls /\ held' = held \cup ps
  BY DEF Hold, vars, graph, visit
<1>2. NotBefore' /\ EnteredCovered' /\ CallsAreEdges'
  BY <1>1 DEF ExecInv, NotBefore, EnteredCovered, CallsAreEdges
<1>3. HeldCovered'
  <2>1. \A i \in Instance : FnPtr(i) \in held' /\ Interpreted(i) => Fn(i) \in collected
    BY <1>1 DEF ExecInv, HeldCovered
  <2>2. \A t \in Ty, r \in Trait : Vtable(<<t, r>>) \in held' =>
            \A m \in VtableMethods(t, r) \cup {DropGlue(t)} : Interpreted(m) => Fn(m) \in collected
    BY <1>1 DEF ExecInv, HeldCovered
  <2>3. \A a \in Alloc : Ptr(a) \in held' => Range(collect_alloc_items[a]) \subseteq collected
    BY <1>1 DEF ExecInv, HeldCovered
  <2>4. \A d \in Static : ThreadLocal(d) \in held' => d \notin AnonStatic /\ StaticItem(d) \in collected
    BY <1>1 DEF ExecInv, HeldCovered
  <2> QED
    BY <1>1, <2>1, <2>2, <2>3, <2>4 DEF HeldCovered
<1> QED
  BY <1>2, <1>3 DEF ExecInv

\* What a pointer that is covered leads to is covered.
LEMMA LoadCovered ==
    ASSUME GraphInv, ExecInv, pc = "done", NEW a \in Alloc, Ptr(a) \in held
    PROVE  LET ps == Load(GlobalAlloc(a)) IN
           /\ \A i \in Instance : FnPtr(i) \in ps /\ Interpreted(i) => Fn(i) \in collected
           /\ \A t \in Ty, r \in Trait : Vtable(<<t, r>>) \in ps =>
                \A m \in VtableMethods(t, r) \cup {DropGlue(t)} : Interpreted(m) => Fn(m) \in collected
           /\ \A b \in Alloc : Ptr(b) \in ps => Range(collect_alloc_items[b]) \subseteq collected
           /\ \A d \in Static : ThreadLocal(d) \notin ps
<1> DEFINE alloc == GlobalAlloc(a)
<1>1. Range(collect_alloc_items[a]) \subseteq collected
  BY DEF ExecInv, HeldCovered
<1>2. CASE alloc.kind = "Function"
  <2>1. Load(alloc) = {FnPtr(alloc.fn)}
    BY <1>2 DEF Load
  <2>2. ASSUME Interpreted(alloc.fn) PROVE Fn(alloc.fn) \in collected
    <3>1. collect_alloc_items[a] = <<Fn(alloc.fn)>>
      BY <1>2, <2>2, AllocItemsOf DEF Interpreted
    <3>2. Range(<<Fn(alloc.fn)>>) = {Fn(alloc.fn)}
      BY DEF Range
    <3> QED
      BY <1>1, <3>1, <3>2
  <2> QED
    BY <2>1, <2>2, Tags
<1>3. CASE alloc.kind = "TypeId"
  BY <1>3 DEF Load
<1>4. CASE alloc.kind = "VTable"
  <2>1. Load(alloc) = {Vtable(alloc.vtable)}
    BY <1>4 DEF Load
  <2>2. ASSUME NEW t \in Ty, NEW r \in Trait, alloc.vtable = <<t, r>>,
               NEW m \in VtableMethods(t, r) \cup {DropGlue(t)}, Interpreted(m)
        PROVE  Fn(m) \in collected
    <3>1. PICK b \in Range(alloc.ptrs) : GlobalAlloc(b) = [kind |-> "Function", fn |-> m]
      BY <1>4, <2>2, Vtables
    <3>2. b \in Follows(a)
      BY <1>4, <3>1 DEF Follows, Pointers
    <3>3. b \in Alloc
      BY <3>2, FollowsPointers
    <3>4. collect_alloc_items[b] = <<Fn(m)>>
      BY <2>2, <3>1, <3>3, AllocItemsOf DEF Interpreted
    <3>5. Range(<<Fn(m)>>) = {Fn(m)}
      BY DEF Range
    <3>6. Range(collect_alloc_items[b]) \subseteq Range(collect_alloc_items[a])
      BY <3>2, AllocItemsOf
    <3> QED
      BY <1>1, <3>4, <3>5, <3>6
  <2> QED
    BY <2>1, <2>2, Tags
<1>5. CASE alloc.kind \in {"Memory", "Static"}
  <2>1. Load(alloc) = {Ptr(Pointers(alloc)[p]) : p \in DOMAIN Pointers(alloc)}
    BY <1>5 DEF Load
  <2>2. Pointers(alloc) \in Seq(Alloc)
    BY <1>5, Kinds
  <2>3. ASSUME NEW b \in Range(Pointers(alloc))
        PROVE  Range(collect_alloc_items[b]) \subseteq collected
    <3>1. CASE ~Leaf(alloc)
      <4>1. b \in Follows(a)
        BY <2>3, <3>1, FollowsPointers
      <4> QED
        BY <1>1, <4>1, AllocItemsOf
    <3>2. CASE Leaf(alloc)
      <4>1. alloc.kind = "Static" /\ alloc.def \notin AnonStatic /\ b \in Range(Initializer(alloc.def))
        BY <1>5, <2>3, <3>2 DEF Leaf, Pointers
      <4>2. alloc.def \in Static
        BY <4>1, Kinds
      <4>3. alloc.def \notin Foreign
        <5>1. Range(<<>>) = {}
          BY DEF Range
        <5> QED
          BY <4>1, <4>2, <5>1, Vtables
      <4>4. StaticItem(alloc.def) \in collected
        <5>1. collect_alloc_items[a] = <<StaticItem(alloc.def)>>
          BY <4>1, <4>3, AllocItemsOf
        <5>2. Range(<<StaticItem(alloc.def)>>) = {StaticItem(alloc.def)}
          BY DEF Range
        <5> QED
          BY <1>1, <5>1, <5>2
      <4>5. crate \in Crate /\ StaticItem(alloc.def) \in Item
            /\ Succ(crate, StaticItem(alloc.def)) \subseteq collected
        BY <4>4, DoneIsClosed
      <4> QED
        BY <4>1, <4>2, <4>5, InitializerIsSucc
    <3> QED
      BY <3>1, <3>2
  <2>4. \A p \in DOMAIN Pointers(alloc) : Pointers(alloc)[p] \in Range(Pointers(alloc))
    BY DEF Range
  <2> QED
    BY <2>1, <2>3, <2>4, Tags
<1> QED
  BY <1>2, <1>3, <1>4, <1>5, Kinds

LEMMA StartStep == GraphInv /\ ExecInv /\ Start => ExecInv'
<1> SUFFICES ASSUME GraphInv, ExecInv, Start PROVE ExecInv'
  OBVIOUS
<1>1. PICK i \in HasBody : Fn(i) \in Roots(crate) /\ entered' = {i}
  BY DEF Start
<1>2. pc = "done" /\ Enter(i) /\ UNCHANGED <<vars, held>> /\ calls' = calls
  BY <1>1 DEF Start, Enter
<1>3. Fn(i) \in collected
  BY <1>1, <1>2, DoneIsClosed
<1> QED
  BY <1>2, <1>3, EnterStep

\* Calls and drops, of what is named in the body.
LEMMA DirectStep == GraphInv /\ ExecInv /\ (CallDirect \/ DropConcrete) => ExecInv'
<1> SUFFICES ASSUME GraphInv, ExecInv, CallDirect \/ DropConcrete PROVE ExecInv'
  OBVIOUS
<1>1. PICK i \in entered : \E x \in Body(crate, i), j \in HasBody :
            /\ Executing(i, x) /\ Interpreted(j) /\ Enter(j)
            /\ (x.op = "Call" /\ x.fn = j) \/ (x.op = "Drop" /\ DropGlue(x.ty) = j)
            /\ calls' = calls \cup {<<i, j>>} /\ UNCHANGED <<vars, held>>
  BY DEF CallDirect, DropConcrete, Interpreted
<1>2. PICK x \in Body(crate, i), j \in HasBody :
            /\ Executing(i, x) /\ Interpreted(j) /\ Enter(j)
            /\ (x.op = "Call" /\ x.fn = j) \/ (x.op = "Drop" /\ DropGlue(x.ty) = j)
            /\ calls' = calls \cup {<<i, j>>} /\ UNCHANGED <<vars, held>>
  BY <1>1
<1>3. /\ j \in HasBody /\ Fn(j) \in collected
      /\ [item |-> Fn(j), reason |-> "DirectCall"] \in Range(edges[Fn(i)])
  BY <1>2, DirectCollected DEF ExecInv
<1>4. \A call \in calls' \ calls :
            [item |-> Fn(call[2]), reason |-> "DirectCall"] \in Range(edges[Fn(call[1])])
  BY <1>2, <1>3
<1>5. pc = "done"
  BY <1>2 DEF Executing
<1> QED
  BY <1>2, <1>3, <1>4, <1>5, EnterStep

\* Calls and drops through what the program holds.
LEMMA IndirectStep == GraphInv /\ ExecInv /\ (CallVirtual \/ CallPointer \/ DropDyn) => ExecInv'
<1> SUFFICES ASSUME GraphInv, ExecInv, CallVirtual \/ CallPointer \/ DropDyn PROVE ExecInv'
  OBVIOUS
<1>1. pc = "done" /\ UNCHANGED <<vars, held>> /\ calls' = calls
  BY DEF CallVirtual, CallPointer, DropDyn, Executing
<1>2. \E j : Interpreted(j) /\ Enter(j) /\ Fn(j) \in collected
  <2>1. CASE CallVirtual
    <3>1. PICK t \in Ty, r \in Trait : \E m \in VtableMethods(t, r) :
                Vtable(<<t, r>>) \in held /\ Interpreted(m) /\ Enter(m)
      BY <2>1 DEF CallVirtual
    <3> QED
      BY <3>1 DEF ExecInv, HeldCovered
  <2>2. CASE CallPointer
    BY <2>2 DEF CallPointer, ExecInv, HeldCovered
  <2>3. CASE DropDyn
    <3>1. PICK i \in entered : \E x \in Body(crate, i) :
                /\ x.ty \in Trait
                /\ \E t \in Ty : /\ Vtable(<<t, x.ty>>) \in held
                               /\ Interpreted(DropGlue(t)) /\ Enter(DropGlue(t))
      BY <2>3 DEF DropDyn
    <3>2. PICK r \in Trait, t \in Ty :
                Vtable(<<t, r>>) \in held /\ Interpreted(DropGlue(t)) /\ Enter(DropGlue(t))
      BY <3>1
    <3> QED
      BY <3>2 DEF ExecInv, HeldCovered
  <2> QED
    BY <2>1, <2>2, <2>3
<1>3. PICK j \in HasBody : Enter(j) /\ Fn(j) \in collected
  BY <1>2 DEF Interpreted
<1> QED
  BY <1>1, <1>3, EnterStep

\* Casts to function pointers and trait objects, addresses of thread locals.
LEMMA CastStep == GraphInv /\ ExecInv /\ Cast => ExecInv'
<1> SUFFICES ASSUME GraphInv, ExecInv, Cast PROVE ExecInv'
  OBVIOUS
<1>1. PICK i \in entered : \E x \in Body(crate, i) :
            /\ Executing(i, x)
            /\ \/ x.op \in {"ReifyFnPointer", "ClosureFnPointer"} /\ Hold({FnPtr(x.fn)})
               \/ x.op = "Unsize" /\ x.src \in Ty /\ x.dst \in Trait /\ Hold({Vtable(<<x.src, x.dst>>)})
               \/ x.op = "ThreadLocalRef" /\ Hold({ThreadLocal(x.def)})
            /\ UNCHANGED <<vars, entered, calls>>
  BY DEF Cast
<1>2. PICK x \in Body(crate, i) :
            /\ Executing(i, x)
            /\ \/ x.op \in {"ReifyFnPointer", "ClosureFnPointer"} /\ Hold({FnPtr(x.fn)})
               \/ x.op = "Unsize" /\ x.src \in Ty /\ x.dst \in Trait /\ Hold({Vtable(<<x.src, x.dst>>)})
               \/ x.op = "ThreadLocalRef" /\ Hold({ThreadLocal(x.def)})
            /\ UNCHANGED <<vars, entered, calls>>
  BY <1>1
<1>3. pc = "done" /\ EnteredCovered /\ i \in Instance /\ crate \in Crate
  BY <1>2, DoneIsClosed, CompilerData DEF ExecInv, EnteredCovered, Executing
<1>4. CASE x.op \in {"ReifyFnPointer", "ClosureFnPointer"} /\ Hold({FnPtr(x.fn)})
  <2>1. ASSUME Interpreted(x.fn) PROVE Fn(x.fn) \in collected
    <3>1. [item |-> Fn(x.fn), reason |-> "IndirectCall"] \in Visited(x)
      BY <1>4, <2>1 DEF Visited, visit_rvalue, collect_instance, Interpreted, should_codegen_locally
    <3>2. [item |-> Fn(x.fn), reason |-> "IndirectCall"].item \in collected
      BY <1>2, <1>3, <3>1, OccurrenceCollected
    <3> QED
      BY <3>2
  <2> QED
    BY <1>2, <1>3, <1>4, <2>1, HoldStep, Tags
<1>5. CASE x.op = "Unsize" /\ x.src \in Ty /\ x.dst \in Trait /\ Hold({Vtable(<<x.src, x.dst>>)})
  <2>1. \A m \in VtableMethods(x.src, x.dst) \cup {DropGlue(x.src)} : Interpreted(m) => Fn(m) \in collected
    BY <1>2, <1>3, <1>5, VtableCollected
  <2>2. \A t, r : <<t, r>> = <<x.src, x.dst>> => t = x.src /\ r = x.dst
    OBVIOUS
  <2> QED
    BY <1>2, <1>3, <1>5, <2>1, <2>2, HoldStep, Tags
<1>6. CASE x.op = "ThreadLocalRef" /\ Hold({ThreadLocal(x.def)})
  <2>1. x.def \in Static \ AnonStatic
    BY <1>3, <1>6, MirBodies
  <2>2. [item |-> StaticItem(x.def), reason |-> "Static"] \in Visited(x)
    BY <1>6 DEF Visited, visit_rvalue
  <2>3. [item |-> StaticItem(x.def), reason |-> "Static"].item \in collected
    BY <1>2, <1>3, <2>2, OccurrenceCollected
  <2> QED
    BY <1>2, <1>3, <1>6, <2>1, <2>3, HoldStep, Tags
<1> QED
  BY <1>2, <1>4, <1>5, <1>6

LEMMA UseConstStep == Evaluated /\ GraphInv /\ ExecInv /\ UseConst => ExecInv'
<1> SUFFICES ASSUME Evaluated, GraphInv, ExecInv, UseConst PROVE ExecInv'
  OBVIOUS
<1>1. PICK i \in entered : \E x \in Body(crate, i) :
            /\ Executing(i, x) /\ x.op = "Const" /\ x.kind \in {"Allocated", "Unevaluated"}
            /\ Hold({Ptr(x.ptrs[p]) : p \in DOMAIN x.ptrs}) /\ UNCHANGED <<vars, entered, calls>>
  BY DEF UseConst
<1>2. PICK x \in Body(crate, i) :
            /\ Executing(i, x) /\ x.op = "Const" /\ x.kind \in {"Allocated", "Unevaluated"}
            /\ Hold({Ptr(x.ptrs[p]) : p \in DOMAIN x.ptrs}) /\ UNCHANGED <<vars, entered, calls>>
  BY <1>1
<1>3. pc = "done" /\ EnteredCovered /\ i \in Instance /\ crate \in Crate
  BY <1>2, DoneIsClosed, CompilerData DEF ExecInv, EnteredCovered, Executing
<1>4. x.kind = "Allocated"
  BY <1>2, <1>3 DEF Evaluated
<1>5. ASSUME NEW p \in DOMAIN x.ptrs
      PROVE  Range(collect_alloc_items[x.ptrs[p]]) \subseteq collected
  <2>1. x.ptrs[p] \in Range(x.ptrs)
    BY DEF Range
  <2> QED
    BY <1>2, <1>3, <1>4, <2>1, ConstCollected
<1> QED
  BY <1>2, <1>3, <1>5, HoldStep, Tags

LEMMA DerefStep == GraphInv /\ ExecInv /\ Deref => ExecInv'
<1> SUFFICES ASSUME GraphInv, ExecInv, Deref PROVE ExecInv'
  OBVIOUS
<1>1. pc = "done" /\ UNCHANGED <<vars, entered, calls>>
  BY DEF Deref
<1>2. ASSUME NEW a \in Alloc, Ptr(a) \in held, Hold(Load(GlobalAlloc(a)))
      PROVE  ExecInv'
  <2> DEFINE ps == Load(GlobalAlloc(a))
  <2>1. /\ \A i \in Instance : FnPtr(i) \in ps /\ Interpreted(i) => Fn(i) \in collected
        /\ \A t \in Ty, r \in Trait : Vtable(<<t, r>>) \in ps =>
             \A m \in VtableMethods(t, r) \cup {DropGlue(t)} : Interpreted(m) => Fn(m) \in collected
        /\ \A b \in Alloc : Ptr(b) \in ps => Range(collect_alloc_items[b]) \subseteq collected
        /\ \A d \in Static : ThreadLocal(d) \notin ps
    BY <1>1, <1>2, LoadCovered
  <2>2. Hold(ps)
    BY <1>2
  <2> HIDE DEF ps
  <2> QED
    BY <1>1, <2>1, <2>2, HoldStep
<1>3. ASSUME NEW d \in Static, ThreadLocal(d) \in held,
             Hold({Ptr(Initializer(d)[p]) : p \in DOMAIN Initializer(d)})
      PROVE  ExecInv'
  <2>1. d \notin AnonStatic /\ StaticItem(d) \in collected
    BY <1>3 DEF ExecInv, HeldCovered
  <2>2. crate \in Crate /\ StaticItem(d) \in Item /\ Succ(crate, StaticItem(d)) \subseteq collected
    BY <1>1, <2>1, DoneIsClosed
  <2>3. ASSUME NEW p \in DOMAIN Initializer(d)
        PROVE  Range(collect_alloc_items[Initializer(d)[p]]) \subseteq collected
    <3>1. Initializer(d)[p] \in Range(Initializer(d))
      BY DEF Range
    <3> QED
      BY <2>1, <2>2, <3>1, InitializerIsSucc
  <2> QED
    BY <1>1, <1>3, <2>3, HoldStep, Tags
<1> QED
  BY <1>2, <1>3 DEF Deref

LEMMA ExecStep == Evaluated /\ GraphInv /\ ExecInv /\ [ExecNext]_<<vars, exec>> => ExecInv'
<1> SUFFICES ASSUME Evaluated, GraphInv, ExecInv, [ExecNext]_<<vars, exec>> PROVE ExecInv'
  OBVIOUS
<1>1. CASE UNCHANGED <<vars, exec>>
  BY <1>1 DEF vars, graph, visit, exec, ExecInv, NotBefore, EnteredCovered, HeldCovered, CallsAreEdges
<1>2. CASE ExecNext
  BY <1>2, AnalyseStep, StartStep, DirectStep, IndirectStep, CastStep, UseConstStep, DerefStep DEF ExecNext
<1> QED
  BY <1>1, <1>2

LEMMA ExecutionInvariant ==
    ASSUME Evaluated
    PROVE  ExecSpec => [](GraphInv /\ ExecInv)
<1>1. GraphInv /\ ExecInv /\ [ExecNext]_<<vars, exec>> => ExecInv'
  BY ExecStep
<1> QED
  BY <1>1, ExecInit_Inv, AnalysisInvariant, PTL DEF ExecSpec

-----------------------------------------------------------------------------
(* The theorems. *)

\* If the compiler had evaluated the constants the bodies use, every function
\* that a run of the crate enters, directly, through a pointer, a vtable or a
\* destructor, has been collected: collect_reachable_items misses nothing that
\* can be executed.
THEOREM ExecutedAreCollected ==
    ASSUME Evaluated
    PROVE  ExecSpec => []ExecutedIsCollected
<1>1. ExecInv => ExecutedIsCollected
  BY DEF ExecInv, EnteredCovered, ExecutedIsCollected
<1> QED
  BY <1>1, ExecutionInvariant, PTL

\* And so has every named static of the program that a run gets hold of.
THEOREM TouchedAreCollected ==
    ASSUME Evaluated
    PROVE  ExecSpec => []TouchedIsCollected
<1>1. ASSUME ExecInv, NEW d \in Touched
      PROVE  StaticItem(d) \in collected
  <2>1. d \in Static /\ d \notin AnonStatic \cup Foreign
    BY DEF Touched
  <2>2. CASE ThreadLocal(d) \in held
    BY <1>1, <2>1, <2>2 DEF ExecInv, HeldCovered
  <2>3. CASE \E a \in Alloc : Ptr(a) \in held /\ GlobalAlloc(a) = [kind |-> "Static", def |-> d]
    <3>1. PICK a \in Alloc : Ptr(a) \in held /\ GlobalAlloc(a) = [kind |-> "Static", def |-> d]
      BY <2>3
    <3>2. collect_alloc_items[a] = <<StaticItem(d)>>
      BY <2>1, <3>1, AllocItemsOf
    <3>3. Range(<<StaticItem(d)>>) = {StaticItem(d)}
      BY DEF Range
    <3> QED
      BY <1>1, <3>1, <3>2, <3>3 DEF ExecInv, HeldCovered
  <2> QED
    BY <2>2, <2>3 DEF Touched
<1>2. ExecInv => TouchedIsCollected
  BY <1>1 DEF TouchedIsCollected
<1> QED
  BY <1>2, ExecutionInvariant, PTL

\* Every direct call or drop that a run makes is an edge of the call graph
\* with that label.
THEOREM CallsAreInGraph ==
    ASSUME Evaluated
    PROVE  ExecSpec => []CallsAreEdges
<1>1. ExecInv => CallsAreEdges
  BY DEF ExecInv
<1> QED
  BY <1>1, ExecutionInvariant, PTL
=============================================================================
