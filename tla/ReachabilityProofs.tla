------------------------- MODULE ReachabilityProofs -------------------------
(***************************************************************************)
(* Proofs about the worklist of module Reachability, for every crate, set  *)
(* of items, and order in which the hash sets are iterated.                *)
(***************************************************************************)
EXTENDS Reachability, SequenceTheorems, FiniteSetTheorems, TLAPS

-----------------------------------------------------------------------------
(* Sequences used as a stack, and as a list of calls. *)

LEMMA AppendElems ==
    ASSUME NEW T, NEW q \in Seq(T), NEW x \in T
    PROVE  /\ Append(q, x) \in Seq(T)
           /\ Range(Append(q, x)) = Range(q) \cup {x}
<1>1. /\ Append(q, x) \in Seq(T)
      /\ Len(Append(q, x)) = Len(q) + 1
      /\ \A p \in 1..Len(q) : Append(q, x)[p] = q[p]
      /\ Append(q, x)[Len(q) + 1] = x
  BY AppendProperties
<1>2. DOMAIN q = 1..Len(q) /\ DOMAIN Append(q, x) = 1..(Len(q) + 1) /\ Len(q) \in Nat
  BY <1>1, LenProperties
<1> QED
  BY <1>1, <1>2 DEF Range

LEMMA PopElems ==
    ASSUME NEW T, NEW q \in Seq(T), q # <<>>
    PROVE  /\ q[Len(q)] \in T
           /\ SubSeq(q, 1, Len(q) - 1) \in Seq(T)
           /\ Range(q) = Range(SubSeq(q, 1, Len(q) - 1)) \cup {q[Len(q)]}
<1> DEFINE r == SubSeq(q, 1, Len(q) - 1)
<1>1. Len(q) \in Nat \ {0} /\ DOMAIN q = 1..Len(q) /\ \A p \in 1..Len(q) : q[p] \in T
  BY LenProperties, EmptySeq, ElementOfSeq
<1>2. /\ r \in Seq(T)
      /\ Len(r) = Len(q) - 1
      /\ \A p \in 1..(Len(q) - 1) : r[p] = q[p]
  BY <1>1, SubSeqProperties
<1>3. DOMAIN r = 1..(Len(q) - 1)
  BY <1>2, LenProperties
<1>4. Range(q) = {q[p] : p \in 1..Len(q)} /\ Range(r) = {q[p] : p \in 1..(Len(q) - 1)}
  BY <1>1, <1>2, <1>3 DEF Range
<1>5. q[Len(q)] \in T
  BY <1>1
<1> HIDE DEF r
<1>6. Range(q) = Range(r) \cup {q[Len(q)]}
  BY <1>1, <1>4
<1> QED
  BY <1>2, <1>5, <1>6 DEF r

LEMMA HeadElems ==
    ASSUME NEW T, NEW q \in Seq(T), q # <<>>
    PROVE  /\ Head(q) \in T
           /\ Tail(q) \in Seq(T)
           /\ Range(q) = Range(Tail(q)) \cup {Head(q)}
<1>1. Len(q) \in Nat \ {0} /\ DOMAIN q = 1..Len(q) /\ Head(q) = q[1]
  BY LenProperties, EmptySeq
<1>2. /\ Head(q) \in T
      /\ Tail(q) \in Seq(T)
      /\ Len(Tail(q)) = Len(q) - 1
      /\ \A p \in 1..Len(Tail(q)) : Tail(q)[p] = q[p + 1]
  BY HeadTailProperties
<1>3. DOMAIN Tail(q) = 1..(Len(q) - 1)
  BY <1>2, LenProperties
<1>4. ASSUME NEW y \in Range(q)
      PROVE  y \in Range(Tail(q)) \cup {Head(q)}
  <2>1. PICK p \in 1..Len(q) : y = q[p]
    BY <1>1 DEF Range
  <2>2. CASE p = 1
    BY <1>1, <2>1, <2>2
  <2>3. CASE p # 1
    <3>1. p - 1 \in 1..(Len(q) - 1) /\ (p - 1) + 1 = p
      BY <1>1, <2>1, <2>3
    <3> QED
      BY <1>2, <1>3, <2>1, <3>1 DEF Range
  <2> QED
    BY <2>2, <2>3
<1>5. ASSUME NEW p \in 1..(Len(q) - 1)
      PROVE  Tail(q)[p] \in Range(q)
  <2>1. p + 1 \in 1..Len(q)
    BY <1>1
  <2> QED
    BY <1>1, <1>2, <2>1 DEF Range
<1>6. Range(Tail(q)) \subseteq Range(q) /\ Head(q) \in Range(q)
  BY <1>1, <1>3, <1>5 DEF Range
<1> QED
  BY <1>2, <1>4, <1>6

-----------------------------------------------------------------------------
(* The set of reachable items. *)

LEMMA VisitFacts ==
    ASSUME NEW c \in Crate, NEW i \in Item, NEW v \in Visit(c, i)
    PROVE  /\ v \in Seq(CollectedItem)
           /\ Mentioned(v) = Succ(c, i)
           /\ Succ(c, i) \subseteq Item
<1>1. v \in Seq(CollectedItem) /\ Mentioned(v) = Succ(c, i)
  BY VisitType
<1>2. Mentioned(v) \subseteq Item
  <2>1. \A p \in DOMAIN v : v[p] \in CollectedItem
    BY <1>1, LenProperties, ElementOfSeq
  <2> QED
    BY <2>1 DEF Mentioned, CollectedItem
<1> QED
  BY <1>1, <1>2

LEMMA ReachableIsClosed ==
    ASSUME NEW c \in Crate
    PROVE  /\ Roots(c) \subseteq Reachable(c)
           /\ Closed(c, Reachable(c))
<1>1. Roots(c) \subseteq Item
  BY StartingPointsType, LenProperties, ElementOfSeq DEF Roots, Range
<1>2. Roots(c) \subseteq Reachable(c)
  BY <1>1 DEF Reachable
<1>3. ASSUME NEW i \in Reachable(c)
      PROVE  Succ(c, i) \subseteq Reachable(c)
  <2>1. i \in Item
    BY DEF Reachable
  <2>2. Succ(c, i) \subseteq Item
    BY <2>1, VisitFacts, VisitType
  <2>3. ASSUME NEW j \in Succ(c, i), NEW S \in SUBSET Item, Roots(c) \subseteq S, Closed(c, S)
        PROVE  j \in S
    BY <2>3 DEF Reachable, Closed
  <2> QED
    BY <2>2, <2>3 DEF Reachable
<1> QED
  BY <1>2, <1>3 DEF Closed

LEMMA ReachableIsLeast ==
    ASSUME NEW c \in Crate, NEW S \in SUBSET Item, Roots(c) \subseteq S, Closed(c, S)
    PROVE  Reachable(c) \subseteq S
BY DEF Reachable

-----------------------------------------------------------------------------
(* Type correctness, which includes that both maps of the call graph have  *)
(* an entry for every node.                                                *)

LEMMA OrDefaultType ==
    ASSUME NEW N, NEW m \in [N -> Seq(CollectedItem)], NEW n
    PROVE  OrDefault(m, n) \in [N \cup {n} -> Seq(CollectedItem)]
BY EmptySeq DEF OrDefault

LEMMA TypeInit == Init => TypeOK
<1> SUFFICES ASSUME Init PROVE TypeOK
  OBVIOUS
<1>1. to_visit \in Item
  BY ItemExists DEF Init
<1>2. \A T : <<>> \in Seq(T) /\ Len(<<>>) = 0
  BY EmptySeq
<1>3. pending \in Seq(Item)
  BY StartingPointsType DEF Init
<1> QED
  BY <1>1, <1>2, <1>3 DEF Init, TypeOK

LEMMA TypeStep == TypeOK /\ [Next]_vars => TypeOK'
<1> SUFFICES ASSUME TypeOK, [Next]_vars PROVE TypeOK'
  OBVIOUS
<1> USE DEF TypeOK, graph, visit
<1>len. Len(next_items) \in Nat
  BY LenProperties
<1>1. CASE Collect
  <2>1. Head(pending) \in Item /\ Tail(pending) \in Seq(Item)
    BY <1>1, HeadElems DEF Collect
  <2>2. Append(queue, Head(pending)) \in Seq(Item)
    BY <2>1, AppendElems
  <2> QED
    BY <1>1, <2>1, <2>2 DEF Collect
<1>2. CASE Skip
  <2>1. Top \in Item /\ Popped \in Seq(Item)
    BY <1>2, PopElems DEF Skip, Top, Popped
  <2> QED
    BY <1>2, <2>1 DEF Skip
<1>3. CASE VisitNew
  <2>1. Top \in Item /\ Popped \in Seq(Item)
    BY <1>3, PopElems DEF VisitNew, Top, Popped
  <2>2. next_items' \in Seq(CollectedItem)
    BY <1>3, <2>1, VisitFacts DEF VisitNew
  <2>3. 1 \in 1..(Len(next_items') + 1)
    BY <2>2, LenProperties
  <2>4. /\ edges' \in [nodes' -> Seq(CollectedItem)]
        /\ back_edges' \in [nodes' -> Seq(CollectedItem)]
    BY <1>3, OrDefaultType DEF VisitNew
  <2> QED
    BY <1>3, <2>1, <2>2, <2>3, <2>4 DEF VisitNew
<1>4. CASE AddEdge
  <2> DEFINE to == next_items[k].item
             back == [item |-> to_visit, reason |-> next_items[k].reason]
  <2>1. k \in 1..Len(next_items) /\ k' \in 1..(Len(next_items) + 1)
    BY <1>4, <1>len DEF AddEdge
  <2>2. next_items[k] \in CollectedItem
    BY <2>1, ElementOfSeq
  <2>3. to \in Item /\ back \in CollectedItem
    BY <2>2 DEF CollectedItem
  <2>4. /\ OrDefault(edges, to) \in [nodes \cup {to} -> Seq(CollectedItem)]
        /\ OrDefault(back_edges, to) \in [nodes \cup {to} -> Seq(CollectedItem)]
    BY OrDefaultType
  <2>5. \A q \in Seq(CollectedItem) :
            /\ Append(q, next_items[k]) \in Seq(CollectedItem)
            /\ Append(q, back) \in Seq(CollectedItem)
    BY <2>2, <2>3, AppendElems
  <2>6. /\ nodes' = nodes \cup {to}
        /\ edges' = [OrDefault(edges, to) EXCEPT ![to_visit] = Append(@, next_items[k])]
        /\ back_edges' = [OrDefault(back_edges, to) EXCEPT ![to] = Append(@, back)]
    BY <1>4 DEF AddEdge, BackEdge
  <2> HIDE DEF to, back
  <2>7. edges' \in [nodes' -> Seq(CollectedItem)]
    BY <2>4, <2>5, <2>6
  <2>8. back_edges' \in [nodes' -> Seq(CollectedItem)]
    BY <2>4, <2>5, <2>6
  <2> QED
    BY <1>4, <2>1, <2>3, <2>6, <2>7, <2>8 DEF AddEdge
<1>5. CASE EdgesAdded
  BY <1>5, <1>len DEF EdgesAdded
<1>6. CASE Extend
  <2>1. k \in 1..Len(next_items) /\ k' \in 1..(Len(next_items) + 1)
    BY <1>6, <1>len DEF Extend
  <2>2. next_items[k].item \in Item
    <3>1. next_items[k] \in CollectedItem
      BY <2>1, ElementOfSeq
    <3> QED
      BY <3>1 DEF CollectedItem
  <2>3. queue' \in Seq(Item)
    BY <1>6, <2>2, AppendElems DEF Extend
  <2> QED
    BY <1>6, <2>1, <2>3 DEF Extend
<1>7. CASE Extended
  BY <1>7, <1>len DEF Extended
<1>8. CASE Finish
  BY <1>8 DEF Finish
<1>9. CASE UNCHANGED vars
  BY <1>9 DEF vars
<1> QED
  BY <1>1, <1>2, <1>3, <1>4, <1>5, <1>6, <1>7, <1>8, <1>9 DEF Next

\* Type correctness: in every state the maps of the call graph have exactly
\* the nodes as keys, so no lookup of the analysis can fail.
THEOREM TypeCorrect == Spec => []TypeOK
<1>1. Init => TypeOK
  BY TypeInit
<1>2. TypeOK /\ [Next]_vars => TypeOK'
  BY TypeStep
<1> QED
  BY <1>1, <1>2, PTL DEF Spec

-----------------------------------------------------------------------------
(* The inductive invariant of the worklist.  `Complete` speaks of the last *)
(* state only; what carries it there is that a reachable item not yet      *)
(* collected is always announced by something: a starting point that is    *)
(* pending, an element of the queue, or the Vec being worked through.      *)

InVisit == pc \in {"edges", "extend"}

\* Nothing that is not reachable is collected, enqueued or pending.
Sound == collected \cup Range(queue) \cup Range(pending) \subseteq Reachable(crate)

\* The Vec being worked through is the one a visit of to_visit returned.
Visiting == InVisit => to_visit \in collected /\ next_items \in Visit(crate, to_visit)

RootsCovered == Roots(crate) \subseteq collected \cup Range(queue) \cup Range(pending)

SuccCovered ==
    \A i \in collected :
        (InVisit /\ i = to_visit) \/ Succ(crate, i) \subseteq collected \cup Range(queue)

Extending ==
    pc = "extend" => \A p \in 1..(k - 1) : next_items[p].item \in collected \cup Range(queue)

Ended == pc \in {"done", "aborted"} => queue = <<>> /\ pending = <<>>

WorkInv == TypeOK /\ Sound /\ Visiting /\ RootsCovered /\ SuccCovered /\ Extending /\ Ended

LEMMA WorkInit == Init => WorkInv
<1> SUFFICES ASSUME Init PROVE WorkInv
  OBVIOUS
<1>1. TypeOK
  BY TypeInit
<1>2. Range(<<>>) = {}
  BY DEF Range
<1>3. crate \in Crate /\ Roots(crate) = Range(pending) /\ Range(queue) = {} /\ collected = {}
  BY <1>2 DEF Init, Roots
<1>4. Roots(crate) \subseteq Reachable(crate)
  BY <1>3, ReachableIsClosed
<1> QED
  BY <1>1, <1>3, <1>4 DEF Init, WorkInv, Sound, Visiting, RootsCovered, SuccCovered, Extending, Ended, InVisit

LEMMA WorkStep == WorkInv /\ [Next]_vars => WorkInv'
<1> SUFFICES ASSUME WorkInv, [Next]_vars PROVE WorkInv'
  OBVIOUS
<1>type. TypeOK /\ TypeOK'
  BY TypeStep DEF WorkInv
<1>len. Len(next_items) \in Nat /\ k \in Nat \ {0}
  BY <1>type, LenProperties DEF TypeOK
<1> USE DEF graph, visit, InVisit
<1>1. CASE Collect
  <2>1. /\ Range(pending) = Range(pending') \cup {Head(pending)}
        /\ Range(queue') = Range(queue) \cup {Head(pending)}
    <3>1. /\ Head(pending) \in Item
          /\ Range(pending) = Range(Tail(pending)) \cup {Head(pending)}
      BY <1>1, <1>type, HeadElems DEF Collect, TypeOK
    <3>2. Range(Append(queue, Head(pending))) = Range(queue) \cup {Head(pending)}
      BY <1>type, <3>1, AppendElems DEF TypeOK
    <3> QED
      BY <1>1, <3>1, <3>2 DEF Collect
  <2> QED
    BY <1>1, <1>type, <2>1
       DEF Collect, WorkInv, Sound, Visiting, RootsCovered, SuccCovered, Extending, Ended
<1>2. CASE Skip
  <2>1. Range(queue) = Range(queue') \cup {Top}
    BY <1>2, <1>type, PopElems DEF Skip, Top, Popped, TypeOK
  <2>2. collected' \cup Range(queue') = collected \cup Range(queue)
    BY <1>2, <2>1 DEF Skip, IsNew
  <2> QED
    BY <1>2, <1>type, <2>2
       DEF Skip, WorkInv, Sound, Visiting, RootsCovered, SuccCovered, Extending, Ended
<1>3. CASE VisitNew
  <2>1. Range(queue) = Range(queue') \cup {to_visit'}
    BY <1>3, <1>type, PopElems DEF VisitNew, Top, Popped, TypeOK
  <2>2. collected' \cup Range(queue') = collected \cup Range(queue)
    BY <1>3, <2>1 DEF VisitNew
  <2>3. Visiting'
    BY <1>3 DEF VisitNew, Visiting
  <2> QED
    BY <1>3, <1>type, <2>2, <2>3
       DEF VisitNew, WorkInv, Sound, RootsCovered, SuccCovered, Extending, Ended
<1>4. CASE AddEdge
  BY <1>4, <1>type DEF AddEdge, WorkInv, Sound, Visiting, RootsCovered, SuccCovered, Extending, Ended
<1>5. CASE EdgesAdded
  BY <1>5, <1>type DEF EdgesAdded, WorkInv, Sound, Visiting, RootsCovered, SuccCovered, Extending, Ended
<1>6. CASE Extend
  <2> DEFINE i == next_items[k].item
  <2>1. k \in 1..Len(next_items) /\ DOMAIN next_items = 1..Len(next_items)
    BY <1>6, <1>type, <1>len, LenProperties DEF Extend, TypeOK
  <2>2. i \in Succ(crate, to_visit)
    BY <1>6, <1>type, <2>1, VisitFacts DEF Extend, WorkInv, Visiting, Mentioned, TypeOK
  <2>3. i \in Reachable(crate)
    BY <1>6, <1>type, <2>2, ReachableIsClosed DEF Extend, WorkInv, Sound, Visiting, Closed, TypeOK
  <2>4. i \in Item
    BY <2>3 DEF Reachable
  <2>5. collected' \cup Range(queue') = collected \cup Range(queue) \cup {i}
    BY <1>6, <1>type, <2>4, AppendElems DEF Extend, Wanted, TypeOK
  <2>6. Extending'
    <3>1. next_items' = next_items /\ pc = "extend" /\ k' = k + 1
      BY <1>6 DEF Extend
    <3>2. ASSUME NEW p \in 1..(k' - 1)
          PROVE  next_items'[p].item \in collected' \cup Range(queue')
      <4>1. p \in 1..(k - 1) \/ p = k
        BY <1>len, <3>1
      <4> QED
        BY <2>5, <3>1, <4>1 DEF WorkInv, Extending
    <3> QED
      BY <3>2 DEF Extending
  <2> HIDE DEF i
  <2> QED
    BY <1>6, <1>type, <2>3, <2>5, <2>6
       DEF Extend, WorkInv, Sound, Visiting, RootsCovered, SuccCovered, Ended
<1>7. CASE Extended
  <2>1. Succ(crate, to_visit) \subseteq collected \cup Range(queue)
    <3>1. /\ next_items \in Seq(CollectedItem)
          /\ Succ(crate, to_visit) = Mentioned(next_items)
      BY <1>7, <1>type, VisitFacts DEF Extended, WorkInv, Visiting, TypeOK
    <3>2. DOMAIN next_items = 1..Len(next_items)
      BY <3>1, LenProperties
    <3>3. 1..Len(next_items) \subseteq 1..(k - 1)
      BY <1>7, <1>len DEF Extended
    <3> QED
      BY <1>7, <3>1, <3>2, <3>3 DEF Extended, WorkInv, Extending, Mentioned
  <2> QED
    BY <1>7, <1>type, <2>1
       DEF Extended, WorkInv, Sound, Visiting, RootsCovered, SuccCovered, Extending, Ended
<1>8. CASE Finish
  BY <1>8, <1>type DEF Finish, WorkInv, Sound, Visiting, RootsCovered, SuccCovered, Extending, Ended
<1>9. CASE UNCHANGED vars
  BY <1>9, <1>type DEF vars, WorkInv, Sound, Visiting, RootsCovered, SuccCovered, Extending, Ended
<1> QED
  BY <1>1, <1>2, <1>3, <1>4, <1>5, <1>6, <1>7, <1>8, <1>9 DEF Next

LEMMA WorkInvariant == Spec => []WorkInv
<1>1. Init => WorkInv
  BY WorkInit
<1>2. WorkInv /\ [Next]_vars => WorkInv'
  BY WorkStep
<1> QED
  BY <1>1, <1>2, PTL DEF Spec

\* With nothing left in the queue the collected items are closed, and the
\* least closed set that holds the roots is what is reachable.
LEMMA EmptyQueueIsComplete ==
    ASSUME WorkInv, pc \notin {"edges", "extend"}, queue = <<>>, pending = <<>>
    PROVE  collected = Reachable(crate)
<1>1. Range(queue) = {} /\ Range(pending) = {}
  BY DEF Range
<1>2. collected \in SUBSET Item /\ crate \in Crate
  BY DEF WorkInv, TypeOK
<1>3. Roots(crate) \subseteq collected /\ Closed(crate, collected)
  BY <1>1 DEF WorkInv, RootsCovered, SuccCovered, InVisit, Closed
<1>4. Reachable(crate) \subseteq collected
  BY <1>2, <1>3, ReachableIsLeast
<1> QED
  BY <1>4 DEF WorkInv, Sound

\* The analysis returns the reachable items, all of them and no others, for
\* every graph of items and every iteration order of the hash sets.
THEOREM Completeness == Spec => []Complete
<1>1. WorkInv => Complete
  BY EmptyQueueIsComplete DEF Complete, WorkInv, Ended
<1> QED
  BY <1>1, WorkInvariant, PTL

-----------------------------------------------------------------------------
(* The edges of the call graph. *)

EdgeInv ==
    /\ collected \subseteq nodes
    /\ \A n \in nodes \ collected : edges[n] = <<>>
    /\ VisitedOnce
    /\ pc = "edges" =>
        /\ Len(edges[to_visit]) = k - 1
        /\ \A p \in 1..(k - 1) : edges[to_visit][p] = next_items[p]

LEMMA EdgeStep == WorkInv /\ EdgeInv /\ [Next]_vars => EdgeInv'
<1> SUFFICES ASSUME WorkInv, EdgeInv, [Next]_vars PROVE EdgeInv'
  OBVIOUS
<1>type. TypeOK /\ TypeOK'
  BY TypeStep DEF WorkInv
<1> USE DEF graph, visit
<1>1. CASE VisitNew
  <2>1. /\ to_visit' \notin collected
        /\ collected' = collected \cup {to_visit'}
        /\ nodes' = nodes \cup {to_visit'}
        /\ pc' = "edges" /\ k' = 1 /\ crate' = crate
    BY <1>1 DEF VisitNew, IsNew
  <2>2. edges' = [n \in nodes' |-> IF n \in nodes THEN edges[n] ELSE <<>>]
    BY <1>1, <1>type DEF VisitNew, OrDefault, TypeOK
  <2>3. edges'[to_visit'] = <<>> /\ Len(<<>>) = 0
    BY <2>1, <2>2, EmptySeq DEF EdgeInv
  <2>4. \A n \in nodes' \ collected' : edges'[n] = <<>>
    BY <2>1, <2>2 DEF EdgeInv
  <2>5. \A i \in collected : edges'[i] = edges[i] /\ edges[i] \in Visit(crate, i)
    BY <1>1, <2>1, <2>2 DEF EdgeInv, VisitedOnce, VisitNew
  <2>6. VisitedOnce'
    BY <2>1, <2>5 DEF EdgeInv, VisitedOnce
  <2> QED
    BY <2>1, <2>3, <2>4, <2>6 DEF EdgeInv
<1>2. CASE AddEdge
  <2> DEFINE to == next_items[k].item
             old == [n \in nodes \cup {to} |-> IF n \in nodes THEN edges[n] ELSE <<>>]
  <2>1. /\ edges' = [old EXCEPT ![to_visit] = Append(@, next_items[k])]
        /\ nodes' = nodes \cup {to} /\ collected' = collected
        /\ pc = "edges" /\ pc' = "edges" /\ k' = k + 1
        /\ to_visit' = to_visit /\ next_items' = next_items /\ crate' = crate
    BY <1>2, <1>type DEF AddEdge, OrDefault, TypeOK
  <2>2. /\ to_visit \in collected /\ to_visit \in nodes
        /\ edges[to_visit] \in Seq(CollectedItem)
        /\ k \in 1..Len(next_items)
        /\ k \in Nat
        /\ next_items \in Seq(CollectedItem)
    BY <1>2, <1>type, LenProperties DEF AddEdge, EdgeInv, WorkInv, Visiting, InVisit, TypeOK
  <2>3. next_items[k] \in CollectedItem
    BY <2>2, ElementOfSeq
  <2>4. edges'[to_visit] = Append(edges[to_visit], next_items[k])
    BY <2>1, <2>2
  <2>5. \A n \in nodes' : n # to_visit => edges'[n] = IF n \in nodes THEN edges[n] ELSE <<>>
    BY <2>1
  <2>6. /\ Len(edges[to_visit]) = k - 1
        /\ \A p \in 1..(k - 1) : edges[to_visit][p] = next_items[p]
    BY <2>1 DEF EdgeInv
  <2>7. /\ Len(edges'[to_visit]) = k
        /\ \A p \in 1..(k - 1) : edges'[to_visit][p] = edges[to_visit][p]
        /\ edges'[to_visit][k] = next_items[k]
    <3>1. (k - 1) + 1 = k
      BY <2>2
    <3> QED
      BY <2>2, <2>3, <2>4, <2>6, <3>1, AppendProperties
  <2>8. \A p \in 1..k : edges'[to_visit][p] = next_items[p]
    <3>1. \A p \in 1..k : p \in 1..(k - 1) \/ p = k
      BY <2>2
    <3> QED
      BY <2>6, <2>7, <3>1
  <2>9. (k + 1) - 1 = k
    BY <2>2
  <2> HIDE DEF to, old
  <2>10. \A n \in nodes' \ collected' : edges'[n] = <<>>
    BY <2>1, <2>2, <2>5 DEF EdgeInv
  <2>11. VisitedOnce'
    BY <2>1, <2>5 DEF EdgeInv, VisitedOnce
  <2> QED
    BY <2>1, <2>7, <2>8, <2>9, <2>10, <2>11 DEF EdgeInv
<1>3. CASE EdgesAdded
  <2>1. /\ edges[to_visit] \in Seq(CollectedItem)
        /\ next_items \in Seq(CollectedItem)
        /\ next_items \in Visit(crate, to_visit)
        /\ k \in 1..(Len(next_items) + 1) /\ k > Len(next_items) /\ Len(next_items) \in Nat
    BY <1>3, <1>type, LenProperties DEF EdgesAdded, EdgeInv, WorkInv, Visiting, InVisit, TypeOK
  <2>2. k = Len(next_items) + 1
    BY <2>1
  <2>3. Len(edges[to_visit]) = Len(next_items)
    BY <1>3, <2>1, <2>2 DEF EdgesAdded, EdgeInv
  <2>4. \A p \in 1..Len(next_items) : edges[to_visit][p] = next_items[p]
    BY <1>3, <2>1, <2>2 DEF EdgesAdded, EdgeInv
  <2>5. edges[to_visit] = next_items
    BY <2>1, <2>3, <2>4, SeqEqual
  <2> QED
    BY <1>3, <2>1, <2>5 DEF EdgesAdded, EdgeInv, VisitedOnce
<1>4. CASE Collect \/ Skip \/ Extend \/ Extended \/ Finish
  BY <1>4 DEF Collect, Skip, Extend, Extended, Finish, EdgeInv, VisitedOnce
<1>5. CASE UNCHANGED vars
  BY <1>5 DEF vars, EdgeInv, VisitedOnce
<1> QED
  BY <1>1, <1>2, <1>3, <1>4, <1>5 DEF Next

LEMMA EdgeInvariant == Spec => [](WorkInv /\ EdgeInv)
<1>1. Init => WorkInv /\ EdgeInv
  BY WorkInit DEF Init, EdgeInv, VisitedOnce
<1>2. WorkInv /\ EdgeInv /\ [Next]_vars => WorkInv' /\ EdgeInv'
  BY WorkStep, EdgeStep
<1> QED
  BY <1>1, <1>2, PTL DEF Spec

\* Every collected item is visited once: its edges are the ones one visit
\* returned, none is lost and none is there twice.
THEOREM OneVisitPerItem == Spec => []VisitedOnce
<1>1. EdgeInv => VisitedOnce
  BY DEF EdgeInv
<1> QED
  BY <1>1, EdgeInvariant, PTL

LEMMA SettledStep ==
    ASSUME WorkInv, EdgeInv, [Next]_vars,
           NEW i \in collected, pc = "edges" => i # to_visit
    PROVE  i \in nodes' /\ edges'[i] = edges[i]
<1> USE DEF graph, visit
<1>1. i \in nodes /\ TypeOK
  BY DEF EdgeInv, WorkInv
<1>2. CASE VisitNew
  BY <1>1, <1>2 DEF VisitNew, OrDefault, TypeOK
<1>3. CASE AddEdge
  BY <1>1, <1>3 DEF AddEdge, OrDefault, TypeOK
<1>4. CASE Collect \/ Skip \/ EdgesAdded \/ Extend \/ Extended \/ Finish \/ UNCHANGED vars
  BY <1>1, <1>4 DEF Collect, Skip, EdgesAdded, Extend, Extended, Finish, vars
<1> QED
  BY <1>2, <1>3, <1>4 DEF Next

\* No step changes the edges of an item whose visit has been recorded.
THEOREM SettledEdges == Spec => EdgesSettled
<1> DEFINE Step == \A i \in collected :
               (pc = "edges" => i # to_visit) => i \in nodes' /\ edges'[i] = edges[i]
<1>1. WorkInv /\ EdgeInv /\ [Next]_vars => [Step]_vars
  BY SettledStep
<1> HIDE DEF Step
<1>2. Spec => [][Step]_vars
  BY <1>1, EdgeInvariant, PTL DEF Spec
<1> QED
  BY <1>2 DEF Step, EdgesSettled

-----------------------------------------------------------------------------
(* The nodes of the graph and the items that are still to be visited. *)

\* During a visit the graph also has nodes that are not enqueued yet.
AwaitInv ==
    nodes \subseteq collected \cup Range(queue)
                      \cup (IF InVisit THEN Mentioned(next_items) ELSE {})

LEMMA AwaitStep == WorkInv /\ AwaitInv /\ [Next]_vars => AwaitInv'
<1> SUFFICES ASSUME WorkInv, AwaitInv, [Next]_vars PROVE AwaitInv'
  OBVIOUS
<1>type. TypeOK
  BY DEF WorkInv
<1>len. Len(next_items) \in Nat /\ DOMAIN next_items = 1..Len(next_items) /\ k \in Nat \ {0}
  BY <1>type, LenProperties DEF TypeOK
<1> USE DEF graph, visit, InVisit
<1>1. CASE Collect
  <2>1. Head(pending) \in Item
    BY <1>1, <1>type, HeadElems DEF Collect, TypeOK
  <2>2. Range(Append(queue, Head(pending))) = Range(queue) \cup {Head(pending)}
    BY <1>type, <2>1, AppendElems DEF TypeOK
  <2> QED
    BY <1>1, <2>2 DEF Collect, AwaitInv
<1>2. CASE Skip
  <2>1. Range(queue) = Range(queue') \cup {Top}
    BY <1>2, <1>type, PopElems DEF Skip, Top, Popped, TypeOK
  <2> QED
    BY <1>2, <2>1 DEF Skip, IsNew, AwaitInv
<1>3. CASE VisitNew
  <2>1. Range(queue) = Range(queue') \cup {to_visit'}
    BY <1>3, <1>type, PopElems DEF VisitNew, Top, Popped, TypeOK
  <2> QED
    BY <1>3, <2>1 DEF VisitNew, AwaitInv
<1>4. CASE AddEdge
  <2>1. k \in DOMAIN next_items
    BY <1>4, <1>len DEF AddEdge
  <2>2. next_items[k].item \in Mentioned(next_items)
    BY <2>1 DEF Mentioned
  <2> QED
    BY <1>4, <2>2 DEF AddEdge, AwaitInv
<1>5. CASE Extend
  <2> DEFINE i == next_items[k].item
  <2>1. i \in Item
    <3>1. k \in 1..Len(next_items)
      BY <1>5, <1>len DEF Extend
    <3>2. next_items[k] \in CollectedItem
      BY <1>type, <3>1, ElementOfSeq DEF TypeOK
    <3> QED
      BY <3>2 DEF CollectedItem
  <2>2. Range(Append(queue, i)) = Range(queue) \cup {i}
    BY <1>type, <2>1, AppendElems DEF TypeOK
  <2>3. Range(queue) \subseteq Range(queue')
    BY <1>5, <2>2 DEF Extend
  <2> QED
    BY <1>5, <2>3 DEF Extend, AwaitInv
<1>6. CASE Extended
  <2>1. Mentioned(next_items) \subseteq collected \cup Range(queue)
    <3>1. 1..Len(next_items) \subseteq 1..(k - 1)
      BY <1>6, <1>len DEF Extended
    <3> QED
      BY <1>6, <1>len, <3>1 DEF Extended, WorkInv, Extending, Mentioned
  <2> QED
    BY <1>6, <2>1 DEF Extended, AwaitInv
<1>7. CASE EdgesAdded \/ Finish \/ UNCHANGED vars
  BY <1>7 DEF EdgesAdded, Finish, vars, AwaitInv
<1> QED
  BY <1>1, <1>2, <1>3, <1>4, <1>5, <1>6, <1>7 DEF Next

\* Between two visits every node of the graph that has no edges yet is in the
\* queue, and will be visited: add_edge makes no node that is forgotten.
THEOREM NoNodeForgotten == Spec => []NodesAwaitVisit
<1>1. Init => AwaitInv
  BY DEF Init, AwaitInv
<1>2. Spec => []AwaitInv
  BY <1>1, AwaitStep, WorkInvariant, PTL DEF Spec
<1>3. AwaitInv /\ EdgeInv => NodesAwaitVisit
  BY DEF AwaitInv, EdgeInv, NodesAwaitVisit, InVisit
<1> QED
  BY <1>2, <1>3, EdgeInvariant, PTL

-----------------------------------------------------------------------------
(* The two maps of the call graph. *)

\* How often e is in the list q.
Count(q, e) == Cardinality({p \in DOMAIN q : q[p] = e})

LEMMA CountAppend ==
    ASSUME NEW T, NEW q \in Seq(T), NEW x \in T, NEW e
    PROVE  /\ Count(q, e) \in Nat
           /\ Count(Append(q, x), e) = Count(q, e) + (IF x = e THEN 1 ELSE 0)
<1> DEFINE a == Append(q, x)
           n == Len(q) + 1
           P == {p \in DOMAIN q : q[p] = e}
<1>1. /\ Len(q) \in Nat /\ DOMAIN q = 1..Len(q)
      /\ a \in Seq(T) /\ Len(a) = n
      /\ \A p \in 1..Len(q) : a[p] = q[p]
      /\ a[n] = x
  BY LenProperties, AppendProperties
<1>2. DOMAIN a = 1..Len(q) \cup {n} /\ n \notin DOMAIN q
  <2>1. DOMAIN a = 1..n
    BY <1>1, LenProperties
  <2> QED
    BY <1>1, <2>1
<1>3. IsFiniteSet(P) /\ Cardinality(P) \in Nat
  <2>1. IsFiniteSet(1..Len(q)) /\ P \in SUBSET (1..Len(q))
    BY <1>1, FS_Interval
  <2> QED
    BY <2>1, FS_Subset, FS_CardinalityType
<1> HIDE DEF a, n
<1>4. {p \in DOMAIN a : a[p] = e} = IF x = e THEN P \cup {n} ELSE P
  BY <1>1, <1>2
<1>5. n \notin P
  BY <1>2
<1>6. Cardinality(P \cup {n}) = Cardinality(P) + 1
  BY <1>3, <1>5, FS_AddElement
<1> DEFINE Q == {p \in DOMAIN a : a[p] = e}
<1>7. Cardinality(Q) = Cardinality(P) + (IF x = e THEN 1 ELSE 0)
  <2> HIDE DEF P, Q
  <2>1. CASE x = e
    <3>1. Q = P \cup {n}
      BY <1>4, <2>1 DEF P, Q
    <3> QED
      BY <1>6, <2>1, <3>1
  <2>2. CASE x # e
    <3>1. Q = P
      BY <1>4, <2>2 DEF P, Q
    <3> QED
      BY <1>3, <2>2, <3>1
  <2> QED
    BY <2>1, <2>2
<1> QED
  BY <1>3, <1>7 DEF Count, a

LEMMA CountAbsent ==
    ASSUME NEW q, NEW e, e.item \notin Mentioned(q)
    PROVE  Count(q, e) = 0
<1>1. {p \in DOMAIN q : q[p] = e} = {}
  BY DEF Mentioned
<1> QED
  BY <1>1, FS_EmptySet DEF Count

\* Two maps with the keys N that are each other's reverse, and mention keys
\* only.
Mirrored(N, to, from) ==
    /\ to \in [N -> Seq(CollectedItem)] /\ from \in [N -> Seq(CollectedItem)]
    /\ \A n \in N : Mentioned(to[n]) \subseteq N /\ Mentioned(from[n]) \subseteq N
    /\ \A n, m \in N, r \in Reason :
        Count(to[n], [item |-> m, reason |-> r]) = Count(from[m], [item |-> n, reason |-> r])

\* add_node keeps them so.
LEMMA MirroredNode ==
    ASSUME NEW N, NEW to, NEW from, Mirrored(N, to, from), NEW i
    PROVE  Mirrored(N \cup {i}, OrDefault(to, i), OrDefault(from, i))
<1> DEFINE M == N \cup {i}
           t == OrDefault(to, i)
           f == OrDefault(from, i)
<1>1. /\ to \in [N -> Seq(CollectedItem)] /\ from \in [N -> Seq(CollectedItem)]
      /\ \A n \in N : Mentioned(to[n]) \subseteq N /\ Mentioned(from[n]) \subseteq N
  BY DEF Mirrored
<1>2. t \in [M -> Seq(CollectedItem)] /\ f \in [M -> Seq(CollectedItem)]
  BY <1>1, OrDefaultType
<1>3. /\ \A n \in N : t[n] = to[n] /\ f[n] = from[n]
      /\ \A n \in M \ N : t[n] = <<>> /\ f[n] = <<>>
  BY <1>1 DEF OrDefault
<1>4. Mentioned(<<>>) = {}
  BY DEF Mentioned
<1> HIDE DEF t, f
<1>5. \A n \in M : Mentioned(t[n]) \subseteq N /\ Mentioned(f[n]) \subseteq N
  BY <1>1, <1>3, <1>4
<1>6. ASSUME NEW n \in M, NEW m \in M, NEW r \in Reason
      PROVE  Count(t[n], [item |-> m, reason |-> r]) = Count(f[m], [item |-> n, reason |-> r])
  <2>1. CASE n \in N /\ m \in N
    BY <1>3, <2>1 DEF Mirrored
  <2>2. CASE n \notin N \/ m \notin N
    <3>1. m \notin Mentioned(t[n]) /\ n \notin Mentioned(f[m])
      BY <1>3, <1>4, <1>5, <2>2
    <3>2. Count(t[n], [item |-> m, reason |-> r]) = 0
      BY <3>1, CountAbsent
    <3>3. Count(f[m], [item |-> n, reason |-> r]) = 0
      BY <3>1, CountAbsent
    <3> QED
      BY <3>2, <3>3
  <2> QED
    BY <2>1, <2>2
<1>7. \A n \in M : Mentioned(t[n]) \subseteq M /\ Mentioned(f[n]) \subseteq M
  BY <1>5
<1> HIDE DEF M
<1>8. Mirrored(M, t, f)
  BY <1>2, <1>6, <1>7 DEF Mirrored
<1> QED
  BY <1>8 DEF M, t, f

\* And so does add_edge, between two nodes.
LEMMA MirroredEdge ==
    ASSUME NEW N \in SUBSET Item, NEW to, NEW from, Mirrored(N, to, from),
           NEW a \in N, NEW b \in N, NEW reason \in Reason
    PROVE  Mirrored(N,
                [to EXCEPT ![a] = Append(@, [item |-> b, reason |-> reason])],
                [from EXCEPT ![b] = Append(@, [item |-> a, reason |-> reason])])
<1> DEFINE x == [item |-> b, reason |-> reason]
           y == [item |-> a, reason |-> reason]
           t == [to EXCEPT ![a] = Append(@, x)]
           f == [from EXCEPT ![b] = Append(@, y)]
<1>1. x \in CollectedItem /\ y \in CollectedItem
  BY DEF CollectedItem
<1>2. to \in [N -> Seq(CollectedItem)] /\ from \in [N -> Seq(CollectedItem)]
  BY DEF Mirrored
<1>3. /\ t \in [N -> Seq(CollectedItem)] /\ f \in [N -> Seq(CollectedItem)]
      /\ \A n \in N : t[n] = (IF n = a THEN Append(to[n], x) ELSE to[n])
      /\ \A n \in N : f[n] = (IF n = b THEN Append(from[n], y) ELSE from[n])
  <2>1. Append(to[a], x) \in Seq(CollectedItem) /\ Append(from[b], y) \in Seq(CollectedItem)
    BY <1>1, <1>2, AppendElems
  <2> QED
    BY <1>2, <2>1
<1>4. \A n \in N : Mentioned(t[n]) \subseteq N /\ Mentioned(f[n]) \subseteq N
  <2>1. ASSUME NEW q \in Seq(CollectedItem), NEW e \in CollectedItem
        PROVE  Mentioned(Append(q, e)) = Mentioned(q) \cup {e.item}
    <3>1. \A s : Mentioned(s) = {z.item : z \in Range(s)}
      BY DEF Mentioned, Range
    <3>2. Range(Append(q, e)) = Range(q) \cup {e}
      BY AppendElems
    <3> QED
      BY <3>1, <3>2
  <2>2. x.item = b /\ y.item = a
    OBVIOUS
  <2> HIDE DEF x, y, t, f
  <2>3. /\ Mentioned(Append(to[a], x)) = Mentioned(to[a]) \cup {b}
        /\ Mentioned(Append(from[b], y)) = Mentioned(from[b]) \cup {a}
    BY <1>1, <1>2, <2>1, <2>2
  <2> QED
    BY <1>3, <2>3 DEF Mirrored
<1>5. ASSUME NEW n \in N, NEW m \in N, NEW r \in Reason
      PROVE  Count(t[n], [item |-> m, reason |-> r]) = Count(f[m], [item |-> n, reason |-> r])
  <2> DEFINE forth == [item |-> m, reason |-> r]
             back == [item |-> n, reason |-> r]
             here == n = a /\ m = b /\ r = reason
  <2>1. Count(to[n], forth) = Count(from[m], back) /\ Count(to[n], forth) \in Nat
    BY <1>1, <1>2, CountAppend DEF Mirrored
  <2>2. /\ n = a => (x = forth <=> here)
        /\ m = b => (y = back <=> here)
    BY <1>1
  <2>3. /\ Count(Append(to[n], x), forth) = Count(to[n], forth) + (IF x = forth THEN 1 ELSE 0)
        /\ Count(Append(from[m], y), back) = Count(from[m], back) + (IF y = back THEN 1 ELSE 0)
    BY <1>1, <1>2, CountAppend
  <2>4. Count(t[n], forth) = Count(to[n], forth) + (IF here THEN 1 ELSE 0)
    BY <1>3, <2>1, <2>2, <2>3
  <2>5. Count(f[m], back) = Count(from[m], back) + (IF here THEN 1 ELSE 0)
    BY <1>3, <2>1, <2>2, <2>3
  <2> QED
    BY <2>1, <2>4, <2>5
<1> HIDE DEF t, f
<1>6. Mirrored(N, t, f)
  BY <1>3, <1>4, <1>5 DEF Mirrored
<1> QED
  BY <1>6 DEF t, f

MirrorInv == Mirrored(nodes, edges, back_edges)

LEMMA MirrorStep == WorkInv /\ EdgeInv /\ MirrorInv /\ [Next]_vars => MirrorInv'
<1> SUFFICES ASSUME WorkInv, EdgeInv, MirrorInv, [Next]_vars PROVE MirrorInv'
  OBVIOUS
<1> USE DEF graph, visit
<1>type. TypeOK /\ TypeOK'
  BY TypeStep DEF WorkInv
<1>1. CASE VisitNew
  BY <1>1, MirroredNode DEF VisitNew, MirrorInv
<1>2. CASE AddEdge
  <2> DEFINE to == next_items[k].item
             reason == next_items[k].reason
             e == OrDefault(edges, to)
             b == OrDefault(back_edges, to)
  <2>1. next_items[k] \in CollectedItem
    <3>1. k \in 1..Len(next_items)
      BY <1>2, <1>type, LenProperties DEF AddEdge, TypeOK
    <3> QED
      BY <1>type, <3>1, ElementOfSeq DEF TypeOK
  <2>2. reason \in Reason /\ next_items[k] = [item |-> to, reason |-> reason]
    BY <2>1 DEF CollectedItem
  <2>3. nodes' = nodes \cup {to} /\ nodes' \in SUBSET Item /\ to_visit \in nodes'
    BY <1>2, <1>type DEF AddEdge, WorkInv, Visiting, InVisit, EdgeInv, TypeOK
  <2>4. Mirrored(nodes', e, b)
    BY <2>3, MirroredNode DEF MirrorInv
  <2>5. /\ edges' = [e EXCEPT ![to_visit] = Append(@, [item |-> to, reason |-> reason])]
        /\ back_edges' = [b EXCEPT ![to] = Append(@, [item |-> to_visit, reason |-> reason])]
    BY <1>2, <2>2 DEF AddEdge, BackEdge
  <2>6. to \in nodes'
    BY <2>3
  <2> HIDE DEF to, reason, e, b
  <2>7. Mirrored(nodes', edges', back_edges')
    BY <2>2, <2>3, <2>4, <2>5, <2>6, MirroredEdge
  <2> QED
    BY <2>7 DEF MirrorInv
<1>3. CASE Collect \/ Skip \/ EdgesAdded \/ Extend \/ Extended \/ Finish \/ UNCHANGED vars
  BY <1>3 DEF Collect, Skip, EdgesAdded, Extend, Extended, Finish, vars, MirrorInv
<1> QED
  BY <1>1, <1>2, <1>3 DEF Next

\* The back edges are the edges reversed, with the same reasons and as often.
THEOREM EdgesMirrored == Spec => []BackEdgesMirror
<1>1. Init => MirrorInv
  BY DEF Init, MirrorInv, Mirrored
<1>2. Spec => []MirrorInv
  BY <1>1, MirrorStep, EdgeInvariant, PTL DEF Spec
<1>3. MirrorInv => BackEdgesMirror
  BY DEF MirrorInv, Mirrored, BackEdgesMirror, Occurrences, Count
<1> QED
  BY <1>2, <1>3, PTL

-----------------------------------------------------------------------------
(* The worklist implements CollectSpec. *)

LEMMA SameReachable == \A c : Promise!Reachable(c) = Reachable(c)
<1>1. \A c : Promise!Roots(c) = Roots(c)
  BY DEF Roots, Promise!Roots, Range, Promise!Range
<1>2. \A c, i : Promise!Succ(c, i) = Succ(c, i)
  BY DEF Succ, Promise!Succ, Mentioned, Promise!Mentioned
<1> QED
  BY <1>1, <1>2 DEF Reachable, Promise!Reachable, Closed, Promise!Closed

LEMMA PromiseStep == WorkInv /\ [Next]_vars => [Promise!CNext]_(Promise!cvars)
<1> SUFFICES ASSUME WorkInv, [Next]_vars PROVE [Promise!CNext]_(Promise!cvars)
  OBVIOUS
<1> USE DEF graph, visit, Promise!cvars
<1>1. CASE VisitNew
  <2>1. Top \in Range(queue) /\ Top \in Item
    BY <1>1, PopElems DEF VisitNew, Top, WorkInv, TypeOK
  <2>2. Top \in Item \ collected /\ Top \in Reachable(crate)
    BY <1>1, <2>1 DEF VisitNew, IsNew, WorkInv, Sound
  <2>3. Top \in Promise!Reachable(crate)
    BY <2>2, SameReachable
  <2> QED
    BY <1>1, <2>2, <2>3 DEF VisitNew, Promise!CNext, Promise!Find
<1>2. CASE Finish
  <2>1. collected = Promise!Reachable(crate)
    <3>1. collected = Reachable(crate)
      BY <1>2, EmptyQueueIsComplete DEF Finish
    <3> QED
      BY <3>1, SameReachable
  <2> QED
    BY <1>2, <2>1 DEF Finish, Promise!CNext, Promise!Return, Promise!Abort
<1>3. CASE Collect \/ Skip \/ AddEdge \/ EdgesAdded \/ Extend \/ Extended
  BY <1>3 DEF Collect, Skip, AddEdge, EdgesAdded, Extend, Extended
<1>4. CASE UNCHANGED vars
  BY <1>4 DEF vars
<1> QED
  BY <1>1, <1>2, <1>3, <1>4 DEF Next

\* Every run of the worklist is a run of the abstract collection: items are
\* found one by one, only reachable ones, and returned when all are found.
THEOREM Refinement == Spec => PromiseSpec
<1>1. Init => Promise!CInit
  BY DEF Init, Promise!CInit
<1>2. WorkInv /\ [Next]_vars => [Promise!CNext]_(Promise!cvars)
  BY PromiseStep
<1> QED
  BY <1>1, <1>2, WorkInvariant, PTL DEF Spec, PromiseSpec, Promise!CSpec
=============================================================================
