----------------------- MODULE CallGraphQueriesProofs -----------------------
(***************************************************************************)
(* Proofs about the queries of module CallGraphQueries, for every crate:   *)
(* that dump_reason finds exactly what leads to its target, and            *)
(* recursive_callees exactly the callees.  They rest on what is proved of  *)
(* the finished graph in ReachabilityProofs.                               *)
(***************************************************************************)
EXTENDS CallGraphQueries, ReachabilityProofs

BaseInv == WorkInv /\ EdgeInv /\ AwaitInv /\ MirrorInv

\* The analysis does not notice the queries.
LEMMA BaseInvariant == QSpec => []BaseInv
<1>1. Init /\ QInit => BaseInv
  BY WorkInit DEF Init, EdgeInv, VisitedOnce, AwaitInv, MirrorInv, Mirrored, BaseInv
<1>2. BaseInv /\ [QNext]_<<vars, qvars>> => BaseInv'
  <2>1. [QNext]_<<vars, qvars>> => [Next]_vars
    BY DEF QNext
  <2>2. BaseInv /\ [Next]_vars => BaseInv'
    BY WorkStep, EdgeStep, AwaitStep, MirrorStep DEF BaseInv
  <2> QED
    BY <2>1, <2>2
<1> QED
  BY <1>1, <1>2, PTL DEF QSpec

LEMMA CountPresent ==
    ASSUME NEW T, NEW q \in Seq(T), NEW e, e \in Range(q)
    PROVE  Count(q, e) # 0
<1> DEFINE P == {p \in DOMAIN q : q[p] = e}
<1>1. P # {}
  BY DEF Range
<1>2. IsFiniteSet(P)
  <2>1. DOMAIN q = 1..Len(q) /\ Len(q) \in Nat
    BY LenProperties
  <2>2. IsFiniteSet(1..Len(q)) /\ P \in SUBSET (1..Len(q))
    BY <2>1, FS_Interval
  <2> QED
    BY <2>2, FS_Subset
<1>3. Cardinality(P) # 0
  BY <1>1, <1>2, FS_EmptySet
<1> QED
  BY <1>3 DEF Count

\* What is mentioned is mentioned for a reason.
LEMMA MentionedIsCollected ==
    ASSUME NEW q \in Seq(CollectedItem), NEW i
    PROVE  i \in Mentioned(q) <=> \E r \in Reason : [item |-> i, reason |-> r] \in Range(q)
<1>1. \A p \in DOMAIN q : q[p] \in CollectedItem
  BY LenProperties, ElementOfSeq
<1>2. ASSUME i \in Mentioned(q)
      PROVE  \E r \in Reason : [item |-> i, reason |-> r] \in Range(q)
  <2>1. PICK p \in DOMAIN q : q[p].item = i
    BY <1>2 DEF Mentioned
  <2>2. q[p].reason \in Reason /\ q[p] = [item |-> i, reason |-> q[p].reason]
    BY <1>1, <2>1 DEF CollectedItem
  <2>3. q[p] \in Range(q)
    BY DEF Range
  <2> QED
    BY <2>2, <2>3
<1>3. ASSUME NEW r \in Reason, [item |-> i, reason |-> r] \in Range(q)
      PROVE  i \in Mentioned(q)
  BY <1>3 DEF Mentioned, Range
<1> QED
  BY <1>2, <1>3

\* In two maps that mirror each other an origin has the edge, and an edge's
\* start is an origin.
LEMMA MirroredMentions ==
    ASSUME NEW N, NEW to, NEW from, Mirrored(N, to, from), NEW n \in N, NEW m \in N
    PROVE  m \in Mentioned(to[n]) <=> n \in Mentioned(from[m])
<1>1. to[n] \in Seq(CollectedItem) /\ from[m] \in Seq(CollectedItem)
  BY DEF Mirrored
<1>2. \A r \in Reason :
        Count(to[n], [item |-> m, reason |-> r]) = Count(from[m], [item |-> n, reason |-> r])
  BY DEF Mirrored
<1>3. ASSUME m \in Mentioned(to[n])
      PROVE  n \in Mentioned(from[m])
  <2>1. PICK r \in Reason : [item |-> m, reason |-> r] \in Range(to[n])
    BY <1>1, <1>3, MentionedIsCollected
  <2>2. Count(from[m], [item |-> n, reason |-> r]) # 0
    BY <1>1, <1>2, <2>1, CountPresent
  <2> QED
    BY <2>2, CountAbsent
<1>4. ASSUME n \in Mentioned(from[m])
      PROVE  m \in Mentioned(to[n])
  <2>1. PICK r \in Reason : [item |-> n, reason |-> r] \in Range(from[m])
    BY <1>1, <1>4, MentionedIsCollected
  <2>2. Count(to[n], [item |-> m, reason |-> r]) # 0
    BY <1>1, <1>2, <2>1, CountPresent
  <2> QED
    BY <2>2, CountAbsent
<1> QED
  BY <1>3, <1>4

-----------------------------------------------------------------------------
(* The graph the queries are asked about. *)

GraphFinished ==
    /\ nodes = collected /\ collected \subseteq Item /\ crate \in Crate
    /\ \A n \in nodes :
        /\ edges[n] \in Seq(CollectedItem) /\ back_edges[n] \in Seq(CollectedItem)
        /\ Mentioned(edges[n]) = Succ(crate, n)
        /\ Mentioned(edges[n]) \subseteq nodes /\ Mentioned(back_edges[n]) \subseteq nodes
    /\ \A n, m \in nodes : m \in Mentioned(edges[n]) <=> n \in Mentioned(back_edges[m])

LEMMA FinishedGraph ==
    ASSUME BaseInv, pc = "done"
    PROVE  GraphFinished
<1>1. nodes = collected
  <2>1. queue = <<>> /\ Range(<<>>) = {}
    BY DEF BaseInv, WorkInv, Ended, Range
  <2> QED
    BY <2>1 DEF BaseInv, AwaitInv, EdgeInv, InVisit
<1>2. collected \subseteq Item /\ crate \in Crate
  BY DEF BaseInv, WorkInv, TypeOK
<1>3. ASSUME NEW n \in nodes
      PROVE  /\ edges[n] \in Seq(CollectedItem) /\ back_edges[n] \in Seq(CollectedItem)
             /\ Mentioned(edges[n]) \subseteq nodes /\ Mentioned(back_edges[n]) \subseteq nodes
  BY DEF BaseInv, MirrorInv, Mirrored
<1>4. ASSUME NEW n \in nodes
      PROVE  Mentioned(edges[n]) = Succ(crate, n)
  <2>1. n \in Item /\ edges[n] \in Visit(crate, n)
    BY <1>1, <1>2 DEF BaseInv, EdgeInv, VisitedOnce
  <2> QED
    BY <1>2, <2>1, VisitFacts
<1>5. ASSUME NEW n \in nodes, NEW m \in nodes
      PROVE  m \in Mentioned(edges[n]) <=> n \in Mentioned(back_edges[m])
  BY MirroredMentions DEF BaseInv, MirrorInv
<1> QED
  BY <1>1, <1>2, <1>3, <1>4, <1>5 DEF GraphFinished

\* The fixed graph: while a query runs nothing of the analysis changes.
LEMMA GraphStays ==
    ASSUME BaseInv, [QNext]_<<vars, qvars>>, pc = "done"
    PROVE  UNCHANGED vars
<1>1. ~ Next
  BY DEF Next, Collect, Skip, VisitNew, AddEdge, EdgesAdded, Extend, Extended, Finish
<1> QED
  BY <1>1 DEF QNext

-----------------------------------------------------------------------------
(* Type correctness of the queries. *)

Phases ==
    /\ query # "none" => pc = "done"
    /\ query = "none" =>
        /\ at = "start" /\ given = {} /\ frames = <<>> /\ callees = {}
        /\ unread = {} /\ walk = <<>> /\ visited = {} /\ DOMAIN out = {}
    /\ at = "call" => query = "callees"
    /\ at \in {"match", "walk"} => query = "reason"
    /\ at = "write" => query \in {"reason", "all"}
    /\ IsFiniteSet(callees)

QTypeInv == QTypeOK /\ Phases

\* The frame on top is about a node and is where its loop can be.
LEMMA FrameFacts ==
    ASSUME BaseInv, QTypeInv, pc = "done", frames # <<>>
    PROVE  /\ Len(frames) \in Nat \ {0} /\ DOMAIN frames = 1..Len(frames)
           /\ Frame \in FrameOf(nodes) /\ Frame.item \in nodes /\ Frame.next \in Nat \ {0}
           /\ NodesOf \in Seq(CollectedItem) /\ DOMAIN NodesOf = 1..Len(NodesOf) /\ Len(NodesOf) \in Nat
<1>1. frames \in Seq(FrameOf(nodes))
  BY DEF QTypeInv, QTypeOK
<1>2. Len(frames) \in Nat \ {0} /\ DOMAIN frames = 1..Len(frames)
  BY <1>1, LenProperties, EmptySeq
<1>3. Frame \in FrameOf(nodes)
  BY <1>1, <1>2, ElementOfSeq DEF Frame
<1>4. Frame.item \in nodes /\ Frame.next \in Nat \ {0}
  BY <1>3 DEF FrameOf
<1>5. NodesOf \in Seq(CollectedItem)
  BY <1>4, FinishedGraph DEF GraphFinished, NodesOf
<1> QED
  BY <1>2, <1>3, <1>4, <1>5, LenProperties

LEMMA CalleeFacts ==
    ASSUME BaseInv, QTypeInv, pc = "done", InLoop
    PROVE  /\ Frame.next \in DOMAIN NodesOf
           /\ Callee \in Succ(crate, Frame.item) /\ Callee \in nodes
<1>1. frames # <<>> /\ Frame.next <= Len(NodesOf)
  BY DEF InLoop
<1>2. Frame.next \in DOMAIN NodesOf
  BY <1>1, FrameFacts
<1>3. Callee \in Mentioned(NodesOf)
  BY <1>2 DEF Mentioned, Callee
<1> QED
  BY <1>1, <1>2, <1>3, FrameFacts, FinishedGraph DEF GraphFinished, NodesOf

LEMMA AdvancedFacts ==
    ASSUME BaseInv, QTypeInv, pc = "done", frames # <<>>
    PROVE  /\ Advanced \in Seq(FrameOf(nodes)) /\ Len(Advanced) = Len(frames)
           /\ DOMAIN Advanced = DOMAIN frames
           /\ \A p \in DOMAIN frames :
                /\ Advanced[p].item = frames[p].item
                /\ Advanced[p].next = IF p = Len(frames) THEN Frame.next + 1 ELSE frames[p].next
<1> DEFINE top == [Frame EXCEPT !.next = @ + 1]
<1>1. frames \in Seq(FrameOf(nodes)) /\ Len(frames) \in DOMAIN frames /\ DOMAIN frames = 1..Len(frames)
  BY FrameFacts DEF QTypeInv, QTypeOK
<1>2. top \in FrameOf(nodes) /\ top.item = Frame.item /\ top.next = Frame.next + 1
  BY FrameFacts DEF FrameOf
<1>3. Advanced = [frames EXCEPT ![Len(frames)] = top]
  BY <1>1 DEF Advanced, Frame
<1>4. Advanced \in Seq(FrameOf(nodes)) /\ Len(Advanced) = Len(frames)
  BY <1>1, <1>2, <1>3, ExceptSeq
<1>5. DOMAIN Advanced = DOMAIN frames
  BY <1>3
<1> HIDE DEF top
<1>6. \A p \in DOMAIN frames : Advanced[p] = IF p = Len(frames) THEN top ELSE frames[p]
  BY <1>1, <1>3
<1> QED
  BY <1>2, <1>4, <1>5, <1>6 DEF Frame

LEMMA ButLast ==
    ASSUME NEW T, NEW q \in Seq(T), q # <<>>
    PROVE  LET r == SubSeq(q, 1, Len(q) - 1) IN
           /\ r \in Seq(T) /\ Len(r) = Len(q) - 1 /\ DOMAIN r = 1..(Len(q) - 1)
           /\ \A p \in 1..(Len(q) - 1) : r[p] = q[p]
<1> DEFINE r == SubSeq(q, 1, Len(q) - 1)
<1>1. Len(q) \in Nat \ {0} /\ DOMAIN q = 1..Len(q) /\ \A p \in 1..Len(q) : q[p] \in T
  BY LenProperties, EmptySeq, ElementOfSeq
<1>2. /\ r \in Seq(T)
      /\ Len(r) = Len(q) - 1
      /\ \A p \in 1..(Len(q) - 1) : r[p] = q[p]
  BY <1>1, SubSeqProperties
<1>3. DOMAIN r = 1..(Len(q) - 1)
  BY <1>2, LenProperties
<1> QED
  BY <1>2, <1>3

LEMMA ReturnedFacts ==
    ASSUME BaseInv, QTypeInv, pc = "done", frames # <<>>
    PROVE  /\ Returned \in Seq(FrameOf(nodes)) /\ Len(Returned) = Len(frames) - 1
           /\ DOMAIN Returned = 1..(Len(frames) - 1)
           /\ \A p \in 1..(Len(frames) - 1) : Returned[p] = frames[p]
<1>1. frames \in Seq(FrameOf(nodes))
  BY DEF QTypeInv, QTypeOK
<1> QED
  BY <1>1, ButLast DEF Returned

\* The origins of a node are nodes, those its back edges mention.
LEMMA OriginsFacts ==
    ASSUME GraphFinished, NEW n \in nodes
    PROVE  Origins(n) \in Seq(nodes) /\ Range(Origins(n)) = Mentioned(back_edges[n])
<1>1. back_edges[n] \in Seq(CollectedItem) /\ Mentioned(back_edges[n]) \subseteq nodes
  BY DEF GraphFinished
<1>2. DOMAIN back_edges[n] = 1..Len(back_edges[n]) /\ Len(back_edges[n]) \in Nat
  BY <1>1, LenProperties
<1>3. \A p \in DOMAIN back_edges[n] : back_edges[n][p].item \in nodes
  BY <1>1 DEF Mentioned
<1>4. Origins(n) \in Seq(nodes)
  BY <1>2, <1>3, IsASeq DEF Origins
<1> QED
  BY <1>4 DEF Origins, Range, Mentioned

LEMMA ConcatElems ==
    ASSUME NEW T, NEW q \in Seq(T), NEW r \in Seq(T)
    PROVE  q \o r \in Seq(T) /\ Range(q \o r) = Range(q) \cup Range(r)
<1>1. /\ q \o r \in Seq(T) /\ Len(q \o r) = Len(q) + Len(r)
      /\ \A p \in 1..Len(q) + Len(r) : (q \o r)[p] = IF p <= Len(q) THEN q[p] ELSE r[p - Len(q)]
  BY ConcatProperties
<1>2. /\ Len(q) \in Nat /\ Len(r) \in Nat
      /\ DOMAIN q = 1..Len(q) /\ DOMAIN r = 1..Len(r) /\ DOMAIN (q \o r) = 1..(Len(q) + Len(r))
  BY <1>1, LenProperties
<1>3. \A p \in DOMAIN q : p \in DOMAIN (q \o r) /\ (q \o r)[p] = q[p]
  BY <1>1, <1>2
<1>4. ASSUME NEW p \in DOMAIN r
      PROVE  Len(q) + p \in DOMAIN (q \o r) /\ (q \o r)[Len(q) + p] = r[p]
  <2>1. p \in Nat \ {0} /\ p <= Len(r)
    BY <1>2
  <2>2. Len(q) + p \in 1..(Len(q) + Len(r)) /\ ~ (Len(q) + p <= Len(q)) /\ (Len(q) + p) - Len(q) = p
    BY <1>2, <2>1
  <2> QED
    BY <1>1, <1>2, <2>2
<1>5. ASSUME NEW p \in DOMAIN (q \o r)
      PROVE  \/ p \in DOMAIN q /\ (q \o r)[p] = q[p]
             \/ p - Len(q) \in DOMAIN r /\ (q \o r)[p] = r[p - Len(q)]
  <2>1. p \in 1..(Len(q) + Len(r))
    BY <1>2
  <2>2. CASE p <= Len(q)
    BY <1>1, <1>2, <2>1, <2>2
  <2>3. CASE ~ (p <= Len(q))
    <3>1. p - Len(q) \in 1..Len(r)
      BY <1>2, <2>1, <2>3
    <3> QED
      BY <1>1, <1>2, <2>1, <2>3, <3>1
  <2> QED
    BY <2>2, <2>3
<1>6. ASSUME NEW y \in Range(q \o r)
      PROVE  y \in Range(q) \cup Range(r)
  BY <1>5 DEF Range
<1>7. Range(q) \cup Range(r) \subseteq Range(q \o r)
  BY <1>3, <1>4 DEF Range
<1> QED
  BY <1>1, <1>6, <1>7

LEMMA QTypeStep == BaseInv /\ QTypeInv /\ [QNext]_<<vars, qvars>> => QTypeInv'
<1> SUFFICES ASSUME BaseInv, QTypeInv, [QNext]_<<vars, qvars>> PROVE QTypeInv'
  OBVIOUS
<1> USE DEF walking
<1>0. ASSUME UNCHANGED qvars
      PROVE  QTypeInv'
  <2>1. CASE query = "none"
    <3>1. frames' = <<>> /\ walk' = <<>> /\ DOMAIN out' = {} /\ callees' = {}
      BY <1>0, <2>1 DEF qvars, QTypeInv, Phases
    <3>2. /\ frames' \in Seq(FrameOf(nodes')) /\ walk' \in Seq(nodes')
          /\ out' \in [DOMAIN out' -> SUBSET CollectedItem] /\ Cardinality(callees') = 0 /\ Len(frames') = 0
      BY <1>0, <3>1, FS_EmptySet, EmptySeq DEF qvars, QTypeInv, QTypeOK
    <3> QED
      BY <1>0, <2>1, <3>1, <3>2 DEF qvars, QTypeInv, QTypeOK, Phases
  <2>2. CASE query # "none"
    <3>1. UNCHANGED vars
      BY <2>2, GraphStays DEF QTypeInv, Phases
    <3> QED
      BY <1>0, <2>2, <3>1 DEF vars, graph, qvars, QTypeInv, QTypeOK, Phases, FrameOf
  <2> QED
    BY <2>1, <2>2
<1>1. ASSUME QueryStep, UNCHANGED vars
      PROVE  QTypeInv'
  <2> USE <1>1 DEF vars, graph
  <2>done. pc = "done"
    BY DEF QueryStep, AskCallees, AskReason, AskAll, Idle, QTypeInv, Phases, Recurse, PassOver, Return,
           InLoop, Match, Matched, WalkBack, WalkOn, Walked, WriteNode, Written
  <2>graph. GraphFinished
    BY <2>done, FinishedGraph
  <2>1. CASE AskCallees
    <3>1. PICK i \in collected : given' = {i} /\ frames' = <<[item |-> i, next |-> 1]>>
      BY <2>1 DEF AskCallees
    <3>2. [item |-> i, next |-> 1] \in FrameOf(nodes)
      BY <2>graph DEF GraphFinished, FrameOf
    <3>3. frames' \in Seq(FrameOf(nodes)) /\ Len(frames') = 1
      BY <3>1, <3>2
    <3>4. Cardinality(callees) = 0
      BY <2>1, FS_EmptySet DEF AskCallees, Idle, QTypeInv, Phases
    <3> QED
      BY <2>1, <2>graph, <3>1, <3>3, <3>4
         DEF AskCallees, Idle, GraphFinished, QTypeInv, QTypeOK, Phases
  <2>2. CASE Recurse
    <3>1. Callee \in nodes /\ Callee \in Fn \ callees /\ frames # <<>>
      BY <2>2, <2>done, CalleeFacts DEF Recurse, InLoop
    <3>2. IsFiniteSet(callees') /\ Cardinality(callees') = Cardinality(callees) + 1
          /\ Cardinality(callees) \in Nat
      BY <2>2, <3>1, FS_AddElement, FS_CardinalityType DEF Recurse, Inserted, QTypeInv, Phases
    <3>3. [item |-> Callee, next |-> 1] \in FrameOf(nodes)
      BY <3>1 DEF FrameOf
    <3>4. frames' \in Seq(FrameOf(nodes)) /\ Len(frames') = Len(frames) + 1
      BY <2>2, <2>done, <3>1, <3>3, AdvancedFacts, AppendProperties DEF Recurse
    <3>5. callees' \subseteq nodes \cap Fn
      BY <2>2, <3>1 DEF Recurse, Inserted, QTypeInv, QTypeOK
    <3>6. Len(frames') <= Cardinality(callees') + 1
      BY <2>done, <3>1, <3>2, <3>4, FrameFacts DEF QTypeInv, QTypeOK
    <3> QED
      BY <2>2, <2>done, <3>2, <3>4, <3>5, <3>6 DEF Recurse, InLoop, QTypeInv, QTypeOK, Phases
  <2>3. CASE PassOver
    BY <2>3, <2>done, AdvancedFacts DEF PassOver, InLoop, QTypeInv, QTypeOK, Phases
  <2>4. CASE Return
    <3>1. Returned \in Seq(FrameOf(nodes)) /\ Len(Returned) = Len(frames) - 1 /\ Len(frames) \in Nat
      BY <2>4, <2>done, ReturnedFacts, FrameFacts DEF Return
    <3>2. Cardinality(callees) \in Nat
      BY FS_CardinalityType DEF QTypeInv, Phases
    <3>3. Len(Returned) <= Cardinality(callees) + 1
      BY <3>1, <3>2 DEF QTypeInv, QTypeOK
    <3> QED
      BY <2>4, <2>done, <3>1, <3>3 DEF Return, QTypeInv, QTypeOK, Phases
  <2>5. CASE AskReason
    BY <2>5, <2>done DEF AskReason, Idle, QTypeInv, QTypeOK, Phases
  <2>6. CASE Match
    <3>1. walk' \in Seq(nodes) /\ unread' \subseteq nodes
      BY <2>6, AppendProperties DEF Match, QTypeInv, QTypeOK
    <3> QED
      BY <2>6, <2>done, <3>1 DEF Match, QTypeInv, QTypeOK, Phases
  <2>7. CASE WalkBack
    <3>1. Newest \in nodes /\ Rest \in Seq(nodes)
      BY <2>7, PopElems DEF WalkBack, Newest, Rest, QTypeInv, QTypeOK
    <3>2. Origins(Newest) \in Seq(nodes)
      BY <2>graph, <3>1, OriginsFacts
    <3>3. walk' \in Seq(nodes)
      BY <2>7, <3>1, <3>2, ConcatProperties DEF WalkBack
    <3> QED
      BY <2>7, <2>done, <3>1, <3>3 DEF WalkBack, QTypeInv, QTypeOK, Phases
  <2>8. CASE WalkOn
    <3>1. Rest \in Seq(nodes)
      BY <2>8, PopElems DEF WalkOn, Rest, QTypeInv, QTypeOK
    <3> QED
      BY <2>8, <2>done, <3>1 DEF WalkOn, QTypeInv, QTypeOK, Phases
  <2>9. CASE AskAll
    BY <2>9, <2>done DEF AskAll, Idle, QTypeInv, QTypeOK, Phases
  <2>10. CASE WriteNode
    <3>1. PICK n \in unread : /\ unread' = unread \ {n}
                              /\ out' = [m \in DOMAIN out \cup {n} |-> IF m = n THEN Shown(n) ELSE out[m]]
      BY <2>10 DEF WriteNode
    <3>2. n \in nodes
      BY DEF QTypeInv, QTypeOK
    <3>3. Shown(n) \subseteq CollectedItem
      <4>1. edges[n] \in Seq(CollectedItem)
        BY <2>graph, <3>2 DEF GraphFinished
      <4>2. Range(edges[n]) \subseteq CollectedItem
        BY <4>1, LenProperties, ElementOfSeq DEF Range
      <4> QED
        BY <4>2 DEF Shown
    <3>4. out' \in [DOMAIN out' -> SUBSET (CollectedItem)] /\ DOMAIN out' \subseteq nodes
      <4>1. DOMAIN out' = DOMAIN out \cup {n}
        BY <3>1
      <4>2. \A m \in DOMAIN out : out[m] \in SUBSET CollectedItem
        BY DEF QTypeInv, QTypeOK
      <4>3. \A m \in DOMAIN out' : out'[m] \in SUBSET CollectedItem
        BY <3>1, <3>3, <4>1, <4>2
      <4> QED
        BY <3>1, <3>2, <4>1, <4>3 DEF QTypeInv, QTypeOK
    <3> QED
      BY <2>10, <2>done, <3>1, <3>4 DEF WriteNode, QTypeInv, QTypeOK, Phases
  <2>11. CASE Matched \/ Walked \/ Written
    BY <2>11, <2>done DEF Matched, Walked, Written, QTypeInv, QTypeOK, Phases
  <2> QED
    BY <2>1, <2>2, <2>3, <2>4, <2>5, <2>6, <2>7, <2>8, <2>9, <2>10, <2>11, <1>1 DEF QueryStep
<1> QED
  BY <1>0, <1>1 DEF QNext

LEMMA QTypeInvariant == QSpec => [](BaseInv /\ QTypeInv)
<1>1. Init /\ QInit => QTypeInv
  <2> SUFFICES ASSUME Init, QInit PROVE QTypeInv
    OBVIOUS
  <2>1. IsFiniteSet(callees) /\ Cardinality(callees) = 0
    BY FS_EmptySet DEF QInit
  <2>2. frames \in Seq(FrameOf(nodes)) /\ Len(frames) = 0 /\ walk \in Seq(nodes)
    BY EmptySeq DEF QInit
  <2> QED
    BY <2>1, <2>2 DEF QInit, QTypeInv, QTypeOK, Phases
<1> QED
  BY <1>1, QTypeStep, BaseInvariant, PTL DEF QSpec

\* Every variable of the queries has its type: no lookup of theirs fails,
\* and recursive_callees nests at most once for each function and once more.
THEOREM QueryTypes == QSpec => []QTypeOK
<1>1. QTypeInv => QTypeOK
  BY DEF QTypeInv
<1> QED
  BY <1>1, QTypeInvariant, PTL

-----------------------------------------------------------------------------
(* dump_reason.  The items found so far lead to a target, and the targets  *)
(* and the origins of visited items have been found.                       *)

Found == visited \cup Range(walk)

ReasonInv ==
    query = "reason" =>
        /\ \A i \in Found : LeadsTo(i, given)
        /\ \A i \in given \cap nodes : i \in Found \/ (at = "match" /\ i \in unread)
        /\ \A i \in visited : Mentioned(back_edges[i]) \subseteq Found
        /\ at \in {"write", "end"} => walk = <<>>

LEMMA TargetLeads == \A i \in given : LeadsTo(i, given)
BY DEF LeadsTo

LEMMA OriginLeads ==
    ASSUME GraphFinished, NEW m \in nodes, LeadsTo(m, given), NEW n \in Mentioned(back_edges[m])
    PROVE  LeadsTo(n, given)
<1>1. n \in nodes /\ m \in Succ(crate, n)
  BY DEF GraphFinished
<1> QED
  BY <1>1 DEF LeadsTo, Closed

\* While nothing but the other queries' variables change it holds on.
LEMMA ReasonStays ==
    ASSUME ReasonInv, UNCHANGED <<vars, query, at, given, unread, walk, visited>>
    PROVE  ReasonInv'
<1>1. UNCHANGED <<crate, nodes, back_edges>>
  BY DEF vars
<1>2. Found' = Found
  BY DEF Found
<1>3. \A i : LeadsTo(i, given)' = LeadsTo(i, given)
  BY <1>1 DEF LeadsTo, Closed
<1> QED
  BY <1>1, <1>2, <1>3 DEF ReasonInv

LEMMA ReasonStep == BaseInv /\ QTypeInv /\ ReasonInv /\ [QNext]_<<vars, qvars>> => ReasonInv'
<1> SUFFICES ASSUME BaseInv, QTypeInv, ReasonInv, [QNext]_<<vars, qvars>> PROVE ReasonInv'
  OBVIOUS
<1> USE DEF walking
<1>1. CASE query' # "reason"
  BY <1>1 DEF ReasonInv
<1>2. CASE query' = "reason" /\ UNCHANGED qvars
  <2>1. UNCHANGED vars
    BY <1>2, GraphStays DEF qvars, QTypeInv, Phases
  <2> QED
    BY <1>2, <2>1, ReasonStays DEF qvars
<1>3. CASE query' = "reason" /\ QueryStep /\ UNCHANGED vars
  <2> USE <1>3
  <2>done. pc = "done"
    BY DEF QueryStep, AskCallees, AskReason, AskAll, Idle, QTypeInv, Phases, Recurse, PassOver, Return,
           InLoop, Match, Matched, WalkBack, WalkOn, Walked, WriteNode, Written
  <2>graph. GraphFinished
    BY <2>done, FinishedGraph
  <2>same. UNCHANGED <<crate, nodes, back_edges>>
    BY DEF vars
  <2>leads. ASSUME given' = given
            PROVE  \A i : LeadsTo(i, given)' = LeadsTo(i, given)
    BY <2>same, <2>leads DEF LeadsTo, Closed
  <2>1. CASE AskReason
    <3>1. walk' = <<>> /\ visited' = {} /\ unread' = nodes' /\ at' = "match"
      BY <2>1, <2>same DEF AskReason, Idle, QTypeInv, Phases
    <3>2. Found' = {}
      BY <3>1 DEF Found, Range
    <3> QED
      BY <3>1, <3>2 DEF ReasonInv
  <2>2. CASE Match
    <3>1. PICK n \in unread : /\ unread' = unread \ {n}
                              /\ walk' = IF n \in given THEN Append(walk, n) ELSE walk
      BY <2>2 DEF Match
    <3>2. n \in nodes /\ walk \in Seq(nodes)
      BY DEF QTypeInv, QTypeOK
    <3>3. Found' = Found \cup ({n} \cap given)
      <4>1. Range(Append(walk, n)) = Range(walk) \cup {n}
        BY <3>2, AppendElems
      <4> QED
        BY <2>2, <3>1, <4>1 DEF Match, Found
    <3>4. given' = given /\ visited' = visited /\ at = "match" /\ at' = "match" /\ query = "reason"
      BY <2>2 DEF Match
    <3>5. \A i \in Found' : LeadsTo(i, given)'
      BY <2>leads, <3>3, <3>4, TargetLeads DEF ReasonInv
    <3>6. \A i \in given' \cap nodes' : i \in Found' \/ i \in unread'
      BY <2>same, <3>1, <3>3, <3>4 DEF ReasonInv
    <3> QED
      BY <2>same, <3>3, <3>4, <3>5, <3>6 DEF ReasonInv
  <2>3. CASE Matched
    <3>1. Found' = Found /\ given' = given /\ visited' = visited /\ unread = {} /\ at' = "walk"
          /\ query = "reason"
      BY <2>3 DEF Matched, Found
    <3> QED
      BY <2>same, <2>leads, <3>1 DEF ReasonInv
  <2>4. CASE WalkBack
    <3>1. /\ Newest \in nodes /\ Rest \in Seq(nodes)
          /\ Range(walk) = Range(Rest) \cup {Newest}
      BY <2>4, PopElems DEF WalkBack, Newest, Rest, QTypeInv, QTypeOK
    <3>2. Origins(Newest) \in Seq(nodes) /\ Range(Origins(Newest)) = Mentioned(back_edges[Newest])
      BY <2>graph, <3>1, OriginsFacts
    <3>3. Range(walk') = Range(Rest) \cup Mentioned(back_edges[Newest])
      BY <2>4, <3>1, <3>2, ConcatElems DEF WalkBack
    <3>4. /\ visited' = visited \cup {Newest} /\ given' = given
          /\ at = "walk" /\ at' = "walk" /\ query = "reason"
      BY <2>4 DEF WalkBack
    <3>5. Found' = Found \cup Mentioned(back_edges[Newest])
      BY <3>1, <3>3, <3>4 DEF Found
    <3>6. LeadsTo(Newest, given)
      BY <3>1, <3>4 DEF ReasonInv, Found
    <3>7. \A i \in Mentioned(back_edges[Newest]) : LeadsTo(i, given)
      BY <2>graph, <3>1, <3>6, OriginLeads
    <3>8. \A i \in Found' : LeadsTo(i, given)'
      BY <2>leads, <3>4, <3>5, <3>7 DEF ReasonInv
    <3> QED
      BY <2>same, <3>4, <3>5, <3>8 DEF ReasonInv
  <2>5. CASE WalkOn
    <3>1. Range(walk) = Range(Rest) \cup {Newest}
      BY <2>5, PopElems DEF WalkOn, Newest, Rest, QTypeInv, QTypeOK
    <3>2. /\ visited' = visited /\ walk' = Rest /\ Newest \in visited /\ given' = given
          /\ at = "walk" /\ at' = "walk" /\ query = "reason"
      BY <2>5 DEF WalkOn
    <3>3. Found' = Found
      BY <3>1, <3>2 DEF Found
    <3> QED
      BY <2>same, <2>leads, <3>2, <3>3 DEF ReasonInv
  <2>6. CASE Walked
    <3>1. /\ Found' = Found /\ given' = given /\ visited' = visited /\ walk' = <<>>
          /\ at = "walk" /\ at' = "write" /\ query = "reason"
      BY <2>6 DEF Walked, Found
    <3> QED
      BY <2>same, <2>leads, <3>1 DEF ReasonInv
  <2>7. CASE WriteNode \/ Written
    <3>1. /\ Found' = Found /\ given' = given /\ visited' = visited /\ walk' = walk
          /\ at = "write" /\ at' \in {"write", "end"} /\ query = "reason"
      BY <2>7 DEF WriteNode, Written, Found
    <3> QED
      BY <2>same, <2>leads, <3>1 DEF ReasonInv
  <2>8. ~ (AskCallees \/ AskAll \/ Recurse \/ PassOver \/ Return)
    BY DEF AskCallees, AskAll, Recurse, PassOver, Return, InLoop, QTypeInv, Phases
  <2> QED
    BY <2>1, <2>2, <2>3, <2>4, <2>5, <2>6, <2>7, <2>8 DEF QueryStep
<1> QED
  BY <1>1, <1>2, <1>3 DEF QNext

\* With an empty queue the items not visited are closed and hold no target.
LEMMA WalkedAll ==
    ASSUME BaseInv, QTypeInv, ReasonInv, query = "reason", at \in {"write", "end"}
    PROVE  visited = {i \in collected : LeadsTo(i, given)}
<1>1. GraphFinished
  BY FinishedGraph DEF QTypeInv, Phases
<1>2. Found = visited /\ visited \subseteq nodes
  BY DEF ReasonInv, Found, Range, QTypeInv, QTypeOK
<1> DEFINE S == collected \ visited
<1>3. S \in SUBSET Item /\ S \cap given = {}
  BY <1>1, <1>2 DEF GraphFinished, ReasonInv
<1>4. Closed(crate, S)
  <2>1. ASSUME NEW n \in S, NEW m \in Succ(crate, n)
        PROVE  m \in S
    <3>1. n \in nodes /\ m \in nodes /\ n \in Mentioned(back_edges[m])
      BY <1>1 DEF GraphFinished
    <3>2. m \in visited => n \in visited
      BY <1>2, <3>1 DEF ReasonInv
    <3> QED
      BY <1>1, <3>1, <3>2 DEF GraphFinished
  <2> QED
    BY <2>1 DEF Closed
<1>5. \A i \in S : ~ LeadsTo(i, given)
  BY <1>3, <1>4 DEF LeadsTo
<1>6. visited \subseteq collected /\ \A i \in visited : LeadsTo(i, given)
  BY <1>1, <1>2 DEF GraphFinished, ReasonInv
<1> QED
  BY <1>5, <1>6

\* dump_reason visits exactly the items that lead to a target: the back edges
\* reach what the forward edges come from, for every graph and every order.
THEOREM ReasonIsExact == QSpec => []ReasonExact
<1>1. Init /\ QInit => ReasonInv
  BY DEF QInit, ReasonInv
<1>2. QSpec => []ReasonInv
  BY <1>1, ReasonStep, QTypeInvariant, PTL DEF QSpec
<1>3. BaseInv /\ QTypeInv /\ ReasonInv => ReasonExact
  BY WalkedAll DEF ReasonExact
<1> QED
  BY <1>2, <1>3, QTypeInvariant, PTL
-----------------------------------------------------------------------------
(* recursive_callees.  Every function met has a call in progress or all its *)
(* callees met; a call in progress has met those its loop has passed.       *)

Met == given \cup callees
InProgress(n) == \E p \in DOMAIN frames : frames[p].item = n
Passed ==
    \A p \in DOMAIN frames : \A m \in 1..(frames[p].next - 1) :
        m \in DOMAIN edges[frames[p].item] /\ edges[frames[p].item][m].item \in Fn
            => edges[frames[p].item][m].item \in callees

CalleesInv ==
    query = "callees" =>
        /\ given \subseteq nodes
        /\ callees \subseteq CalleesOf(given)
        /\ \A p \in DOMAIN frames : frames[p].item \in Met
        /\ Passed
        /\ \A n \in Met : InProgress(n) \/ Succ(crate, n) \cap Fn \subseteq callees
        /\ at = "end" => frames = <<>>

LEMMA CalleesStep == BaseInv /\ QTypeInv /\ CalleesInv /\ [QNext]_<<vars, qvars>> => CalleesInv'
<1> SUFFICES ASSUME BaseInv, QTypeInv, CalleesInv, [QNext]_<<vars, qvars>> PROVE CalleesInv'
  OBVIOUS
<1> USE DEF walking
<1>1. CASE query' # "callees"
  BY <1>1 DEF CalleesInv
<1>2. CASE query' = "callees" /\ UNCHANGED qvars
  <2>1. UNCHANGED vars
    BY <1>2, GraphStays DEF qvars, QTypeInv, Phases
  <2>2. UNCHANGED <<crate, nodes, edges>> /\ UNCHANGED <<query, at, given, frames, callees>>
    BY <1>2, <2>1 DEF vars, graph, qvars
  <2> QED
    BY <2>2 DEF CalleesInv, CalleesOf, Met, InProgress, Passed
<1>3. CASE query' = "callees" /\ QueryStep /\ UNCHANGED vars
  <2> USE <1>3
  <2>done. pc = "done"
    BY DEF QueryStep, AskCallees, AskReason, AskAll, Idle, QTypeInv, Phases, Recurse, PassOver, Return,
           InLoop, Match, Matched, WalkBack, WalkOn, Walked, WriteNode, Written
  <2>graph. GraphFinished
    BY <2>done, FinishedGraph
  <2>same. UNCHANGED <<crate, nodes, edges>>
    BY DEF vars, graph
  <2>1. CASE AskCallees
    <3>1. PICK i \in collected : given' = {i} /\ frames' = <<[item |-> i, next |-> 1]>>
      BY <2>1 DEF AskCallees
    <3>2. callees' = {} /\ at' = "call"
      BY <2>1 DEF AskCallees, Idle, QTypeInv, Phases
    <3>3. DOMAIN frames' = {1} /\ frames'[1].item = i /\ frames'[1].next = 1
      BY <3>1
    <3>4. Passed'
      BY <3>3 DEF Passed
    <3>5. \A n \in Met' : n = i /\ InProgress(n)'
      BY <3>1, <3>2, <3>3 DEF Met, InProgress
    <3> QED
      BY <2>graph, <2>same, <3>1, <3>2, <3>3, <3>4, <3>5 DEF GraphFinished, CalleesInv, Met
  <2>2. CASE Recurse
    <3> DEFINE new == [item |-> Callee, next |-> 1]
    <3>1. /\ query = "callees" /\ given' = given /\ at' = "call" /\ frames # <<>>
          /\ callees' = callees \cup {Callee} /\ Callee \in Fn
      BY <2>2 DEF Recurse, Inserted, InLoop
    <3>2. /\ Frame.next \in DOMAIN NodesOf /\ Callee \in Succ(crate, Frame.item)
          /\ Frame = frames[Len(frames)] /\ Len(frames) \in DOMAIN frames
          /\ DOMAIN frames = 1..Len(frames) /\ Len(frames) \in Nat /\ Frame.next \in Nat
      BY <2>2, <2>done, CalleeFacts, FrameFacts DEF Recurse, InLoop, Frame
    <3>3. /\ DOMAIN frames' = 1..(Len(frames) + 1)
          /\ \A p \in DOMAIN frames : frames'[p] = Advanced[p]
          /\ frames'[Len(frames) + 1] = new
      <4>1. Advanced \in Seq(FrameOf(nodes)) /\ Len(Advanced) = Len(frames)
        BY <2>done, <3>1, AdvancedFacts
      <4>2. new \in FrameOf(nodes)
        BY <2>2, <2>done, CalleeFacts DEF Recurse, FrameOf
      <4>3. frames' = Append(Advanced, new)
        BY <2>2 DEF Recurse
      <4>4. frames' \in Seq(FrameOf(nodes)) /\ Len(frames') = Len(frames) + 1
        BY <4>1, <4>2, <4>3, AppendProperties
      <4> HIDE DEF new
      <4> QED
        BY <3>2, <4>1, <4>2, <4>3, <4>4, AppendProperties, LenProperties
    <3>4. \A p \in DOMAIN frames :
            /\ p \in DOMAIN frames' /\ frames'[p].item = frames[p].item
            /\ frames'[p].next = IF p = Len(frames) THEN Frame.next + 1 ELSE frames[p].next
      BY <2>done, <3>1, <3>2, <3>3, AdvancedFacts
    <3>5. Frame.item \in Met
      BY <3>1, <3>2 DEF CalleesInv
    <3>6. Callee \in CalleesOf(given)
      BY <3>1, <3>2, <3>5 DEF CalleesOf, CalleesInv, Met
    <3>7. callees' \subseteq CalleesOf(given)'
      BY <2>same, <3>1, <3>6 DEF CalleesInv, CalleesOf
    <3>8. \A p \in DOMAIN frames' : frames'[p].item \in Met'
      <4>1. \A p \in DOMAIN frames : frames'[p].item \in Met'
        BY <3>1, <3>4 DEF CalleesInv, Met
      <4>2. frames'[Len(frames) + 1].item \in Met'
        BY <3>1, <3>3 DEF Met
      <4> QED
        BY <3>2, <3>3, <4>1, <4>2
    <3>9. Passed'
      <4>1. ASSUME NEW p \in DOMAIN frames', NEW m \in 1..(frames'[p].next - 1),
                   m \in DOMAIN edges[frames'[p].item], edges[frames'[p].item][m].item \in Fn
            PROVE  edges[frames'[p].item][m].item \in callees'
        <5>1. CASE p = Len(frames) + 1
          BY <3>3, <5>1
        <5>2. CASE p = Len(frames) /\ m = Frame.next
          BY <3>1, <3>2, <3>4, <5>2 DEF Callee, NodesOf
        <5>3. CASE p \in DOMAIN frames /\ ~ (p = Len(frames) /\ m = Frame.next)
          <6>1. frames'[p].item = frames[p].item
            BY <3>4, <5>3
          <6>2. m \in 1..(frames[p].next - 1)
            BY <3>2, <3>4, <5>3
          <6> QED
            BY <3>1, <4>1, <5>3, <6>1, <6>2 DEF CalleesInv, Passed
        <5> QED
          BY <3>2, <3>3, <5>1, <5>2, <5>3
      <4> QED
        BY <2>same, <4>1 DEF Passed
    <3>10. \A n \in Met' : InProgress(n)' \/ Succ(crate, n) \cap Fn \subseteq callees'
      <4>1. \A n : InProgress(n) => InProgress(n)'
        BY <3>4 DEF InProgress
      <4>2. PICK j : j = Callee
        OBVIOUS
      <4>3. InProgress(j)'
        <5>1. Len(frames) + 1 \in DOMAIN frames' /\ frames'[Len(frames) + 1].item = j
          BY <3>2, <3>3, <4>2
        <5> QED
          BY <5>1 DEF InProgress
      <4>4. Met' = Met \cup {j}
        BY <3>1, <4>2 DEF Met
      <4>5. \A n \in Met : InProgress(n) \/ Succ(crate, n) \cap Fn \subseteq callees
        BY <3>1 DEF CalleesInv
      <4> QED
        BY <3>1, <4>1, <4>3, <4>4, <4>5
    <3> QED
      BY <2>same, <3>1, <3>7, <3>8, <3>9, <3>10 DEF CalleesInv
  <2>3. CASE PassOver
    <3>1. /\ query = "callees" /\ given' = given /\ at' = "call" /\ frames # <<>>
          /\ callees' = callees /\ frames' = Advanced /\ (Callee \in Fn => Callee \in callees)
      BY <2>3 DEF PassOver, InLoop
    <3>2. /\ Frame.next \in DOMAIN NodesOf
          /\ Frame = frames[Len(frames)] /\ Len(frames) \in DOMAIN frames /\ Frame.next \in Nat
          /\ DOMAIN frames = 1..Len(frames)
      BY <2>3, <2>done, CalleeFacts, FrameFacts DEF PassOver, InLoop, Frame
    <3>3. /\ DOMAIN frames' = DOMAIN frames
          /\ \A p \in DOMAIN frames :
                /\ frames'[p].item = frames[p].item
                /\ frames'[p].next = IF p = Len(frames) THEN Frame.next + 1 ELSE frames[p].next
      BY <2>done, <3>1, AdvancedFacts
    <3>4. Passed'
      <4>1. ASSUME NEW p \in DOMAIN frames', NEW m \in 1..(frames'[p].next - 1),
                   m \in DOMAIN edges[frames'[p].item], edges[frames'[p].item][m].item \in Fn
            PROVE  edges[frames'[p].item][m].item \in callees'
        <5>1. CASE p = Len(frames) /\ m = Frame.next
          <6>1. edges[frames'[p].item][m].item = Callee
            BY <3>2, <3>3, <5>1 DEF Callee, NodesOf
          <6> QED
            BY <3>1, <4>1, <6>1
        <5>2. CASE ~ (p = Len(frames) /\ m = Frame.next)
          <6>1. p \in DOMAIN frames /\ frames'[p].item = frames[p].item
            BY <3>3
          <6>2. m \in 1..(frames[p].next - 1)
            BY <3>2, <3>3, <5>2
          <6> QED
            BY <3>1, <4>1, <6>1, <6>2 DEF CalleesInv, Passed
        <5> QED
          BY <5>1, <5>2
      <4> QED
        BY <2>same, <4>1 DEF Passed
    <3>5. Met' = Met /\ \A n : InProgress(n)' <=> InProgress(n)
      BY <3>1, <3>3 DEF Met, InProgress
    <3>6. CalleesOf(given)' = CalleesOf(given)
      BY <2>same, <3>1 DEF CalleesOf
    <3> QED
      BY <2>same, <3>1, <3>3, <3>4, <3>5, <3>6 DEF CalleesInv
  <2>4. CASE Return
    <3>1. /\ query = "callees" /\ given' = given /\ callees' = callees /\ frames # <<>>
          /\ frames' = Returned /\ Frame.next > Len(NodesOf)
          /\ at' = IF Len(frames) = 1 THEN "end" ELSE "call"
      BY <2>4 DEF Return
    <3>2. /\ Frame = frames[Len(frames)] /\ Len(frames) \in Nat \ {0} /\ DOMAIN frames = 1..Len(frames)
          /\ Frame.next \in Nat /\ DOMAIN NodesOf = 1..Len(NodesOf) /\ Len(NodesOf) \in Nat
          /\ Frame.item \in nodes
      BY <2>done, <3>1, FrameFacts DEF Frame
    <3>3. /\ DOMAIN frames' = 1..(Len(frames) - 1)
          /\ \A p \in DOMAIN frames' : p \in DOMAIN frames /\ frames'[p] = frames[p]
      BY <2>done, <3>1, <3>2, ReturnedFacts
    <3>4. Succ(crate, Frame.item) \cap Fn \subseteq callees
      <4>1. Succ(crate, Frame.item) = Mentioned(NodesOf)
        BY <2>graph, <3>2 DEF GraphFinished, NodesOf
      <4>2. ASSUME NEW m \in DOMAIN NodesOf, NodesOf[m].item \in Fn
            PROVE  NodesOf[m].item \in callees
        <5>1. Len(frames) \in DOMAIN frames /\ m \in 1..(Frame.next - 1)
          BY <3>1, <3>2
        <5> QED
          BY <3>1, <3>2, <4>2, <5>1 DEF CalleesInv, Passed, NodesOf
      <4> QED
        BY <4>1, <4>2 DEF Mentioned
    <3>5. ASSUME NEW n, InProgress(n)
          PROVE  InProgress(n)' \/ n = Frame.item
      <4>1. PICK p \in DOMAIN frames : frames[p].item = n
        BY <3>5 DEF InProgress
      <4>2. p = Len(frames) \/ p \in DOMAIN frames'
        BY <3>2, <3>3
      <4> QED
        BY <3>2, <3>3, <4>1, <4>2 DEF InProgress
    <3>6. Met' = Met
      BY <3>1 DEF Met
    <3>7. \A n \in Met' : InProgress(n)' \/ Succ(crate, n) \cap Fn \subseteq callees'
      BY <3>1, <3>4, <3>5, <3>6 DEF CalleesInv
    <3>8. Passed'
      BY <2>same, <3>1, <3>3 DEF CalleesInv, Passed
    <3>9. at' = "end" => frames' = <<>>
      <4>1. Returned \in Seq(FrameOf(nodes)) /\ Len(Returned) = Len(frames) - 1
        BY <2>done, <3>1, ReturnedFacts
      <4>2. CASE at' = "end"
        <5>1. Len(Returned) = 0
          BY <3>1, <4>1, <4>2
        <5> QED
          BY <3>1, <4>1, <5>1, EmptySeq
      <4> QED
        BY <4>2
    <3>10. \A p \in DOMAIN frames' : frames'[p].item \in Met'
      BY <3>1, <3>3, <3>6 DEF CalleesInv
    <3>11. CalleesOf(given)' = CalleesOf(given)
      BY <2>same, <3>1 DEF CalleesOf
    <3> QED
      BY <2>same, <3>1, <3>7, <3>8, <3>9, <3>10, <3>11 DEF CalleesInv
  <2>5. ~ (AskReason \/ AskAll \/ Match \/ Matched \/ WalkBack \/ WalkOn \/ Walked \/ WriteNode \/ Written)
    BY DEF AskReason, AskAll, Match, Matched, WalkBack, WalkOn, Walked, WriteNode, Written, QTypeInv, Phases
  <2> QED
    BY <2>1, <2>2, <2>3, <2>4, <2>5 DEF QueryStep
<1> QED
  BY <1>1, <1>2, <1>3 DEF QNext

\* recursive_callees returns exactly the functions an item leads to through
\* functions, for every graph and however the calls nest.
THEOREM CalleesAreExact == QSpec => []CalleesExact
<1>1. Init /\ QInit => CalleesInv
  BY DEF QInit, CalleesInv
<1>2. QSpec => []CalleesInv
  BY <1>1, CalleesStep, QTypeInvariant, PTL DEF QSpec
<1>3. QTypeInv /\ CalleesInv => CalleesExact
  <2> SUFFICES ASSUME QTypeInv, CalleesInv, query = "callees", at = "end"
               PROVE  callees = CalleesOf(given)
    BY DEF CalleesExact
  <2>1. \A i \in given \cup callees : Succ(crate, i) \cap Fn \subseteq callees
    BY DEF CalleesInv, Met, InProgress
  <2>2. callees \in SUBSET Fn
    BY DEF QTypeInv, QTypeOK
  <2>3. CalleesOf(given) \subseteq callees
    BY <2>1, <2>2 DEF CalleesOf
  <2> QED
    BY <2>3 DEF CalleesInv
<1> QED
  BY <1>2, <1>3, QTypeInvariant, PTL

-----------------------------------------------------------------------------
(* The drawing.  What is drawn of a node is its edges to what is drawn; the *)
(* nodes not written yet are still to come.                                 *)

ToWrite == IF query = "all" THEN nodes ELSE visited

DrawingInv ==
    query \in {"reason", "all"} =>
        /\ at \in {"match", "walk"} => DOMAIN out = {}
        /\ at \in {"write", "end"} => DOMAIN out \cup unread = ToWrite
        /\ at = "end" => unread = {}
        /\ \A n \in DOMAIN out : out[n] = Shown(n)

LEMMA DrawingStep == BaseInv /\ QTypeInv /\ DrawingInv /\ [QNext]_<<vars, qvars>> => DrawingInv'
<1> SUFFICES ASSUME BaseInv, QTypeInv, DrawingInv, [QNext]_<<vars, qvars>>, query' \in {"reason", "all"}
             PROVE  DrawingInv'
  BY DEF DrawingInv
<1> USE DEF walking
<1>1. CASE UNCHANGED qvars
  <2>1. UNCHANGED vars
    BY <1>1, GraphStays DEF qvars, QTypeInv, Phases
  <2>2. UNCHANGED <<nodes, edges, query, at, unread, visited, out>>
    BY <1>1, <2>1 DEF vars, graph, qvars
  <2> QED
    BY <2>2 DEF DrawingInv, ToWrite, Shown
<1>2. CASE QueryStep /\ UNCHANGED vars
  <2> USE <1>2
  <2>same. UNCHANGED <<nodes, edges>>
    BY DEF vars, graph
  <2>1. CASE AskReason
    <3>1. DOMAIN out' = {} /\ at' = "match"
      BY <2>1 DEF AskReason, Idle, QTypeInv, Phases
    <3> QED
      BY <3>1 DEF DrawingInv
  <2>2. CASE AskAll
    <3>1. DOMAIN out' = {} /\ at' = "write" /\ unread' = nodes' /\ query' = "all"
      BY <2>2, <2>same DEF AskAll, Idle, QTypeInv, Phases
    <3> QED
      BY <3>1 DEF DrawingInv, ToWrite
  <2>3. CASE Match \/ Matched \/ WalkBack \/ WalkOn
    <3>1. /\ query' = query /\ at \in {"match", "walk"} /\ at' \in {"match", "walk"} /\ out' = out
      BY <2>3 DEF Match, Matched, WalkBack, WalkOn
    <3>2. DOMAIN out' = {}
      BY <3>1 DEF DrawingInv
    <3> QED
      BY <3>1, <3>2 DEF DrawingInv
  <2>4. CASE Walked
    <3>1. /\ query' = "reason" /\ query = "reason" /\ at = "walk" /\ at' = "write" /\ out' = out
          /\ unread' = visited /\ visited' = visited
      BY <2>4 DEF Walked, QTypeInv, Phases
    <3>2. DOMAIN out' = {}
      BY <3>1 DEF DrawingInv
    <3> QED
      BY <3>1, <3>2 DEF DrawingInv, ToWrite
  <2>5. CASE WriteNode
    <3>1. PICK n \in unread :
            /\ unread' = unread \ {n}
            /\ out' = [m \in DOMAIN out \cup {n} |-> IF m = n THEN Shown(n) ELSE out[m]]
      BY <2>5 DEF WriteNode
    <3>2. query' = query /\ at = "write" /\ at' = "write" /\ visited' = visited
      BY <2>5 DEF WriteNode
    <3>3. DOMAIN out' \cup unread' = ToWrite'
      BY <2>same, <3>1, <3>2 DEF DrawingInv, ToWrite
    <3>4. \A m : Shown(m)' = Shown(m)
      BY <2>same, <3>2 DEF Shown
    <3>5. \A m \in DOMAIN out' : out'[m] = Shown(m)'
      BY <3>1, <3>2, <3>4 DEF DrawingInv
    <3> QED
      BY <3>2, <3>3, <3>5 DEF DrawingInv
  <2>6. CASE Written
    <3>1. /\ UNCHANGED <<query, visited, unread, out>> /\ unread = {} /\ at = "write" /\ at' = "end"
      BY <2>6 DEF Written
    <3> QED
      BY <2>same, <3>1 DEF DrawingInv, ToWrite, Shown
  <2>7. ~ (AskCallees \/ Recurse \/ PassOver \/ Return)
    BY DEF AskCallees, Recurse, PassOver, Return, InLoop, QTypeInv, Phases
  <2> QED
    BY <2>1, <2>2, <2>3, <2>4, <2>5, <2>6, <2>7 DEF QueryStep
<1> QED
  BY <1>1, <1>2 DEF QNext

\* The edges drawn lead from every node drawn to a target: the nodes they lead
\* to and the collected ones that were not visited would be closed otherwise.
LEMMA DrawnLeads ==
    ASSUME BaseInv, QTypeInv, ReasonInv, DrawingInv, query = "reason", at = "end",
           NEW i \in DOMAIN out, NEW S \in SUBSET Item, i \in S,
           \A n \in S \cap DOMAIN out : \A e \in out[n] : e.item \in S
    PROVE  S \cap given \cap DOMAIN out # {}
<1> SUFFICES ASSUME S \cap given \cap DOMAIN out = {} PROVE FALSE
  OBVIOUS
<1>1. GraphFinished
  BY FinishedGraph DEF QTypeInv, Phases
<1>2. visited = {j \in collected : LeadsTo(j, given)}
  BY WalkedAll
<1>3. DOMAIN out = visited /\ \A n \in visited : out[n] = {e \in Range(edges[n]) : e.item \in visited}
  BY DEF DrawingInv, ToWrite, Shown
<1> DEFINE T == (S \cap visited) \cup (collected \ visited)
<1>4. T \in SUBSET Item /\ i \in T
  BY <1>1, <1>2, <1>3 DEF GraphFinished
<1>5. T \cap given = {}
  BY <1>2, <1>3, TargetLeads
<1>6. Closed(crate, T)
  <2>1. ASSUME NEW n \in T, NEW m \in Succ(crate, n)
        PROVE  m \in T
    <3>1. n \in nodes /\ m \in nodes /\ m \in Mentioned(edges[n]) /\ n \in Mentioned(back_edges[m])
      BY <1>1, <1>2 DEF GraphFinished
    <3>2. CASE m \notin visited
      BY <1>1, <3>1, <3>2 DEF GraphFinished
    <3>3. CASE m \in visited
      <4>1. n \in visited
        <5>1. LeadsTo(m, given)
          BY <1>2, <3>3
        <5>2. LeadsTo(n, given)
          BY <1>1, <3>1, <5>1, OriginLeads
        <5> QED
          BY <1>1, <1>2, <3>1, <5>2 DEF GraphFinished
      <4>2. PICK p \in DOMAIN edges[n] : edges[n][p].item = m
        BY <3>1 DEF Mentioned
      <4>3. edges[n][p] \in out[n]
        BY <1>3, <3>3, <4>1, <4>2 DEF Range
      <4>4. m \in S
        BY <1>3, <4>1, <4>2, <4>3
      <4> QED
        BY <3>3, <4>4
    <3> QED
      BY <3>2, <3>3
  <2> QED
    BY <2>1 DEF Closed
<1>7. LeadsTo(i, given)
  BY <1>2, <1>3
<1> QED
  BY <1>4, <1>5, <1>6, <1>7 DEF LeadsTo

\* dump_all draws what the visit of each item returned.
LEMMA AllDrawn ==
    ASSUME BaseInv, QTypeInv, DrawingInv, query = "all", at = "end"
    PROVE  /\ DOMAIN out = collected
           /\ \A i \in collected : \E v \in Visit(crate, i) : out[i] = Range(v)
<1>1. GraphFinished /\ pc = "done"
  BY FinishedGraph DEF QTypeInv, Phases
<1>2. DOMAIN out = collected
  BY <1>1 DEF DrawingInv, ToWrite, GraphFinished
<1>3. ASSUME NEW i \in collected
      PROVE  edges[i] \in Visit(crate, i) /\ out[i] = Range(edges[i])
  <2>1. edges[i] \in Visit(crate, i)
    BY <1>1 DEF BaseInv, EdgeInv, VisitedOnce
  <2>2. out[i] = Range(edges[i])
    BY <1>2 DEF DrawingInv, Shown
  <2> QED
    BY <2>1, <2>2
<1> QED
  BY <1>2, <1>3

\* What is drawn explains itself, for every graph, every target and every
\* order of the hash sets: the edges of dump_reason's drawing lead from each
\* of its nodes to a target, dump_all's are what the visits returned.
THEOREM DrawingIsExplained == QSpec => []DrawingExplains
<1>1. Init /\ QInit => DrawingInv
  BY DEF QInit, DrawingInv
<1>2. Init /\ QInit => ReasonInv
  BY DEF QInit, ReasonInv
<1>3. QSpec => [](ReasonInv /\ DrawingInv)
  BY <1>1, <1>2, ReasonStep, DrawingStep, QTypeInvariant, PTL DEF QSpec
<1>4. BaseInv /\ QTypeInv /\ ReasonInv /\ DrawingInv => DrawingExplains
  <2> SUFFICES ASSUME BaseInv, QTypeInv, ReasonInv, DrawingInv, at = "end"
               PROVE  /\ query = "reason" =>
                          \A i \in DOMAIN out : \A S \in SUBSET Item :
                              i \in S /\ (\A n \in S \cap DOMAIN out : \A e \in out[n] : e.item \in S)
                                  => S \cap given \cap DOMAIN out # {}
                      /\ query = "all" =>
                          /\ DOMAIN out = collected
                          /\ \A i \in collected : \E v \in Visit(crate, i) : out[i] = Range(v)
    BY DEF DrawingExplains
  <2> QED
    BY DrawnLeads, AllDrawn
<1> QED
  BY <1>3, <1>4, QTypeInvariant, PTL
=============================================================================
