---------------------------- MODULE Reachability ----------------------------
(***************************************************************************)
(* collect_reachable_items of kmiri-helper's driver: the worklist that     *)
(* collects every mono item reachable from the local items of a crate and  *)
(* records the call graph with its back edges.                             *)
(*                                                                         *)
(* The driver is sequential; a step is one turn of one of the source's     *)
(* loops: the loop over the starting points, the `while let` over the      *)
(* queue, the `for` over the new edges and the filtered `extend` of the    *)
(* queue.                                                                  *)
(***************************************************************************)
EXTENDS Naturals, FiniteSets, ItemGraph

VARIABLES
    crate,       \* the crate under analysis
    pending,     \* starting points collect() has not been called for yet
    queue,       \* items enqueued for visiting, popped from the end
    collected,   \* items already visited, or being visited
    nodes,       \* CallGraph.nodes
    edges,       \* CallGraph.edges
    back_edges,  \* CallGraph.back_edges
    pc,          \* the loop being executed
    to_visit,    \* the item popped last
    next_items,  \* what visiting to_visit returned
    k            \* the position in next_items the inner loop has reached

graph == <<nodes, edges, back_edges>>
visit == <<to_visit, next_items>>
vars == <<crate, pending, queue, collected, nodes, edges, back_edges, pc, to_visit, next_items, k>>

-----------------------------------------------------------------------------
Init ==
    /\ crate \in Crate
    /\ pending = StartingPoints(crate)
    /\ queue = <<>>
    /\ collected = {}
    /\ nodes = {}
    /\ edges = [n \in {} |-> <<>>]
    /\ back_edges = [n \in {} |-> <<>>]
    /\ pc = "pop"
    /\ to_visit = CHOOSE i \in Item : TRUE      \* nothing popped yet: never read
    /\ next_items = <<>>
    /\ k = 1

\* Mutants of OrDefault: the entry is not created; an existing one is reset.
NoEntry(m, n) == m
ResetEntry(m, n) == [x \in DOMAIN m \cup {n} |-> IF x = n THEN <<>> ELSE m[x]]

\* HashMap::entry(n).or_default()
OrDefault(m, n) == [x \in DOMAIN m \cup {n} |-> IF x \in DOMAIN m THEN m[x] ELSE <<>>]

\* collect(instance): called for the next starting point when the previous
\* call has emptied the queue.
Collect ==
    /\ pc = "pop" /\ queue = <<>> /\ pending # <<>>
    /\ queue' = Append(queue, Head(pending))
    /\ pending' = Tail(pending)
    /\ UNCHANGED <<crate, collected, graph, pc, visit, k>>

\* Vec::pop takes the element enqueued last.
Top == queue[Len(queue)]

\* Mutant of Popped: the element is looked at and not taken.
Peeked == queue
Popped == SubSeq(queue, 1, Len(queue) - 1)

\* Mutant of IsNew: a popped item is visited without a look at `collected`.
AlwaysNew == TRUE
IsNew == Top \notin collected

\* The popped item was collected since it was enqueued.
Skip ==
    /\ pc = "pop" /\ queue # <<>>
    /\ ~IsNew
    /\ queue' = Popped
    /\ to_visit' = Top
    /\ UNCHANGED <<crate, pending, collected, graph, pc, next_items, k>>

\* The popped item is new: it is marked as collected, visited, and added to
\* the graph as a node (the first statement of add_edges).
VisitNew ==
    /\ pc = "pop" /\ queue # <<>>
    /\ IsNew
    /\ to_visit' = Top
    /\ queue' = Popped
    /\ collected' = collected \cup {to_visit'}
    /\ next_items' \in Visit(crate, to_visit')
    /\ nodes' = nodes \cup {to_visit'}
    /\ edges' = OrDefault(edges, to_visit')
    /\ back_edges' = OrDefault(back_edges, to_visit')
    /\ pc' = "edges"
    /\ k' = 1
    /\ UNCHANGED <<crate, pending>>

\* Mutant of BackEdge: it leads to the end of the edge, not to its start.
BackEdgeToSelf == next_items[k]
BackEdge == [item |-> to_visit, reason |-> next_items[k].reason]

\* add_edge(to_visit, item, reason) for the next element of next_items.
\* The node to_visit is there already, so add_node(from) changes nothing.
AddEdge ==
    /\ pc = "edges" /\ k <= Len(next_items)
    /\ LET to == next_items[k].item IN
        /\ nodes' = nodes \cup {to}
        /\ edges' = [OrDefault(edges, to) EXCEPT ![to_visit] = Append(@, next_items[k])]
        /\ back_edges' = [OrDefault(back_edges, to) EXCEPT ![to] = Append(@, BackEdge)]
    /\ k' = k + 1
    /\ UNCHANGED <<crate, pending, queue, collected, pc, visit>>

EdgesAdded ==
    /\ pc = "edges" /\ k > Len(next_items)
    /\ pc' = "extend"
    /\ k' = 1
    /\ UNCHANGED <<crate, pending, queue, collected, graph, visit>>

\* Mutant of Wanted: what is in the call graph is taken for visited.
WantedUnlessNode(i) == i \notin nodes
Wanted(i) == i \notin collected

\* queue.extend(next_items.filter(not collected)), one element at a time.
Extend ==
    /\ pc = "extend" /\ k <= Len(next_items)
    /\ queue' = IF Wanted(next_items[k].item) THEN Append(queue, next_items[k].item) ELSE queue
    /\ k' = k + 1
    /\ UNCHANGED <<crate, pending, collected, graph, pc, visit>>

Extended ==
    /\ pc = "extend" /\ k > Len(next_items)
    /\ pc' = "pop"
    /\ k' = 1
    /\ UNCHANGED <<crate, pending, queue, collected, graph, visit>>

\* Mutant of Finish: the first starting point is taken for the only one.
FinishFirst ==
    /\ pc = "pop" /\ queue = <<>> /\ collected # {}
    /\ pc' = "done"
    /\ UNCHANGED <<crate, pending, queue, collected, graph, visit, k>>

\* Every starting point has been collected.  abort_if_errors() ends the
\* process when the compiler has reported an error, which any constant the
\* visits evaluated may have done; otherwise the items are returned sorted.
Finish ==
    /\ pc = "pop" /\ queue = <<>> /\ pending = <<>>
    /\ pc' \in {"done", "aborted"}
    /\ UNCHANGED <<crate, pending, queue, collected, graph, visit, k>>

Next ==
    \/ Collect \/ Skip \/ VisitNew
    \/ AddEdge \/ EdgesAdded
    \/ Extend \/ Extended
    \/ Finish

\* One thread runs the loop until it ends.
Spec == Init /\ [][Next]_vars /\ WF_vars(Next)

-----------------------------------------------------------------------------
(* Properties. *)

\* Every variable has its type: the two maps of the call graph have the
\* nodes as their keys, so the unwraps of add_edge, dump_all and dump_reason
\* and the lookup of recursive_callees find an entry for every node.
TypeOK ==
    /\ crate \in Crate
    /\ pending \in Seq(Item)
    /\ queue \in Seq(Item)
    /\ collected \in SUBSET Item
    /\ nodes \in SUBSET Item
    /\ edges \in [nodes -> Seq(CollectedItem)]
    /\ back_edges \in [nodes -> Seq(CollectedItem)]
    /\ pc \in {"pop", "edges", "extend", "done", "aborted"}
    /\ to_visit \in Item
    /\ next_items \in Seq(CollectedItem)
    /\ k \in 1..(Len(next_items) + 1)

\* When the analysis returns, it returns the items that are reachable from
\* the starting points: none is missing although an item is enqueued, and
\* tested against `collected`, long before it is popped and tested again,
\* and the result does not depend on the order a hash set is iterated in.
Complete == pc = "done" => collected = Reachable(crate)

\* An item is visited once, though it may be in the queue many times: when
\* its edges have been added they are the ones a single visit returned.
VisitedOnce ==
    \A i \in collected :
        (pc = "edges" => i # to_visit) => i \in nodes /\ edges[i] \in Visit(crate, i)

\* The back edges are the edges reversed, with the same reasons and as often:
\* what dump_reason walks back is what the visits went forward.
Occurrences(m, n, e) == Cardinality({p \in DOMAIN m[n] : m[n][p] = e})
BackEdgesMirror ==
    \A n, m \in nodes, r \in Reason :
        Occurrences(edges, n, [item |-> m, reason |-> r])
            = Occurrences(back_edges, m, [item |-> n, reason |-> r])

\* Between two visits the nodes of the graph are the items collected and the
\* items waiting: every node still without edges will be visited.
NodesAwaitVisit ==
    pc = "pop" => nodes \cup Range(queue) = collected \cup Range(queue)

\* Once an item's edges are complete no later step touches them.
EdgesSettled ==
    [][\A i \in collected :
        (pc = "edges" => i # to_visit) => i \in nodes' /\ edges'[i] = edges[i]]_vars

\* The analysis ends, for recursive functions and cyclic statics too.
Termination == <>(pc \in {"done", "aborted"})

\* The worklist implements what analysis() is promised.
Promise == INSTANCE CollectSpec WITH
    found <- collected,
    outcome <- IF pc = "done" THEN "returned" ELSE IF pc = "aborted" THEN "aborted" ELSE "running"
PromiseSpec == Promise!CSpec
=============================================================================
