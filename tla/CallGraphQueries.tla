-------------------------- MODULE CallGraphQueries --------------------------
(***************************************************************************)
(* What a caller can ask of the CallGraph that collect() returns:          *)
(* recursive_callees, dump_reason and dump_all.  Nothing calls them at     *)
(* this commit but code that is commented out; they are the graph's users. *)
(*                                                                         *)
(* The analysis of module Reachability runs first, then one query.  A step *)
(* is one turn of a loop; the recursion of recursive_callees has its call  *)
(* stack in `frames`.                                                      *)
(***************************************************************************)
EXTENDS Reachability

CONSTANT Fn     \* the items that are functions, MonoItem::Fn

ASSUME FnAssumption == Fn \subseteq Item

VARIABLES
    query,      \* what is asked
    at,         \* where the query is in its code
    given,      \* the items asked about: the one of recursive_callees, or
                \* those whose name contains dump_reason's target
    frames,     \* calls of recursive_callees that have not returned
    callees,    \* the index set they share
    unread,     \* nodes of a hash set its iteration has not reached
    walk,       \* dump_reason's queue, popped from the end
    visited,    \* its set of nodes
    out         \* what has been written: node -> the set of edges written for it

walking == <<unread, walk, visited>>
qvars == <<query, at, given, frames, callees, walking, out>>

-----------------------------------------------------------------------------
QInit ==
    /\ query = "none" /\ at = "start"
    /\ given = {}
    /\ frames = <<>> /\ callees = {}
    /\ unread = {} /\ walk = <<>> /\ visited = {}
    /\ out = [n \in {} |-> {}]

Idle == query = "none" /\ pc = "done"

(* recursive_callees(item, callees) *)

\* The caller asks about an item of the analysis' result.
AskCallees ==
    /\ Idle
    /\ \E i \in collected : given' = {i} /\ frames' = <<[item |-> i, next |-> 1]>>
    /\ query' = "callees" /\ at' = "call"
    /\ UNCHANGED <<callees, walking, out>>

\* A call's item, and the position its loop has reached.
FrameOf(N) == [item : N, next : Nat \ {0}]

Frame == frames[Len(frames)]
NodesOf == edges[Frame.item]
Callee == NodesOf[Frame.next].item

\* The frames with the last one's loop a turn further.
Advanced == [frames EXCEPT ![Len(frames)].next = @ + 1]
Returned == SubSeq(frames, 1, Len(frames) - 1)

InLoop == at = "call" /\ frames # <<>> /\ Frame.next <= Len(NodesOf)

\* Mutants of Inserted: the callee is left to the nested call; the caller is
\* inserted in its place.
InsertedLate == callees
InsertedCaller == callees \cup ({Frame.item} \cap Fn)
Inserted == callees \cup {Callee}

\* The next node is a function that was not a callee yet.
Recurse ==
    /\ InLoop
    /\ Callee \in Fn \ callees
    /\ callees' = Inserted
    /\ frames' = Append(Advanced, [item |-> Callee, next |-> 1])
    /\ UNCHANGED <<query, at, given, walking, out>>

\* It is a callee already, or no function.
PassOver ==
    /\ InLoop
    /\ Callee \notin Fn \ callees
    /\ frames' = Advanced
    /\ UNCHANGED <<query, at, given, callees, walking, out>>

Return ==
    /\ at = "call" /\ frames # <<>> /\ Frame.next > Len(NodesOf)
    /\ frames' = Returned
    /\ at' = IF Len(frames) = 1 THEN "end" ELSE "call"
    /\ UNCHANGED <<query, given, callees, walking, out>>

(* dump_reason(target) *)

\* Which items' names contain the target is up to the target.
AskReason ==
    /\ Idle
    /\ \E T \in SUBSET Item : given' = T
    /\ query' = "reason" /\ at' = "match"
    /\ unread' = nodes
    /\ UNCHANGED <<frames, callees, walk, visited, out>>

\* The queue starts with the nodes that match, in the set's order.
Match ==
    /\ at = "match"
    /\ \E n \in unread :
        /\ unread' = unread \ {n}
        /\ walk' = IF n \in given THEN Append(walk, n) ELSE walk
    /\ UNCHANGED <<query, at, given, frames, callees, visited, out>>

Matched ==
    /\ at = "match" /\ unread = {}
    /\ at' = "walk"
    /\ UNCHANGED <<query, given, frames, callees, walking, out>>

Newest == walk[Len(walk)]

\* Mutant of Rest: the node is looked at and not taken.
Kept == walk
Rest == SubSeq(walk, 1, Len(walk) - 1)

\* Mutant of Origins: the edges are followed forwards.
Destinations(n) == [p \in DOMAIN edges[n] |-> edges[n][p].item]
Origins(n) == [p \in DOMAIN back_edges[n] |-> back_edges[n][p].item]

WalkBack ==
    /\ at = "walk" /\ walk # <<>>
    /\ Newest \notin visited
    /\ visited' = visited \cup {Newest}
    /\ walk' = Rest \o Origins(Newest)
    /\ UNCHANGED <<query, at, given, frames, callees, unread, out>>

WalkOn ==
    /\ at = "walk" /\ walk # <<>>
    /\ Newest \in visited
    /\ walk' = Rest
    /\ UNCHANGED <<query, at, given, frames, callees, unread, visited, out>>

Walked ==
    /\ at = "walk" /\ walk = <<>>
    /\ at' = "write"
    /\ unread' = visited
    /\ UNCHANGED <<query, given, frames, callees, walk, visited, out>>

(* dump_all *)
AskAll ==
    /\ Idle
    /\ query' = "all" /\ at' = "write"
    /\ unread' = nodes
    /\ UNCHANGED <<given, frames, callees, walk, visited, out>>

\* Mutant of Shown: an edge is written only when its end was written before.
ShownDone(n) == {e \in Range(edges[n]) : e.item \in DOMAIN out}

\* dump_all writes all edges of a node, dump_reason those to visited nodes.
Shown(n) == {e \in Range(edges[n]) : query = "all" \/ e.item \in visited}

\* A node and its edges are written.
WriteNode ==
    /\ at = "write"
    /\ \E n \in unread :
        /\ unread' = unread \ {n}
        /\ out' = [m \in DOMAIN out \cup {n} |-> IF m = n THEN Shown(n) ELSE out[m]]
    /\ UNCHANGED <<query, at, given, frames, callees, walk, visited>>

Written ==
    /\ at = "write" /\ unread = {}
    /\ at' = "end"
    /\ UNCHANGED <<query, given, frames, callees, walking, out>>

QueryStep ==
    \/ AskCallees \/ Recurse \/ PassOver \/ Return
    \/ AskReason \/ Match \/ Matched \/ WalkBack \/ WalkOn \/ Walked
    \/ AskAll \/ WriteNode \/ Written

QNext == (Next /\ UNCHANGED qvars) \/ (QueryStep /\ UNCHANGED vars)

\* One thread runs the analysis and the query.
QSpec == Init /\ QInit /\ [][QNext]_<<vars, qvars>> /\ WF_<<vars, qvars>>(QNext)

-----------------------------------------------------------------------------
(* Properties. *)

\* Every variable has its type.  A frame is about a node and the walk stays
\* among the nodes, so the lookups that would panic find their entry; and
\* recursive_callees nests no deeper than there are functions, since each
\* call but the first is preceded by a callee inserted.
QTypeOK ==
    /\ query \in {"none", "callees", "reason", "all"}
    /\ at \in {"start", "call", "match", "walk", "write", "end"}
    /\ given \subseteq Item
    /\ frames \in Seq(FrameOf(nodes))
    /\ Len(frames) <= Cardinality(callees) + 1
    /\ callees \subseteq nodes \cap Fn
    /\ unread \subseteq nodes /\ visited \subseteq nodes
    /\ walk \in Seq(nodes)
    /\ out \in [DOMAIN out -> SUBSET CollectedItem] /\ DOMAIN out \subseteq nodes

\* The functions reached from the items I by one or more mentions, through
\* functions only.
CalleesOf(I) ==
    {j \in Fn : \A S \in SUBSET Fn :
        (\A i \in I \cup S : Succ(crate, i) \cap Fn \subseteq S) => j \in S}

\* recursive_callees returns exactly the functions that the item leads to
\* through functions, itself only if it is recursive, however the calls nest
\* and whichever frame met a function first.
CalleesExact == query = "callees" /\ at = "end" => callees = CalleesOf(given)

\* The items that lead to one of T by any number of mentions.
LeadsTo(i, T) == \A S \in SUBSET Item : i \in S /\ Closed(crate, S) => S \cap T # {}

\* dump_reason visits exactly the collected items that lead to a target:
\* walking the back edges finds what going forwards from the item would.
ReasonExact ==
    query = "reason" /\ at \in {"write", "end"} => visited = {i \in collected : LeadsTo(i, given)}

\* What is written explains itself: from every node in the drawing the edges
\* in the drawing lead to a target; and dump_all's has what each item's visit
\* returned.
DrawingExplains ==
    at = "end" =>
        /\ query = "reason" =>
            \A i \in DOMAIN out : \A S \in SUBSET Item :
                i \in S /\ (\A n \in S \cap DOMAIN out : \A e \in out[n] : e.item \in S)
                    => S \cap given \cap DOMAIN out # {}
        /\ query = "all" =>
            /\ DOMAIN out = collected
            /\ \A i \in collected : \E v \in Visit(crate, i) : out[i] = Range(v)

\* A query ends, for recursive functions too.
QueryEnds == (query # "none") ~> (at = "end")
=============================================================================
