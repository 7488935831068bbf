------------------------------ MODULE ItemGraph ------------------------------
(***************************************************************************)
(* The graph the reachability analysis of kmiri-helper walks.              *)
(*                                                                         *)
(* A crate is compiled by one driver process; its mono items (MonoItem in  *)
(* rustc: functions, statics, global assembly) mention other items.  Visiting *)
(* an item returns a Vec<CollectedItem>; for a function the Vec is the     *)
(* iteration of a hash set, so several orders are possible and Visit(c, i) *)
(* is the set of the Vecs a visit may return.  How a visit computes them   *)
(* is module MirVisitor; the worklist of module Reachability only depends  *)
(* on what is assumed here.                                                *)
(***************************************************************************)
EXTENDS Sequences, Functions

CONSTANTS
    Crate,              \* the crates that may be compiled
    Item,               \* the mono items
    Reason,             \* enum CollectionReason
    Visit(_, _),        \* Visit(c, i): the Vecs a visit of i may return
    StartingPoints(_)   \* StartingPoints(c): the local items, in their order

ASSUME ItemExists == Item # {}

\* struct CollectedItem
CollectedItem == [item : Item, reason : Reason]

\* The items mentioned by the Vec v.
Mentioned(v) == {v[p].item : p \in DOMAIN v}

\* The items i leads to, whichever Vec its visit returns.
Succ(c, i) == UNION {Mentioned(v) : v \in Visit(c, i)}

\* Every visit terminates with some Vec, and two visits of one item differ
\* in the order of what they return only.
ASSUME VisitType ==
    \A c \in Crate, i \in Item :
        /\ Visit(c, i) # {}
        /\ \A v \in Visit(c, i) : v \in Seq(CollectedItem) /\ Mentioned(v) = Succ(c, i)

ASSUME StartingPointsType == \A c \in Crate : StartingPoints(c) \in Seq(Item)

Roots(c) == Range(StartingPoints(c))

\* A set of items nothing leads out of.
Closed(c, S) == \A i \in S : Succ(c, i) \subseteq S

\* What a finished analysis has to return: the least closed set of items
\* that holds every starting point.
Reachable(c) ==
    {i \in Item : \A S \in SUBSET Item : Roots(c) \subseteq S /\ Closed(c, S) => i \in S}
=============================================================================
