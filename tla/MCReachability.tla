--------------------------- MODULE MCReachability ---------------------------
(***************************************************************************)
(* Every crate of two functions f, g and a static s, up to a bound on how  *)
(* many items a function mentions: recursion, mutual recursion, a function *)
(* mentioned twice for two reasons, statics that mention functions and     *)
(* each other, and one item twice.                                         *)
(***************************************************************************)
EXTENDS Reachability, SequencesExt

CONSTANTS f, g, s, MaxMentions

MCItem == {f, g, s}
MCReason == {"DirectCall", "IndirectCall", "Static", "StaticDrop"}

\* What a function's visit may collect: f and g are called, g has its
\* address taken as well, s is used.
FnMenu == {[item |-> f, reason |-> "DirectCall"], [item |-> g, reason |-> "DirectCall"],
           [item |-> g, reason |-> "IndirectCall"], [item |-> s, reason |-> "Static"]}
FnMentions == {M \in SUBSET FnMenu : Cardinality(M) <= MaxMentions}

\* A static's visit pushes its drop glue and then the items its initializer
\* points to, an item as often as there are pointers to it.
StaticVec(targets) ==
    <<[item |-> g, reason |-> "StaticDrop"]>>
      \o [p \in DOMAIN targets |-> [item |-> targets[p], reason |-> "Static"]]

MCCrate ==
    [fs : [{f, g} -> FnMentions], static : {<<>>, <<f, f>>, <<s, g>>},
     start : {<<>>, <<f>>, <<f, g>>}]

\* The iteration orders of each hash set.
Orders == [M \in FnMentions |-> SetToSeqs(M)]
MCVisit(c, i) == IF i = s THEN {StaticVec(c.static)} ELSE Orders[c.fs[i]]
MCStartingPoints(c) == c.start
=============================================================================
