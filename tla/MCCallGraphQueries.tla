------------------------- MODULE MCCallGraphQueries -------------------------
(* Crates of three functions and a static.  f and g mention up to two items *)
(* each, h at most g, the static h or itself: recursion, diamonds, a        *)
(* function behind a static, items that no starting point reaches.          *)
EXTENDS CallGraphQueries, SequencesExt

CONSTANTS f, g, h, s

MCItem == {f, g, h, s}
MCFn == {f, g, h}
MCReason == {"DirectCall", "Static"}
Edge(i) == [item |-> i, reason |-> IF i = s THEN "Static" ELSE "DirectCall"]
Mentions == {M \in SUBSET MCItem : Cardinality(M) <= 2}

MCCrate ==
    [f : Mentions, g : Mentions, h : {{}, {g}}, s : {{h}, {s}}, start : {<<f>>, <<f, g>>}]

\* One iteration order of each hash set: the queries' orders are what is
\* explored here, the visits' are explored with Reachability alone.
Orders == [M \in Mentions |-> LET v == SetToSeq(M) IN [p \in DOMAIN v |-> Edge(v[p])]]
MCVisit(c, i) ==
    {Orders[CASE i = f -> c.f [] i = g -> c.g [] i = h -> c.h [] i = s -> c.s]}
MCStartingPoints(c) == c.start
=============================================================================
