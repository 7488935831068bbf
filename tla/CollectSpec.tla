----------------------------- MODULE CollectSpec -----------------------------
(***************************************************************************)
(* What collect_reachable_items promises to its caller, analysis() in the  *)
(* driver: items are found one at a time, no item is found that is not     *)
(* reachable, and a result is returned only when everything reachable has  *)
(* been found, whatever the order in which the hash sets were iterated.    *)
(* The only other outcome is the abort of a compilation that reported      *)
(* errors, which returns nothing.                                          *)
(***************************************************************************)
EXTENDS ItemGraph

VARIABLES
    crate,      \* the crate under analysis
    found,      \* the items found so far
    outcome     \* "running", "returned" or "aborted"

cvars == <<crate, found, outcome>>

CInit == crate \in Crate /\ found = {} /\ outcome = "running"

Find ==
    /\ outcome = "running"
    /\ \E i \in Item \ found : found' = found \cup {i} /\ i \in Reachable(crate)
    /\ UNCHANGED <<crate, outcome>>

Return ==
    /\ outcome = "running"
    /\ outcome' = "returned"
    /\ found = Reachable(crate)
    /\ UNCHANGED <<crate, found>>

Abort ==
    /\ outcome = "running"
    /\ outcome' = "aborted"
    /\ UNCHANGED <<crate, found>>

CNext == Find \/ Return \/ Abort

CSpec == CInit /\ [][CNext]_cvars
=============================================================================
