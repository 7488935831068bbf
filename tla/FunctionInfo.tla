---------------------------- MODULE FunctionInfo ----------------------------
(***************************************************************************)
(* FunctionInstanceInfo: what the analysis says of a function, from the    *)
(* driver that makes it (info.rs), over the files of the crates and their  *)
(* merge, to the library's dedup.                                          *)
(*                                                                         *)
(* Every crate's driver lists the functions it has collected, generic ones *)
(* of other crates included, and sees the header only of what is not its   *)
(* own.  Its source map also decides what it calls a file: a file of its   *)
(* own crate by a relative path, a foreign one by the path in the crate's  *)
(* metadata, remapped or not.  Drivers end in any order.  A position in a  *)
(* source file is its line; a line number has to fit in LineMax (u16::MAX).*)
(***************************************************************************)
EXTENDS Naturals, FiniteSets, SequencesExt

CONSTANTS
    Crate,       \* the crates that are built, each the number of its stable_crate_id
    CrateName,   \* their names: a library and a binary may share one
    Def,         \* function definitions
    Home,        \* the crate that defines each of them
    SourceFile,  \* each crate's name for the file a definition is in, a number for the order of names
    Instance,    \* monomorphic instances, [name, def, shim]: a shim is named as what it wraps,
                 \* and two definitions may be printed alike
    Span,        \* possible extents of a definition: [first, header, last]
    LineMax      \* the largest line number that can be represented (u16::MAX)

Line(S) == {s.first : s \in S} \cup {s.header : s \in S} \cup {s.last : s \in S}

ASSUME InfoAssumption ==
    /\ Crate \subseteq Nat /\ CrateName \in [Crate -> Nat]
    /\ Home \in [Def -> Crate] /\ SourceFile \in [Crate -> [Def -> Nat]]
    /\ Instance \subseteq [name : Nat, def : Def, shim : BOOLEAN] /\ IsFiniteSet(Instance)
    /\ Line(Span) \subseteq Nat \ {0} /\ LineMax \in Nat
    /\ \A s \in Span : s.first <= s.header /\ s.header <= s.last

VARIABLES
    span,        \* where each definition is written
    collected,   \* the instances the analysis of each crate collects
    dir,         \* the analysis directory: path -> the list in the file
    merged,      \* analysis.json, one list; none before the merge
    deduped      \* what dedup makes of it

vars == <<span, collected, dir, merged, deduped>>

Info == [instance : Nat, source_file : Nat, line_start : 0..LineMax, line_end : 0..LineMax]
None == <<>>

-----------------------------------------------------------------------------
(* One entry. *)

\* Mutant of pos_to_line_nr: a number that is too large is kept.
WideLine(line) == line

\* u16::try_from(line).unwrap_or(0)
pos_to_line_nr(line) == IF line <= LineMax THEN line ELSE 0

\* A local definition's span includes its body, a foreign one's does not;
\* both begin with the header.
End(c, d) == IF Home[d] = c THEN span[d].last ELSE span[d].header

new(c, i) ==
    [instance |-> i.name, source_file |-> SourceFile[c][i.def],
     line_start |-> pos_to_line_nr(span[i.def].first),
     line_end |-> pos_to_line_nr(End(c, i.def))]

\* The derived order: field by field.
Less(a, b) ==
    \/ a.instance < b.instance
    \/ a.instance = b.instance /\ a.source_file < b.source_file
    \/ /\ a.instance = b.instance /\ a.source_file = b.source_file
       /\ \/ a.line_start < b.line_start
          \/ a.line_start = b.line_start /\ a.line_end < b.line_end

\* sort_unstable_by, for a total order: an element's place is the number of
\* those that come before it.  (Equal ones cannot be told apart.)
Sorted(s, Before(_, _)) ==
    LET items == {<<n, s[n]>> : n \in DOMAIN s}
        Rank(x) == Cardinality({y \in items :
                        Before(y[2], x[2]) \/ (y[2] = x[2] /\ y[1] <= x[1])})
        placed == {<<Rank(x), x[2]>> : x \in items}
    IN  [k \in DOMAIN s |-> (CHOOSE p \in placed : p[1] = k)[2]]

\* Vec::dedup_by: an element is dropped that is the Same as the one kept last.
\* kept[n] is what is kept of the first n.
DedupBy(s, Same(_, _)) ==
    LET kept[n \in 0..Len(s)] ==
            IF n = 0 THEN <<>>
            ELSE LET before == kept[n - 1] IN
                 IF before # <<>> /\ Same(s[n], Last(before)) THEN before ELSE Append(before, s[n])
    IN  kept[Len(s)]

-----------------------------------------------------------------------------
(* The library's dedup. *)

\* Mutant of dedup_fn: two instances of one generic function are one.
AnyInstance(self, other) ==
    /\ self.source_file = other.source_file
    /\ other.line_start <= self.line_start /\ self.line_end <= other.line_end

dedup_fn(self, other) ==
    /\ self.instance = other.instance
    /\ self.source_file = other.source_file
    /\ other.line_start <= self.line_start
    /\ self.line_end <= other.line_end

dedup(v_fn) == DedupBy(Sorted(v_fn, LAMBDA a, b : Less(b, a)), dedup_fn)

-----------------------------------------------------------------------------
Init ==
    /\ span \in [Def -> Span]
    /\ collected \in [Crate -> SUBSET Instance]
    /\ dir = <<>>
    /\ merged = None
    /\ deduped = None

\* Mutant of JsonPath: the stable id is left out.
NamedPath(c) == <<CrateName[c], 0>>
JsonPath(c) == <<CrateName[c], c>>

\* .sorted_unstable().dedup()
Listed(infos) == DedupBy(Sorted(infos, Less), LAMBDA a, b : a = b)

\* A crate's driver writes its file, or writes it again.
Analysis(c) ==
    /\ merged = None
    /\ \E order \in SetToSeqs(collected[c]) :
        LET list == Listed([n \in DOMAIN order |-> new(c, order[n])]) IN
        dir' = [p \in DOMAIN dir \cup {JsonPath(c)} |-> IF p = JsonPath(c) THEN list ELSE dir[p]]
    /\ UNCHANGED <<span, collected, merged, deduped>>

\* Mutant of InOrder: the paths stay in the order read_dir returns them.
AsRead(paths) == paths
InOrder(paths) ==
    Sorted(paths, LAMBDA p, q : p[1] < q[1] \/ (p[1] = q[1] /\ p[2] < q[2]))

Merge(paths) == FlattenSeq([n \in DOMAIN paths |-> dir[InOrder(paths)[n]]])

\* merge_analysis: cargo has ended, the files are read in the order of their
\* paths, whatever the order of the directory's entries.
MergeAnalysis ==
    /\ merged = None
    /\ \A c \in Crate : JsonPath(c) \in DOMAIN dir
    /\ \E paths \in SetToSeqs(DOMAIN dir) : merged' = Merge(paths)
    /\ UNCHANGED <<span, collected, dir, deduped>>

\* A user of the library reads analysis.json and removes its repetitions.
\* (At this commit only the unit test of dedup calls it.)
Dedup ==
    /\ deduped = None
    /\ deduped' = dedup(merged)
    /\ UNCHANGED <<span, collected, dir, merged>>

Next == (\E c \in Crate : Analysis(c)) \/ MergeAnalysis \/ Dedup

Spec == Init /\ [][Next]_vars

-----------------------------------------------------------------------------
(* Properties. *)

\* Every variable has its type: a line number fits in its 16 bits.
TypeOK ==
    /\ span \in [Def -> Span]
    /\ collected \in [Crate -> SUBSET Instance]
    /\ DOMAIN dir \subseteq Nat \X Nat
    /\ \A p \in DOMAIN dir : Range(dir[p]) \subseteq Info
    /\ Range(merged) \subseteq Info /\ Range(deduped) \subseteq Info

\* At any time the merge would give one result only, whatever order the
\* file system lists the directory in.
SameInAnyOrder ==
    \A p, q \in SetToSeqs(DOMAIN dir) : Merge(p) = Merge(q)

\* Crates that have the same name do not overwrite each other's file: every
\* function a crate has collected is in analysis.json as that crate saw it.
NothingLost ==
    merged # None =>
        \A c \in Crate : \A i \in collected[c] : \E e \in Range(merged) :
            /\ e.instance = i.name
            /\ e.source_file = SourceFile[c][i.def]
            /\ span[i.def].first <= LineMax => e.line_start = span[i.def].first
            /\ End(c, i.def) <= LineMax => e.line_end = End(c, i.def)

\* What the crates have to report, and the place an entry is about.
Reported == UNION {{new(c, i) : i \in collected[c]} : c \in Crate}
Place(e) == <<e.instance, e.source_file, e.line_start>>

\* dedup leaves one entry for each name, file and first line that a crate has
\* reported, and no report of that place goes further down: the home crate's,
\* with the body, covers the headers that other crates saw, if they name the
\* file alike.  A line that is too large hides neither a smaller one nor
\* another function at the same place.
BestSurvives ==
    deduped # None =>
        /\ Range(deduped) \subseteq Reported
        /\ \A e \in Reported : \E n \in DOMAIN deduped :
            /\ {m \in DOMAIN deduped : Place(deduped[m]) = Place(e)} = {n}
            /\ e.line_end <= deduped[n].line_end
=============================================================================
