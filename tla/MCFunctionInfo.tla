--------------------------- MODULE MCFunctionInfo ---------------------------
(* A library and a binary of one name, each with one definition that the    *)
(* other uses.  Both have a module from the same file, so that a function   *)
(* of the one is printed like one of the other; the binary knows the        *)
(* library's file by another name than the library itself.  The first       *)
(* definition has a shim, the second one more instance.                     *)
EXTENDS FunctionInfo

MCCrate == 1..2
MCCrateName == <<7, 7>>
MCDef == 1..2
MCHome == <<1, 2>>
MCSourceFile == <<<<1, 1>>, <<2, 1>>>>
MCInstance ==
    {[name |-> 4, def |-> 1, shim |-> FALSE], [name |-> 4, def |-> 1, shim |-> TRUE],
     [name |-> 4, def |-> 2, shim |-> FALSE], [name |-> 3, def |-> 2, shim |-> FALSE]}

\* LineMax is 2: a definition begins, has its header end and ends on a line
\* that can be represented or not.
MCLine == {1, 2, 4}
MCSpan ==
    {s \in [first : MCLine, header : MCLine, last : MCLine] :
        s.first <= s.header /\ s.header <= s.last}

\* The unit test of dedup, src/lib.rs: (0,0), (1,1), (1,3) are (1,3), (0,0).
At(start, end) == [instance |-> 0, source_file |-> 0, line_start |-> start, line_end |-> end]
ASSUME DedupTest == dedup(<<At(1, 1), At(1, 3), At(0, 0)>>) = <<At(1, 3), At(0, 0)>>
=============================================================================
