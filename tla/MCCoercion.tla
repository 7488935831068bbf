----------------------------- MODULE MCCoercion -----------------------------
(***************************************************************************)
(* The pointers of the standard library, a wrapper with a fat pointer of   *)
(* its own before the one that is coerced and a phantom before both, Pin   *)
(* around any of them, and structs with an unsized tail below.             *)
(***************************************************************************)
EXTENDS Coercion, SequencesExt

MCAdt == {"Phantom", "Box", "Unique", "NonNull", "Rc", "RcBox", "Wrapper", "Pin", "Message"}
MCCtor == MCAdt \cup {"Ptr", "Pat"}
MCUnsized == {"dyn", "dyn super", "slice"}
MCLeaf == MCUnsized \cup {"sized", "array"}

Around(ctx) == [param |-> TRUE, ctx |-> ctx, leaf |-> "sized"]
Fixed(ctx, leaf) == [param |-> FALSE, ctx |-> ctx, leaf |-> leaf]

MCFields == [a \in MCAdt |->
    CASE a = "Phantom" -> <<>>
      [] a = "Box"     -> <<Around(<<"Unique">>), Fixed(<<>>, "sized")>>
      [] a = "Unique"  -> <<Around(<<"NonNull">>), Around(<<"Phantom">>)>>
      [] a = "NonNull" -> <<Around(<<"Pat", "Ptr">>)>>
      [] a = "Rc"      -> <<Around(<<"NonNull", "RcBox">>), Around(<<"Phantom", "RcBox">>), Fixed(<<>>, "sized")>>
      [] a = "RcBox"   -> <<Fixed(<<>>, "sized"), Fixed(<<>>, "sized"), Around(<<>>)>>
      [] a = "Wrapper" -> <<Fixed(<<"Ptr">>, "dyn"), Around(<<"Phantom">>), Around(<<"Ptr">>)>>
      [] a = "Pin"     -> <<Around(<<>>)>>
      [] a = "Message" -> <<Fixed(<<"Ptr">>, "slice"), Around(<<>>)>>]

Pins == {<<>>, <<"Pin">>, <<"Pin", "Pin">>}
Tails == {<<>>, <<"Message">>, <<"Message", "Message">>}
Asked == {p \o <<h>> \o t : p \in Pins, h \in {"Ptr", "Box", "NonNull", "Rc", "Wrapper"}, t \in Tails}

\* The contexts below those asked about: what their coerced field leads to.
CoercedField(a) == CHOOSE i \in DOMAIN MCFields[a] : Holds(MCFields[a][i])
Below(C) ==
    IF Head(C) = "Ptr" THEN {}
    ELSE IF Head(C) = "Pat" THEN {Tail(C)}
    ELSE {MCFields[Head(C)][CoercedField(Head(C))].ctx \o Tail(C)}

RECURSIVE AllBelow(_)
AllBelow(S) == IF S = {} THEN {} ELSE S \cup AllBelow(UNION {Below(C) : C \in S})

MCPointing == AllBelow(Asked)
MCTailed == Tails \cup {<<"RcBox">> \o t : t \in Tails}

\* Sized types to a trait object, a trait object to one of its supertraits,
\* an array to a slice; the sized ones may have pointers, and traits, inside.
From(ctx, leaf) == [ctx |-> ctx, leaf |-> leaf]
Pairs ==
    ({From(c, "sized") : c \in {<<>>, <<"Ptr">>, <<"Message">>, <<"Box", "Message">>}} \X {"dyn"})
    \cup ({From(c, "dyn") : c \in {<<"Ptr">>, <<"Box", "Message">>, <<"Message", "Rc">>}} \X {"dyn"})
    \cup {<<From(<<>>, "dyn"), "dyn super">>, <<From(<<>>, "array"), "slice">>}

MCStart == {[ctx |-> C, from |-> p[1], to |-> p[2]] : C \in Asked, p \in Pairs}
=============================================================================
