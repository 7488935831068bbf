------------------------------ MODULE Coercion ------------------------------
(***************************************************************************)
(* extract_unsize_casting: which pair of types an unsizing coercion is     *)
(* about, for example (String, dyn Debug) for Rc<String> -> Rc<dyn Debug>, *)
(* whose vtable MirVisitor then collects.                                  *)
(*                                                                         *)
(* A type is a leaf inside of type constructors, the outermost first:      *)
(* Box<Message<String>> is <<Box, Message>> around String.  A definition   *)
(* has fields whose types either are built around its argument or do not   *)
(* depend on it.  A coercion takes a type C[x] to C[u], where x implements *)
(* Unsize<u>, u is a trait object or a slice, and the rules of the         *)
(* language, external to the repository, allow it below C.                 *)
(***************************************************************************)
EXTENDS Integers, Sequences, FiniteSets

CONSTANTS
    Ctor,       \* type constructors
    Ptr,        \* the built-in pointers: references and raw pointers
    Pat,        \* a pattern type of its argument: a pointer that is not null
    Phantom,    \* PhantomData
    Box,        \* the smart pointer that can be dereferenced as built-in
    Adt,        \* the constructors that are structs
    Leaf,       \* types without an argument
    Unsized,    \* trait objects and slices
    Fields,     \* the fields of a struct
    Pointing,   \* contexts below which the language coerces C[x] to C[u]
    Tailed,     \* contexts below which it unsizes C[x] to C[u]
    Start       \* coercions that may be asked about

Type == [ctx : Seq(Ctor), leaf : Leaf]

\* A field's type: `ctx` around the struct's argument, or a type of its own.
Field == [param : BOOLEAN, ctx : Seq(Ctor), leaf : Leaf]

IsPhantom(t) == t.ctx # <<>> /\ Head(t.ctx) = Phantom

\* A field that holds data of the argument.
Holds(f) == f.param /\ ~IsPhantom(f)

ASSUME CoercionTypes ==
    /\ {Ptr, Pat} \subseteq Ctor \ Adt /\ Ptr # Pat
    /\ {Box, Phantom} \subseteq Adt /\ Adt \subseteq Ctor
    /\ Unsized \subseteq Leaf
    /\ Fields \in [Adt -> Seq(Field)] /\ Fields[Phantom] = <<>>
    /\ Pointing \subseteq Seq(Ctor) /\ Tailed \subseteq Seq(Ctor)
    /\ Start \subseteq [ctx : Pointing, from : Type, to : Unsized]

\* CoerceUnsized: between pointers whose pointees unsize; pattern types of
\* such; structs with one field, phantoms aside, that depends on the argument
\* and coerces.  (coerce_unsized_info reports other implementations as errors.)
ASSUME CoerceUnsizedRule ==
    \A C \in Pointing : C # <<>> /\
        \/ Head(C) = Ptr /\ Tail(C) \in Tailed
        \/ Head(C) = Pat /\ Tail(C) \in Pointing
        \/ /\ Head(C) \in Adt
           /\ \E i \in DOMAIN Fields[Head(C)] :
                /\ Fields[Head(C)][i].ctx \o Tail(C) \in Pointing
                /\ {j \in DOMAIN Fields[Head(C)] : Holds(Fields[Head(C)][j])} = {i}

\* Unsize: of what is coerced itself, or of the last field of a struct.
ASSUME UnsizeRule ==
    \A C \in Tailed : C # <<>> =>
        /\ Head(C) \in Adt /\ Fields[Head(C)] # <<>>
        /\ LET f == Fields[Head(C)][Len(Fields[Head(C)])] IN
            f.param /\ f.ctx \o Tail(C) \in Tailed

\* A type is never coerced to itself.
ASSUME StartRule == \A s \in Start : s.from # [ctx |-> <<>>, leaf |-> s.to]

VARIABLES
    start,      \* the coercion
    src_ty,     \* the iterator's types; none once it has found the pointer
    dst_ty,
    path,       \* what the iterator has returned
    base,       \* the pair of types below the pointers
    pc

vars == <<start, src_ty, dst_ty, path, base, pc>>

None == [ctx |-> <<>>, leaf |-> "none"]

\* The type C[x].
Plug(C, x) == [ctx |-> C \o x.ctx, leaf |-> x.leaf]

Inner(t) == [ctx |-> Tail(t.ctx), leaf |-> t.leaf]
Is(t, ctors) == t.ctx # <<>> /\ Head(t.ctx) \in ctors
Both(ctors) == Is(src_ty, ctors) /\ Is(dst_ty, ctors)

\* ty_with_args: the type of field i of the struct t.
FieldTy(t, i) ==
    LET f == Fields[Head(t.ctx)][i] IN
    IF f.param THEN Plug(f.ctx, Inner(t)) ELSE [ctx |-> f.ctx, leaf |-> f.leaf]

-----------------------------------------------------------------------------
(* CoerceUnsizedIterator *)

Init ==
    /\ start \in Start
    /\ src_ty = Plug(start.ctx, start.from)
    /\ dst_ty = [ctx |-> start.ctx, leaf |-> start.to]
    /\ path = <<>>
    /\ base = <<None, None>>
    /\ pc = "iterate"

\* coerce_unsized_info (external): the field that differs, phantoms aside.
Differs(i) == FieldTy(src_ty, i) # FieldTy(dst_ty, i) /\ ~IsPhantom(FieldTy(src_ty, i))
SameStruct == Head(src_ty.ctx) = Head(dst_ty.ctx)
StructFields == DOMAIN Fields[Head(src_ty.ctx)]

\* Mutant of Coerced: the first field is followed.
CoercedFirst == StructFields \cap {1}
Coerced == {i \in StructFields : Differs(i)}

\* Mutant of Info: the types that come next.
InfoAfter(field) ==
    [field |-> field, src_ty |-> IF field = 0 THEN src_ty ELSE FieldTy(src_ty, field),
     dst_ty |-> IF field = 0 THEN dst_ty ELSE FieldTy(dst_ty, field)]

\* What next() returns; no field is 0.
Info(field) == [field |-> field, src_ty |-> src_ty, dst_ty |-> dst_ty]

Iterate(field) == path' = Append(path, Info(field)) /\ UNCHANGED <<start, base, pc>>

\* An assertion fails, or an unwrap, or the selection of an implementation.
Panic == pc' = "panic" /\ UNCHANGED <<start, src_ty, dst_ty, path, base>>

Iterating == pc = "iterate" /\ src_ty # None

NextStruct ==
    /\ Iterating /\ Both(Adt)
    /\ IF SameStruct /\ \E i \in Coerced : Coerced = {i}
       THEN \E i \in Coerced :
            /\ Iterate(i)
            /\ src_ty' = FieldTy(src_ty, i)
            /\ dst_ty' = FieldTy(dst_ty, i)
       ELSE Panic

\* Mutant of NextPattern: what is put back are the outer types, the patterns
\* themselves.  Of the elements that are then returned for ever one is kept.
PatternItself ==
    /\ Iterating /\ Both({Pat})
    /\ path' = IF path # <<>> /\ path[Len(path)] = Info(0) THEN path ELSE Append(path, Info(0))
    /\ UNCHANGED <<start, src_ty, dst_ty, base, pc>>

NextPattern ==
    /\ Iterating /\ Both({Pat})
    /\ Iterate(0)
    /\ src_ty' = Inner(src_ty)
    /\ dst_ty' = Inner(dst_ty)

\* extract_pointee: built-in pointers, and Box.
IsPointer(t) == Is(t, {Ptr, Box})

\* Mutant of Taken: the destination type is left in the iterator.
TakenSource == src_ty' = None /\ dst_ty' = dst_ty
Taken == src_ty' = None /\ dst_ty' = None

NextPointer ==
    /\ Iterating /\ ~Both(Adt) /\ ~Both({Pat})
    /\ IF IsPointer(src_ty) THEN Iterate(0) /\ Taken ELSE Panic

(* extract_unsize_casting *)

\* The iterator returns None; its last element has the pointers.
LastInfo ==
    /\ pc = "iterate" /\ src_ty = None
    /\ LET last == path[Len(path)] IN
        IF dst_ty = None /\ IsPointer(last.src_ty) /\ IsPointer(last.dst_ty)
        THEN /\ base' = <<Inner(last.src_ty), Inner(last.dst_ty)>>
             /\ pc' = "tails"
             /\ UNCHANGED <<start, src_ty, dst_ty, path>>
        ELSE Panic

\* struct_lockstep_tails_for_codegen (external): the last fields of two
\* instances of one struct.
HaveTails ==
    /\ Is(base[1], Adt) /\ Is(base[2], Adt)
    /\ Head(base[1].ctx) = Head(base[2].ctx)
    /\ Fields[Head(base[1].ctx)] # <<>>

TailTy(t) == FieldTy(t, Len(Fields[Head(t.ctx)]))

FollowTail ==
    /\ pc = "tails" /\ HaveTails
    /\ base' = <<TailTy(base[1]), TailTy(base[2])>>
    /\ UNCHANGED <<start, src_ty, dst_ty, path, pc>>

IsUnsized(t) == t.ctx = <<>> /\ t.leaf \in Unsized

Return ==
    /\ pc = "tails" /\ ~HaveTails
    /\ IF IsUnsized(base[2])
       THEN pc' = "done" /\ UNCHANGED <<start, src_ty, dst_ty, path, base>>
       ELSE Panic

Next == NextStruct \/ NextPattern \/ NextPointer \/ LastInfo \/ FollowTail \/ Return

Spec == Init /\ [][Next]_vars /\ WF_vars(Next)

-----------------------------------------------------------------------------
(* Properties. *)

\* Every variable has its type, and the iterator's two types are there
\* together or not at all.
TypeOK ==
    /\ start \in Start
    /\ src_ty \in Type \cup {None} /\ dst_ty \in Type \cup {None}
    /\ (src_ty = None) <=> (dst_ty = None)
    /\ path \in Seq([field : Nat, src_ty : Type, dst_ty : Type])
    /\ base[1] \in Type \cup {None} /\ base[2] \in Type \cup {None}
    /\ pc \in {"iterate", "tails", "done", "panic"}

\* No assertion, unwrap or unreachable!() is hit for a coercion the language
\* allows, and the pair returned is the one whose exchange makes the
\* destination of the source: however many smart pointers, phantom and other
\* fields, pattern types and struct tails are in between.
BaseExact ==
    /\ pc # "panic"
    /\ pc = "done" => base = <<start.from, [ctx |-> <<>>, leaf |-> start.to]>>

\* The iterator's documentation: the first element is the starting types, the
\* last one is built-in pointers, an element is reached through the field that
\* the one before it names, and none has one type for source and destination.
PathAsDocumented ==
    pc \in {"tails", "done"} =>
        /\ path[1].src_ty = Plug(start.ctx, start.from)
        /\ path[1].dst_ty = [ctx |-> start.ctx, leaf |-> start.to]
        /\ Is(path[Len(path)].src_ty, {Ptr}) /\ Is(path[Len(path)].dst_ty, {Ptr})
        /\ \A n \in DOMAIN path :
            /\ path[n].src_ty # path[n].dst_ty
            /\ path[n].field # 0 =>
                /\ path[n + 1].src_ty = FieldTy(path[n].src_ty, path[n].field)
                /\ path[n + 1].dst_ty = FieldTy(path[n].dst_ty, path[n].field)

\* The walk ends.
Terminates == <>(pc \in {"done", "panic"})
=============================================================================
