----------------------------- MODULE MirVisitor -----------------------------
(***************************************************************************)
(* What visiting a mono item collects: MonoItemsFnCollector (the MIR       *)
(* visitor of a function body), visit_static, and collect_alloc_items.     *)
(*                                                                         *)
(* The compiler's data is given by constants.  A body is the set of the    *)
(* occurrences in it that the visitor looks at, one record per rvalue,     *)
(* constant operand, terminator or type; everything else in MIR is         *)
(* "not interesting" to it.                                                *)
(***************************************************************************)
EXTENDS SequencesExt

CONSTANTS
    Instance,                \* monomorphic functions, drop glue and shims
    Static,                  \* statics, nested (anonymous) ones included
    Ty,                      \* concrete types
    Trait,                   \* trait object types
    Alloc,                   \* AllocIds
    InstanceKind(_),         \* Instance::kind
    HasBody,                 \* the instances whose MIR is available
    MustBeOverridden,        \* intrinsics whose fallback body may not be used
    Foreign,                 \* is_foreign_item: instances and statics of extern blocks
    AnonStatic,              \* is_anon_static
    StaticTy(_),             \* the type of a static
    Initializer(_),          \* the pointers in a static's initializer
    GlobalAlloc(_),          \* what an AllocId stands for
    VtableMethods(_, _),     \* the Method entries of the vtable of a type for a trait
    DropGlue(_),             \* resolve_drop_in_place, of a type or a trait
    Body(_, _)               \* Body(c, i): the body of i in crate c

Fn(i) == <<"Fn", i>>
StaticItem(d) == <<"Static", d>>
MonoItem == {Fn(i) : i \in Instance} \cup {StaticItem(d) : d \in Static}
CollectionReason == {"DirectCall", "IndirectCall", "VTableMethod", "Static", "StaticDrop"}

\* What a pointer in a constant or a static can lead to.
GlobalAllocs ==
    [kind : {"Static"}, def : Static] \cup [kind : {"Function"}, fn : Instance]
    \cup [kind : {"Memory"}, ptrs : Seq(Alloc)]
    \cup [kind : {"VTable"}, vtable : Ty \X Trait, ptrs : Seq(Alloc)]
    \cup [kind : {"TypeId"}]

ASSUME CompilerData ==
    /\ \A i \in Instance :
        InstanceKind(i) \in {"Item", "Shim", "Virtual", "Intrinsic", "LlvmIntrinsic"}
    /\ HasBody \subseteq Instance /\ MustBeOverridden \subseteq Instance
    /\ Foreign \subseteq Instance \cup Static /\ AnonStatic \subseteq Static
    /\ \A d \in Static : StaticTy(d) \in Ty /\ Initializer(d) \in Seq(Alloc)
    /\ \A a \in Alloc : GlobalAlloc(a) \in GlobalAllocs
    /\ \A t \in Ty \cup Trait : DropGlue(t) \in Instance
    /\ \A t \in Ty, r \in Trait : VtableMethods(t, r) \subseteq Instance

-----------------------------------------------------------------------------
should_codegen_locally(x) == x \notin Foreign

\* collect_instance: virtual and LLVM intrinsic instances have no body, an
\* intrinsic has one when its fallback may be used.
ShouldCollect(i) ==
    \/ InstanceKind(i) \in {"Shim", "Item"}
    \/ InstanceKind(i) = "Intrinsic" /\ i \notin MustBeOverridden /\ i \in HasBody

collect_instance(i, is_direct_call) ==
    {[item |-> Fn(j), reason |-> IF is_direct_call THEN "DirectCall" ELSE "IndirectCall"] :
        j \in {x \in {i} : ShouldCollect(x) /\ should_codegen_locally(x)}}

\* Mutant of collect_vtable_methods: the destructor is forgotten.
vtable_without_drop(ty, trait) ==
    {[item |-> Fn(m), reason |-> "VTableMethod"] :
        m \in {x \in VtableMethods(ty, trait) : should_codegen_locally(x)}}

\* collect_vtable_methods: the methods of the trait and of its supertraits,
\* and the destructor of the concrete type.
collect_vtable_methods(ty, trait) ==
    {[item |-> Fn(m), reason |-> "VTableMethod"] :
        m \in {x \in VtableMethods(ty, trait) : should_codegen_locally(x)}}
    \cup collect_instance(DropGlue(ty), FALSE)

\* The pointers stored in an allocation.
Pointers(alloc) == IF alloc.kind = "Static" THEN Initializer(alloc.def) ELSE alloc.ptrs

\* What collect_alloc_items goes on to from a pointer.
Follows(a) ==
    LET alloc == GlobalAlloc(a) IN
    IF alloc.kind \in {"Memory", "VTable"} \/ (alloc.kind = "Static" /\ alloc.def \in AnonStatic)
    THEN Range(Pointers(alloc)) ELSE {}

\* The source recurses without marking what it has been through: it ends when
\* memory and anonymous statics do not lead back to themselves.  (Named
\* statics may.)
ASSUME RecursionEnds ==
    \A S \in SUBSET Alloc : S # {} => \E a \in S : Follows(a) \cap S = {}

\* collect_alloc_items: the functions and named statics a pointer leads to
\* through memory, vtables and anonymous statics.
collect_alloc_items[a \in Alloc] ==
    LET alloc == GlobalAlloc(a)
        IfLocal(x, item) == IF should_codegen_locally(x) THEN <<item>> ELSE <<>>
    IN  CASE alloc.kind = "Function" -> IfLocal(alloc.fn, Fn(alloc.fn))
          [] alloc.kind = "TypeId" -> <<>>
          [] alloc.kind = "Static" /\ alloc.def \notin AnonStatic ->
                IfLocal(alloc.def, StaticItem(alloc.def))
          [] OTHER ->
                FlattenSeq([p \in DOMAIN Pointers(alloc) |->
                                collect_alloc_items[Pointers(alloc)[p]]])

\* The items the pointers of one allocation lead to, in order.
PtrItems(ptrs) ==
    LET items == FlattenSeq([p \in DOMAIN ptrs |-> collect_alloc_items[ptrs[p]]])
    IN  [p \in DOMAIN items |-> [item |-> items[p], reason |-> "Static"]]

-----------------------------------------------------------------------------
\* visit_rvalue: unsizing a concrete type to a trait, taking the address of
\* a function or a closure, and the address of a thread local.
visit_rvalue(rv) ==
    CASE rv.op = "Unsize" ->
            IF rv.src \notin Trait /\ rv.dst \in Trait
            THEN collect_vtable_methods(rv.src, rv.dst) ELSE {}
      [] rv.op \in {"ReifyFnPointer", "ClosureFnPointer"} -> collect_instance(rv.fn, FALSE)
      [] rv.op = "ThreadLocalRef" -> {[item |-> StaticItem(rv.def), reason |-> "Static"]}

\* visit_const_operand: only a constant that is evaluated already is looked
\* into.
visit_const_operand(const) ==
    IF const.kind = "Allocated" THEN Range(PtrItems(const.ptrs)) ELSE {}

\* Mutant of visit_terminator: a drop is recorded as an indirect call.
indirect_drop(term) ==
    CASE term.op = "Call" -> collect_instance(term.fn, TRUE)
      [] term.op = "Drop" -> collect_instance(DropGlue(term.ty), FALSE)
      [] term.op = "CallPtr" -> {}

\* visit_terminator: direct calls and drops.  A call through a pointer has no
\* known callee.
visit_terminator(term) ==
    CASE term.op = "Call" -> collect_instance(term.fn, TRUE)
      [] term.op = "Drop" -> collect_instance(DropGlue(term.ty), TRUE)
      [] term.op = "CallPtr" -> {}

\* visit_ty: a function's type is taken for a call of the function.
visit_ty(ty) == collect_instance(ty.fn, TRUE)

Visited(x) ==
    CASE x.op \in {"Unsize", "ReifyFnPointer", "ClosureFnPointer", "ThreadLocalRef"} -> visit_rvalue(x)
      [] x.op = "Const" -> visit_const_operand(x)
      [] x.op \in {"Call", "Drop", "CallPtr"} -> visit_terminator(x)
      [] x.op = "FnDef" -> visit_ty(x)

\* visit_fn: the hash set filled by the visitor, in some order.
visit_fn(c, i) ==
    IF i \in HasBody THEN SetToSeqs(UNION {Visited(x) : x \in Body(c, i)}) ELSE {<<>>}

\* Mutant of visit_static: the initializer is not looked into.
visit_static_drop(d) == <<[item |-> Fn(DropGlue(StaticTy(d))), reason |-> "StaticDrop"]>>

\* visit_static: the drop glue of the static's type, then what its
\* initializer points to.  Nothing for an anonymous static, whose contents
\* are collected with what points to it.
visit_static(d) ==
    IF d \in AnonStatic THEN <<>>
    ELSE <<[item |-> Fn(DropGlue(StaticTy(d))), reason |-> "StaticDrop"]>>
            \o PtrItems(Initializer(d))

VisitItem(c, x) == IF x[1] = "Fn" THEN visit_fn(c, x[2]) ELSE {visit_static(x[2])}
=============================================================================
