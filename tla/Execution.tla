------------------------------ MODULE Execution ------------------------------
(***************************************************************************)
(* What the analysis is for: the functions it reports are the ones that    *)
(* running the crate may execute.                                          *)
(*                                                                         *)
(* The module composes the worklist (Reachability), whose visits are the   *)
(* ones of MirVisitor, with the interpreter that runs the crate afterwards. *)
(* The interpreter is not part of this repository; its steps are those MIR *)
(* itself has, taken from the occurrences the visitor distinguishes: it    *)
(* enters functions by direct, virtual and indirect calls and by drops,    *)
(* and gets hold of function pointers, vtables and allocations by casts,   *)
(* constants and loads.                                                    *)
(***************************************************************************)
EXTENDS Reachability, MirVisitor

ASSUME VisitsMir == \A c \in Crate, x \in Item : Visit(c, x) \subseteq VisitItem(c, x)

\* What rustc guarantees of a body: the pointers of an evaluated constant are
\* allocations, a thread local is a named static, and there are finitely many
\* occurrences.
ASSUME MirBodies ==
    \A c \in Crate, i \in Instance :
        /\ IsFiniteSet(UNION {Visited(x) : x \in Body(c, i)})
        /\ \A x \in Body(c, i) :
            /\ x.op = "Const" /\ x.kind = "Allocated" => x.ptrs \in Seq(Alloc)
            /\ x.op = "ThreadLocalRef" => x.def \in Static \ AnonStatic

\* A function the interpreter has MIR for; it executes the others itself.
Interpreted(i) == ShouldCollect(i) /\ i \in HasBody \ Foreign

\* What rustc guarantees of its data: no concrete type is a trait object, the
\* initializer of a foreign static is not known, and the allocation of a
\* vtable points to the methods and the destructor.
ASSUME Vtables ==
    /\ Ty \cap Trait = {}
    /\ \A d \in Static \cap Foreign : Initializer(d) = <<>>
    /\ \A a \in Alloc : GlobalAlloc(a).kind = "VTable" =>
        LET vtable == GlobalAlloc(a).vtable IN
        \A m \in VtableMethods(vtable[1], vtable[2]) \cup {DropGlue(vtable[1])} :
            Interpreted(m) => \E b \in Range(GlobalAlloc(a).ptrs) :
                                GlobalAlloc(b) = [kind |-> "Function", fn |-> m]

VARIABLES
    entered,    \* the functions that have been entered
    held,       \* the pointers the program has got hold of
    calls       \* the pairs caller, callee of the direct calls made

exec == <<entered, held, calls>>

FnPtr(i) == <<"FnPtr", i>>
Vtable(t) == <<"Vtable", t>>
Ptr(a) == <<"Alloc", a>>
ThreadLocal(d) == <<"ThreadLocal", d>>

-----------------------------------------------------------------------------
ExecInit == Init /\ entered = {} /\ held = {} /\ calls = {}

\* The analysis runs first, in the compiler.
Analyse == Next /\ UNCHANGED exec

\* The program starts in one of the functions of the crate.
Start ==
    /\ pc = "done" /\ entered = {}
    /\ \E i \in HasBody : Fn(i) \in Roots(crate) /\ entered' = {i}
    /\ UNCHANGED <<vars, held, calls>>

\* x occurs in a function that is being executed.
Executing(i, x) == pc = "done" /\ i \in entered /\ x \in Body(crate, i)

Enter(i) == entered' = entered \cup {i}
Hold(ps) == held' = held \cup ps

CallDirect ==
    \E i \in entered : \E x \in Body(crate, i) :
        /\ Executing(i, x) /\ x.op = "Call" /\ Interpreted(x.fn)
        /\ Enter(x.fn)
        /\ calls' = calls \cup {<<i, x.fn>>}
        /\ UNCHANGED <<vars, held>>

\* A call of a trait's method through a trait object: one of the methods of
\* a vtable at hand.
CallVirtual ==
    \E i \in entered : \E x \in Body(crate, i) :
        /\ Executing(i, x) /\ x.op = "Call" /\ InstanceKind(x.fn) = "Virtual"
        /\ \E t \in Ty, r \in Trait : \E m \in VtableMethods(t, r) :
            Vtable(<<t, r>>) \in held /\ Interpreted(m) /\ Enter(m)
        /\ UNCHANGED <<vars, held, calls>>

CallPointer ==
    \E i \in entered : \E x \in Body(crate, i) :
        /\ Executing(i, x) /\ x.op = "CallPtr"
        /\ \E j \in Instance : FnPtr(j) \in held /\ Interpreted(j) /\ Enter(j)
        /\ UNCHANGED <<vars, held, calls>>

DropConcrete ==
    \E i \in entered : \E x \in Body(crate, i) :
        /\ Executing(i, x) /\ x.op = "Drop" /\ Interpreted(DropGlue(x.ty))
        /\ Enter(DropGlue(x.ty))
        /\ calls' = calls \cup {<<i, DropGlue(x.ty)>>}
        /\ UNCHANGED <<vars, held>>

\* The destructor of a trait object is found in its vtable.
DropDyn ==
    \E i \in entered : \E x \in Body(crate, i) :
        /\ Executing(i, x) /\ x.op = "Drop" /\ x.ty \in Trait
        /\ \E t \in Ty :
            Vtable(<<t, x.ty>>) \in held /\ Interpreted(DropGlue(t)) /\ Enter(DropGlue(t))
        /\ UNCHANGED <<vars, held, calls>>

\* A cast of a function or a closure to a pointer, of a concrete type to a
\* trait object, or the address of a thread local.
Cast ==
    \E i \in entered : \E x \in Body(crate, i) :
        /\ Executing(i, x)
        /\ \/ x.op \in {"ReifyFnPointer", "ClosureFnPointer"} /\ Hold({FnPtr(x.fn)})
           \/ x.op = "Unsize" /\ x.src \in Ty /\ x.dst \in Trait /\ Hold({Vtable(<<x.src, x.dst>>)})
           \/ x.op = "ThreadLocalRef" /\ Hold({ThreadLocal(x.def)})
        /\ UNCHANGED <<vars, entered, calls>>

\* A constant yields its pointers, whether the compiler had evaluated it
\* when the body was visited or evaluates it now.
UseConst ==
    \E i \in entered : \E x \in Body(crate, i) :
        /\ Executing(i, x)
        /\ x.op = "Const" /\ x.kind \in {"Allocated", "Unevaluated"}
        /\ Hold({Ptr(x.ptrs[p]) : p \in DOMAIN x.ptrs})
        /\ UNCHANGED <<vars, entered, calls>>

\* What following a pointer gives.
Load(alloc) ==
    CASE alloc.kind = "Function" -> {FnPtr(alloc.fn)}
      [] alloc.kind = "TypeId" -> {}
      [] alloc.kind = "VTable" -> {Vtable(alloc.vtable)}
      [] OTHER -> {Ptr(Pointers(alloc)[p]) : p \in DOMAIN Pointers(alloc)}

Deref ==
    /\ pc = "done" /\ entered # {}
    /\ \/ \E a \in Alloc : Ptr(a) \in held /\ Hold(Load(GlobalAlloc(a)))
       \/ \E d \in Static : ThreadLocal(d) \in held
                            /\ Hold({Ptr(Initializer(d)[p]) : p \in DOMAIN Initializer(d)})
    /\ UNCHANGED <<vars, entered, calls>>

ExecNext ==
    \/ Analyse \/ Start
    \/ CallDirect \/ CallVirtual \/ CallPointer
    \/ DropConcrete \/ DropDyn
    \/ Cast \/ UseConst \/ Deref

ExecSpec == ExecInit /\ [][ExecNext]_<<vars, exec>>

-----------------------------------------------------------------------------
(* Properties. *)

\* Every function the interpreter enters has been collected, however it is
\* reached: through a pointer taken in another function, a vtable stored in
\* a constant, a static that points to statics, or a destructor.
ExecutedIsCollected == \A i \in entered : Fn(i) \in collected

\* The named statics the program can reach.
Touched ==
    {d \in Static \ (AnonStatic \cup Foreign) :
        ThreadLocal(d) \in held
        \/ \E a \in Alloc : Ptr(a) \in held /\ GlobalAlloc(a) = [kind |-> "Static", def |-> d]}

\* Item 4 of the visitor's documentation: every static that a function or a
\* constant used in it refers to is collected, and so are the statics that
\* one points to.
TouchedIsCollected == \A d \in Touched : StaticItem(d) \in collected

\* A direct call or drop that is executed is an edge of the call graph
\* labelled as such.
CallsAreEdges ==
    \A call \in calls :
        [item |-> Fn(call[2]), reason |-> "DirectCall"] \in Range(edges[Fn(call[1])])
=============================================================================
