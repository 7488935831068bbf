---------------------------- MODULE MCExecution ----------------------------
(***************************************************************************)
(* Crates built from one type S with a destructor, one trait Tr that S     *)
(* implements, and statics and constants that lead to functions through    *)
(* memory, a vtable and an anonymous static.  The bodies of `main` and     *)
(* `foo` are any sets of occurrences up to a bound; the hash sets are      *)
(* iterated in one fixed order (MCReachability varies it).                 *)
(***************************************************************************)
EXTENDS Execution

CONSTANTS MainBound, FooBound, ConstKinds

MCInstance == {"main", "foo", "method", "dropS", "dropDyn", "virtual", "extern", "intrinsic", "native"}
MCInstanceKind(i) ==
    CASE i \in {"dropS", "dropDyn"} -> "Shim"
      [] i = "virtual" -> "Virtual"
      [] i \in {"intrinsic", "native"} -> "Intrinsic"
      [] OTHER -> "Item"
MCHasBody == MCInstance \ {"virtual", "extern"}
MCMustBeOverridden == {"native"}
MCForeign == {"extern", "EXT"}

MCStatic == {"OUTER", "INNER", "ANON", "EXT", "TLS"}
MCInitializer(d) ==
    CASE d = "OUTER" -> <<"toAnon", "toExtern">>
      [] d = "ANON" -> <<"toInner", "toInner">>
      [] d = "INNER" -> <<"toFoo">>
      [] d = "TLS" -> <<"toMemory">>
      [] d = "EXT" -> <<>>
MCStaticTy(d) == "S"

MCAlloc == {"toFoo", "toMethod", "toDropS", "toExtern", "toAnon", "toInner", "toOuter", "toExt",
            "toMemory", "toVtable", "toTypeId"}
MCGlobalAlloc(a) ==
    CASE a = "toFoo" -> [kind |-> "Function", fn |-> "foo"]
      [] a = "toMethod" -> [kind |-> "Function", fn |-> "method"]
      [] a = "toDropS" -> [kind |-> "Function", fn |-> "dropS"]
      [] a = "toExtern" -> [kind |-> "Function", fn |-> "extern"]
      [] a = "toAnon" -> [kind |-> "Static", def |-> "ANON"]
      [] a = "toInner" -> [kind |-> "Static", def |-> "INNER"]
      [] a = "toOuter" -> [kind |-> "Static", def |-> "OUTER"]
      [] a = "toExt" -> [kind |-> "Static", def |-> "EXT"]
      [] a = "toMemory" -> [kind |-> "Memory", ptrs |-> <<"toVtable", "toTypeId", "toExt">>]
      [] a = "toVtable" -> [kind |-> "VTable", vtable |-> <<"S", "Tr">>, ptrs |-> <<"toDropS", "toMethod">>]
      [] a = "toTypeId" -> [kind |-> "TypeId"]

MCDropGlue(t) == IF t = "S" THEN "dropS" ELSE "dropDyn"
MCVtableMethods(t, r) == {"method", "extern"}

\* The occurrences `main` and `foo` are made of.
Menu ==
    {[op |-> "Call", fn |-> i] : i \in {"foo", "virtual", "intrinsic", "native", "extern"}}
    \cup {[op |-> "CallPtr"], [op |-> "FnDef", fn |-> "foo"]}
    \cup {[op |-> "ReifyFnPointer", fn |-> "foo"], [op |-> "ClosureFnPointer", fn |-> "method"]}
    \cup {[op |-> "Unsize", src |-> "S", dst |-> "Tr"], [op |-> "Unsize", src |-> "Tr", dst |-> "Tr"]}
    \cup {[op |-> "Drop", ty |-> "S"], [op |-> "Drop", ty |-> "Tr"]}
    \cup {[op |-> "ThreadLocalRef", def |-> "TLS"]}
    \cup {[op |-> "Const", kind |-> kd, ptrs |-> <<a>>] : kd \in ConstKinds, a \in {"toOuter", "toMemory"}}
    \cup {[op |-> "Const", kind |-> "ZeroSized"]}

Bodies(n) == {{}} \cup {Range(t) : t \in [1..n -> Menu]}
MCCrate == [main : Bodies(MainBound), foo : Bodies(FooBound)]
MCBody(c, i) ==
    CASE i = "main" -> c.main
      [] i = "foo" -> c.foo
      [] i = "dropDyn" -> {[op |-> "Drop", ty |-> "Tr"]}
      [] i = "intrinsic" -> {[op |-> "Call", fn |-> "method"]}
      [] OTHER -> {}

MCVisit(c, x) == {CHOOSE v \in VisitItem(c, x) : TRUE}
MCStartingPoints(c) == <<Fn("main")>>
=============================================================================
