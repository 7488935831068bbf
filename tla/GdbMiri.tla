------------------------------- MODULE GdbMiri ------------------------------
(***************************************************************************)
(* The GDB command `miri`: it runs a build under GDB, lets every process   *)
(* of it continue until the interpreter of the kernel has been executed,   *)
(* and hands the session over to the user then.                            *)
(*                                                                         *)
(* GDB and the operating system are external: all inferiors run or stop    *)
(* together (schedule-multiple), a fork adds an inferior (detach-on-fork   *)
(* off), an exec, an exit or a signal stops the session and calls the      *)
(* handlers that are connected.  A handler posts a closure, which runs     *)
(* once the event has been dealt with.                                     *)
(***************************************************************************)
EXTENDS Integers, FiniteSetsExt, TLC

CONSTANTS
    Program,        \* what a process may execute
    First,          \* the program GDB is started with
    IsMiri,         \* programs whose path ends with /miri
    IsCargoMiri,    \* programs whose path ends with /cargo-miri
    IsInterested,   \* those of IsMiri whose arguments name the kernel's crate
    MaxInferior     \* bound: inferiors in a session

ASSUME GdbMiriAssumption ==
    /\ First \in Program \ (IsMiri \cup IsCargoMiri)
    /\ IsMiri \cup IsCargoMiri \subseteq Program /\ IsMiri \cap IsCargoMiri = {}
    /\ IsInterested \subseteq IsMiri
    /\ Program \cap {"none", "unused", "exited", "removed"} = {}
    /\ MaxInferior \in Nat \ {0}

VARIABLES
    proc,           \* what each inferior executes
    selected,       \* gdb.selected_inferior()
    running,        \* the inferiors run; otherwise the session is stopped
    posted,         \* the closure posted by the last handler
    connected,      \* the handlers are
    breakpoints,    \* set-breakpoints has been invoked, whether it found a file of them or not
    child_to_parent \* the tracker's map

vars == <<proc, selected, running, posted, connected, breakpoints, child_to_parent>>

Inferior == 1..MaxInferior
None == "none"
NoInferior == 0         \* the number None
Unused == "unused"      \* a number that GDB has not given yet
Exited == "exited"      \* pid is 0
Removed == "removed"    \* exited, and no longer one of gdb.inferiors()

Living(i) == proc[i] \in Program
Present == {i \in Inferior : Living(i) \/ proc[i] = Exited}

-----------------------------------------------------------------------------
(* CmdLine, and the tracker's map. *)

\* Mutant of new: nothing is read, but something is returned.
NewAnyway(num) == proc[num]

\* CmdLine.new: None without a process.
new(num) == IF Living(num) THEN proc[num] ELSE None

\* Mutant of Item: an inferior seen before keeps its status too.
ItemKept(t, num) ==
    IF num \in DOMAIN t THEN t[num]
    ELSE [exited |-> ~Living(num), cmdline |-> new(num), parent |-> NoInferior]

\* An inferior seen before keeps its command line.
Item(t, num) ==
    IF num \in DOMAIN t THEN [t[num] EXCEPT !.exited = ~Living(num)]
    ELSE [exited |-> ~Living(num), cmdline |-> new(num), parent |-> NoInferior]

update_inferiors(t) == [num \in Present |-> Item(t, num)]

\* Nothing assigns a parent, and no inferior has the number None: what the
\* code does when there is one and it has exited, going on from there, is dead.
inferior_to_be_returned(t, num) ==
    IF num \in DOMAIN t /\ t[num].parent \in DOMAIN t THEN t[num].parent ELSE NoInferior

newest_alive_inferior(t) ==
    LET alive == {num \in DOMAIN t : ~t[num].exited} IN
    IF alive = {} THEN NoInferior ELSE Max(alive)

\* None has no method is_cargo_miri.
AttributeError(t) == \E num \in DOMAIN t : ~t[num].exited /\ t[num].cmdline = None

miri_inferior(t) ==
    LET alive == {num \in DOMAIN t : ~t[num].exited}
        cargo_miri == {num \in alive : t[num].cmdline \in IsCargoMiri}
        miri == {num \in alive : t[num].cmdline \in IsMiri} IN
    IF miri # {} THEN Max(miri)
    ELSE IF cargo_miri # {} THEN Max(cargo_miri) ELSE NoInferior

Target(t) ==
    IF inferior_to_be_returned(t, selected) # NoInferior THEN inferior_to_be_returned(t, selected)
    ELSE IF miri_inferior(t) # NoInferior THEN miri_inferior(t)
    ELSE newest_alive_inferior(t)

-----------------------------------------------------------------------------
(* The command. *)

Init ==
    /\ proc = [i \in Inferior |-> IF i = 1 THEN Exited ELSE Unused]
    /\ selected = 1
    /\ running = FALSE
    /\ posted = None
    /\ connected = TRUE
    /\ breakpoints = FALSE
    /\ child_to_parent = <<>>

\* At the prompt: nothing runs, no closure is left.
Prompt == ~running /\ posted = None

\* `miri run`: only the first inferior has a program to run.
InvokeRun ==
    /\ Prompt /\ selected = 1 /\ ~Living(1)
    /\ proc' = [proc EXCEPT ![1] = First]
    /\ running' = TRUE
    /\ UNCHANGED <<selected, posted, connected, breakpoints, child_to_parent>>

\* `miri disconnect`
InvokeDisconnect ==
    /\ Prompt /\ connected
    /\ connected' = FALSE
    /\ UNCHANGED <<proc, selected, running, posted, breakpoints, child_to_parent>>

\* `miri set-breakpoints`
InvokeSetBreakpoints ==
    /\ Prompt
    /\ breakpoints' = TRUE
    /\ UNCHANGED <<proc, selected, running, posted, connected, child_to_parent>>

\* The user's own `continue`.
UserContinues ==
    /\ Prompt /\ Living(selected)
    /\ running' = TRUE
    /\ UNCHANGED <<proc, selected, posted, connected, breakpoints, child_to_parent>>

\* Mutant of Entry: the session continues without set-breakpoints.
EntryContinues == connected' = FALSE /\ breakpoints' = breakpoints /\ running' = TRUE

\* `miri`: disconnect, set-breakpoints, continue.  Without a file of
\* breakpoints the second does nothing, and the third is done all the same.
Entry == connected' = FALSE /\ breakpoints' = TRUE /\ running' = TRUE

\* run_continue: the command line is read anew; None has no method
\* is_miri_interested, and the session stays at the prompt.
Continued(inf) ==
    IF ~Living(inf) THEN UNCHANGED <<connected, breakpoints, running>>
    ELSE IF new(inf) \in IsInterested THEN Entry
    ELSE running' = TRUE /\ UNCHANGED <<connected, breakpoints>>

\* The closure of stop_handler.
RunContinue ==
    /\ posted = "run_continue"
    /\ posted' = None
    /\ Continued(selected)
    /\ UNCHANGED <<proc, selected, child_to_parent>>

\* The closure of exit_handler: `inferior target` calls on_selected_context,
\* which continues too.
ExitToAnotherInferior ==
    /\ posted = "exit_to_another_inferior"
    /\ posted' = None
    /\ LET t == update_inferiors(child_to_parent) IN
        /\ child_to_parent' = t
        /\ IF AttributeError(t) \/ Target(t) = NoInferior
           THEN UNCHANGED <<selected, connected, breakpoints, running>>
           ELSE selected' = Target(t) /\ Continued(Target(t))
    /\ UNCHANGED proc

-----------------------------------------------------------------------------
(* GDB and the processes. *)

\* A forked process executes what its parent does, and runs on.
Fork(i, j) ==
    /\ running /\ Living(i)
    /\ proc[j] = Unused /\ \A k \in 1..(j - 1) : proc[k] # Unused
    /\ proc' = [proc EXCEPT ![j] = proc[i]]
    /\ UNCHANGED <<selected, running, posted, connected, breakpoints, child_to_parent>>

\* The session stops at inferior i, and the handler posts a closure.
StopAt(i, closure) ==
    /\ running' = FALSE
    /\ selected' = i
    /\ posted' = IF connected THEN closure ELSE None
    /\ UNCHANGED <<connected, breakpoints, child_to_parent>>

\* catch exec
Exec(i) ==
    /\ running /\ Living(i)
    /\ \E p \in Program : proc' = [proc EXCEPT ![i] = p]
    /\ StopAt(i, "run_continue")

\* A breakpoint or a signal.
Stop(i) ==
    /\ running /\ Living(i)
    /\ proc' = proc
    /\ StopAt(i, "run_continue")

Exit(i) ==
    /\ running /\ Living(i)
    /\ proc' = [proc EXCEPT ![i] = Exited]
    /\ StopAt(i, "exit_to_another_inferior")

\* GDB may forget an inferior that has exited.
Remove(i) ==
    /\ i # 1 /\ i # selected /\ proc[i] = Exited
    /\ proc' = [proc EXCEPT ![i] = Removed]
    /\ UNCHANGED <<selected, running, posted, connected, breakpoints, child_to_parent>>

User == InvokeRun \/ InvokeDisconnect \/ InvokeSetBreakpoints \/ UserContinues
Closure == RunContinue \/ ExitToAnotherInferior
Gdb ==
    \E i \in Inferior : Exec(i) \/ Stop(i) \/ Exit(i) \/ Remove(i) \/ \E j \in Inferior : Fork(i, j)

Next == User \/ Closure \/ Gdb

Spec == Init /\ [][Next]_vars

-----------------------------------------------------------------------------
(* Properties. *)

\* Every variable has its type: the map has records, whose command line is
\* None or one that a process had.
TypeOK ==
    /\ proc \in [Inferior -> Program \cup {Unused, Exited, Removed}]
    /\ selected \in Present
    /\ running \in BOOLEAN /\ connected \in BOOLEAN /\ breakpoints \in BOOLEAN
    /\ posted \in {None, "run_continue", "exit_to_another_inferior"}
    /\ \A num \in DOMAIN child_to_parent :
        child_to_parent[num] \in
            [exited : BOOLEAN, cmdline : Program \cup {None}, parent : Inferior \cup {NoInferior}]

\* The interpreter of the kernel never runs under the handlers' automatic
\* `continue`: whichever process executes it, and whatever forks and exits
\* around it, the handlers are disconnected, and set-breakpoints invoked in
\* the step that disconnects them, before it runs on.
KernelWaits ==
    [][running' /\ (\E i \in Inferior : proc'[i] \in IsInterested /\ proc[i] \in IsInterested)
        => ~connected' /\ (connected => breakpoints')]_vars

\* After an exit the session goes on with a living process if there is one,
\* however stale the tracker's map was: it is selected and resumed, and it is
\* one recorded as miri if there is a living one that is, else one recorded as
\* cargo-miri if there is.  The exception is a living inferior whose record
\* has no command line.
SwitchesToLiving ==
    [][ExitToAnotherInferior /\ (\E i \in Inferior : Living(i)) /\ ~AttributeError(child_to_parent')
        => /\ Living(selected') /\ running'
           /\ \A wanted \in {IsMiri, IsMiri \cup IsCargoMiri} :
                (\E i \in Inferior : Living(i) /\ child_to_parent'[i].cmdline \in wanted)
                    => child_to_parent'[selected'].cmdline \in wanted]_vars

\* miri_inferior's documentation: "Return the living miri or cargo-miri
\* inferior number", if there is one, when an exit has been handled.  (A living
\* inferior without a command line makes it raise instead.)
MiriInferiorAsDocumented ==
    LET t == update_inferiors(child_to_parent) IN
    /\ posted = "exit_to_another_inferior"
    /\ ~AttributeError(t)
    /\ \E i \in Inferior : proc[i] \in IsMiri \cup IsCargoMiri
    => miri_inferior(t) \in {i \in Inferior : proc[i] \in IsMiri \cup IsCargoMiri}
=============================================================================
