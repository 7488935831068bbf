----------------------------- MODULE CargoKmiri -----------------------------
(***************************************************************************)
(* `cargo kmiri-helper`: an invocation empties the analysis directory of   *)
(* the target directory, runs `cargo build` with itself as the compiler,   *)
(* and merges the files the drivers have written into analysis.json.       *)
(*                                                                         *)
(* Processes: the invocations, one cargo per invocation, and one wrapper   *)
(* with its driver per unit that is compiled.  They share the file system  *)
(* only; a step is one call that reads or changes it.  cargo is not part   *)
(* of this repository: it holds the lock of the target directory while it  *)
(* builds, skips the units that are fresh, compiles a unit after the ones  *)
(* it depends on, and fails when a compiler fails.                         *)
(***************************************************************************)
EXTENDS Naturals, FiniteSets

CONSTANTS
    Main,            \* the invocations
    Unit,            \* the units of the build plan
    Plain,           \* the units compiled by rustc itself: build scripts, proc macros
    DependsOn(_),    \* the units a unit is compiled after, transitively
    Exclusive,       \* invocations on one target directory follow each other
    KillsGroup,      \* an interrupt reaches cargo and the drivers too
    MaxInterrupts,   \* bound on interrupts
    MaxChanges       \* bound on edits of sources and `cargo clean`s

None == "none"

ASSUME Plan ==
    /\ None \notin Main
    /\ Plain \subseteq Unit
    /\ \A u \in Unit : DependsOn(u) \subseteq Unit \ {u}
    /\ Exclusive \in BOOLEAN /\ KillsGroup \in BOOLEAN
    /\ MaxInterrupts \in Nat /\ MaxChanges \in Nat

VARIABLES
    pc,          \* what each invocation does next
    todo,        \* the files an invocation has listed and not read
    v_fn,        \* the entries an invocation has read
    cargo,       \* the state of each invocation's cargo
    lock,        \* the cargo that holds the target directory
    driver,      \* the state of each unit's wrapper and driver
    fresh,       \* the units cargo need not compile
    version,     \* the version of each unit's sources
    dir,         \* dir_analysis exists
    json,        \* the analysis files: a function on the units that have one
    log,         \* analysis.log exists
    result,      \* analysis.json
    interrupts, changes,
    built,       \* history: what each invocation compiled
    before       \* history: what was there when an invocation started

disk == <<dir, json, log, result>>
merge == <<todo, v_fn>>
build == <<cargo, lock, driver, fresh, built>>
world == <<version, interrupts, changes>>
vars == <<pc, merge, build, world, disk, before>>

\* What a driver writes: the functions of one version of a unit, found by
\* the build of one invocation.
Entry == [unit : Unit, version : 1..(MaxChanges + 1), by : Main]
Partial(e) == [entry |-> e, whole |-> FALSE]
Whole(e) == [entry |-> e, whole |-> TRUE]
NoFiles == [u \in {} |-> {}]

NoResult == [by |-> None, entries |-> {}, whole |-> FALSE]

Ended == {"ok", "declined", "aborted", "panicked", "killed"}
Running(m) == pc[m] \notin Ended \cup {"start"}

-----------------------------------------------------------------------------
Init ==
    /\ pc = [m \in Main |-> "start"]
    /\ todo = [m \in Main |-> {}] /\ v_fn = [m \in Main |-> {}]
    /\ cargo = [m \in Main |-> "none"] /\ lock = None
    /\ driver = [u \in Unit |-> "none"]
    /\ fresh \in {{}, Unit}                 \* cleaned, or built without the wrapper
    /\ version = [u \in Unit |-> 1]
    /\ dir = FALSE /\ json = NoFiles /\ log = FALSE
    /\ result = NoResult
    /\ interrupts = 0 /\ changes = 0
    /\ built = [m \in Main |-> {}]
    /\ before = [m \in Main |-> [fresh |-> {}, result |-> result, entries |-> {}]]

Goto(m, label) == pc' = [pc EXCEPT ![m] = label]
Entries == {json[u].entry : u \in DOMAIN json}

\* An invocation starts, and `cargo metadata` tells it the target directory,
\* or fails, which ends it.
Start(m) ==
    /\ pc[m] = "start"
    /\ Exclusive => lock = None /\ \A n \in Main : ~Running(n)
    /\ Goto(m, "rm_analysis") \/ Goto(m, "declined")
    /\ before' = [before EXCEPT ![m] = [fresh |-> fresh, result |-> result, entries |-> Entries]]
    /\ UNCHANGED <<merge, build, world, disk>>

\* Mutant of RmAnalysis: the last result is removed as well.
RmAnalysisAndResult(m) ==
    /\ pc[m] = "rm_analysis"
    /\ Goto(m, IF dir THEN "rm_entries" ELSE "create_dir_all")
    /\ result' = NoResult
    /\ UNCHANGED <<merge, build, world, dir, json, log, before>>

\* rm(dir_analysis) looks first, then calls remove_dir_all.
RmAnalysis(m) ==
    /\ pc[m] = "rm_analysis"
    /\ Goto(m, IF dir THEN "rm_entries" ELSE "create_dir_all")
    /\ UNCHANGED <<merge, build, world, disk, before>>

\* Mutant of RemoveEntries: the directory is kept as it is.
KeepEntries(m) ==
    /\ pc[m] \in {"rm_entries", "recreate_entries"}
    /\ Goto(m, IF pc[m] = "rm_entries" THEN "create_dir_all" ELSE "spawn")
    /\ UNCHANGED <<merge, build, world, disk, before>>

\* remove_dir_all unlinks the entries and then removes the directory.  rm()
\* panics on every error, recreate_dir_analysis accepts a missing directory.
RemoveEntries(m) ==
    /\ pc[m] \in {"rm_entries", "recreate_entries"}
    /\ IF dir
       THEN /\ json' = NoFiles
            /\ Goto(m, IF pc[m] = "rm_entries" THEN "rm_dir" ELSE "recreate_dir")
       ELSE /\ Goto(m, IF pc[m] = "rm_entries" THEN "panicked" ELSE "create_dir")
            /\ UNCHANGED json
    /\ UNCHANGED <<merge, build, world, dir, log, result, before>>

RemoveDir(m) ==
    /\ pc[m] \in {"rm_dir", "recreate_dir"}
    /\ IF DOMAIN json = {}
       THEN /\ dir' = FALSE
            /\ Goto(m, IF pc[m] = "rm_dir" THEN "create_dir_all" ELSE "create_dir")
       ELSE /\ Goto(m, "panicked")
            /\ UNCHANGED dir
    /\ UNCHANGED <<merge, build, world, json, log, result, before>>

CreateDirAll(m) ==
    /\ pc[m] = "create_dir_all"
    /\ dir' = TRUE
    /\ Goto(m, "rm_log")
    /\ UNCHANGED <<merge, build, world, json, log, result, before>>

RmLog(m) ==
    /\ pc[m] = "rm_log"
    /\ Goto(m, IF log THEN "remove_log" ELSE "create_log")
    /\ UNCHANGED <<merge, build, world, disk, before>>

RemoveLog(m) ==
    /\ pc[m] = "remove_log"
    /\ log' = FALSE
    /\ Goto(m, IF log THEN "create_log" ELSE "panicked")
    /\ UNCHANGED <<merge, build, world, dir, json, result, before>>

CreateLog(m) ==
    /\ pc[m] = "create_log"
    /\ log' = TRUE
    /\ Goto(m, "init_logger")
    /\ UNCHANGED <<merge, build, world, dir, json, result, before>>

\* Mutant of InitLogger: the directory is created without being removed.
InitLoggerNoRemove(m) ==
    /\ pc[m] = "init_logger"
    /\ Goto(m, "create_dir")
    /\ UNCHANGED <<merge, build, world, disk, before>>

\* The log is opened for appending, not created.  The arguments may ask for
\* the compiler's version only, then rustc is run and nothing is merged; or
\* not be those of a cargo subcommand, which the program does not implement.
InitLogger(m) ==
    /\ pc[m] = "init_logger"
    /\ IF log THEN Goto(m, "recreate_entries") \/ Goto(m, "declined")
       ELSE Goto(m, "panicked")
    /\ UNCHANGED <<merge, build, world, disk, before>>

\* create_dir fails when the directory exists.
CreateDir(m) ==
    /\ pc[m] = "create_dir"
    /\ dir' = TRUE
    /\ Goto(m, IF dir THEN "panicked" ELSE "spawn")
    /\ UNCHANGED <<merge, build, world, json, log, result, before>>

\* Mutant of Spawn: nobody waits for cargo.
SpawnNoWait(m) ==
    /\ pc[m] = "spawn"
    /\ cargo' = [cargo EXCEPT ![m] = "waiting"]
    /\ Goto(m, "read_dir")
    /\ UNCHANGED <<merge, lock, driver, fresh, built, world, disk, before>>

Spawn(m) ==
    /\ pc[m] = "spawn"
    /\ cargo' = [cargo EXCEPT ![m] = "waiting"]
    /\ Goto(m, "wait")
    /\ UNCHANGED <<merge, lock, driver, fresh, built, world, disk, before>>

\* Mutants of Wait: cargo's status is ignored; only a success is noticed.
WaitAnyStatus(m) ==
    /\ pc[m] = "wait" /\ cargo[m] \in {"ok", "failed"}
    /\ Goto(m, "read_dir")
    /\ UNCHANGED <<merge, build, world, disk, before>>
WaitForSuccess(m) ==
    /\ pc[m] = "wait" /\ cargo[m] = "ok"
    /\ Goto(m, "read_dir")
    /\ UNCHANGED <<merge, build, world, disk, before>>

\* spawn() aborts the process when cargo has failed.
Wait(m) ==
    /\ pc[m] = "wait" /\ cargo[m] \in {"ok", "failed"}
    /\ Goto(m, IF cargo[m] = "ok" THEN "read_dir" ELSE "aborted")
    /\ UNCHANGED <<merge, build, world, disk, before>>

\* merge_analysis: list the files, read and parse each, write analysis.json.
ReadDir(m) ==
    /\ pc[m] = "read_dir"
    /\ todo' = [todo EXCEPT ![m] = DOMAIN json]
    /\ Goto(m, IF dir THEN "read_json" ELSE "panicked")
    /\ UNCHANGED <<v_fn, build, world, disk, before>>

ReadJson(m) ==
    /\ pc[m] = "read_json"
    /\ \E u \in todo[m] :
        /\ todo' = [todo EXCEPT ![m] = @ \ {u}]
        /\ IF u \in DOMAIN json /\ json[u].whole
           THEN /\ v_fn' = [v_fn EXCEPT ![m] = @ \cup {json[u].entry}]
                /\ UNCHANGED pc
           ELSE Goto(m, "panicked") /\ UNCHANGED v_fn
    /\ UNCHANGED <<build, world, disk, before>>

CreateResult(m) ==
    /\ pc[m] = "read_json" /\ todo[m] = {}
    /\ result' = [by |-> m, entries |-> {}, whole |-> FALSE]
    /\ Goto(m, "write_result")
    /\ UNCHANGED <<merge, build, world, dir, json, log, before>>

\* Two invocations may have the file open: the later text then overwrites
\* the earlier one, and is followed by its rest if that was longer.
WriteResult(m) ==
    /\ pc[m] = "write_result"
    /\ \E whole \in BOOLEAN :
        /\ result.entries = {} => whole
        /\ result' = [by |-> m, entries |-> v_fn[m], whole |-> whole]
    /\ Goto(m, "ok")
    /\ UNCHANGED <<merge, build, world, dir, json, log, before>>

-----------------------------------------------------------------------------
(* cargo *)

Lock(m) ==
    /\ cargo[m] = "waiting" /\ lock = None
    /\ lock' = m
    /\ cargo' = [cargo EXCEPT ![m] = "building"]
    /\ UNCHANGED <<pc, merge, driver, fresh, built, world, disk, before>>

Compile(u) ==
    /\ lock # None /\ cargo[lock] = "building"
    /\ driver[u] = "none" /\ u \notin fresh /\ DependsOn(u) \subseteq fresh
    /\ driver' = [driver EXCEPT ![u] = "init_logger"]
    /\ UNCHANGED <<pc, merge, cargo, lock, fresh, built, world, disk, before>>

\* The build ends when everything is fresh, or, after a failure, when the
\* compilers still running have ended.
CargoEnds(m) ==
    /\ lock = m /\ \A u \in Unit : driver[u] = "none"
    /\ \/ cargo[m] = "building" /\ fresh = Unit /\ cargo' = [cargo EXCEPT ![m] = "ok"]
       \/ cargo[m] = "failing" /\ cargo' = [cargo EXCEPT ![m] = "failed"]
    /\ lock' = None
    /\ UNCHANGED <<pc, merge, driver, fresh, built, world, disk, before>>

-----------------------------------------------------------------------------
(* A wrapper and the driver it spawns.  The invocation they work for is the *)
(* one that holds the lock.                                                 *)

At(u, label) == lock # None /\ driver[u] = label
Continue(u, label) ==
    /\ driver' = [driver EXCEPT ![u] = label]
    /\ UNCHANGED <<pc, merge, cargo, lock, fresh, built, world, before>>
Fail(u) ==
    /\ driver' = [driver EXCEPT ![u] = "none"]
    /\ cargo' = [cargo EXCEPT ![lock] = "failing"]
    /\ UNCHANGED <<pc, merge, lock, fresh, built, world, disk, before>>

WrapperLogs(u) ==
    /\ At(u, "init_logger")
    /\ IF log THEN /\ Continue(u, IF u \in Plain THEN "codegen" ELSE "collect")
                   /\ UNCHANGED disk
       ELSE Fail(u)

\* The analysis ends, or the compiler aborts because of errors.
Collected(u) ==
    /\ At(u, "collect")
    /\ \/ Continue(u, "create_dir_all") /\ UNCHANGED disk
       \/ Fail(u)

DriverCreatesDir(u) ==
    /\ At(u, "create_dir_all")
    /\ dir' = TRUE
    /\ Continue(u, "create_json")
    /\ UNCHANGED <<json, log, result>>

OwnEntry(u) == [unit |-> u, version |-> version[u], by |-> lock]

DriverCreatesJson(u) ==
    /\ At(u, "create_json")
    /\ IF dir THEN /\ json' = [x \in DOMAIN json \cup {u} |-> IF x = u THEN Partial(OwnEntry(u)) ELSE json[x]]
                   /\ Continue(u, "write_json")
                   /\ UNCHANGED <<dir, log, result>>
       ELSE Fail(u)

\* The file may have been unlinked meanwhile: what is written is lost.
DriverWritesJson(u) ==
    /\ At(u, "write_json")
    /\ json' = IF u \in DOMAIN json THEN [json EXCEPT ![u] = Whole(OwnEntry(u))] ELSE json
    /\ Continue(u, "codegen")
    /\ UNCHANGED <<dir, log, result>>

\* The analysis returns Continue: the compilation goes on, to succeed or fail.
Codegen(u) ==
    /\ At(u, "codegen")
    /\ \/ /\ driver' = [driver EXCEPT ![u] = "none"]
          /\ fresh' = fresh \cup {u}
          /\ built' = [built EXCEPT ![lock] = @ \cup {OwnEntry(u)}]
          /\ UNCHANGED <<pc, merge, cargo, lock, world, disk, before>>
       \/ Fail(u)

-----------------------------------------------------------------------------
(* The surroundings. *)

\* An interrupt ends an invocation at any point, with its cargo and drivers
\* when they are in its process group, or alone.
Interrupt(m) ==
    /\ Running(m) /\ interrupts < MaxInterrupts
    /\ interrupts' = interrupts + 1
    /\ Goto(m, "killed")
    /\ IF KillsGroup
       THEN /\ cargo' = [cargo EXCEPT ![m] = "none"]
            /\ lock' = IF lock = m THEN None ELSE lock
            /\ driver' = IF lock = m THEN [u \in Unit |-> "none"] ELSE driver
       ELSE UNCHANGED <<cargo, lock, driver>>
    /\ UNCHANGED <<merge, fresh, built, version, changes, disk, before>>

\* Between builds a source is edited, which makes the units built on it
\* stale, or `cargo clean` removes the whole target directory.
Quiet == lock = None /\ \A m \in Main : ~Running(m)

Edit(u) ==
    /\ Quiet /\ changes < MaxChanges
    /\ changes' = changes + 1
    /\ version' = [version EXCEPT ![u] = @ + 1]
    /\ fresh' = {x \in fresh : x # u /\ u \notin DependsOn(x)}
    /\ UNCHANGED <<pc, merge, cargo, lock, driver, built, interrupts, disk, before>>

Clean ==
    /\ Quiet /\ changes < MaxChanges
    /\ changes' = changes + 1
    /\ fresh' = {}
    /\ dir' = FALSE /\ json' = NoFiles /\ log' = FALSE
    /\ result' = NoResult
    /\ UNCHANGED <<pc, merge, cargo, lock, driver, built, version, interrupts, before>>

MainStep(m) ==
    \/ RmAnalysis(m) \/ RemoveEntries(m) \/ RemoveDir(m) \/ CreateDirAll(m)
    \/ RmLog(m) \/ RemoveLog(m) \/ CreateLog(m) \/ InitLogger(m)
    \/ CreateDir(m) \/ Spawn(m) \/ Wait(m)
    \/ ReadDir(m) \/ ReadJson(m) \/ CreateResult(m) \/ WriteResult(m)

CargoStep(m) == Lock(m) \/ CargoEnds(m)

UnitStep(u) ==
    \/ Compile(u) \/ WrapperLogs(u) \/ Collected(u) \/ DriverCreatesDir(u)
    \/ DriverCreatesJson(u) \/ DriverWritesJson(u) \/ Codegen(u)

Next ==
    \/ \E m \in Main : Start(m) \/ MainStep(m) \/ CargoStep(m) \/ Interrupt(m)
    \/ \E u \in Unit : UnitStep(u) \/ Edit(u)
    \/ Clean

\* A process that can run is scheduled.  A cargo waiting for the lock gets it
\* when the others are done with it; no invocation has to be started,
\* interrupted, or follow a change.
Spec ==
    /\ Init /\ [][Next]_vars
    /\ \A m \in Main : WF_vars(MainStep(m)) /\ WF_vars(CargoStep(m))
    /\ \A u \in Unit : WF_vars(UnitStep(u))

-----------------------------------------------------------------------------
(* Properties. *)

\* Every variable has its type; only the holder of the lock compiles, a file
\* in the analysis directory means that the directory is there, and nothing
\* is merged before cargo has succeeded.
TypeOK ==
    /\ pc \in [Main -> Ended \cup {"start", "rm_analysis", "rm_entries", "rm_dir", "create_dir_all",
                "rm_log", "remove_log", "create_log", "init_logger", "recreate_entries",
                "recreate_dir", "create_dir", "spawn", "wait", "read_dir", "read_json", "write_result"}]
    /\ todo \in [Main -> SUBSET Unit] /\ v_fn \in [Main -> SUBSET Entry]
    /\ cargo \in [Main -> {"none", "waiting", "building", "failing", "ok", "failed"}]
    /\ lock \in Main \cup {None}
    /\ driver \in [Unit -> {"none", "init_logger", "collect", "create_dir_all", "create_json",
                            "write_json", "codegen"}]
    /\ fresh \subseteq Unit /\ version \in [Unit -> 1..(MaxChanges + 1)]
    /\ dir \in BOOLEAN /\ log \in BOOLEAN
    /\ DOMAIN json \subseteq Unit
    /\ \A u \in DOMAIN json : json[u] \in [entry : Entry, whole : BOOLEAN]
    /\ result.by \in Main \cup {None} /\ result.entries \subseteq Entry /\ result.whole \in BOOLEAN
    /\ lock = None => \A u \in Unit : driver[u] = "none"
    /\ \A m \in Main : cargo[m] \in {"building", "failing"} <=> lock = m
    /\ ~dir => DOMAIN json = {}
    /\ \A m \in Main :
        pc[m] \in {"read_dir", "read_json", "write_result", "ok"} => cargo[m] = "ok"

\* The result of an invocation that succeeds holds the analysis of exactly
\* the units this invocation has compiled: nothing an earlier one left, torn
\* or whole, gets into it, and nothing a driver wrote is lost.
MergedExactly ==
    \A m \in Main :
        pc[m] = "ok" /\ result.by = m =>
            result.whole /\ result.entries = {e \in built[m] : e.unit \notin Plain}

\* No file that was there when an invocation started is merged by it, even
\* if other invocations write to the same directory meanwhile.  (What a build
\* that was left running writes after that start can be merged.)
NoStaleEntries == \A m \in Main : v_fn[m] \cap before[m].entries = {}

\* Whatever an interrupted invocation leaves behind (a directory half
\* removed, a missing log, a torn file), the next one does not stumble on it.
NeverPanics == \A m \in Main : pc[m] # "panicked"

\* An invocation whose build fails, or that declines to build, leaves the last
\* analysis.json as it was.
FailureKeepsResult ==
    [][\A m \in Main :
        Running(m) /\ pc'[m] \in {"aborted", "declined", "panicked"}
            => result' = before[m].result]_vars

\* "The driver needs fresh build to work": when nothing was fresh, a
\* successful invocation analyses every unit, in its current version.
FreshBuildIsComplete ==
    [][\A m \in Main :
        Running(m) /\ pc'[m] = "ok" /\ before[m].fresh = {}
            => result'.entries = {[unit |-> u, version |-> version[u], by |-> m] : u \in Unit \ Plain}]_vars

\* Every invocation that was started ends: no wrapper, cargo or invocation
\* waits for something that does not come.
EveryInvocationEnds == \A m \in Main : Running(m) ~> ~Running(m)
=============================================================================
