-------------------------- MODULE CargoKmiriProofs --------------------------
(***************************************************************************)
(* Proofs about `cargo kmiri-helper`, for any invocations and units.       *)
(***************************************************************************)
EXTENDS CargoKmiri, TLAPS

-----------------------------------------------------------------------------
(* Types. *)

Unspawned ==
    {"start", "rm_analysis", "rm_entries", "rm_dir", "create_dir_all", "rm_log", "remove_log",
     "create_log", "init_logger", "recreate_entries", "recreate_dir", "create_dir", "spawn"}
Merging == {"read_dir", "read_json", "write_result", "ok"}
Label == Unspawned \cup Merging \cup {"wait"} \cup Ended

Result == [by : Main \cup {None}, entries : SUBSET Entry, whole : BOOLEAN]
Before == [fresh : SUBSET Unit, result : Result, entries : SUBSET Entry]

MainTypes ==
    /\ pc \in [Main -> Label]
    /\ todo \in [Main -> SUBSET Unit] /\ v_fn \in [Main -> SUBSET Entry]
    /\ built \in [Main -> SUBSET Entry] /\ before \in [Main -> Before]

CargoTypes ==
    /\ cargo \in [Main -> {"none", "waiting", "building", "failing", "ok", "failed"}]
    /\ lock \in Main \cup {None}
    /\ driver \in [Unit -> {"none", "init_logger", "collect", "create_dir_all", "create_json",
                            "write_json", "codegen"}]
    /\ lock = None => \A u \in Unit : driver[u] = "none"
    /\ \A m \in Main : cargo[m] \in {"building", "failing"} <=> lock = m

SourceTypes ==
    /\ fresh \subseteq Unit /\ version \in [Unit -> Nat \ {0}]
    /\ changes \in 0..MaxChanges /\ \A u \in Unit : version[u] <= changes + 1

DiskTypes ==
    /\ dir \in BOOLEAN /\ log \in BOOLEAN
    /\ DOMAIN json \subseteq Unit
    /\ \A u \in DOMAIN json : json[u] \in [entry : Entry, whole : BOOLEAN]
    /\ result \in Result
    /\ ~dir => DOMAIN json = {}

\* A cargo is started once, and its success stays.
Spawned ==
    \A m \in Main : /\ pc[m] \in Unspawned => cargo[m] = "none"
                    /\ pc[m] \in Merging => cargo[m] = "ok"

TypeInv == MainTypes /\ CargoTypes /\ SourceTypes /\ DiskTypes /\ Spawned

LEMMA TypeInvImplies == TypeInv => TypeOK
<1> SUFFICES ASSUME TypeInv
             PROVE  TypeOK
  OBVIOUS
<1>1. version \in [Unit -> 1..(MaxChanges + 1)]
  BY Plan DEF TypeInv, SourceTypes
<1>2. result.by \in Main \cup {None} /\ result.entries \subseteq Entry /\ result.whole \in BOOLEAN
  BY DEF TypeInv, DiskTypes, Result
<1>3. pc \in [Main -> Label] /\ todo \in [Main -> SUBSET Unit] /\ v_fn \in [Main -> SUBSET Entry]
  BY DEF TypeInv, MainTypes
<1>4. \A m \in Main : pc[m] \in {"read_dir", "read_json", "write_result", "ok"} => cargo[m] = "ok"
  BY DEF TypeInv, Spawned, Merging
<1>5. Label = Ended \cup {"start", "rm_analysis", "rm_entries", "rm_dir", "create_dir_all",
                "rm_log", "remove_log", "create_log", "init_logger", "recreate_entries",
                "recreate_dir", "create_dir", "spawn", "wait", "read_dir", "read_json", "write_result"}
  BY DEF Label, Unspawned, Merging, Ended
<1> QED
  BY <1>1, <1>2, <1>3, <1>4, <1>5 DEF TypeInv, CargoTypes, SourceTypes, DiskTypes, TypeOK

LEMMA EntriesType ==
    ASSUME DiskTypes
    PROVE  Entries \subseteq Entry
BY DEF DiskTypes, Entries

LEMMA OwnEntryType ==
    ASSUME SourceTypes, NEW u \in Unit, lock \in Main
    PROVE  OwnEntry(u) \in Entry
<1>1. version[u] \in 1..(MaxChanges + 1)
  BY Plan DEF SourceTypes
<1> QED
  BY <1>1 DEF OwnEntry, Entry

LEMMA InitTypes == Init => TypeInv
<1> SUFFICES ASSUME Init
             PROVE  TypeInv
  OBVIOUS
<1>1. NoResult \in Result
  BY DEF NoResult, Result
<1>2. MainTypes
  BY <1>1 DEF Init, MainTypes, Label, Unspawned, Before
<1>3. CargoTypes
  BY Plan DEF Init, CargoTypes
<1>4. SourceTypes
  BY Plan DEF Init, SourceTypes
<1>5. DiskTypes
  BY <1>1 DEF Init, DiskTypes, NoFiles
<1>6. Spawned
  BY DEF Init, Spawned, Merging
<1> QED
  BY <1>2, <1>3, <1>4, <1>5, <1>6 DEF TypeInv

\* An invocation's step that leaves the build alone keeps the build's part.
LEMMA GotoKeeps ==
    ASSUME TypeInv, NEW m \in Main, NEW label \in Label, Goto(m, label),
           label \in Unspawned => pc[m] \in Unspawned,
           label \in Merging => cargo[m] = "ok",
           UNCHANGED <<build, world>>,
           UNCHANGED <<todo, v_fn, before>>
    PROVE  MainTypes' /\ CargoTypes' /\ SourceTypes' /\ Spawned'
<1>1. pc' = [pc EXCEPT ![m] = label] /\ pc \in [Main -> Label]
  BY DEF Goto, TypeInv, MainTypes
<1>2. MainTypes'
  BY <1>1 DEF TypeInv, MainTypes, build
<1>3. CargoTypes' /\ SourceTypes'
  BY DEF TypeInv, CargoTypes, SourceTypes, build, world
<1>4. Spawned'
  BY <1>1 DEF TypeInv, Spawned, build
<1> QED
  BY <1>2, <1>3, <1>4

LEMMA MainTypesKept ==
    ASSUME TypeInv, NEW m \in Main, Start(m) \/ MainStep(m)
    PROVE  TypeInv'
<1> USE DEF Label, Unspawned, Merging, Ended
<1>0. DiskTypes /\ CargoTypes /\ MainTypes
  BY DEF TypeInv
<1>1. CASE Start(m)
  <2>1. PICK label \in {"rm_analysis", "declined"} : Goto(m, label)
    BY <1>1 DEF Start
  <2>2. /\ before' = [before EXCEPT ![m] = [fresh |-> fresh, result |-> result, entries |-> Entries]]
        /\ UNCHANGED <<merge, build, world, disk>>
    BY <1>1 DEF Start
  <2>3. [fresh |-> fresh, result |-> result, entries |-> Entries] \in Before
    <3>1. fresh \subseteq Unit /\ result \in Result
      BY DEF TypeInv, SourceTypes, DiskTypes
    <3> QED
      BY <3>1, <1>0, EntriesType DEF Before
  <2>4. MainTypes'
    <3>1. pc' \in [Main -> Label]
      BY <1>0, <2>1 DEF MainTypes, Goto
    <3>2. before' \in [Main -> Before]
      BY <1>0, <2>2, <2>3 DEF MainTypes
    <3> QED
      BY <1>0, <2>2, <3>1, <3>2 DEF MainTypes, merge, build
  <2>5. CargoTypes' /\ SourceTypes' /\ DiskTypes'
    BY <2>2 DEF TypeInv, CargoTypes, SourceTypes, DiskTypes, build, world, disk
  <2>6. Spawned'
    <3>1. pc[m] \in Unspawned /\ label \notin Merging /\ cargo' = cargo
      BY <1>1, <2>1, <2>2 DEF Start, build
    <3>2. pc' = [pc EXCEPT ![m] = label] /\ pc \in [Main -> Label]
      BY <1>0, <2>1 DEF Goto, MainTypes
    <3> QED
      BY <3>1, <3>2 DEF TypeInv, Spawned
  <2> QED
    BY <2>4, <2>5, <2>6 DEF TypeInv
<1>2. CASE RmAnalysis(m)
  BY <1>2, GotoKeeps DEF RmAnalysis, TypeInv, DiskTypes, merge, disk
<1>3. CASE RemoveEntries(m)
  BY <1>3, GotoKeeps DEF RemoveEntries, TypeInv, DiskTypes, merge, disk, NoFiles
<1>4. CASE RemoveDir(m)
  BY <1>4, GotoKeeps DEF RemoveDir, TypeInv, DiskTypes, merge, disk
<1>5. CASE CreateDirAll(m)
  BY <1>5, GotoKeeps DEF CreateDirAll, TypeInv, DiskTypes, merge, disk
<1>6. CASE RmLog(m)
  BY <1>6, GotoKeeps DEF RmLog, TypeInv, DiskTypes, merge, disk
<1>7. CASE RemoveLog(m)
  BY <1>7, GotoKeeps DEF RemoveLog, TypeInv, DiskTypes, merge, disk
<1>8. CASE CreateLog(m)
  BY <1>8, GotoKeeps DEF CreateLog, TypeInv, DiskTypes, merge, disk
<1>9. CASE InitLogger(m)
  BY <1>9, GotoKeeps DEF InitLogger, TypeInv, DiskTypes, merge, disk
<1>10. CASE CreateDir(m)
  BY <1>10, GotoKeeps DEF CreateDir, TypeInv, DiskTypes, merge, disk
<1>11. CASE Spawn(m)
  BY <1>11, Plan DEF Spawn, Goto, TypeInv, MainTypes, CargoTypes, SourceTypes, DiskTypes, Spawned,
     merge, world, disk
<1>12. CASE Wait(m)
  BY <1>12, GotoKeeps DEF Wait, TypeInv, DiskTypes, merge, disk
<1>13. CASE ReadDir(m)
  BY <1>13 DEF ReadDir, Goto, TypeInv, MainTypes, CargoTypes, SourceTypes, DiskTypes, Spawned,
     build, world, disk
<1>14. CASE ReadJson(m)
  <2>1. PICK u \in todo[m] :
        /\ todo' = [todo EXCEPT ![m] = @ \ {u}]
        /\ IF u \in DOMAIN json /\ json[u].whole
           THEN v_fn' = [v_fn EXCEPT ![m] = @ \cup {json[u].entry}] /\ UNCHANGED pc
           ELSE Goto(m, "panicked") /\ UNCHANGED v_fn
    BY <1>14 DEF ReadJson
  <2>2. pc[m] = "read_json" /\ UNCHANGED <<build, world, disk, before>>
    BY <1>14 DEF ReadJson
  <2>3. u \in DOMAIN json => json[u].entry \in Entry
    BY <1>0 DEF DiskTypes
  <2>4. MainTypes'
    BY <1>0, <2>1, <2>2, <2>3 DEF MainTypes, Goto, build
  <2>5. CargoTypes' /\ SourceTypes' /\ DiskTypes'
    BY <2>2 DEF TypeInv, CargoTypes, SourceTypes, DiskTypes, build, world, disk
  <2>6. Spawned'
    BY <1>0, <2>1, <2>2 DEF TypeInv, MainTypes, Spawned, Goto, build
  <2> QED
    BY <2>4, <2>5, <2>6 DEF TypeInv
<1>15. CASE CreateResult(m)
  BY <1>15, GotoKeeps DEF CreateResult, TypeInv, DiskTypes, Spawned, Result, merge, disk
<1>16. CASE WriteResult(m)
  BY <1>16, GotoKeeps DEF WriteResult, TypeInv, DiskTypes, MainTypes, Spawned, Result, merge, disk
<1> QED
  BY <1>1, <1>2, <1>3, <1>4, <1>5, <1>6, <1>7, <1>8, <1>9, <1>10, <1>11, <1>12, <1>13, <1>14, <1>15, <1>16
     DEF MainStep

LEMMA CargoTypesKept ==
    ASSUME TypeInv, NEW m \in Main, CargoStep(m) \/ Interrupt(m)
    PROVE  TypeInv'
<1> USE DEF Label, Unspawned, Merging, Ended
<1>1. CASE Lock(m)
  BY <1>1, Plan DEF Lock, TypeInv, MainTypes, CargoTypes, SourceTypes, DiskTypes, Spawned,
     merge, world, disk
<1>2. CASE CargoEnds(m)
  BY <1>2, Plan DEF CargoEnds, TypeInv, MainTypes, CargoTypes, SourceTypes, DiskTypes, Spawned,
     merge, world, disk
<1>3. CASE Interrupt(m)
  <2>1. MainTypes' /\ SourceTypes' /\ DiskTypes'
    BY <1>3 DEF Interrupt, Goto, TypeInv, MainTypes, SourceTypes, DiskTypes, merge, disk
  <2>2. CargoTypes'
    BY <1>3, Plan DEF Interrupt, TypeInv, CargoTypes
  <2>3. Spawned'
    BY <1>3, Plan DEF Interrupt, Goto, TypeInv, MainTypes, CargoTypes, Spawned
  <2> QED
    BY <2>1, <2>2, <2>3 DEF TypeInv
<1> QED
  BY <1>1, <1>2, <1>3 DEF CargoStep

\* A driver's step that goes on, and the failure of one.
LEMMA ContinueKeeps ==
    ASSUME TypeInv, NEW u \in Unit, lock # None,
           NEW label \in {"collect", "create_dir_all", "create_json", "write_json", "codegen"},
           Continue(u, label)
    PROVE  MainTypes' /\ CargoTypes' /\ SourceTypes' /\ Spawned'
BY DEF Continue, TypeInv, MainTypes, CargoTypes, SourceTypes, Spawned, merge, world

LEMMA FailKeeps ==
    ASSUME TypeInv, NEW u \in Unit, lock # None, Fail(u)
    PROVE  TypeInv'
<1>1. lock \in Main /\ cargo[lock] \in {"building", "failing"}
  BY DEF TypeInv, CargoTypes
<1>2. MainTypes' /\ SourceTypes' /\ DiskTypes'
  BY DEF Fail, TypeInv, MainTypes, SourceTypes, DiskTypes, merge, world, disk
<1>3. CargoTypes'
  BY <1>1 DEF Fail, TypeInv, CargoTypes
<1>4. Spawned'
  BY <1>1 DEF Fail, TypeInv, CargoTypes, Spawned
<1> QED
  BY <1>2, <1>3, <1>4 DEF TypeInv

LEMMA UnitTypesKept ==
    ASSUME TypeInv, NEW u \in Unit, UnitStep(u)
    PROVE  TypeInv'
<1>0. DiskTypes /\ CargoTypes /\ MainTypes /\ SourceTypes /\ Spawned
  BY DEF TypeInv
<1>1. CASE Compile(u)
  BY <1>1 DEF Compile, TypeInv, MainTypes, CargoTypes, SourceTypes, DiskTypes, Spawned,
     merge, world, disk
<1>2. CASE WrapperLogs(u)
  BY <1>2, ContinueKeeps, FailKeeps DEF WrapperLogs, At, TypeInv, DiskTypes, disk
<1>3. CASE Collected(u)
  BY <1>3, ContinueKeeps, FailKeeps DEF Collected, At, TypeInv, DiskTypes, disk
<1>4. CASE DriverCreatesDir(u)
  BY <1>4, ContinueKeeps DEF DriverCreatesDir, At, TypeInv, DiskTypes
<1>5. CASE DriverCreatesJson(u)
  <2>1. lock \in Main /\ OwnEntry(u) \in Entry
    BY <1>0, <1>5, OwnEntryType DEF DriverCreatesJson, At, CargoTypes
  <2>2. Partial(OwnEntry(u)) \in [entry : Entry, whole : BOOLEAN]
    BY <2>1 DEF Partial
  <2>3. CASE dir
    <3>1. DiskTypes'
      BY <1>0, <1>5, <2>2, <2>3 DEF DriverCreatesJson, DiskTypes
    <3> QED
      BY <1>5, <2>3, <3>1, ContinueKeeps DEF DriverCreatesJson, At, TypeInv
  <2>4. CASE ~dir
    BY <1>5, <2>4, FailKeeps DEF DriverCreatesJson, At
  <2> QED
    BY <2>3, <2>4
<1>6. CASE DriverWritesJson(u)
  <2>1. lock \in Main /\ OwnEntry(u) \in Entry
    BY <1>0, <1>6, OwnEntryType DEF DriverWritesJson, At, CargoTypes
  <2>2. Whole(OwnEntry(u)) \in [entry : Entry, whole : BOOLEAN]
    BY <2>1 DEF Whole
  <2>3. DiskTypes'
    BY <1>0, <1>6, <2>2 DEF DriverWritesJson, DiskTypes
  <2> QED
    BY <1>6, <2>3, ContinueKeeps DEF DriverWritesJson, At, TypeInv
<1>7. CASE Codegen(u)
  <2>1. lock \in Main /\ OwnEntry(u) \in Entry /\ lock # None
    BY <1>0, <1>7, OwnEntryType DEF Codegen, At, CargoTypes
  <2>2. CASE Fail(u)
    BY <2>1, <2>2, FailKeeps
  <2>3. CASE ~Fail(u)
    <3>1. MainTypes'
      BY <1>0, <1>7, <2>1, <2>3 DEF Codegen, MainTypes, merge
    <3>2. CargoTypes'
      BY <1>0, <1>7, <2>3 DEF Codegen, CargoTypes
    <3>3. SourceTypes' /\ DiskTypes'
      BY <1>0, <1>7, <2>3 DEF Codegen, SourceTypes, DiskTypes, world, disk
    <3>4. Spawned'
      BY <1>0, <1>7, <2>3 DEF Codegen, Spawned, CargoTypes
    <3> QED
      BY <3>1, <3>2, <3>3, <3>4 DEF TypeInv
  <2> QED
    BY <2>2, <2>3
<1> QED
  BY <1>1, <1>2, <1>3, <1>4, <1>5, <1>6, <1>7 DEF UnitStep

LEMMA WorldTypesKept ==
    ASSUME TypeInv, (\E u \in Unit : Edit(u)) \/ Clean
    PROVE  TypeInv'
<1>1. ASSUME NEW u \in Unit, Edit(u)
      PROVE  TypeInv'
  <2>1. changes' = changes + 1 /\ changes < MaxChanges /\ version' = [version EXCEPT ![u] = @ + 1]
    BY <1>1 DEF Edit
  <2>2. SourceTypes'
    BY <1>1, <2>1, Plan DEF Edit, TypeInv, SourceTypes
  <2> QED
    BY <1>1, <2>2 DEF Edit, TypeInv, MainTypes, CargoTypes, DiskTypes, Spawned, merge, disk
<1>2. CASE Clean
  <2>1. SourceTypes'
    BY <1>2, Plan DEF Clean, TypeInv, SourceTypes
  <2>2. DiskTypes'
    BY <1>2 DEF Clean, DiskTypes, NoFiles, NoResult, Result
  <2> QED
    BY <1>2, <2>1, <2>2 DEF Clean, TypeInv, MainTypes, CargoTypes, Spawned, merge
<1> QED
  BY <1>1, <1>2

LEMMA TypeInvKept ==
    ASSUME TypeInv, [Next]_vars
    PROVE  TypeInv'
<1>1. CASE UNCHANGED vars
  BY <1>1 DEF vars, merge, build, world, disk, TypeInv, MainTypes, CargoTypes, SourceTypes, DiskTypes, Spawned
<1> QED
  BY <1>1, MainTypesKept, CargoTypesKept, UnitTypesKept, WorldTypesKept DEF Next

LEMMA TypeInvariant == Spec => []TypeInv
BY InitTypes, TypeInvKept, PTL DEF Spec

-----------------------------------------------------------------------------
(* Stale files.  An entry, once made, is not made again: a unit is compiled *)
(* once by one cargo, and writes one file.                                  *)

OfUnit(e, m, u) == e.by = m /\ e.unit = u

\* No file has, and no invocation has found, an entry of unit u made by m.
NoneYet(m, u) ==
    /\ \A x \in DOMAIN json : ~ OfUnit(json[x].entry, m, u)
    /\ \A n \in Main : \A e \in before[n].entries : ~ OfUnit(e, m, u)

Cleared ==
    {"rm_dir", "create_dir_all", "rm_log", "remove_log", "create_log", "init_logger",
     "recreate_entries", "recreate_dir", "create_dir", "spawn", "wait", "read_dir", "read_json"}

\* The work that is still to be done has left no entry yet.
Ahead ==
    /\ \A m \in Main : pc[m] \in Unspawned \/ cargo[m] = "waiting" => \A u \in Unit : NoneYet(m, u)
    /\ lock # None => \A u \in Unit :
        /\ cargo[lock] = "building" /\ u \notin fresh /\ driver[u] = "none" => NoneYet(lock, u)
        /\ driver[u] \in {"init_logger", "collect", "create_dir_all", "create_json"} => NoneYet(lock, u)
        /\ driver[u] = "write_json" /\ u \in DOMAIN json => json[u].entry = OwnEntry(u)

\* What an invocation met is gone when it has emptied the directory.
Gone ==
    \A m \in Main :
        /\ pc[m] \in Cleared => \A x \in DOMAIN json : json[x].entry \notin before[m].entries
        /\ v_fn[m] \cap before[m].entries = {}
        /\ pc[m] = "start" => v_fn[m] = {} /\ before[m].entries = {}

StaleInv == Ahead /\ Gone

LEMMA InitStale == Init => StaleInv
BY DEF Init, NoFiles, StaleInv, Ahead, Gone, NoneYet, Cleared

\* The files and what has been found of them only get fewer.
Fewer ==
    /\ \A x \in DOMAIN json' : x \in DOMAIN json /\ json'[x].entry = json[x].entry
    /\ \A n \in Main : \A e \in before'[n].entries :
        e \in before[n].entries \/ \E x \in DOMAIN json : e = json[x].entry

LEMMA NoneYetKept ==
    ASSUME Fewer
    PROVE  \A m, u : NoneYet(m, u) => NoneYet(m, u)'
BY DEF Fewer, NoneYet

LEMMA MainStale ==
    ASSUME TypeInv, StaleInv, NEW m \in Main, Start(m) \/ MainStep(m)
    PROVE  StaleInv'
<1>0. /\ pc \in [Main -> Label] /\ before \in [Main -> Before] /\ v_fn \in [Main -> SUBSET Entry]
      /\ cargo \in [Main -> {"none", "waiting", "building", "failing", "ok", "failed"}]
      /\ DiskTypes /\ Spawned
  BY DEF TypeInv, MainTypes, CargoTypes
<1>1. UNCHANGED <<lock, driver, fresh, version>> /\ \A n \in Main : cargo'[n] # cargo[n] => pc[n] = "spawn"
  BY <1>0 DEF Start, MainStep, RmAnalysis, RemoveEntries, RemoveDir, CreateDirAll, RmLog, RemoveLog, CreateLog,
     InitLogger, CreateDir, Spawn, Wait, ReadDir, ReadJson, CreateResult, WriteResult, build, world
<1>2. /\ \A n \in Main \ {m} : pc'[n] = pc[n] /\ v_fn'[n] = v_fn[n] /\ before'[n] = before[n]
      /\ pc'[m] \in Unspawned => pc[m] \in Unspawned
      /\ cargo'[m] = "waiting" => cargo[m] = "waiting" \/ pc[m] \in Unspawned
      /\ pc'[m] # "start"
  BY <1>0
  DEF Start, MainStep, RmAnalysis, RemoveEntries, RemoveDir, CreateDirAll, RmLog, RemoveLog, CreateLog,
     InitLogger, CreateDir, Spawn, Wait, ReadDir, ReadJson, CreateResult, WriteResult, build, merge, Goto, Unspawned
<1>3. Fewer
  <2>1. CASE Start(m)
    BY <1>0, <2>1 DEF Start, disk, Fewer, Entries
  <2>2. CASE RemoveEntries(m)
    BY <1>0, <2>2 DEF RemoveEntries, Fewer, NoFiles
  <2>3. CASE ~ Start(m) /\ ~ RemoveEntries(m)
    <3>1. json' = json /\ before' = before
      BY <2>3
      DEF MainStep, RmAnalysis, RemoveDir, CreateDirAll, RmLog, RemoveLog, CreateLog, InitLogger, CreateDir,
          Spawn, Wait, ReadDir, ReadJson, CreateResult, WriteResult, disk
    <3> QED
      BY <3>1 DEF Fewer
  <2> QED
    BY <2>1, <2>2, <2>3
<1>4. lock # None /\ cargo'[lock] = "building" => cargo[lock] = "building"
  <2>1. lock # None => cargo[lock] \in {"building", "failing"} /\ lock \in Main
    BY DEF TypeInv, CargoTypes
  <2> QED
    BY <1>0, <1>1, <2>1 DEF Spawned, Unspawned
<1>5. Ahead'
  <2>1. \A n \in Main : pc'[n] \in Unspawned \/ cargo'[n] = "waiting" => pc[n] \in Unspawned \/ cargo[n] = "waiting"
    BY <1>1, <1>2 DEF Unspawned
  <2>2. \A u \in Unit : u \in DOMAIN json' => u \in DOMAIN json /\ json'[u].entry = json[u].entry
    BY <1>3 DEF Fewer
  <2>3. \A u \in Unit : OwnEntry(u)' = OwnEntry(u)
    BY <1>1 DEF OwnEntry
  <2>4. \A n \in Main : pc'[n] \in Unspawned \/ cargo'[n] = "waiting" => \A u \in Unit : NoneYet(n, u)'
    BY <1>3, <2>1, NoneYetKept DEF StaleInv, Ahead
  <2>5. lock' # None => \A u \in Unit :
        /\ cargo'[lock'] = "building" /\ u \notin fresh' /\ driver'[u] = "none" => NoneYet(lock, u)'
        /\ driver'[u] \in {"init_logger", "collect", "create_dir_all", "create_json"} => NoneYet(lock, u)'
        /\ driver'[u] = "write_json" /\ u \in DOMAIN json' => json'[u].entry = OwnEntry(u)'
    <3>1. \A u \in Unit : NoneYet(lock, u) => NoneYet(lock, u)'
      <4>1. PICK l : l = lock
        OBVIOUS
      <4>2. \A u \in Unit : NoneYet(l, u) => NoneYet(l, u)'
        BY <1>3, NoneYetKept
      <4>3. \A u : NoneYet(lock, u) = NoneYet(l, u) /\ NoneYet(lock, u)' = NoneYet(l, u)'
        BY <1>1, <4>1 DEF NoneYet
      <4> QED
        BY <4>2, <4>3
    <3> QED
      BY <1>1, <1>4, <2>2, <2>3, <3>1 DEF StaleInv, Ahead
  <2> QED
    BY <2>4, <2>5 DEF Ahead
<1>6. Gone'
  <2>1. \A n \in Main \ {m} :
        /\ pc'[n] \in Cleared => \A x \in DOMAIN json' : json'[x].entry \notin before'[n].entries
        /\ v_fn'[n] \cap before'[n].entries = {}
        /\ pc'[n] = "start" => v_fn'[n] = {} /\ before'[n].entries = {}
    BY <1>2, <1>3 DEF StaleInv, Gone, Fewer
  <2>2. ASSUME ~ Start(m), pc'[m] \in Cleared
        PROVE  \A x \in DOMAIN json' : json'[x].entry \notin before'[m].entries
    <3>1. before' = before
      BY <2>2
      DEF MainStep, RmAnalysis, RemoveEntries, RemoveDir, CreateDirAll, RmLog, RemoveLog, CreateLog, InitLogger,
          CreateDir, Spawn, Wait, ReadDir, ReadJson, CreateResult, WriteResult
    <3>2. pc[m] \in Cleared \/ DOMAIN json' = {}
      BY <1>0, <2>2
      DEF MainStep, RmAnalysis, RemoveEntries, RemoveDir, CreateDirAll, RmLog, RemoveLog, CreateLog, InitLogger,
          CreateDir, Spawn, Wait, ReadDir, ReadJson, CreateResult, WriteResult, Goto, Cleared, DiskTypes, disk, NoFiles
    <3> QED
      BY <1>3, <3>1, <3>2 DEF StaleInv, Gone, Fewer
  <2>3. CASE Start(m)
    BY <1>0, <2>1, <2>3 DEF Start, Goto, merge, StaleInv, Gone, Cleared
  <2>4. CASE ~ Start(m) /\ ~ ReadJson(m)
    <3>1. v_fn' = v_fn /\ before' = before
      BY <2>4
      DEF MainStep, RmAnalysis, RemoveEntries, RemoveDir, CreateDirAll, RmLog, RemoveLog, CreateLog, InitLogger,
          CreateDir, Spawn, Wait, ReadDir, CreateResult, WriteResult, merge
    <3> QED
      BY <1>2, <2>1, <2>2, <2>4, <3>1 DEF StaleInv, Gone
  <2>5. CASE ReadJson(m)
    <3>1. pc[m] \in Cleared /\ before' = before /\ json' = json /\ ~ Start(m)
      BY <2>5 DEF ReadJson, Start, Cleared, disk
    <3>2. v_fn'[m] = v_fn[m] \/ \E u \in DOMAIN json : v_fn'[m] = v_fn[m] \cup {json[u].entry}
      BY <1>0, <2>5 DEF ReadJson
    <3>3. v_fn'[m] \cap before'[m].entries = {}
      BY <3>1, <3>2 DEF StaleInv, Gone
    <3> QED
      BY <1>2, <2>1, <2>2, <3>1, <3>3 DEF Gone
  <2> QED
    BY <2>3, <2>4, <2>5
<1> QED
  BY <1>5, <1>6 DEF StaleInv

LEMMA CargoStale ==
    ASSUME TypeInv, StaleInv, NEW m \in Main, CargoStep(m) \/ Interrupt(m)
    PROVE  StaleInv'
<1>0. /\ pc \in [Main -> Label] /\ CargoTypes /\ None \notin Main
      /\ cargo \in [Main -> {"none", "waiting", "building", "failing", "ok", "failed"}]
  BY Plan DEF TypeInv, MainTypes, CargoTypes
<1>1. UNCHANGED <<json, before, v_fn, fresh, version>>
  BY DEF CargoStep, Lock, CargoEnds, Interrupt, merge, disk, world
<1>2. Fewer
  BY <1>1 DEF Fewer
<1>3. /\ \A n \in Main : pc'[n] = pc[n] \/ pc'[n] \notin Cleared \cup {"start"}
      /\ \A n \in Main : pc'[n] \in Unspawned \/ cargo'[n] = "waiting" => pc[n] \in Unspawned \/ cargo[n] = "waiting"
  BY <1>0 DEF CargoStep, Lock, CargoEnds, Interrupt, Goto, Cleared, Unspawned
<1>4. Gone'
  BY <1>1, <1>3 DEF StaleInv, Gone
<1>5. \A n, u : NoneYet(n, u) => NoneYet(n, u)'
  BY <1>2, NoneYetKept
<1>6. lock' # None => \/ lock' = lock /\ driver' = driver /\ cargo'[lock] = cargo[lock]
                      \/ lock' = m /\ cargo[m] = "waiting" /\ \A u \in Unit : driver'[u] = "none"
  BY <1>0 DEF CargoStep, Lock, CargoEnds, Interrupt, CargoTypes
<1>7. Ahead'
  <2>1. \A n \in Main : pc'[n] \in Unspawned \/ cargo'[n] = "waiting" => \A u \in Unit : NoneYet(n, u)'
    BY <1>3, <1>5 DEF StaleInv, Ahead
  <2>2. PICK l : l = lock'
    OBVIOUS
  <2>3. l # None => \A u \in Unit :
        /\ cargo'[l] = "building" /\ u \notin fresh' /\ driver'[u] = "none" => NoneYet(l, u)
        /\ driver'[u] \in {"init_logger", "collect", "create_dir_all", "create_json"} => NoneYet(l, u)
        /\ driver'[u] = "write_json" /\ u \in DOMAIN json' => json'[u].entry = OwnEntry(u)'
    <3>1. CASE lock' # None /\ lock' = lock /\ driver' = driver /\ cargo'[lock] = cargo[lock]
      <4>1. \A u : OwnEntry(u)' = OwnEntry(u)
        BY <1>1, <3>1 DEF OwnEntry
      <4> QED
        BY <1>1, <2>2, <3>1, <4>1 DEF StaleInv, Ahead
    <3>2. CASE lock' = m /\ cargo[m] = "waiting" /\ \A u \in Unit : driver'[u] = "none"
      BY <2>2, <3>2 DEF StaleInv, Ahead
    <3> QED
      BY <1>6, <2>2, <3>1, <3>2
  <2>4. \A u : NoneYet(lock, u)' = NoneYet(l, u)'
    BY <2>2 DEF NoneYet
  <2> QED
    BY <1>5, <2>1, <2>2, <2>3, <2>4 DEF Ahead
<1> QED
  BY <1>4, <1>7 DEF StaleInv

\* A step of a driver that adds no file.
LEMMA DriverStale ==
    ASSUME TypeInv, StaleInv, lock # None, NEW u \in Unit,
           UNCHANGED <<pc, v_fn, before, lock, version>>,
           Fewer,
           \A m \in Main : cargo'[m] = cargo[m] \/ cargo'[m] = "failing",
           fresh \subseteq fresh',
           \A x \in Unit \ {u} : driver'[x] = driver[x],
           driver'[u] \in {"init_logger", "collect", "create_dir_all", "create_json"} => NoneYet(lock, u),
           driver'[u] # "write_json" \/ driver' = driver,
           driver'[u] = "none" => u \in fresh' \/ cargo'[lock] = "failing"
    PROVE  StaleInv'
<1>1. \A m, x : NoneYet(m, x) => NoneYet(m, x)'
  BY NoneYetKept
<1>2. \A x : OwnEntry(x)' = OwnEntry(x)
  BY DEF OwnEntry
<1>3. Gone'
  BY DEF StaleInv, Gone, Fewer
<1>4. lock \in Main
  BY DEF TypeInv, CargoTypes
<1>5. \A m \in Main : pc'[m] \in Unspawned \/ cargo'[m] = "waiting" => \A x \in Unit : NoneYet(m, x)'
  BY <1>1 DEF StaleInv, Ahead
<1>6. ASSUME NEW x \in Unit
      PROVE  /\ cargo'[lock] = "building" /\ x \notin fresh' /\ driver'[x] = "none" => NoneYet(lock, x)
             /\ driver'[x] \in {"init_logger", "collect", "create_dir_all", "create_json"} => NoneYet(lock, x)
             /\ driver'[x] = "write_json" /\ x \in DOMAIN json' => json'[x].entry = OwnEntry(x)'
  <2>1. cargo'[lock] = "building" => cargo[lock] = "building"
    BY <1>4
  <2>2. x \in DOMAIN json' => x \in DOMAIN json /\ json'[x].entry = json[x].entry
    BY DEF Fewer
  <2> QED
    BY <1>2, <2>1, <2>2 DEF StaleInv, Ahead
<1>7. \A x \in Unit : NoneYet(lock, x) => NoneYet(lock, x)'
  <2>1. PICK l : l = lock
    OBVIOUS
  <2>2. \A x : NoneYet(l, x) = NoneYet(lock, x) /\ NoneYet(l, x)' = NoneYet(lock, x)'
    BY <2>1 DEF NoneYet
  <2> QED
    BY <1>1, <2>2
<1> QED
  BY <1>3, <1>5, <1>6, <1>7 DEF StaleInv, Ahead

LEMMA UnitStale ==
    ASSUME TypeInv, StaleInv, NEW u \in Unit, UnitStep(u)
    PROVE  StaleInv'
<1>0. /\ lock # None /\ lock \in Main
      /\ cargo \in [Main -> {"none", "waiting", "building", "failing", "ok", "failed"}]
      /\ driver \in [Unit -> {"none", "init_logger", "collect", "create_dir_all", "create_json",
                              "write_json", "codegen"}]
      /\ \A m \in Main : cargo[m] \in {"building", "failing"} <=> lock = m
      /\ DiskTypes
  BY DEF TypeInv, CargoTypes, UnitStep, Compile, WrapperLogs, Collected, DriverCreatesDir, DriverCreatesJson,
         DriverWritesJson, Codegen, At
<1>1. UNCHANGED <<pc, v_fn, before, lock, version>>
  BY DEF UnitStep, Compile, WrapperLogs, Collected, DriverCreatesDir, DriverCreatesJson, DriverWritesJson,
         Codegen, Continue, Fail, merge, world
<1>2. CASE Compile(u)
  <2>1. NoneYet(lock, u) /\ driver'[u] = "init_logger"
    BY <1>0, <1>2 DEF Compile, StaleInv, Ahead
  <2> QED
    BY <1>0, <1>1, <1>2, <2>1, DriverStale DEF Compile, Fewer, disk
<1>3. ASSUME Fail(u)
      PROVE  StaleInv'
  BY <1>0, <1>1, <1>3, DriverStale DEF Fail, Fewer, disk
<1>4. CASE (WrapperLogs(u) \/ Collected(u) \/ DriverCreatesDir(u)) /\ ~ Fail(u)
  <2>1. json' = json /\ fresh' = fresh /\ cargo' = cargo
    BY <1>4 DEF WrapperLogs, Collected, DriverCreatesDir, Continue, disk
  <2>2. /\ driver[u] \in {"init_logger", "collect", "create_dir_all"}
        /\ driver'[u] \in {"collect", "create_dir_all", "create_json", "codegen"}
        /\ \A x \in Unit \ {u} : driver'[x] = driver[x]
    BY <1>0, <1>4 DEF WrapperLogs, Collected, DriverCreatesDir, Continue, At
  <2>3. NoneYet(lock, u)
    BY <1>0, <2>2 DEF StaleInv, Ahead
  <2> QED
    BY <1>0, <1>1, <2>1, <2>2, <2>3, DriverStale DEF Fewer
<1>5. CASE DriverCreatesJson(u) /\ ~ Fail(u)
  <2>1. /\ DOMAIN json' = DOMAIN json \cup {u}
        /\ \A x \in DOMAIN json' : json'[x] = IF x = u THEN Partial(OwnEntry(u)) ELSE json[x]
        /\ driver[u] = "create_json" /\ driver' = [driver EXCEPT ![u] = "write_json"]
        /\ fresh' = fresh /\ cargo' = cargo
    BY <1>5 DEF DriverCreatesJson, At, Continue
  <2>2. OfUnit(OwnEntry(u), lock, u) /\ json'[u].entry = OwnEntry(u)
    BY <2>1 DEF OfUnit, OwnEntry, Partial
  <2>3. NoneYet(lock, u)
    BY <1>0, <2>1 DEF StaleInv, Ahead
  <2>4. \A x \in DOMAIN json' : x = u \/ (x \in DOMAIN json /\ json'[x] = json[x])
    BY <2>1
  <2>5. Gone'
    <3>1. \A m \in Main : OwnEntry(u) \notin before[m].entries
      BY <2>2, <2>3 DEF NoneYet
    <3> QED
      BY <1>1, <2>2, <2>4, <3>1 DEF StaleInv, Gone
  <2>6. ASSUME NEW m \in Main, NEW x \in Unit, NoneYet(m, x), m # lock \/ x # u
        PROVE  NoneYet(m, x)'
    <3>1. ~ OfUnit(OwnEntry(u), m, x)
      BY <2>6 DEF OfUnit, OwnEntry
    <3> QED
      BY <1>1, <2>2, <2>4, <2>6, <3>1 DEF NoneYet
  <2>7. \A m \in Main : pc[m] \in Unspawned \/ cargo[m] = "waiting" => m # lock
    BY <1>0 DEF TypeInv, Spawned
  <2>8. \A x \in Unit : OwnEntry(x)' = OwnEntry(x)
    BY <1>1 DEF OwnEntry
  <2>9. \A m \in Main : pc'[m] \in Unspawned \/ cargo'[m] = "waiting" => \A x \in Unit : NoneYet(m, x)'
    BY <1>1, <2>1, <2>6, <2>7 DEF StaleInv, Ahead
  <2>10. PICK l \in Main : l = lock
    BY <1>0
  <2>11. ASSUME NEW x \in Unit
         PROVE  /\ cargo'[l] = "building" /\ x \notin fresh' /\ driver'[x] = "none" => NoneYet(l, x)'
                /\ driver'[x] \in {"init_logger", "collect", "create_dir_all", "create_json"} => NoneYet(l, x)'
                /\ driver'[x] = "write_json" /\ x \in DOMAIN json' => json'[x].entry = OwnEntry(x)'
    <3>1. CASE x = u
      BY <1>0, <2>1, <2>2, <2>8, <3>1
    <3>2. CASE x # u
      <4>1. driver'[x] = driver[x]
        BY <1>0, <2>1, <3>2
      <4>2. NoneYet(l, x) => NoneYet(l, x)'
        BY <2>6, <3>2
      <4>3. /\ cargo[l] = "building" /\ x \notin fresh /\ driver[x] = "none" => NoneYet(l, x)
            /\ driver[x] \in {"init_logger", "collect", "create_dir_all", "create_json"} => NoneYet(l, x)
            /\ driver[x] = "write_json" /\ x \in DOMAIN json => json[x].entry = OwnEntry(x)
        BY <1>0, <2>10 DEF StaleInv, Ahead
      <4> QED
        BY <2>1, <2>4, <2>8, <3>2, <4>1, <4>2, <4>3
    <3> QED
      BY <3>1, <3>2
  <2>12. \A x : NoneYet(l, x)' = NoneYet(lock, x)'
    BY <1>1, <2>10 DEF NoneYet
  <2> QED
    BY <1>1, <2>5, <2>9, <2>10, <2>11, <2>12 DEF StaleInv, Ahead
<1>6. CASE DriverWritesJson(u)
  <2>1. /\ json' = IF u \in DOMAIN json THEN [json EXCEPT ![u] = Whole(OwnEntry(u))] ELSE json
        /\ driver[u] = "write_json" /\ driver' = [driver EXCEPT ![u] = "codegen"]
        /\ fresh' = fresh /\ cargo' = cargo
    BY <1>6 DEF DriverWritesJson, At, Continue
  <2>2. u \in DOMAIN json => json[u].entry = OwnEntry(u)
    BY <1>0, <2>1 DEF StaleInv, Ahead
  <2>3. Fewer
    BY <1>1, <2>1, <2>2 DEF Fewer, Whole
  <2> QED
    BY <1>0, <1>1, <2>1, <2>3, DriverStale
<1>7. CASE Codegen(u) /\ ~ Fail(u)
  BY <1>0, <1>1, <1>7, DriverStale DEF Codegen, Fewer, disk
<1> QED
  BY <1>2, <1>3, <1>4, <1>5, <1>6, <1>7 DEF UnitStep

LEMMA WorldStale ==
    ASSUME TypeInv, StaleInv, (\E u \in Unit : Edit(u)) \/ Clean
    PROVE  StaleInv'
<1>1. UNCHANGED <<pc, v_fn, before, cargo, lock, driver>> /\ lock = None
  BY DEF Edit, Clean, Quiet, merge
<1>2. Fewer
  BY <1>1 DEF Edit, Clean, disk, Fewer, NoFiles
<1>3. \A m, x : NoneYet(m, x) => NoneYet(m, x)'
  BY <1>2, NoneYetKept
<1> QED
  BY <1>1, <1>2, <1>3 DEF StaleInv, Ahead, Gone, Fewer

LEMMA StaleKept ==
    ASSUME TypeInv, StaleInv, [Next]_vars
    PROVE  StaleInv'
<1>1. CASE UNCHANGED vars
  BY <1>1 DEF vars, merge, build, world, disk, StaleInv, Ahead, Gone, NoneYet, OwnEntry
<1> QED
  BY <1>1, MainStale, CargoStale, UnitStale, WorldStale DEF Next

-----------------------------------------------------------------------------
(* Theorems for any use of the target directory, shared or not. *)

\* Every variable keeps its type; only the holder of the lock compiles, a
\* file in the analysis directory means that the directory is there, and
\* nothing is merged before cargo has succeeded.
THEOREM CargoTypeCorrect == Spec => []TypeOK
BY TypeInvariant, TypeInvImplies, PTL

\* No invocation merges an entry that was there when it started, however many
\* invocations share the directory, wherever they are killed and whichever
\* builds outlive them.  Entries that such a build adds after that start are
\* not among them.
THEOREM StaleNeverMerged == Spec => []NoStaleEntries
<1>1. Spec => []StaleInv
  BY InitStale, StaleKept, TypeInvariant, PTL DEF Spec
<1>2. StaleInv => NoStaleEntries
  BY DEF StaleInv, Gone, NoStaleEntries
<1> QED
  BY <1>1, <1>2, PTL

-----------------------------------------------------------------------------
(* Invocations that follow each other, and die with their cargo.            *)

MyEntry(m, u) == [unit |-> u, version |-> version[u], by |-> m]

\* One invocation runs at a time, and cargo for none but that one.
Solo ==
    /\ \A m, n \in Main : Running(m) /\ Running(n) => m = n
    /\ \A m \in Main : cargo[m] \in {"waiting", "building", "failing"} => pc[m] = "wait"

\* What an invocation has to find on the disk where it is.
Place(m) ==
    /\ pc[m] \in {"rm_entries", "spawn", "wait", "read_dir", "read_json", "write_result"} => dir
    /\ pc[m] \in {"remove_log", "init_logger"} => log
    /\ pc[m] \in {"rm_dir", "recreate_dir"} => DOMAIN json = {}
    /\ pc[m] = "create_dir" => ~ dir
    /\ pc[m] = "spawn" \/ cargo[m] = "waiting" => DOMAIN json = {} /\ built[m] = {}

\* Unless the build has failed, the files are those of the units the
\* invocation has compiled, and whole but for those being written.
Faithful(m) ==
    /\ \A e \in built[m] : e.unit \in fresh /\ e = MyEntry(m, e.unit)
    /\ \A u \in DOMAIN json :
        /\ u \notin Plain /\ json[u].entry = MyEntry(m, u)
        /\ driver[u] # "write_json" => json[u].whole
        /\ driver[u] \in {"write_json", "codegen"} \/ MyEntry(m, u) \in built[m]
    /\ \A u \in Unit \ Plain :
        driver[u] \in {"write_json", "codegen"} \/ MyEntry(m, u) \in built[m] => u \in DOMAIN json
    /\ \A u \in Plain : driver[u] \in {"none", "init_logger", "codegen"}

\* What has been read, and what is left to read, is all there is.
Reading(m) ==
    /\ pc[m] \in Unspawned \cup {"wait", "read_dir"} => v_fn[m] = {}
    /\ pc[m] = "read_json" =>
        /\ todo[m] \subseteq DOMAIN json
        /\ \A u \in DOMAIN json : u \in todo[m] \/ json[u].entry \in v_fn[m]
    /\ pc[m] = "write_result" =>
        /\ \A u \in DOMAIN json : json[u].entry \in v_fn[m]
        /\ result.entries = {}
    /\ \A e \in v_fn[m] : \E u \in DOMAIN json : e = json[u].entry

\* What is fresh was so before, or this invocation has compiled it.
Compiled(m) ==
    /\ \A u \in fresh : u \in before[m].fresh \/ MyEntry(m, u) \in built[m]
    /\ cargo[m] = "ok" => fresh = Unit

Exact(m) ==
    pc[m] = "ok" /\ result.by = m => result.whole /\ result.entries = {e \in built[m] : e.unit \notin Plain}

Alone(m) ==
    /\ pc[m] # "panicked"
    /\ pc[m] = "start" => v_fn[m] = {}
    /\ pc[m] \in Unspawned => built[m] = {}
    /\ Running(m) =>
        /\ Place(m) /\ Reading(m) /\ Compiled(m)
        /\ cargo[m] \in {"building", "ok"} => Faithful(m)
        /\ pc[m] # "write_result" => result = before[m].result
    /\ Exact(m)

SoloInv == Solo /\ \A m \in Main : Alone(m)

LEMMA InitSolo == Init => SoloInv
<1> SUFFICES ASSUME Init
             PROVE  SoloInv
  OBVIOUS
<1>1. \A m \in Main : ~ Running(m) /\ pc[m] = "start"
  BY DEF Init, Running
<1>2. \A m \in Main : Alone(m)
  BY <1>1 DEF Init, Alone, Exact
<1> QED
  BY <1>1, <1>2 DEF Init, SoloInv, Solo

\* The lock is the running invocation's, if anyone's.
LEMMA LockIsOwn ==
    ASSUME TypeInv, SoloInv, NEW m \in Main, Running(m)
    PROVE  /\ lock \in {m, None} /\ \A n \in Main \ {m} : ~ Running(n)
           /\ lock = m => pc[m] = "wait" /\ cargo[m] \in {"building", "failing"}
           /\ lock = None => \A u \in Unit : driver[u] = "none"
<1>1. lock # None => lock \in Main /\ cargo[lock] \in {"building", "failing"}
  BY DEF TypeInv, CargoTypes
<1>2. lock # None => pc[lock] = "wait" /\ Running(lock)
  BY <1>1 DEF SoloInv, Solo, Running, Ended
<1>3. (\A n \in Main \ {m} : ~ Running(n)) /\ (lock # None => lock = m)
  BY <1>1, <1>2 DEF SoloInv, Solo
<1> QED
  BY <1>1, <1>2, <1>3, Plan DEF TypeInv, CargoTypes

\* A step of the running invocation, of its cargo or of one of its drivers
\* concerns no other one.
LEMMA OthersAlone ==
    ASSUME SoloInv, NEW m \in Main,
           \A n \in Main \ {m} : /\ ~ Running(n)
                                 /\ UNCHANGED <<pc[n], built[n], v_fn[n], cargo[n]>>,
           result' = result \/ result'.by = m,
           cargo'[m] \in {"waiting", "building", "failing"} => pc'[m] = "wait",
           Alone(m)'
    PROVE  SoloInv'
<1>1. \A n \in Main \ {m} : ~ Running(n)'
  BY DEF Running
<1>2. Solo'
  BY <1>1 DEF SoloInv, Solo
<1>3. \A n \in Main \ {m} : Exact(n)'
  BY DEF SoloInv, Alone, Exact
<1>4. \A n \in Main \ {m} : Alone(n)'
  BY <1>1, <1>3 DEF SoloInv, Alone
<1> QED
  BY <1>2, <1>4 DEF SoloInv

LEMMA StartAlone ==
    ASSUME Exclusive, TypeInv, SoloInv, NEW m \in Main, Start(m)
    PROVE  SoloInv'
<1>0. PICK label \in {"rm_analysis", "declined"} : pc' = [pc EXCEPT ![m] = label]
  BY DEF Start, Goto
<1>1. /\ \A n \in Main : ~ Running(n)
      /\ pc[m] = "start" /\ pc \in [Main -> Label]
      /\ before' = [before EXCEPT ![m] = [fresh |-> fresh, result |-> result, entries |-> Entries]]
      /\ before \in [Main -> Before]
      /\ UNCHANGED <<todo, v_fn, cargo, lock, driver, fresh, built, version, dir, json, log, result>>
  BY DEF Start, TypeInv, MainTypes, merge, build, world, disk
<1>2. pc'[m] \in {"rm_analysis", "declined"} /\ cargo'[m] = "none"
  BY <1>0, <1>1 DEF TypeInv, Spawned, Unspawned
<1>3. v_fn'[m] = {} /\ built'[m] = {}
  BY <1>1 DEF SoloInv, Alone, Unspawned
<1>4. Place(m)' /\ Reading(m)' /\ Exact(m)'
  BY <1>2, <1>3 DEF Place, Reading, Exact
<1>5. Compiled(m)' /\ result' = before'[m].result
  BY <1>1, <1>2 DEF Compiled
<1>6. Alone(m)'
  BY <1>2, <1>3, <1>4, <1>5 DEF Alone, Unspawned
<1> QED
  BY <1>0, <1>1, <1>2, <1>6, OthersAlone

\* The steps that prepare the directory and the log.
LEMMA PreparingAlone ==
    ASSUME TypeInv, SoloInv, NEW m \in Main, pc[m] \in Unspawned \ {"start"},
           NEW label \in (Unspawned \cup {"declined"}) \ {"start"}, Goto(m, label),
           UNCHANGED <<merge, build, version, result, before>>,
           Place(m)'
    PROVE  SoloInv'
<1>1. pc' = [pc EXCEPT ![m] = label] /\ pc \in [Main -> Label] /\ pc'[m] = label
  BY DEF Goto, TypeInv, MainTypes
<1>2. Running(m) /\ pc[m] \notin {"write_result", "ok", "panicked"}
  BY DEF Running, Ended, Unspawned
<1>3. (\A n \in Main \ {m} : ~ Running(n)) /\ cargo[m] = "none"
  BY <1>2, LockIsOwn DEF TypeInv, Spawned
<1>4. v_fn'[m] = {} /\ built'[m] = {} /\ result' = before'[m].result /\ cargo'[m] = "none"
  BY <1>2, <1>3 DEF SoloInv, Alone, Reading, merge, build
<1>5. Reading(m)' /\ Exact(m)'
  BY <1>1, <1>4 DEF Reading, Exact, Unspawned
<1>6. Compiled(m)'
  BY <1>2, <1>4 DEF SoloInv, Alone, Compiled, MyEntry, build
<1>7. Alone(m)'
  BY <1>1, <1>4, <1>5, <1>6 DEF Alone, Unspawned
<1> QED
  BY <1>1, <1>3, <1>4, <1>7, OthersAlone DEF merge, build

LEMMA PrepareAlone ==
    ASSUME TypeInv, SoloInv, NEW m \in Main,
           \/ RmAnalysis(m) \/ RemoveEntries(m) \/ RemoveDir(m) \/ CreateDirAll(m)
           \/ RmLog(m) \/ RemoveLog(m) \/ CreateLog(m) \/ InitLogger(m) \/ CreateDir(m)
    PROVE  SoloInv'
<1> USE DEF Unspawned
<1>0. DiskTypes /\ pc \in [Main -> Label] /\ pc[m] \in Unspawned \ {"start"}
  BY DEF TypeInv, MainTypes, RmAnalysis, RemoveEntries, RemoveDir, CreateDirAll, RmLog, RemoveLog, CreateLog,
         InitLogger, CreateDir
<1>1. Running(m) /\ cargo[m] = "none" /\ built[m] = {}
  BY <1>0 DEF TypeInv, Spawned, SoloInv, Alone, Running, Ended
<1>2. Place(m)
  BY <1>1 DEF SoloInv, Alone
<1>3. CASE RmAnalysis(m)
  BY <1>0, <1>1, <1>3, PreparingAlone DEF RmAnalysis, Goto, Place, build, world, disk
<1>4. CASE RemoveEntries(m)
  BY <1>0, <1>1, <1>2, <1>4, PreparingAlone DEF RemoveEntries, Goto, Place, build, world, NoFiles
<1>5. CASE RemoveDir(m)
  BY <1>0, <1>1, <1>2, <1>5, PreparingAlone DEF RemoveDir, Goto, Place, build, world
<1>6. CASE CreateDirAll(m)
  BY <1>0, <1>1, <1>6, PreparingAlone DEF CreateDirAll, Goto, Place, build, world
<1>7. CASE RmLog(m)
  BY <1>0, <1>1, <1>7, PreparingAlone DEF RmLog, Goto, Place, build, world, disk
<1>8. CASE RemoveLog(m)
  BY <1>0, <1>1, <1>2, <1>8, PreparingAlone DEF RemoveLog, Goto, Place, build, world
<1>9. CASE CreateLog(m)
  BY <1>0, <1>1, <1>9, PreparingAlone DEF CreateLog, Goto, Place, build, world
<1>10. CASE InitLogger(m)
  BY <1>0, <1>1, <1>2, <1>10, PreparingAlone DEF InitLogger, Goto, Place, build, world, disk
<1>11. CASE CreateDir(m)
  BY <1>0, <1>1, <1>2, <1>11, PreparingAlone DEF CreateDir, Goto, Place, DiskTypes, build, world
<1> QED
  BY <1>3, <1>4, <1>5, <1>6, <1>7, <1>8, <1>9, <1>10, <1>11

\* What is in the files when cargo has succeeded.
LEMMA SuccessFiles ==
    ASSUME TypeInv, SoloInv, NEW m \in Main, Running(m), pc[m] \in Merging
    PROVE  /\ cargo[m] = "ok" /\ lock = None /\ fresh = Unit
           /\ \A u \in DOMAIN json : /\ u \in Unit \ Plain /\ json[u].whole
                                     /\ json[u].entry = MyEntry(m, u) /\ MyEntry(m, u) \in built[m]
           /\ \A e \in built[m] : e = MyEntry(m, e.unit) /\ e.unit \in Unit
           /\ \A u \in Unit \ Plain : MyEntry(m, u) \in built[m] => u \in DOMAIN json
<1>1. cargo[m] = "ok" /\ lock = None /\ \A u \in Unit : driver[u] = "none"
  BY LockIsOwn DEF TypeInv, Spawned, Merging
<1>2. Faithful(m) /\ fresh = Unit
  BY <1>1 DEF SoloInv, Alone, Compiled
<1> QED
  BY <1>1, <1>2 DEF Faithful, TypeInv, DiskTypes

\* What has been read when everything has been.
LEMMA AllFound ==
    ASSUME TypeInv, SoloInv, NEW m \in Main, pc[m] = "write_result"
    PROVE  v_fn[m] = {e \in built[m] : e.unit \notin Plain}
<1>1. Running(m) /\ pc[m] \in Merging
  BY DEF Running, Ended, Merging
<1>2. Reading(m)
  BY <1>1 DEF SoloInv, Alone
<1>3. ASSUME NEW e \in v_fn[m]
      PROVE  e \in built[m] /\ e.unit \notin Plain
  <2>1. PICK u \in DOMAIN json : e = json[u].entry
    BY <1>2 DEF Reading
  <2>2. u \notin Plain /\ e = MyEntry(m, u) /\ e \in built[m]
    BY <1>1, <2>1, SuccessFiles
  <2> QED
    BY <2>2 DEF MyEntry
<1>4. ASSUME NEW e \in built[m], e.unit \notin Plain
      PROVE  e \in v_fn[m]
  <2>1. e.unit \in DOMAIN json /\ json[e.unit].entry = e
    BY <1>1, <1>4, SuccessFiles
  <2> QED
    BY <1>2, <2>1 DEF Reading
<1> QED
  BY <1>3, <1>4

LEMMA MergeAlone ==
    ASSUME TypeInv, SoloInv, NEW m \in Main,
           Spawn(m) \/ Wait(m) \/ ReadDir(m) \/ ReadJson(m) \/ CreateResult(m) \/ WriteResult(m)
    PROVE  SoloInv'
<1>0. /\ pc \in [Main -> Label] /\ todo \in [Main -> SUBSET Unit] /\ v_fn \in [Main -> SUBSET Entry]
      /\ cargo \in [Main -> {"none", "waiting", "building", "failing", "ok", "failed"}]
      /\ pc[m] \in {"spawn", "wait", "read_dir", "read_json", "write_result"}
  BY DEF TypeInv, MainTypes, CargoTypes, Spawn, Wait, ReadDir, ReadJson, CreateResult, WriteResult
<1>1. Running(m)
  BY <1>0 DEF Running, Ended
<1>2. Place(m) /\ Reading(m) /\ Compiled(m) /\ \A n \in Main \ {m} : ~ Running(n)
  BY <1>1 DEF SoloInv, Solo, Alone
<1>3. UNCHANGED <<lock, driver, fresh, version, dir, json, log, built, before>>
  BY DEF Spawn, Wait, ReadDir, ReadJson, CreateResult, WriteResult, build, world, disk
<1>4. \A n \in Main \ {m} : UNCHANGED <<pc[n], built[n], v_fn[n], cargo[n]>>
  BY <1>0, <1>3 DEF Spawn, Wait, ReadDir, ReadJson, CreateResult, WriteResult, build, merge, Goto
<1>5. Faithful(m) = Faithful(m)'
  BY <1>3 DEF Faithful, MyEntry
<1>6. Compiled(m)'
  <2>1. cargo'[m] = "ok" => cargo[m] = "ok"
    BY <1>0 DEF Spawn, Wait, ReadDir, ReadJson, CreateResult, WriteResult, build
  <2> QED
    BY <1>2, <1>3, <2>1 DEF Compiled, MyEntry
<1>7. CASE Spawn(m)
  <2>1. /\ pc[m] = "spawn" /\ pc'[m] = "wait" /\ cargo'[m] = "waiting" /\ result' = result /\ v_fn' = v_fn
        /\ result = before[m].result
    BY <1>0, <1>1, <1>7 DEF Spawn, Goto, merge, disk, SoloInv, Alone
  <2>2. Place(m)' /\ Reading(m)' /\ Exact(m)'
    BY <1>2, <1>3, <2>1 DEF Place, Reading, Exact, Unspawned
  <2>3. Alone(m)'
    BY <1>2, <1>3, <1>6, <2>1, <2>2 DEF Alone, Unspawned
  <2> QED
    BY <1>2, <1>4, <2>1, <2>3, OthersAlone
<1>8. CASE Wait(m)
  <2>1. /\ pc[m] = "wait" /\ pc'[m] = IF cargo[m] = "ok" THEN "read_dir" ELSE "aborted"
        /\ UNCHANGED <<cargo, result, v_fn>> /\ cargo[m] \in {"ok", "failed"}
        /\ result = before[m].result
    BY <1>0, <1>1, <1>8 DEF Wait, Goto, build, merge, disk, SoloInv, Alone
  <2>2. Place(m)' /\ Reading(m)' /\ Exact(m)'
    BY <1>2, <1>3, <2>1 DEF Place, Reading, Exact, Unspawned
  <2>3. cargo[m] \in {"building", "ok"} => Faithful(m)
    BY <1>1 DEF SoloInv, Alone
  <2>4. Alone(m)'
    BY <1>2, <1>3, <1>5, <1>6, <2>1, <2>2, <2>3 DEF Alone, Unspawned
  <2> QED
    BY <1>2, <1>4, <2>1, <2>4, OthersAlone
<1>9. CASE ReadDir(m)
  <2>1. pc[m] = "read_dir" /\ dir
    BY <1>2, <1>9 DEF ReadDir, Place
  <2>2. /\ pc'[m] = "read_json" /\ todo'[m] = DOMAIN json
        /\ UNCHANGED <<cargo, result, v_fn>> /\ result = before[m].result
    BY <1>0, <1>1, <1>9, <2>1 DEF ReadDir, Goto, build, disk, SoloInv, Alone
  <2>3. cargo[m] = "ok" /\ Faithful(m)
    BY <1>1, <2>1 DEF TypeInv, Spawned, Merging, SoloInv, Alone
  <2>4. Place(m)' /\ Reading(m)' /\ Exact(m)'
    BY <1>2, <1>3, <2>1, <2>2, <2>3 DEF Place, Reading, Exact, Unspawned
  <2>5. Alone(m)'
    BY <1>2, <1>3, <1>5, <1>6, <2>2, <2>3, <2>4 DEF Alone, Unspawned
  <2> QED
    BY <1>2, <1>4, <2>2, <2>3, <2>5, OthersAlone
<1>10. CASE ReadJson(m)
  <2>1. pc[m] = "read_json" /\ pc[m] \in Merging
    BY <1>10 DEF ReadJson, Merging
  <2>2. cargo[m] = "ok" /\ Faithful(m)
    BY <1>1, <2>1, SuccessFiles DEF SoloInv, Alone
  <2>3. PICK u \in todo[m] :
        /\ todo' = [todo EXCEPT ![m] = @ \ {u}]
        /\ IF u \in DOMAIN json /\ json[u].whole
           THEN v_fn' = [v_fn EXCEPT ![m] = @ \cup {json[u].entry}] /\ UNCHANGED pc
           ELSE Goto(m, "panicked") /\ UNCHANGED v_fn
    BY <1>10 DEF ReadJson
  <2>4. u \in DOMAIN json /\ json[u].whole
    BY <1>1, <1>2, <2>1, SuccessFiles DEF Reading
  <2>5. /\ todo'[m] = todo[m] \ {u} /\ v_fn'[m] = v_fn[m] \cup {json[u].entry} /\ pc' = pc
        /\ UNCHANGED <<cargo, result>> /\ result = before[m].result
    BY <1>0, <1>1, <1>10, <2>1, <2>3, <2>4 DEF ReadJson, build, disk, SoloInv, Alone
  <2>6. Reading(m)'
    BY <1>2, <1>3, <2>1, <2>4, <2>5 DEF Reading, Unspawned
  <2>7. Place(m)' /\ Exact(m)'
    BY <1>2, <1>3, <2>1, <2>2, <2>5 DEF Place, Exact
  <2>8. Alone(m)'
    BY <1>2, <1>3, <1>5, <1>6, <2>1, <2>2, <2>5, <2>6, <2>7 DEF Alone, Unspawned
  <2> QED
    BY <1>2, <1>4, <2>2, <2>5, <2>8, OthersAlone
<1>11. CASE CreateResult(m)
  <2>1. /\ pc[m] = "read_json" /\ todo[m] = {} /\ pc'[m] = "write_result"
        /\ UNCHANGED <<cargo, v_fn>> /\ result'.by = m /\ result'.entries = {}
    BY <1>0, <1>11 DEF CreateResult, Goto, build, merge
  <2>2. cargo[m] = "ok" /\ Faithful(m)
    BY <1>1, <2>1, SuccessFiles DEF SoloInv, Alone, Merging
  <2>3. Reading(m)'
    BY <1>2, <1>3, <2>1 DEF Reading, Unspawned
  <2>4. Place(m)' /\ Exact(m)'
    BY <1>2, <1>3, <2>1, <2>2 DEF Place, Exact
  <2>5. Alone(m)'
    BY <1>2, <1>3, <1>5, <1>6, <2>1, <2>2, <2>3, <2>4 DEF Alone, Unspawned
  <2> QED
    BY <1>2, <1>4, <2>1, <2>2, <2>5, OthersAlone
<1>12. CASE WriteResult(m)
  <2>1. /\ pc[m] = "write_result" /\ pc'[m] = "ok" /\ UNCHANGED <<cargo, v_fn>>
        /\ result'.by = m /\ result'.entries = v_fn[m]
        /\ result.entries = {} => result'.whole
    BY <1>0, <1>12 DEF WriteResult, Goto, build, merge
  <2>2. result.entries = {} /\ pc[m] \in Merging
    BY <1>2, <2>1 DEF Reading, Merging
  <2>3. v_fn[m] = {e \in built[m] : e.unit \notin Plain}
    BY <2>1, AllFound
  <2>4. ~ Running(m)' /\ Exact(m)'
    BY <1>3, <2>1, <2>2, <2>3 DEF Running, Ended, Exact
  <2>5. Alone(m)'
    BY <2>1, <2>4 DEF Alone, Unspawned
  <2>6. cargo[m] = "ok"
    BY <1>1, <2>2, SuccessFiles
  <2> QED
    BY <1>2, <1>4, <2>1, <2>5, <2>6, OthersAlone
<1> QED
  BY <1>7, <1>8, <1>9, <1>10, <1>11, <1>12

LEMMA MainAlone ==
    ASSUME TypeInv, SoloInv, NEW m \in Main, MainStep(m)
    PROVE  SoloInv'
BY PrepareAlone, MergeAlone DEF MainStep

LEMMA CargoAlone ==
    ASSUME KillsGroup, TypeInv, SoloInv, NEW m \in Main, CargoStep(m) \/ Interrupt(m)
    PROVE  SoloInv'
<1>0. /\ pc \in [Main -> Label] /\ CargoTypes
      /\ cargo \in [Main -> {"none", "waiting", "building", "failing", "ok", "failed"}]
  BY DEF TypeInv, MainTypes, CargoTypes
<1>1. Running(m)
  <2>1. Interrupt(m) \/ cargo[m] \in {"waiting", "building", "failing"}
    BY DEF CargoStep, Lock, CargoEnds, Interrupt
  <2> QED
    BY <2>1 DEF SoloInv, Solo, Interrupt, Running, Ended
<1>2. Place(m) /\ Reading(m) /\ Compiled(m) /\ \A n \in Main \ {m} : ~ Running(n)
  BY <1>1 DEF SoloInv, Solo, Alone
<1>3. UNCHANGED <<todo, v_fn, fresh, version, dir, json, log, result, built, before>>
  BY DEF CargoStep, Lock, CargoEnds, Interrupt, merge, world, disk
<1>4. \A n \in Main \ {m} : UNCHANGED <<pc[n], built[n], v_fn[n], cargo[n]>>
  BY <1>0, <1>3 DEF CargoStep, Lock, CargoEnds, Interrupt, Goto
<1>5. CASE Interrupt(m)
  <2>1. pc'[m] = "killed" /\ cargo'[m] = "none"
    BY <1>0, <1>5 DEF Interrupt, Goto
  <2>2. Alone(m)'
    BY <2>1 DEF Alone, Exact, Running, Ended, Unspawned
  <2> QED
    BY <1>2, <1>3, <1>4, <2>1, <2>2, OthersAlone
<1>6. CASE CargoStep(m)
  <2>1. /\ pc' = pc /\ pc[m] = "wait" /\ result = before[m].result
        /\ driver' = driver /\ \A u \in Unit : driver[u] = "none"
        /\ cargo[m] \in {"waiting", "building", "failing"}
        /\ cargo'[m] \in {"building", "ok", "failed"}
        /\ cargo'[m] = "building" => cargo[m] = "waiting"
        /\ cargo'[m] = "ok" => cargo[m] = "building" /\ fresh = Unit
    BY <1>0, <1>1, <1>6, LockIsOwn DEF CargoStep, Lock, CargoEnds, SoloInv, Solo, Alone, CargoTypes
  <2>2. Place(m)' /\ Reading(m)' /\ Exact(m)' /\ Compiled(m)'
    BY <1>2, <1>3, <2>1 DEF Place, Reading, Exact, Compiled, MyEntry
  <2>3. cargo'[m] \in {"building", "ok"} => Faithful(m)'
    <3>1. CASE cargo[m] = "waiting"
      <4>1. DOMAIN json = {} /\ built[m] = {}
        BY <1>2, <3>1 DEF Place
      <4> QED
        BY <1>3, <2>1, <4>1, Plan DEF Faithful
    <3>2. CASE cargo[m] = "building"
      <4>1. Faithful(m)
        BY <1>1, <3>2 DEF SoloInv, Alone
      <4> QED
        BY <1>3, <2>1, <4>1 DEF Faithful, MyEntry
    <3> QED
      BY <2>1, <3>1, <3>2
  <2>4. Alone(m)'
    BY <1>2, <1>3, <2>1, <2>2, <2>3 DEF Alone, Unspawned
  <2> QED
    BY <1>2, <1>3, <1>4, <2>1, <2>4, OthersAlone
<1> QED
  BY <1>5, <1>6

\* A step of a driver of the running invocation's cargo.
LEMMA BuildingAlone ==
    ASSUME TypeInv, SoloInv, NEW m \in Main, lock = m,
           UNCHANGED <<pc, merge, version, log, result, before>>,
           dir => dir',
           \A n \in Main \ {m} : UNCHANGED <<built[n], cargo[n]>>,
           cargo'[m] = cargo[m] \/ cargo'[m] = "failing",
           cargo'[m] = "building" => Faithful(m)',
           \A u \in fresh' : u \in fresh \/ MyEntry(m, u) \in built'[m],
           built[m] \subseteq built'[m]
    PROVE  SoloInv'
<1>1. Running(m) /\ pc[m] = "wait" /\ cargo[m] \in {"building", "failing"}
  BY DEF TypeInv, CargoTypes, SoloInv, Solo, Running, Ended
<1>2. Place(m) /\ Reading(m) /\ Compiled(m) /\ result = before[m].result /\ \A n \in Main \ {m} : ~ Running(n)
  BY <1>1 DEF SoloInv, Solo, Alone
<1>3. v_fn'[m] = {} /\ pc' = pc /\ dir /\ dir'
  BY <1>1, <1>2 DEF merge, Reading, Place
<1>4. Place(m)' /\ Reading(m)' /\ Exact(m)'
  BY <1>1, <1>3 DEF Place, Reading, Exact
<1>5. Compiled(m)'
  BY <1>1, <1>2 DEF Compiled, MyEntry
<1>6. Alone(m)'
  BY <1>1, <1>2, <1>3, <1>4, <1>5 DEF Alone, Unspawned
<1> QED
  BY <1>1, <1>2, <1>6, OthersAlone DEF merge

LEMMA UnitAlone ==
    ASSUME TypeInv, SoloInv, NEW u \in Unit, UnitStep(u)
    PROVE  SoloInv'
<1>0. PICK m \in Main : lock = m
  BY Plan DEF TypeInv, CargoTypes, UnitStep, Compile, WrapperLogs, Collected, DriverCreatesDir,
              DriverCreatesJson, DriverWritesJson, Codegen, At
<1>1. /\ cargo \in [Main -> {"none", "waiting", "building", "failing", "ok", "failed"}]
      /\ driver \in [Unit -> {"none", "init_logger", "collect", "create_dir_all", "create_json",
                              "write_json", "codegen"}]
      /\ built \in [Main -> SUBSET Entry] /\ DiskTypes
  BY DEF TypeInv, MainTypes, CargoTypes
<1>2. Running(m) /\ (cargo[m] = "building" => Faithful(m))
  BY <1>0 DEF TypeInv, CargoTypes, SoloInv, Solo, Alone, Running, Ended
<1>3. /\ UNCHANGED <<pc, merge, version, log, result, before>> /\ (dir => dir')
      /\ \A n \in Main \ {m} : UNCHANGED <<built[n], cargo[n]>>
      /\ cargo'[m] = cargo[m] \/ cargo'[m] = "failing"
      /\ \A x : OwnEntry(x) = MyEntry(m, x)
  BY <1>0, <1>1
  DEF UnitStep, Compile, WrapperLogs, Collected, DriverCreatesDir, DriverCreatesJson, DriverWritesJson,
      Codegen, Continue, Fail, world, disk, OwnEntry, MyEntry
<1>4. CASE Fail(u)
  <2>1. cargo'[m] = "failing" /\ built' = built /\ fresh' = fresh
    BY <1>0, <1>1, <1>4 DEF Fail
  <2> QED
    BY <1>0, <1>3, <2>1, BuildingAlone
<1>5. CASE (Compile(u) \/ WrapperLogs(u) \/ Collected(u) \/ DriverCreatesDir(u)) /\ ~ Fail(u)
  <2>1. /\ json' = json /\ built' = built /\ fresh' = fresh /\ cargo' = cargo
        /\ driver[u] \in {"none", "init_logger", "collect", "create_dir_all"}
        /\ driver'[u] \in {"init_logger", "collect", "create_dir_all", "create_json", "codegen"}
        /\ \A x \in Unit \ {u} : driver'[x] = driver[x]
        /\ u \in Plain => driver[u] \in {"collect", "create_dir_all"} \/ driver'[u] \in {"init_logger", "codegen"}
        /\ u \notin Plain => driver'[u] # "codegen"
    BY <1>1, <1>5 DEF Compile, WrapperLogs, Collected, DriverCreatesDir, Continue, At, disk
  <2>2. cargo[m] = "building" => Faithful(m)'
    <3> SUFFICES ASSUME cargo[m] = "building"
                 PROVE  Faithful(m)'
      OBVIOUS
    <3>1. Faithful(m) /\ \A x : MyEntry(m, x)' = MyEntry(m, x)
      BY <1>2, <1>3 DEF MyEntry
    <3>2. DOMAIN json \subseteq Unit
      BY <1>1 DEF DiskTypes
    <3>3. \A x \in Unit : driver'[x] = "write_json" => driver[x] = "write_json"
      BY <2>1
    <3>4. \A x \in Unit \ Plain : driver'[x] = "codegen" <=> driver[x] = "codegen"
      BY <2>1
    <3>5. \A x \in Unit : driver[x] = "write_json" => driver'[x] = "write_json"
      BY <2>1
    <3>6. \A x \in Plain : driver'[x] \in {"none", "init_logger", "codegen"}
      BY <2>1, <3>1, Plan DEF Faithful
    <3>7. \A x \in DOMAIN json' : x \in DOMAIN json /\ x \in Unit \ Plain /\ json'[x] = json[x]
      BY <2>1, <3>1, <3>2 DEF Faithful
    <3> QED
      BY <2>1, <3>1, <3>3, <3>4, <3>5, <3>6, <3>7 DEF Faithful
  <2> QED
    BY <1>0, <1>3, <2>1, <2>2, BuildingAlone
<1>6. CASE DriverCreatesJson(u) /\ ~ Fail(u)
  <2>1. /\ DOMAIN json' = DOMAIN json \cup {u}
        /\ \A x \in DOMAIN json' : json'[x] = IF x = u THEN Partial(MyEntry(m, u)) ELSE json[x]
        /\ driver[u] = "create_json" /\ driver' = [driver EXCEPT ![u] = "write_json"]
        /\ built' = built /\ fresh' = fresh /\ cargo' = cargo
    BY <1>3, <1>6 DEF DriverCreatesJson, At, Continue
  <2>2. driver'[u] = "write_json" /\ \A x \in Unit \ {u} : driver'[x] = driver[x]
    BY <1>1, <2>1
  <2>3. json'[u].entry = MyEntry(m, u)
    BY <2>1 DEF Partial
  <2>4. cargo[m] = "building" => Faithful(m)'
    <3> SUFFICES ASSUME cargo[m] = "building"
                 PROVE  Faithful(m)'
      OBVIOUS
    <3>1. Faithful(m) /\ \A x : MyEntry(m, x)' = MyEntry(m, x)
      BY <1>2, <1>3 DEF MyEntry
    <3>2. u \notin Plain
      BY <2>1, <3>1 DEF Faithful
    <3>3. \A x \in DOMAIN json' : x = u \/ (x \in DOMAIN json /\ x \in Unit /\ json'[x] = json[x])
      BY <1>1, <2>1 DEF DiskTypes
    <3> QED
      BY <2>1, <2>2, <2>3, <3>1, <3>2, <3>3 DEF Faithful
  <2> QED
    BY <1>0, <1>3, <2>1, <2>4, BuildingAlone
<1>7. CASE DriverWritesJson(u)
  <2>1. /\ json' = IF u \in DOMAIN json THEN [json EXCEPT ![u] = Whole(MyEntry(m, u))] ELSE json
        /\ driver[u] = "write_json" /\ driver' = [driver EXCEPT ![u] = "codegen"]
        /\ built' = built /\ fresh' = fresh /\ cargo' = cargo
    BY <1>3, <1>7 DEF DriverWritesJson, At, Continue
  <2>2. driver'[u] = "codegen" /\ \A x \in Unit \ {u} : driver'[x] = driver[x]
    BY <1>1, <2>1
  <2>3. /\ DOMAIN json' = DOMAIN json
        /\ u \in DOMAIN json => json'[u].whole /\ json'[u].entry = MyEntry(m, u)
        /\ \A x \in DOMAIN json \ {u} : json'[x] = json[x]
    BY <2>1 DEF Whole
  <2>4. cargo[m] = "building" => Faithful(m)'
    <3> SUFFICES ASSUME cargo[m] = "building"
                 PROVE  Faithful(m)'
      OBVIOUS
    <3>1. Faithful(m) /\ \A x : MyEntry(m, x)' = MyEntry(m, x)
      BY <1>2, <1>3 DEF MyEntry
    <3>2. DOMAIN json \subseteq Unit
      BY <1>1 DEF DiskTypes
    <3> QED
      BY <2>1, <2>2, <2>3, <3>1, <3>2, Plan DEF Faithful
  <2> QED
    BY <1>0, <1>3, <2>1, <2>4, BuildingAlone
<1>8. CASE Codegen(u) /\ ~ Fail(u)
  <2>1. /\ driver[u] = "codegen" /\ driver' = [driver EXCEPT ![u] = "none"]
        /\ fresh' = fresh \cup {u} /\ built'[m] = built[m] \cup {MyEntry(m, u)}
        /\ cargo' = cargo /\ json' = json
    BY <1>0, <1>1, <1>3, <1>8 DEF Codegen, At, disk
  <2>2. driver'[u] = "none" /\ \A x \in Unit \ {u} : driver'[x] = driver[x]
    BY <1>1, <2>1
  <2>3. cargo[m] = "building" => Faithful(m)'
    <3> SUFFICES ASSUME cargo[m] = "building"
                 PROVE  Faithful(m)'
      OBVIOUS
    <3>1. Faithful(m) /\ \A x : MyEntry(m, x)' = MyEntry(m, x)
      BY <1>2, <1>3 DEF MyEntry
    <3>2. /\ MyEntry(m, u).unit = u
          /\ \A x : MyEntry(m, x) = MyEntry(m, u) => x = u
      BY DEF MyEntry
    <3>3. DOMAIN json \subseteq Unit
      BY <1>1 DEF DiskTypes
    <3> QED
      BY <2>1, <2>2, <3>1, <3>2, <3>3, Plan DEF Faithful
  <2> QED
    BY <1>0, <1>3, <2>1, <2>3, BuildingAlone
<1> QED
  BY <1>4, <1>5, <1>6, <1>7, <1>8 DEF UnitStep

LEMMA WorldAlone ==
    ASSUME TypeInv, SoloInv, (\E u \in Unit : Edit(u)) \/ Clean
    PROVE  SoloInv'
<1>1. /\ UNCHANGED <<pc, v_fn, cargo, built>> /\ \A m \in Main : ~ Running(m)
      /\ result' = result \/ result'.by = None
  BY DEF Edit, Clean, Quiet, merge, disk, NoResult
<1>2. \A m \in Main : Alone(m)'
  BY <1>1, Plan DEF SoloInv, Alone, Exact, Running
<1> QED
  BY <1>1, <1>2 DEF SoloInv, Solo, Running

LEMMA SoloKept ==
    ASSUME Exclusive, KillsGroup, TypeInv, SoloInv, [Next]_vars
    PROVE  SoloInv'
<1>1. CASE UNCHANGED vars
  BY <1>1 DEF vars, merge, build, world, disk, SoloInv, Solo, Alone, Place, Reading, Compiled, Faithful, Exact,
              MyEntry, Running
<1> QED
  BY <1>1, StartAlone, MainAlone, CargoAlone, UnitAlone, WorldAlone DEF Next

LEMMA SoloInvariant ==
    ASSUME Exclusive, KillsGroup
    PROVE  Spec => [](TypeInv /\ SoloInv)
BY InitSolo, SoloKept, TypeInvariant, PTL DEF Spec

\* An invocation's place in its code changes by its own steps, or when it is killed.
LEMMA OwnStep ==
    ASSUME TypeInv, [Next]_vars, NEW m \in Main, Running(m), pc'[m] # pc[m], pc'[m] # "killed"
    PROVE  MainStep(m)
<1>0. pc \in [Main -> Label]
  BY DEF TypeInv, MainTypes
<1>1. ~ (\E u \in Unit : UnitStep(u) \/ Edit(u)) /\ ~ Clean /\ ~ UNCHANGED vars
  BY DEF UnitStep, Compile, WrapperLogs, Collected, DriverCreatesDir, DriverCreatesJson, DriverWritesJson,
         Codegen, Continue, Fail, Edit, Clean, vars
<1>2. ASSUME NEW n \in Main, CargoStep(n) \/ Interrupt(n) \/ Start(n)
      PROVE  FALSE
  BY <1>0, <1>2 DEF CargoStep, Lock, CargoEnds, Interrupt, Start, Goto, Running
<1>3. ASSUME NEW n \in Main, n # m, MainStep(n)
      PROVE  FALSE
  BY <1>0, <1>3 DEF MainStep, RmAnalysis, RemoveEntries, RemoveDir, CreateDirAll, RmLog, RemoveLog, CreateLog,
     InitLogger, CreateDir, Spawn, Wait, ReadDir, ReadJson, CreateResult, WriteResult, Goto
<1> QED
  BY <1>1, <1>2, <1>3 DEF Next

-----------------------------------------------------------------------------
(* Theorems for invocations that follow each other on a target directory,   *)
(* and whose interrupt ends their cargo and drivers too.                    *)

\* A successful invocation's result holds exactly the entries of the units
\* the invocation has compiled, whatever earlier ones have left behind.
THEOREM ExactlyMerged ==
    ASSUME Exclusive, KillsGroup
    PROVE  Spec => []MergedExactly
<1>1. SoloInv => MergedExactly
  BY DEF SoloInv, Alone, Exact, MergedExactly
<1> QED
  BY <1>1, SoloInvariant, PTL

\* Wherever earlier invocations were interrupted, none fails on what it
\* finds: no unwrap of a file system call and no parse of a file.
THEOREM NoInvocationPanics ==
    ASSUME Exclusive, KillsGroup
    PROVE  Spec => []NeverPanics
<1>1. SoloInv => NeverPanics
  BY DEF SoloInv, Alone, NeverPanics
<1> QED
  BY <1>1, SoloInvariant, PTL

\* An invocation whose build fails leaves analysis.json as it found it.
THEOREM FailuresKeepResult ==
    ASSUME Exclusive, KillsGroup
    PROVE  Spec => FailureKeepsResult
<1>1. ASSUME TypeInv, SoloInv, [Next]_vars, NEW m \in Main,
             Running(m), pc'[m] \in {"aborted", "declined", "panicked"}
      PROVE  result' = before[m].result
  <2>1. MainStep(m)
    BY <1>1, OwnStep DEF Running, Ended
  <2>2. pc \in [Main -> Label]
    BY <1>1 DEF TypeInv, MainTypes
  <2>3. ~ CreateResult(m) /\ ~ WriteResult(m)
    BY <1>1, <2>2 DEF CreateResult, WriteResult, Goto
  <2>4. result' = result /\ pc[m] # "write_result"
    BY <2>1, <2>3 DEF MainStep, RmAnalysis, RemoveEntries, RemoveDir, CreateDirAll, RmLog, RemoveLog, CreateLog,
       InitLogger, CreateDir, Spawn, Wait, ReadDir, ReadJson, disk
  <2> QED
    BY <1>1, <2>4 DEF SoloInv, Alone
<1>2. TypeInv /\ SoloInv /\ [Next]_vars =>
        [\A m \in Main : Running(m) /\ pc'[m] \in {"aborted", "declined", "panicked"}
            => result' = before[m].result]_vars
  BY <1>1
<1> QED
  BY <1>2, SoloInvariant, PTL DEF Spec, FailureKeepsResult

\* When nothing was fresh, a successful invocation has analysed every unit
\* that is not rustc's own business, in its current version.
THEOREM FreshBuildCompletes ==
    ASSUME Exclusive, KillsGroup
    PROVE  Spec => FreshBuildIsComplete
<1>1. ASSUME TypeInv, SoloInv, [Next]_vars, NEW m \in Main,
             Running(m), pc'[m] = "ok", before[m].fresh = {}
      PROVE  result'.entries = {[unit |-> u, version |-> version[u], by |-> m] : u \in Unit \ Plain}
  <2>1. MainStep(m)
    BY <1>1, OwnStep DEF Running, Ended
  <2>2. pc \in [Main -> Label]
    BY <1>1 DEF TypeInv, MainTypes
  <2>3. WriteResult(m)
    BY <1>1, <2>1, <2>2 DEF MainStep, RmAnalysis, RemoveEntries, RemoveDir, CreateDirAll, RmLog, RemoveLog,
       CreateLog, InitLogger, CreateDir, Spawn, Wait, ReadDir, ReadJson, CreateResult, Goto, Running, Ended
  <2>4. pc[m] = "write_result" /\ pc[m] \in Merging /\ result'.entries = v_fn[m]
    BY <2>3 DEF WriteResult, Merging
  <2>5. v_fn[m] = {e \in built[m] : e.unit \notin Plain}
    BY <1>1, <2>4, AllFound
  <2>6. \A u \in Unit : MyEntry(m, u) \in built[m]
    BY <1>1, <2>4, SuccessFiles DEF SoloInv, Alone, Compiled
  <2>7. \A e \in built[m] : e = MyEntry(m, e.unit) /\ e.unit \in Unit
    BY <1>1, <2>4, SuccessFiles
  <2>8. \A u : MyEntry(m, u).unit = u
    BY DEF MyEntry
  <2>9. {e \in built[m] : e.unit \notin Plain} = {MyEntry(m, u) : u \in Unit \ Plain}
    BY <2>6, <2>7, <2>8
  <2> QED
    BY <2>4, <2>5, <2>9 DEF MyEntry
<1>2. TypeInv /\ SoloInv /\ [Next]_vars =>
        [\A m \in Main : Running(m) /\ pc'[m] = "ok" /\ before[m].fresh = {}
            => result'.entries = {[unit |-> u, version |-> version[u], by |-> m] : u \in Unit \ Plain}]_vars
  BY <1>1
<1> QED
  BY <1>2, SoloInvariant, PTL DEF Spec, FreshBuildIsComplete
=============================================================================
