# KMiri: TLA+ models, model checking and proofs

KMiri runs OS kernels (Asterinas, BlueOS) under an interpreter derived from Miri
and helps to find out which of their functions it exercises. This directory holds
TLA+ modules for the parts of the repository that keep state or compute something
that is easy to get wrong, the TLC configurations that check them, and TLAPS proofs
about all of them. `PROJECT.json` maps every definition to the lines it models.

## The system

| component | state | operations | interacts with |
|---|---|---|---|
| **Reachability analysis** `reachability.rs` 32–252, 631–666 | queue, `collected`, call graph (nodes, edges, back edges) | `collect_reachable_items`, `collect`, `reachable_items`, `add_node/edge/edges` | called by the driver's `analysis()`; calls the visitor |
| **Item visitor** `reachability.rs` 211–582 | the `collected` set of one visit | `visit_fn`, `visit_static`, `visit_rvalue/const_operand/terminator/ty`, `collect_vtable_methods`, `collect_alloc_items` | the compiler's MIR and allocations |
| **Unsizing coercions** `coercion.rs` | none (an iterator over a pair of types) | `extract_unsize_casting` | called by the visitor |
| **Call graph queries** `reachability.rs` 603–628, 668–745 | a queue, a visited set | `dump_reason`, `recursive_callees` | nobody calls them at this commit |
| **Function information** `info.rs`, `lib.rs` | a vector of entries | `new`, `dedup` | driver and merge |
| **`cargo kmiri-helper`** `cargo-kmiri-helper.rs`, `main.rs` | `target/analysis/`, `analysis.log`, `analysis.json`, the environment variable that tells a wrapper from the invocation | `main`, `rm`, `recreate_dir_analysis`, `spawn`, `merge_analysis`; `analysis()` in the driver | cargo, one wrapper and driver per compiled unit; they share only the file system |
| **Batch runner** `vivo-blueos/kernel-test.sh` | logs per case, a temporary body file, the result file | one batch per run of the script | make, the interpreter |
| **Builds** `vivo-blueos/Makefile` | a sysroot and a native library used as stamps | `miri_boot`, `miri_test_kernel` | gn, ninja, cargo miri |
| **GDB tracker** `tool/gdb/miri.py` | the map of inferiors to status and parent | handlers of stop, exit and context events; posted events | gdb |
| **Interpreter**: page states, kernel shims | – | a git submodule, not in the repository; its rules are in `KernMiri-Overview.md` and in what `tests/` expects | the test kernels |
| **Test kernels** `tests/*` | the task API's runqueue (not in the repository) | spawn, yield, exit, frame and page table allocation | the interpreter |

What is hard about it:

* **The walk of the items.** Items are tested against `collected` when they are
  enqueued, before they are popped, so they can be in the queue many times; the
  graph's nodes run ahead of what has been visited; the vectors a visit returns
  come out of a hash set in any order; functions are recursive and statics cyclic.
  It is right when the result is exactly what is reachable, each item is visited
  once, the graph's two maps agree, the loop ends, and errors of the compiler
  suppress the result as a whole.
* **What a visit must not forget.** A function can be executed without being named
  by a call. A forgotten way (a vtable in a constant, a destructor, a pointer
  behind an anonymous static) loses it silently.
* **Many processes and one directory.** An invocation, cargo, wrappers and drivers
  communicate through files that are created, written, unlinked and listed by
  different processes, any of which can fail or be interrupted between two calls.
  cargo compiles stale units only, so the files describe part of the program.
* **Graph queries.** One set is shared by all nested calls of a recursive function;
  one query goes backwards through one map and then draws forwards from another.
* **Unsizing.** The pair of types that is coerced hides under smart pointers, wrappers
  with phantom and decoy fields, pattern types and struct tails; the walk takes the
  types out of the iterator and puts them back on some paths only.
* **Entries for one function from several crates.** Drivers see different spans of
  one function and may name its file differently, line numbers have 16 bits and become 0 when
  they do not fit, and which entry survives depends on a derived order.
* **A debugger that resumes processes by itself.** Events arrive between a handler and
  the closure it has posted; the tracker's map is stale when it is used.
* **Batches that are started again.** Whether a case is done is decided from one
  file (its log, or that of another case whose run printed it), its result is kept in
  another (the body), and both are written at different times. A log is emptied when
  its own case is run again, whatever else it shows.

`PROJECT.json` lists the hazards one by one, at their lines, with the properties
that cover them.

## The modules

### Reachability analysis

* `ItemGraph`: what is assumed of the compiler. `Visit(c, i)` is the set of vectors
  that visiting item `i` of crate `c` may return; all of them mention the same
  items (`VisitType`). `Reachable` is defined as the least closed set, without a
  walk, so that it does not repeat the algorithm.
* `CollectSpec`: the promise to `analysis()`. Items are found one at a time, only
  reachable ones, and a result is returned only when all have been found; or the
  compilation aborts and returns nothing.
* `Reachability`: the worklist. A step is one turn of one of the source's loops:
  `Collect` (the loop over the starting points), `Skip` and `VisitNew`
  (`while let Some(..) = queue.pop()`), `AddEdge`/`EdgesAdded` (`add_edges`),
  `Extend`/`Extended` (`queue.extend(.. filter ..)`), `Finish`
  (`abort_if_errors` and the return). `pc`, `to_visit`, `next_items` and `k` are
  the program counter and the locals. The graph's `HashMap`s are functions,
  `entry(..).or_default()` is `OrDefault`.
* `ReachabilityProofs`: see "What is proved".

### Item visitor

* `MirVisitor`: `Visit` as the code computes it. The compiler's data (instances,
  types, allocations, bodies) are constants; a body is the set of the occurrences
  in it that the visitor distinguishes. The set that visits fill loses its order
  exactly where the source's hash set does. `collect_alloc_items` is a recursive
  function over allocations; like the source it keeps no visited set, so the
  allocations it follows must be acyclic.
* `Execution`: composes the worklist, with `MirVisitor`'s visits, and an
  interpreter that runs the analysed crate afterwards. The interpreter's steps are
  those of MIR (direct, virtual and indirect calls, drops, casts, uses of constants,
  loads) and are external: they state what "may be executed" means. The interpreter
  never looks at what has been collected, so the properties compare two
  independently written things. It is permissive: any vtable or function pointer
  the program has got hold of may be called anywhere.

* `ExecutionProofs`: see "What is proved"; it is about both modules. What rustc guarantees
  of its data is stated as assumptions of the two modules: `CompilerData` (types),
  `RecursionEnds` (memory and anonymous statics do not lead back to themselves; named
  statics may), `MirBodies` (the pointers of an evaluated constant are allocations, a
  thread local is a named static, bodies are finite) and `Vtables` (the allocation of
  a vtable points to the methods and the destructor, the initializer of a foreign
  static is not known). TLC evaluates them on the instance of the runs.

Layers: `ItemGraph` ← `CollectSpec`, `Reachability` (← `ReachabilityProofs`);
`Reachability` and `MirVisitor` ← `Execution` (← `ExecutionProofs`);
`Reachability` ← `CallGraphQueries` (← `CallGraphQueriesProofs`).

### Unsizing coercions

`Coercion`: `CoerceUnsizedIterator` (a step per `next()`: `NextStruct`, `NextPattern`,
`NextPointer`) and `extract_unsize_casting` (`LastInfo`, then one `FollowTail` per
level of `struct_lockstep_tails_for_codegen`, then the final assertion in `Return`).
A failed assertion, unwrap or `unreachable!` is `pc = "panic"`. A type is a leaf inside
of constructors, which is all the walk looks at. Which coercions there are is decided by the language; its rules are the
assumptions `CoerceUnsizedRule` (a pointer whose pointee unsizes; a pattern type; a
struct with exactly one field, phantoms aside, that depends on the argument and
coerces), `UnsizeRule` (the last field of a struct) and `StartRule`. They are far
weaker than a list of types: any structs that obey them are covered by the proof.

### Call graph queries

`CallGraphQueries`: `recursive_callees`, `dump_reason` and `dump_all` on the graph a
finished analysis has built (the module extends `Reachability`). The recursion has its
call stack in `frames`; hash sets are iterated in any order. Nothing in the repository
calls the queries at this commit; two things a caller should know: `recursive_callees`
does not go on through statics, so a function that is only reached through a static's
initializer is not among the callees (`CalleesOf` says so), and the item itself is in
the result only if it is recursive.

### Function information

`FunctionInfo`: from the spans of definitions, over the drivers' sorted lists
(`Analysis`), files named by crate name and stable id, and the sorted paths of
`merge_analysis` (`MergeAnalysis`), to the library's `dedup` (`Dedup`). `LineMax` is
`u16::MAX`, small in the run so that lines meet it. The module pins the unit test of
`dedup` in `lib.rs` down as an assumption TLC evaluates. `dedup` is called by that test only at this commit.
The standard library's sort is `Sorted`, which puts an element at the place given by the
number of those that do not come after it (this defines the result of a sort by a total
order without choosing a permutation), and `Vec::dedup_by` is `DedupBy`, a recursive
function that remembers what is kept of each prefix.

What a crate calls a file is its own matter (`SourceFile` has the crate as its argument):
`source_file` asks the driver's source map, which has a relative path for the crate's own
files and whatever the metadata says, remapped or not, for those of others. `dedup_fn`
compares the names, so the header that a foreign crate saw is absorbed by the home crate's
entry only where both name the file alike; otherwise both entries survive. The name of an
instance is a printed string, and nothing makes it unique: two versions of a crate or two
crates of one name may print two definitions alike. What `dedup` achieves is therefore
stated for a name, a file and a first line (`Place`), not for a function: one entry is
left for each that was reported, and it is the one that goes furthest (`BestSurvives`).

### GDB tracker

`GdbMiri`: the command `miri`, its handlers, the closures they post and the map
`child_to_parent`. GDB and the processes are external: all inferiors run or stop
together, a fork adds one, an exec, an exit or a signal stops the session and calls the
handlers that are connected; a posted closure runs once the event is over. A run
starts at the prompt with nothing running. The user may `run`, `continue`,
`miri disconnect` and `miri set-breakpoints` at any prompt. `parent` is in the map but nothing
ever assigns it, so `inferior_to_be_returned` always returns None, and the recursion in it
on a parent that has exited is dead code and left out. `breakpoints` says that
`miri set-breakpoints` has been invoked: without a `breakpoints.gdb` the command does
nothing, and the session is continued all the same.

### `cargo kmiri-helper`

`CargoKmiri`: the invocations, one cargo per invocation and one wrapper with its
driver per unit. A step is one file system call. `rm` is two steps (`exists`, then
the removal), `remove_dir_all` is two (unlink the entries, remove the directory),
writing a file is two (create or truncate, write). `pc` names the call that comes
next; a failed `unwrap` goes to `"panicked"`, and an invocation that never gets to
build anything (`cargo metadata` fails, a version is asked for, the arguments are not those
of a cargo subcommand) to `"declined"`. cargo itself is external: it takes the
lock of the target directory, skips fresh units, compiles a unit after the units it
depends on, and fails when a compiler fails. `Exclusive` says whether invocations
may overlap; `KillsGroup` whether an interrupt reaches the cargo and the drivers of
an invocation too (Ctrl-C) or only the invocation (`kill`).

Abstractions: the entries of one file are one element, tagged with the unit, the
version of its source and the build that wrote it; the file name is the unit; a
unit that is compiled a second time for another target is another unit. Entries
found by different drivers are kept apart; what becomes of them in the merged list is
`FunctionInfo`'s subject. `unlink` of all entries of the directory is one step.

### Batch runner

`KernelTest`: the script. `Launch` is the redirection that empties the log, `MakeRuns`
the build and run of one case (external: it may fail before the case's line is
printed, or print the lines of other cases, as the filter of the tests matches more
names than the one given), `Record` the section added to the body file, `OpenResult`/`WriteResult` the
redirection to the result file. The text of one redirected group is written in one
step; an interrupt while it is written is not distinguished from one before or
after it. A section is a case with its status. `skipped` remembers for each case a batch
has skipped which logs showed it at that time (`Showing`), because what "already recorded"
then means is that the run of one of these logs has its section; `Overwritten` is the case
where this batch has emptied such a log since.

## The runs

| run | what varies | bounds | result |
|---|---|---|---|
| `reachability` | two functions with every set of up to `MaxMentions` mentions (calls, an address taken, a static), three initializers of a static, three lists of starting points, every order of every hash set | 3 items | all hold |
| `execution` | `main` with every set of up to 3 occurrences and `foo` with up to 1, out of every kind the visitor distinguishes; one type, one trait, five statics (named, anonymous, foreign, thread local) | evaluated constants | all hold |
| `unevaluated_constants` | the same, with constants the compiler has not evaluated | `main` with 1 occurrence | `TouchedIsCollected` violated |
| `cargo_exclusive` | two invocations in sequence, cleaned or fresh at the start, with an interrupt, failing builds, edits or `cargo clean` between them | 3 units (one plain), 1 interrupt, 2 changes | all hold |
| `cargo_shared` | two invocations at once, an interrupt that leaves cargo and drivers running; no file that is there when an invocation starts is merged by it | 3 units, 1 interrupt | all hold |
| `kernel_test` | runs that fail before or after the case is reached, and that print the line of another case | 3 cases, 3 batches, 1 interrupt | all hold |
| `call_graph_queries` | two functions with every set of up to two mentions, a third and a static that lead back or not, two lists of starting points, every query and target, every order of its hash sets | 4 items | all hold |
| `coercion` | pointers, Box, NonNull, Rc and a user's wrapper, in up to two Pins and over up to two structs with an unsized tail; trait objects, supertraits, slices, with pointers inside of the types that differ | contexts below the ones asked about are generated | all hold |
| `function_info` | every extent of two definitions, every set of collected instances of two crates that have one name and name one of two files differently, two definitions printed alike, drivers that write again, every order of hash sets and of the directory | 2 crates, 4 instances, lines 1, 2 and 4 with `LineMax` 2 | all hold |
| `gdb_miri` | forks, execs of four programs, exits, signals, removals, the user's commands, in any order | 4 inferiors | all hold |
| `gdb_miri_stale` | the same | 3 inferiors | `MiriInferiorAsDocumented` violated |
| `kernel_test_interrupted` | as `kernel_test` | 3 batches, 1 interrupt | `SkippedIsRecorded` violated |

Why these bounds are enough to be of interest:

* Three items give self-recursion, mutual recursion, an item enqueued twice by
  one visit and by two, an item mentioned for two reasons, cyclic statics and
  disconnected starting points. More items are covered by the proofs.
* In `execution` the longest chain that leads to a function (a static, an anonymous
  static, a static, a function; memory, a vtable, a destructor) starts from one
  occurrence of `main`; making use of it takes at most one more (`CallPtr`, a virtual
  call, a drop), which leaves one to take part.
* The second invocation sees whatever the first one can leave: the directory
  absent, half removed, with torn or whole files, the log absent, and a result
  absent, torn or whole. `lib` and the build script compile at the same time and
  before `app`.
* Two interrupted or complete batches and a third that starts from what they left. The run
  of the second case may show the first one, that of the third the second one: a case is
  skipped because of a log that the same batch then empties.
* Four items give a function behind a static, diamonds, two recursive functions that
  call each other, and items no target or starting point reaches.
* Lines 1, 2 and 4 with a largest one of 2 give a span of one line, a header and a body
  that fit or do not, and an entry that was cut to 0 next to one that was not.
* Four inferiors are a cargo, a forked child whose command line is stale, a process
  that exits, and the kernel's interpreter.

Deadlock is not checked: the analysis, the invocations, the batches, the queries and
the walks end, and a debugging session may wait at its prompt for good.

### Findings

* `unevaluated_constants`. `visit_const_operand` ignores a `ConstantKind::Unevaluated`
  operand. The visitor's documentation promises every static referenced by a
  constant used in a function. In the run, `main` uses a constant not yet evaluated
  that refers to a static; the static, and the functions behind it, are missing.
  With evaluated constants the property holds (`execution`).
* `kernel_test_interrupted`. A case counts as recorded as soon as its line is in a
  log, its section reaches the result file at the end of the batch only, and the
  `EXIT` trap deletes the body file. After an interrupt the next batch reports the
  case as "Skipped (already recorded)"; no section for it exists anywhere, and a
  failure that had been found is forgotten. Without interrupts the property holds
  (`UninterruptedIsRecorded`), also for cases that only the run of another one has shown.

* `gdb_miri_stale`. `update_inferiors` reads a command line when it first sees an
  inferior and never again. A process that is recorded between its fork and its exec,
  because another one exits at that moment, keeps its parent's command line, and
  `miri_inferior`, documented to "Return the living miri or cargo-miri inferior
  number", passes over a living interpreter. The session is not stranded by it: the
  tracker falls back on the newest living inferior, and in general selects a living one
  and lets it run (`SwitchesToLiving`), and
  the closure that decides whether the kernel was reached reads the command line
  anew (`KernelWaits`).
* Not counted as a finding, because nothing documents it: a process that exits before
  it was ever seen living is recorded without a command line, and when a program is
  run again under its number `miri_inferior` raises an `AttributeError` and the session
  stays at the prompt. `SwitchesToLiving` excepts this case.
* Neither is this: an invocation that is killed alone leaves builds running, whose files
  the next invocation merges if they are written after it has emptied the directory.
  `NoStaleEntries` is about the files that were there when it started.

### Fairness

* `Reachability`: the analysis is one thread that nothing blocks: weak fairness of
  its next step.
* `CargoKmiri`: weak fairness for each process, which the operating system
  schedules. cargo's lock is taken under weak fairness: a holder always ends, and
  the bounded number of other invocations cannot take the lock for ever. Starting
  an invocation, interrupting one, editing and cleaning are never forced. A
  compiler is assumed to end.
* `KernelTest`: weak fairness of the script, which assumes that a run of make
  ends; the repository sets no time limit for it. Batches need not be started.
* `CallGraphQueries`, `Coercion`: one thread that nothing blocks, weak fairness of its
  next step.
* `FunctionInfo`, `GdbMiri`: none. A session need not go on.

## What is proved

### Reachability analysis

`ReachabilityProofs`, by TLAPS, for every crate, every set of items, every visit and
every order, from the three assumptions of `ItemGraph` only (there is an item; every
visit returns some vector, and all vectors of one item mention the same items;
starting points are items):

| theorem | states |
|---|---|
| `TypeCorrect` | `TypeOK`: in particular the keys of both maps are the nodes, so that no lookup of the graph can fail |
| `Completeness` | `Complete`: the result is exactly the reachable items |
| `OneVisitPerItem` | `VisitedOnce`: the edges of an item are those of one visit |
| `SettledEdges` | `EdgesSettled`: no step touches them afterwards |
| `NoNodeForgotten` | `NodesAwaitVisit`: between two visits, a node without edges is in the queue |
| `EdgesMirrored` | `BackEdgesMirror`: both maps hold the same edges, as often |
| `Refinement` | `PromiseSpec`: the worklist implements `CollectSpec` |

`Complete` is not inductive: it speaks of the last state only. `WorkInv` strengthens it:

* `Sound`: what is collected, queued or pending is reachable;
* `RootsCovered`: a starting point is pending, queued or collected;
* `SuccCovered`: the successors of a collected item are collected or queued, except
  for the item whose visit is being recorded (`Visiting`), and `Extending` says how
  far its successors have been queued (the first `k - 1`);
* `Ended`: a finished analysis has an empty queue and nothing pending.

With an empty queue and nothing pending, the collected items are closed and hold the
starting points, so they contain the least such set (`ReachableIsLeast`), and `Sound`
gives the converse (`EmptyQueueIsComplete`). That the item is taken off the queue and
marked as collected in one step, before its successors are known, is why
`SuccCovered` needs the exception. `EdgeInv` adds, for the graph, that a node without
a recorded visit has no edges, and that the edges of the item being visited are the
first `k - 1` of `next_items`. `AwaitInv` covers the nodes that `add_edge` has made
before they are enqueued, and `MirrorInv` (`Mirrored`, which `add_node` and `add_edge`
preserve by `MirroredNode` and `MirroredEdge`) also needs that every end of an edge is
a node: otherwise the entry made for a new node would lack its edges. The refinement maps `VisitNew` to `Find`, `Finish` to
`Return` or `Abort`, and every other step to a stutter.

### The visitor and the execution

The first part of `ExecutionProofs` is about `collect_alloc_items`, from `CompilerData` and
`RecursionEnds`. The library's induction theorems cannot be instantiated by the
provers, so well-founded induction is done on sets: an argument by a counterexample
that follows to none. `RecursionDefines` shows that the recursion has a solution
(solutions on closed sets of allocations agree, so their union is one, and it can be
extended by any allocation that leads into it) and is therefore the function the code
computes; `Flattened` does the same for the concatenation of lists. `AllocItemsOf` and
`PtrItemsOf` say what the list of a pointer contains, `OrderKeepsAll` that the order of a
hash set's iteration loses nothing.

The second part, for every crate whose constants the compiler had evaluated
(`Evaluated`; without it see the finding `unevaluated_constants`):

| theorem | states |
|---|---|
| `ExecutedAreCollected` | `ExecutedIsCollected`: every function a run enters has been collected |
| `TouchedAreCollected` | `TouchedIsCollected`: so has every named static it gets hold of |
| `CallsAreInGraph` | `CallsAreEdges`: every direct call made is an edge labelled as such |

That what was entered is collected does not say why the next function will be: it may be
called through a pointer or a vtable another function has made long before. `ExecInv`
adds `HeldCovered`: whatever is behind each pointer, vtable and thread local the program
holds, through any number of loads, is collected. It is preserved because a finished
analysis is closed (`DoneIsClosed`, which rests on `Completeness`'s invariant), because
an occurrence in an executed body is among what its one visit returned
(`OccurrenceCollected`), and because an allocation's list contains the lists of what it
leads to (`LoadCovered`); where the recursion stops, at a named static, the static's own
visit takes over (`InitializerIsSucc`).

### Call graph queries

`CallGraphQueriesProofs`, from the assumptions of `ItemGraph`: `QueryTypes` (`QTypeOK`:
no lookup fails, the recursion is no deeper than the functions are many),
`ReasonIsExact` (`ReasonExact`), `CalleesAreExact` (`CalleesExact`) and
`DrawingIsExplained` (`DrawingExplains`). All rest on the
graph's invariants from `ReachabilityProofs`. `ReasonInv` says that the origins of every
visited node have been found. `CalleesInv` is the invariant of a depth-first search with
a shared set: every function met has a call in progress or all its callees in the set,
and a call in progress has met those its loop has passed. `DrawingInv` says that what has
been drawn and what is still to be read make up the nodes to draw, and that each node is
drawn with the edges to nodes of the drawing. That these lead to a target is then a matter
of the finished walk (`DrawnLeads`): otherwise the nodes the drawing leads to, together with
the collected items that were not visited, would be a closed set without a target, although
the node it started from leads to one.

### Unsizing coercions

`CoercionProofs`, from the language's rules only: `CoercionTypeCorrect` (`TypeOK`),
`BaseIsExact` (`BaseExact`: no assertion fails and the pair is the right one, for every
structs and every depth) and `IteratorAsDocumented` (`PathAsDocumented`). `CoercionInv`: while the iterator has more to return, its two
types are one context, which the language coerces below, around the pair (`Walking`);
when it has not, the last element is two built-in pointers (`Walked`); below them the
context is one the language unsizes (`AtTails`). `PathInv` adds the history: the path
starts with the types that were given, each element but the newest is linked to the next
one by the field it names, and the newest to the types the iterator holds.

### Function information

`FunctionInfoProofs`, for any crates, names, definitions, extents and line limit, and
lists of any length (`InfoAssumption`; instances are finitely many):

| theorem | states |
|---|---|
| `TypeCorrect` | `TypeOK`: every entry at every stage is well formed |
| `MergeIsDeterministic` | `SameInAnyOrder`: the merge does not depend on how the directory is listed |
| `MergeLosesNothing` | `NothingLost`: each crate's entries are in the merged list, with the file, first line and end it saw |
| `DedupKeepsBest` | `BestSurvives`: one entry per name, file and first line is left, and no report of that place goes further |

Two lemmas about the library algorithms come first. For a sort by any strict total order
(`TotalOrder`), the numbers of the elements that come no later than each element are
different and between 1 and the length, so they are the places of the list
(`Places`): `SortedFacts` (same elements, in order) and `SortForgetsOrder` (a list without
repetitions is sorted the same from any order) follow. For `dedup_by`, the recursion has a
solution (`Iterated`), and `DedupFacts` is by counting up its steps: of a list in
descending order, the next entry either has the place of the one kept last, and is covered
by it, or a place that comes after all those kept (`PlacesDescend`), so that there is one
for each place (`OnePerPlace`). `InfoInv` then says of the states that a file
holds what its crate knows (`Files`; the stable id in the path makes it the crate's own),
the merged list what all know (`Merged`), and that the deduplicated list was made from the
merged one (`Deduped`). Nothing is assumed of how crates name files or of names being
unique.

### `cargo kmiri-helper`

`CargoKmiriProofs`, for every set of units, dependencies and invocations, and every
number of interrupts and changes (assumption `Plan`). Without further assumptions, so
for invocations that overlap and builds that outlive them:

| theorem | states |
|---|---|
| `CargoTypeCorrect` | `TypeOK` |
| `StaleNeverMerged` | `NoStaleEntries`: no file that is there when an invocation starts is merged by it |

Assuming `Exclusive` (invocations follow each other) and `KillsGroup` (an interrupt ends
cargo and the drivers too); without them the statements are false:

| theorem | states |
|---|---|
| `ExactlyMerged` | `MergedExactly`: the result is exactly what was compiled |
| `NoInvocationPanics` | `NeverPanics`: no file system call fails, whatever was left behind |
| `FailuresKeepResult` | `FailureKeepsResult` |
| `FreshBuildCompletes` | `FreshBuildIsComplete` |

`StaleInv` needs that an entry is made at most once (`Ahead`: work still to be done has
left no entry yet) besides that what an invocation met is gone once it has emptied the
directory (`Gone`). `SoloInv` says, for the invocation that runs, what it finds on disk
at each call (`Place`), that the files are those of the units compiled by it and whole
but for those being written (`Faithful`), that what is read and what is left to read is
all there is (`Reading`), and what is fresh (`Compiled`).

### Batch runner

`KernelTestProofs`, for any list of cases, repeated ones included, any number of
batches and interrupts, and whatever lines the run of a case prints: `BatchTypes`
(`TypeOK`), `ResultGrows` (`ResultOnlyGrows`), `UninterruptedRecorded`
(`UninterruptedIsRecorded`) and `CasesAccounted` (`EveryCaseAccounted`). `RecordedInv`:
without interrupts, a log that shows anything belongs to a case that has a section in the
result or the body, or whose section is the next to be written; and so one of the logs that
showed a skipped case belongs to a recorded one. `AccountedInv`: every case before the
script's position has been run in this batch or was skipped, and every log that showed a
skipped one still does (`Kept`), or is that of a case this batch has run or is running
(`Rerun`).

### GDB tracker

`GdbMiriProofs`, for any number of inferiors and any programs: `TrackerTypes`,
`KernelIsHandedOver` (`KernelWaits`) and `ExitsSwitchToLiving` (`SwitchesToLiving`).
`KernelSeen`: while the handlers are connected, a process that executes the kernel's
interpreter is the selected one, has just been executed, and the next closure will see
it. `Preferred`: the target of a switch is recorded as miri if a living inferior is, or else
as cargo-miri if one is. `MaxOfInferiors` shows that a non-empty set of inferiors has a maximum.

### Only model-checked

* Liveness (`Termination`, `QueryEnds`, `Terminates`, `EveryInvocationEnds`,
  `BatchEnds`): out of the prover's reach, as ENABLED is.

Every invariant and every action property that a passing run checks is proved.

## What is not modelled, and why

* The interpreter (page states, address spaces, shims) is a submodule that is not in
  the repository, and so is the task API the test kernels call. What is here are
  straight-line callers and a description: a model would be of the description, not
  of code.
* `vivo-blueos/Makefile`: recipes that call external tools in a fixed order. Their only
  state is whether files of other projects exist; the one hazard in them is listed.
* The wording, order and layout of the output, command line parsing and logging:
  no property depends on them.
* `filter_crate_items` and `filter_const_crate_items`: nothing uses them.
* CI configuration, lock files, images and documentation: no state.

## Plan

1. **Done**: `ItemGraph`, `CollectSpec`, `Reachability`, `MirVisitor`, `Execution`,
   `Coercion`, `CallGraphQueries`, `FunctionInfo`, `CargoKmiri`, `KernelTest`, `GdbMiri`,
   and the proofs of all their invariants and action properties.
2. The hazards that `PROJECT.json` lists without a property, where the repository says
   enough of what is promised.
3. `KernelTest` with two scripts in one directory, whose logs and result file are
   shared.
