----------------------------- MODULE KernelTest -----------------------------
(***************************************************************************)
(* vivo-blueos/kernel-test.sh: runs the kernel's test cases one by one     *)
(* under the interpreter.  A batch can be interrupted and run again: a     *)
(* case is skipped when a log of an earlier run shows that it was run: its *)
(* own log, or that of another case whose run had it run too.              *)
(* What a batch has found is kept in a temporary file and added to the     *)
(* result file at the end.                                                 *)
(***************************************************************************)
EXTENDS Naturals, FiniteSets, SequencesExt

CONSTANTS
    Case,            \* the test cases
    Input,           \* kernel-test.md: the cases to run, in order
    Prints(_),       \* the cases whose `test <name> ...` line a case's run may print
    MaxBatches,      \* bound on the runs of the script
    MaxInterrupts    \* bound on the interrupts

ASSUME InputType == Input \in Seq(Case) /\ \A c \in Case : Prints(c) \subseteq Case

VARIABLES
    pc,              \* what the script does next
    index,           \* the line of the input it is at
    logs,            \* LOG_DIR: for each case with a log, the cases it shows
    body,            \* BODY_FILE: the sections of this batch
    result,          \* RESULT_FILE: the sections written so far
    exists,          \* RESULT_FILE exists
    result_exists,   \* the script's variable: it existed when the script started
    failed,          \* the number of failed cases of this batch
    skipped,         \* history: the cases this batch has skipped, and the logs that showed them
    exit,            \* the exit status of the last batch that ended
    batches, interrupts

count == <<batches, interrupts>>
files == <<logs, result, exists>>
vars == <<pc, index, logs, body, result, exists, result_exists, failed, skipped, exit, count>>

Section == [case : Case, status : {"PASS", "FAIL"}]
Skipped == [case : Range(Input), shown_by : SUBSET Case]
Sections(s, c) == {p \in DOMAIN s : s[p].case = c}

-----------------------------------------------------------------------------
Init ==
    /\ pc = "ended" /\ index = 1
    /\ logs = [c \in {} |-> {}]
    /\ body = <<>> /\ result = <<>>
    /\ exists = FALSE /\ result_exists = FALSE
    /\ failed = 0 /\ skipped = {} /\ exit = 0
    /\ batches = 0 /\ interrupts = 0

StartBatch ==
    /\ pc \in {"ended", "killed"} /\ batches < MaxBatches
    /\ pc' = "case" /\ index' = 1
    /\ body' = <<>> /\ failed' = 0 /\ skipped' = {}
    /\ result_exists' = exists
    /\ batches' = batches + 1
    /\ UNCHANGED <<files, exit, interrupts>>

\* Mutant of has_case_in_log: only the presence of the case's log counts.
has_log(c) == c \in DOMAIN logs

\* The case's line is in its own log or in another one.
has_case_in_log(c) == \E n \in DOMAIN logs : c \in logs[n]
Showing(c) == {n \in DOMAIN logs : c \in logs[n]}

AtCase == pc = "case" /\ index <= Len(Input)

Skip ==
    /\ AtCase /\ has_case_in_log(Input[index])
    /\ skipped' = skipped \cup {[case |-> Input[index], shown_by |-> Showing(Input[index])]}
    /\ index' = index + 1
    /\ UNCHANGED <<pc, files, body, result_exists, failed, exit, count>>

\* The shell empties the log before make starts, and with it the lines of
\* other cases that are in it.
Launch ==
    /\ AtCase /\ ~has_case_in_log(Input[index])
    /\ logs' = [n \in DOMAIN logs \cup {Input[index]} |->
                    IF n = Input[index] THEN {} ELSE logs[n]]
    /\ pc' = "make"
    /\ UNCHANGED <<index, body, result, exists, result_exists, failed, skipped, exit, count>>

\* The kernel is built and run, unless the build fails, and prints a line
\* for every case it runs.
MakeRuns ==
    /\ pc = "make"
    /\ \E shown \in SUBSET Prints(Input[index]) : logs' = [logs EXCEPT ![Input[index]] = shown]
    /\ pc' = "status"
    /\ UNCHANGED <<index, body, result, exists, result_exists, failed, skipped, exit, count>>

\* Mutants of Record: only failures are reported; a failed case is tried
\* again at once; every case counts as failed.
RecordFailures ==
    /\ pc = "status"
    /\ \/ UNCHANGED <<body, failed>>
       \/ body' = Append(body, [case |-> Input[index], status |-> "FAIL"]) /\ failed' = failed + 1
    /\ pc' = "case" /\ index' = index + 1
    /\ UNCHANGED <<files, result_exists, skipped, exit, count>>
RetryFailures ==
    /\ pc = "status"
    /\ \/ body' = Append(body, [case |-> Input[index], status |-> "PASS"]) /\ index' = index + 1
       \/ UNCHANGED <<body, index>>
    /\ pc' = "case"
    /\ UNCHANGED <<files, result_exists, failed, skipped, exit, count>>
CountAll ==
    /\ pc = "status"
    /\ \E status \in {"PASS", "FAIL"} :
        body' = Append(body, [case |-> Input[index], status |-> status])
    /\ failed' = failed + 1
    /\ pc' = "case" /\ index' = index + 1
    /\ UNCHANGED <<files, result_exists, skipped, exit, count>>

\* The section of the case is added to the temporary file.
Record ==
    /\ pc = "status"
    /\ \E status \in {"PASS", "FAIL"} :
        /\ body' = Append(body, [case |-> Input[index], status |-> status])
        /\ failed' = failed + (IF status = "FAIL" THEN 1 ELSE 0)
    /\ pc' = "case" /\ index' = index + 1
    /\ UNCHANGED <<files, result_exists, skipped, exit, count>>

\* Mutant of OpenResult: the file is always created anew.
OpenAnew ==
    /\ pc = "case" /\ index > Len(Input)
    /\ result' = <<>> /\ exists' = TRUE
    /\ pc' = "write"
    /\ UNCHANGED <<index, logs, body, result_exists, failed, skipped, exit, count>>

\* The result file is opened for appending, or created.
OpenResult ==
    /\ pc = "case" /\ index > Len(Input)
    /\ result' = IF result_exists THEN result ELSE <<>>
    /\ exists' = TRUE
    /\ pc' = "write"
    /\ UNCHANGED <<index, logs, body, result_exists, failed, skipped, exit, count>>

\* The heading and the sections are written, and the script exits.  The
\* temporary file is removed on exit.
WriteResult ==
    /\ pc = "write"
    /\ result' = result \o body
    /\ body' = <<>>
    /\ exit' = IF failed > 0 THEN 1 ELSE 0
    /\ pc' = "ended"
    /\ UNCHANGED <<index, logs, exists, result_exists, failed, skipped, count>>

\* An interrupt ends the script and make at any point; the trap removes the
\* temporary file.
Interrupt ==
    /\ pc \notin {"ended", "killed"} /\ interrupts < MaxInterrupts
    /\ interrupts' = interrupts + 1
    /\ pc' = "killed"
    /\ body' = <<>>
    /\ UNCHANGED <<index, files, result_exists, failed, skipped, exit, batches>>

Script == Skip \/ Launch \/ MakeRuns \/ Record \/ OpenResult \/ WriteResult
Next == StartBatch \/ Script \/ Interrupt

\* make ends, so the script goes on.
Spec == Init /\ [][Next]_vars /\ WF_vars(Script)

-----------------------------------------------------------------------------
(* Properties. *)

\* Every variable has its type; a case's log shows nothing a run of it does
\* not print, what is written is in an existing file, and `failed`, which
\* decides the exit status, counts the failures reported.
TypeOK ==
    /\ pc \in {"case", "make", "status", "write", "ended", "killed"}
    /\ index \in 1..(Len(Input) + 1)
    /\ DOMAIN logs \subseteq Case /\ \A n \in DOMAIN logs : logs[n] \subseteq Prints(n)
    /\ body \in Seq(Section) /\ result \in Seq(Section)
    /\ exists \in BOOLEAN /\ result_exists \in BOOLEAN
    /\ result # <<>> => exists
    /\ skipped \subseteq Skipped /\ exit \in {0, 1}
    /\ pc \notin {"ended", "killed"} =>
        failed = Cardinality({p \in DOMAIN body : body[p].status = "FAIL"})

\* "Skipped (already recorded)": when a batch has ended, the result file has
\* a section for a run whose log showed the case that was skipped, be it the
\* case's own run or that of another case.
SkippedIsRecorded ==
    pc = "ended" => \A s \in skipped : \E n \in s.shown_by : Sections(result, n) # {}

\* As long as no batch has been interrupted that is so, although logs are
\* emptied and written again by the runs that come after.
UninterruptedIsRecorded == interrupts = 0 => SkippedIsRecorded

\* However often batches are interrupted and started again, a section that
\* has been written stays where it is.
ResultOnlyGrows == [][IsPrefix(result, result')]_vars

\* A log that showed the case when it was skipped, and that this batch has
\* emptied since, to run the log's own case again.
Overwritten(c) ==
    \E s \in skipped : s.case = c /\ \E n \in s.shown_by : Sections(body, n) # {}

\* A batch that ends has dealt with every case: it has just run it and says so
\* in the result file, or a log shows that it was run, or did so until this
\* batch ran the case whose log that was.  A run that failed before the case
\* was reached is not taken for a run of the case.
EveryCaseAccounted ==
    [][pc = "write" /\ pc' = "ended" =>
        \A c \in Range(Input) :
            Sections(body, c) # {} \/ Showing(c) # {} \/ Overwritten(c)]_vars

\* Every batch that is started ends.
BatchEnds == pc \notin {"ended", "killed"} ~> pc \in {"ended", "killed"}
=============================================================================
