-------------------------- MODULE KernelTestProofs --------------------------
(***************************************************************************)
(* Proofs about the batch runner, for every input and any number of        *)
(* batches and interrupts.                                                 *)
(***************************************************************************)
EXTENDS KernelTest, FiniteSetTheorems, SequenceTheorems, TLAPS

-----------------------------------------------------------------------------
(* Sections. *)

Failures(s) == {p \in DOMAIN s : s[p].status = "FAIL"}

LEMMA AppendSection ==
    ASSUME NEW s \in Seq(Section), NEW e \in Section
    PROVE  /\ Append(s, e) \in Seq(Section)
           /\ Failures(Append(s, e)) = Failures(s) \cup {p \in {Len(s) + 1} : e.status = "FAIL"}
           /\ IsFiniteSet(Failures(s)) /\ Len(s) + 1 \notin Failures(s)
           /\ Sections(Append(s, e), e.case) # {}
           /\ \A c \in Case : Sections(s, c) # {} => Sections(Append(s, e), c) # {}
<1>1. /\ Append(s, e) \in Seq(Section) /\ Len(Append(s, e)) = Len(s) + 1
      /\ \A p \in 1..Len(s) : Append(s, e)[p] = s[p]
      /\ Append(s, e)[Len(s) + 1] = e
  BY AppendProperties
<1>2. DOMAIN s = 1..Len(s) /\ DOMAIN Append(s, e) = 1..(Len(s) + 1) /\ Len(s) \in Nat
  BY <1>1, LenProperties
<1>3. DOMAIN Append(s, e) = DOMAIN s \cup {Len(s) + 1} /\ Len(s) + 1 \notin DOMAIN s
  BY <1>2
<1>4. IsFiniteSet(Failures(s))
  <2>1. IsFiniteSet(1..Len(s))
    BY <1>2, FS_Interval
  <2>2. Failures(s) \subseteq 1..Len(s)
    BY <1>2 DEF Failures
  <2> QED
    BY <2>1, <2>2, FS_Subset
<1>5. \A p \in DOMAIN s : Append(s, e)[p] = s[p]
  BY <1>1, <1>2
<1> DEFINE t == Append(s, e)
           n == Len(s) + 1
<1>6. DOMAIN t = DOMAIN s \cup {n} /\ n \notin DOMAIN s /\ t[n] = e /\ \A p \in DOMAIN s : t[p] = s[p]
  BY <1>1, <1>3, <1>5
<1> HIDE DEF t, n
<1>7. Failures(t) = Failures(s) \cup {p \in {n} : e.status = "FAIL"} /\ n \notin Failures(s)
  BY <1>6 DEF Failures
<1>8. Sections(t, e.case) # {} /\ \A c \in Case : Sections(s, c) # {} => Sections(t, c) # {}
  BY <1>6 DEF Sections
<1> QED
  BY <1>1, <1>4, <1>7, <1>8 DEF t, n

LEMMA JoinedSections ==
    ASSUME NEW s \in Seq(Section), NEW t \in Seq(Section)
    PROVE  /\ s \o t \in Seq(Section) /\ IsPrefix(s, s \o t)
           /\ \A c \in Case : Sections(s, c) # {} \/ Sections(t, c) # {} => Sections(s \o t, c) # {}
<1>1. /\ s \o t \in Seq(Section) /\ Len(s \o t) = Len(s) + Len(t)
      /\ \A p \in 1..(Len(s) + Len(t)) : (s \o t)[p] = IF p <= Len(s) THEN s[p] ELSE t[p - Len(s)]
  BY ConcatProperties
<1>2. /\ Len(s) \in Nat /\ Len(t) \in Nat
      /\ DOMAIN s = 1..Len(s) /\ DOMAIN t = 1..Len(t) /\ DOMAIN (s \o t) = 1..(Len(s) + Len(t))
  BY <1>1, LenProperties
<1>3. \A p \in DOMAIN s : p \in DOMAIN (s \o t) /\ (s \o t)[p] = s[p]
  BY <1>1, <1>2
<1>4. \A p \in DOMAIN t : p + Len(s) \in DOMAIN (s \o t) /\ (s \o t)[p + Len(s)] = t[p]
  <2>1. ASSUME NEW p \in DOMAIN t
        PROVE  p + Len(s) \in DOMAIN (s \o t) /\ (s \o t)[p + Len(s)] = t[p]
    <3>1. /\ p + Len(s) \in 1..(Len(s) + Len(t)) /\ ~ (p + Len(s) <= Len(s))
          /\ (p + Len(s)) - Len(s) = p
      BY <1>2
    <3> QED
      BY <1>1, <1>2, <3>1
  <2> QED
    BY <2>1
<1>5. SubSeq(s, 1, Len(s)) = SubSeq(s \o t, 1, Len(s))
  BY <1>1, <1>2, <1>3
<1>6. IsPrefix(s, s \o t)
  BY <1>1, <1>2, <1>5 DEF IsPrefix
<1>7. \A c \in Case : Sections(s, c) # {} \/ Sections(t, c) # {} => Sections(s \o t, c) # {}
  BY <1>3, <1>4 DEF Sections
<1> QED
  BY <1>1, <1>6, <1>7

LEMMA PrefixItself ==
    ASSUME NEW s \in Seq(Section)
    PROVE  IsPrefix(s, s) /\ \A t \in Seq(Section) : s = <<>> => IsPrefix(s, t)
<1>1. \A t \in Seq(Section) : Len(t) \in Nat
  BY LenProperties
<1> QED
  BY <1>1 DEF IsPrefix

-----------------------------------------------------------------------------
(* The script's invariant. *)

Running == pc \in {"case", "make", "status"}

\* While cases are run the script's variable tells whether the file exists;
\* a case that is being run is one of the input, and its log is there.
ScriptInv ==
    /\ TypeOK
    /\ Running => result_exists = exists
    /\ pc = "write" => exists /\ index > Len(Input)
    /\ pc \in {"make", "status"} => index <= Len(Input) /\ Input[index] \in DOMAIN logs
    /\ pc = "ended" => body = <<>>
    /\ interrupts \in Nat

LEMMA InputFacts ==
    ASSUME NEW n \in 1..(Len(Input) + 1)
    PROVE  /\ Len(Input) \in Nat
           /\ n <= Len(Input) => Input[n] \in Case /\ Input[n] \in Range(Input)
                                 /\ n + 1 \in 1..(Len(Input) + 1)
<1>1. Len(Input) \in Nat /\ DOMAIN Input = 1..Len(Input)
  BY InputType, LenProperties
<1>2. ASSUME n <= Len(Input)
      PROVE  Input[n] \in Case /\ Input[n] \in Range(Input) /\ n + 1 \in 1..(Len(Input) + 1)
  <2>1. n \in DOMAIN Input
    BY <1>1, <1>2
  <2>2. Input[n] \in Case
    BY <1>1, <2>1, InputType, ElementOfSeq
  <2> QED
    BY <1>1, <1>2, <2>1, <2>2 DEF Range
<1> QED
  BY <1>1, <1>2

LEMMA NoFailures == Failures(<<>>) = {} /\ Cardinality({}) = 0 /\ <<>> \in Seq(Section)
BY FS_EmptySet, EmptySeq DEF Failures

LEMMA InitScript == Init => ScriptInv
<1> SUFFICES ASSUME Init
             PROVE  ScriptInv
  OBVIOUS
<1>1. Len(Input) \in Nat
  BY InputType, LenProperties
<1>2. DOMAIN logs = {}
  BY DEF Init
<1>3. body = <<>> /\ body \in Seq(Section) /\ result = <<>> /\ result \in Seq(Section)
  BY NoFailures DEF Init
<1>4. index \in 1..(Len(Input) + 1) /\ exit \in {0, 1} /\ interrupts \in Nat
  BY <1>1 DEF Init
<1>5. /\ pc = "ended" /\ exists \in BOOLEAN /\ result_exists \in BOOLEAN
      /\ skipped \subseteq Skipped
  BY DEF Init
<1> QED
  BY <1>2, <1>3, <1>4, <1>5 DEF ScriptInv, TypeOK, Running

LEMMA StartBatchKeeps ==
    ASSUME ScriptInv, StartBatch
    PROVE  ScriptInv'
<1>1. Len(Input) \in Nat
  BY InputType, LenProperties
<1>2. {p \in DOMAIN <<>> : <<>>[p].status = "FAIL"} = {}
  OBVIOUS
<1> QED
  BY <1>1, <1>2, NoFailures DEF StartBatch, files, ScriptInv, TypeOK, Running

LEMMA SkipKeeps ==
    ASSUME ScriptInv, Skip
    PROVE  ScriptInv'
<1>1. /\ pc = "case" /\ index <= Len(Input) /\ Input[index] \in Range(Input)
      /\ index + 1 \in 1..(Len(Input) + 1)
  BY InputFacts DEF Skip, AtCase, ScriptInv, TypeOK
<1>2. Showing(Input[index]) \in SUBSET Case
  BY DEF Showing, ScriptInv, TypeOK
<1>3. skipped' \subseteq Skipped
  BY <1>1, <1>2 DEF Skip, Skipped, ScriptInv, TypeOK
<1> QED
  BY <1>1, <1>3 DEF Skip, files, count, ScriptInv, TypeOK, Running

LEMMA LaunchKeeps ==
    ASSUME ScriptInv, Launch
    PROVE  ScriptInv'
<1>1. pc = "case" /\ index <= Len(Input) /\ Input[index] \in Case
  BY InputFacts DEF Launch, AtCase, ScriptInv, TypeOK
<1>2. /\ DOMAIN logs' = DOMAIN logs \cup {Input[index]}
      /\ \A n \in DOMAIN logs' : logs'[n] = IF n = Input[index] THEN {} ELSE logs[n]
  BY DEF Launch
<1>3. DOMAIN logs' \subseteq Case /\ \A n \in DOMAIN logs' : logs'[n] \subseteq Prints(n)
  BY <1>1, <1>2 DEF ScriptInv, TypeOK
<1> QED
  BY <1>1, <1>2, <1>3 DEF Launch, count, ScriptInv, TypeOK, Running

LEMMA MakeRunsKeeps ==
    ASSUME ScriptInv, MakeRuns
    PROVE  ScriptInv'
<1>1. PICK shown \in SUBSET Prints(Input[index]) : logs' = [logs EXCEPT ![Input[index]] = shown]
  BY DEF MakeRuns
<1>2. /\ DOMAIN logs' = DOMAIN logs
      /\ \A n \in DOMAIN logs' : logs'[n] \subseteq Prints(n)
  BY <1>1 DEF ScriptInv, TypeOK
<1> QED
  BY <1>2 DEF MakeRuns, count, ScriptInv, TypeOK, Running

LEMMA RecordKeeps ==
    ASSUME ScriptInv, Record
    PROVE  ScriptInv'
<1>1. pc = "status" /\ index <= Len(Input) /\ Input[index] \in Case /\ index + 1 \in 1..(Len(Input) + 1)
  BY InputFacts DEF Record, ScriptInv, TypeOK
<1>2. PICK status \in {"PASS", "FAIL"} :
        /\ body' = Append(body, [case |-> Input[index], status |-> status])
        /\ failed' = failed + (IF status = "FAIL" THEN 1 ELSE 0)
  BY DEF Record
<1> DEFINE e == [case |-> Input[index], status |-> status]
<1>3. e \in Section /\ e.status = status /\ body \in Seq(Section)
  BY <1>1 DEF Section, ScriptInv, TypeOK
<1>4. failed = Cardinality(Failures(body))
  BY <1>1 DEF ScriptInv, TypeOK, Failures
<1>5. /\ body' \in Seq(Section) /\ IsFiniteSet(Failures(body)) /\ Len(body) + 1 \notin Failures(body)
      /\ Failures(body') = Failures(body) \cup {p \in {Len(body) + 1} : status = "FAIL"}
  BY <1>2, <1>3, AppendSection
<1>6. failed' = Cardinality(Failures(body'))
  <2>1. CASE status = "FAIL"
    <3>1. Failures(body') = Failures(body) \cup {Len(body) + 1}
      BY <1>5, <2>1
    <3>2. Cardinality(Failures(body')) = Cardinality(Failures(body)) + 1
      BY <1>5, <3>1, FS_AddElement
    <3> QED
      BY <1>2, <1>4, <2>1, <3>2
  <2>2. CASE status # "FAIL"
    <3>1. Failures(body') = Failures(body)
      BY <1>5, <2>2
    <3>2. Cardinality(Failures(body)) \in Nat
      BY <1>5, FS_CardinalityType
    <3> QED
      BY <1>2, <1>4, <2>2, <3>1, <3>2
  <2> QED
    BY <2>1, <2>2
<1> QED
  BY <1>1, <1>5, <1>6 DEF Record, files, count, ScriptInv, TypeOK, Running, Failures

LEMMA OpenResultKeeps ==
    ASSUME ScriptInv, OpenResult
    PROVE  ScriptInv' /\ result' = result
<1>1. result' = result
  BY DEF OpenResult, ScriptInv, TypeOK, Running
<1> QED
  BY <1>1 DEF OpenResult, count, ScriptInv, TypeOK, Running

LEMMA WriteResultKeeps ==
    ASSUME ScriptInv, WriteResult
    PROVE  ScriptInv'
<1>1. body \in Seq(Section) /\ result \in Seq(Section) /\ exists
  BY DEF WriteResult, ScriptInv, TypeOK
<1>2. result' \in Seq(Section)
  BY <1>1, JoinedSections DEF WriteResult
<1> QED
  BY <1>1, <1>2, EmptySeq DEF WriteResult, count, ScriptInv, TypeOK, Running

LEMMA InterruptKeeps ==
    ASSUME ScriptInv, Interrupt
    PROVE  ScriptInv'
BY EmptySeq DEF Interrupt, files, ScriptInv, TypeOK, Running

LEMMA ScriptStutter ==
    ASSUME ScriptInv, UNCHANGED vars
    PROVE  ScriptInv'
BY DEF vars, count, ScriptInv, TypeOK, Running

LEMMA ScriptInvariant == Spec => []ScriptInv
<1>1. ASSUME ScriptInv, [Next]_vars
      PROVE  ScriptInv'
  BY <1>1, StartBatchKeeps, SkipKeeps, LaunchKeeps, MakeRunsKeeps, RecordKeeps,
     OpenResultKeeps, WriteResultKeeps, InterruptKeeps, ScriptStutter DEF Next, Script
<1> QED
  BY InitScript, <1>1, PTL DEF Spec

-----------------------------------------------------------------------------
(* What has been recorded. *)

\* The result has a section, or will have one when the batch ends.
Recorded(c) == Sections(result, c) # {} \/ Sections(body, c) # {}

\* Without interrupts a log that shows anything is that of a case that is
\* recorded, or of the run whose section comes next; and so one of the logs
\* that showed a skipped case is that of a recorded one.
RecordedInv ==
    interrupts = 0 =>
        /\ pc # "killed"
        /\ \A s \in skipped : \E n \in s.shown_by : Recorded(n)
        /\ \A n \in DOMAIN logs :
            logs[n] # {} => Recorded(n) \/ (pc = "status" /\ n = Input[index])

\* The case has been run in this batch, or is being run.
Rerun(n) == Sections(body, n) # {} \/ (pc \in {"make", "status"} /\ n = Input[index])

\* Every log that showed the skipped case still does, or is written again.
Kept(s) ==
    /\ s.shown_by # {}
    /\ \A n \in s.shown_by : (n \in DOMAIN logs /\ s.case \in logs[n]) \/ Rerun(n)

\* Everything before the script's position has been run or was skipped for a
\* reason.
AccountedInv ==
    Running \/ pc = "write" =>
        /\ \A s \in skipped : Kept(s)
        /\ \A p \in 1..(index - 1) :
            Sections(body, Input[p]) # {} \/ \E s \in skipped : s.case = Input[p]

LEMMA RecordedKept ==
    ASSUME ScriptInv, RecordedInv, Next
    PROVE  RecordedInv'
<1> SUFFICES ASSUME interrupts' = 0
             PROVE  RecordedInv'
  BY DEF RecordedInv
<1>1. ~ Interrupt /\ interrupts = 0
  BY DEF Next, Script, Interrupt, StartBatch, Skip, Launch, MakeRuns, Record, OpenResult,
         WriteResult, count, ScriptInv
<1>2. /\ DOMAIN logs \subseteq Case /\ \A s \in skipped : s.shown_by \subseteq Case
      /\ body \in Seq(Section) /\ result \in Seq(Section)
  BY DEF ScriptInv, TypeOK, Skipped
<1>3. CASE StartBatch
  <2>1. body = <<>> /\ body' = <<>>
    BY <1>1, <1>3 DEF StartBatch, ScriptInv, RecordedInv
  <2> QED
    BY <1>1, <1>3, <2>1 DEF StartBatch, files, RecordedInv, Recorded
<1>4. CASE Skip
  <2>1. \E n \in Showing(Input[index]) : Recorded(n)
    <3>1. PICK n \in DOMAIN logs : Input[index] \in logs[n]
      BY <1>4 DEF Skip, has_case_in_log
    <3>2. pc = "case" /\ Recorded(n)
      BY <1>1, <1>4, <3>1 DEF Skip, AtCase, RecordedInv
    <3> QED
      BY <3>1, <3>2 DEF Showing
  <2>2. \A c : Recorded(c)' <=> Recorded(c)
    BY <1>4 DEF Skip, files, Recorded
  <2>3. \A s \in skipped' :
            s \in skipped \/ s.shown_by = Showing(Input[index])
    BY <1>4 DEF Skip
  <2>4. \A s \in skipped' : \E n \in s.shown_by : Recorded(n)
    BY <1>1, <2>1, <2>3 DEF RecordedInv
  <2> QED
    BY <1>1, <1>4, <2>2, <2>4 DEF Skip, AtCase, files, RecordedInv
<1>5. CASE Launch
  <2>1. \A c : Recorded(c)' <=> Recorded(c)
    BY <1>5 DEF Launch, Recorded
  <2>2. \A n \in DOMAIN logs' : logs'[n] # {} => n \in DOMAIN logs /\ logs[n] # {}
    BY <1>5 DEF Launch
  <2> QED
    BY <1>1, <1>5, <2>1, <2>2 DEF Launch, AtCase, RecordedInv
<1>6. CASE MakeRuns
  <2>1. \A c : Recorded(c)' <=> Recorded(c)
    BY <1>6 DEF MakeRuns, Recorded
  <2>2. PICK shown \in SUBSET Prints(Input[index]) : logs' = [logs EXCEPT ![Input[index]] = shown]
    BY <1>6 DEF MakeRuns
  <2>3. pc = "make" /\ pc' = "status" /\ index' = index /\ skipped' = skipped
    BY <1>6 DEF MakeRuns
  <2> QED
    BY <1>1, <2>1, <2>2, <2>3 DEF RecordedInv
<1>7. CASE Record
  <2>0. PICK d \in Case : d = Input[index]
    BY <1>7, InputFacts DEF Record, ScriptInv, TypeOK
  <2>1. PICK status \in {"PASS", "FAIL"} : body' = Append(body, [case |-> d, status |-> status])
    BY <1>7, <2>0 DEF Record
  <2>2. [case |-> d, status |-> status] \in Section
    BY DEF Section
  <2>3. Recorded(d)' /\ \A c \in Case : Recorded(c) => Recorded(c)'
    BY <1>2, <1>7, <2>1, <2>2, AppendSection DEF Record, files, Recorded
  <2>4. skipped' = skipped /\ logs' = logs /\ pc' = "case"
    BY <1>7 DEF Record, files
  <2> QED
    BY <1>1, <1>2, <2>0, <2>3, <2>4 DEF RecordedInv
<1>8. CASE OpenResult
  <2>1. \A c : Recorded(c)' <=> Recorded(c)
    BY <1>8, OpenResultKeeps DEF OpenResult, Recorded
  <2> QED
    BY <1>1, <1>8, <2>1 DEF OpenResult, RecordedInv
<1>9. CASE WriteResult
  <2>1. \A c \in Case : Recorded(c) => Recorded(c)'
    BY <1>2, <1>9, JoinedSections DEF WriteResult, Recorded
  <2>2. skipped' = skipped /\ logs' = logs /\ pc = "write" /\ pc' = "ended"
    BY <1>9 DEF WriteResult
  <2> QED
    BY <1>1, <1>2, <2>1, <2>2 DEF RecordedInv
<1> QED
  BY <1>1, <1>3, <1>4, <1>5, <1>6, <1>7, <1>8, <1>9 DEF Next, Script

LEMMA AccountedKept ==
    ASSUME ScriptInv, AccountedInv, Next
    PROVE  AccountedInv'
<1>0. index \in 1..(Len(Input) + 1) /\ Len(Input) \in Nat /\ body \in Seq(Section)
  BY InputType, LenProperties DEF ScriptInv, TypeOK
<1>1. CASE StartBatch \/ Interrupt
  <2>1. CASE StartBatch
    BY <2>1 DEF StartBatch, AccountedInv
  <2>2. CASE Interrupt
    BY <2>2 DEF Interrupt, AccountedInv, Running
  <2> QED
    BY <1>1, <2>1, <2>2
<1>2. CASE Skip
  <2> DEFINE new == [case |-> Input[index], shown_by |-> Showing(Input[index])]
  <2>1. Kept(new)
    BY <1>2 DEF Skip, has_case_in_log, Showing, Kept
  <2>2. \A s : Kept(s) => Kept(s)'
    BY <1>2 DEF Skip, AtCase, files, Kept, Rerun
  <2>3. pc = "case" /\ pc' = "case" /\ index' = index + 1 /\ skipped' = skipped \cup {new} /\ body' = body
    BY <1>2 DEF Skip, AtCase
  <2>4. \A p \in 1..(index' - 1) : p = index \/ p \in 1..(index - 1)
    BY <1>0, <2>3
  <2>5. new \in skipped' /\ new.case = Input[index]
    BY <2>3
  <2> HIDE DEF new
  <2>6. \A s \in skipped' : Kept(s)'
    BY <2>1, <2>2, <2>3 DEF AccountedInv, Running
  <2>7. \A p \in 1..(index' - 1) :
            Sections(body', Input[p]) # {} \/ \E s \in skipped' : s.case = Input[p]
    BY <2>3, <2>4, <2>5 DEF AccountedInv, Running
  <2> QED
    BY <2>6, <2>7 DEF AccountedInv
<1>3. CASE Launch
  <2>1. pc = "case" /\ pc' = "make" /\ index' = index /\ body' = body /\ skipped' = skipped
    BY <1>3 DEF Launch, AtCase
  <2>2. /\ DOMAIN logs' = DOMAIN logs \cup {Input[index]}
        /\ \A n \in DOMAIN logs' : logs'[n] = IF n = Input[index] THEN {} ELSE logs[n]
    BY <1>3 DEF Launch
  <2>3. \A s : Kept(s) => Kept(s)'
    BY <2>1, <2>2 DEF Kept, Rerun
  <2> QED
    BY <2>1, <2>3 DEF AccountedInv, Running
<1>4. CASE MakeRuns
  <2>1. PICK shown \in SUBSET Prints(Input[index]) : logs' = [logs EXCEPT ![Input[index]] = shown]
    BY <1>4 DEF MakeRuns
  <2>2. pc = "make" /\ pc' = "status" /\ index' = index /\ body' = body /\ skipped' = skipped
    BY <1>4 DEF MakeRuns
  <2>3. \A s : Kept(s) => Kept(s)'
    BY <2>1, <2>2 DEF Kept, Rerun
  <2> QED
    BY <2>2, <2>3 DEF AccountedInv, Running
<1>5. CASE Record
  <2>0. PICK d \in Case : d = Input[index]
    BY <1>5, InputFacts DEF Record, ScriptInv, TypeOK
  <2>1. PICK status \in {"PASS", "FAIL"} : body' = Append(body, [case |-> d, status |-> status])
    BY <1>5, <2>0 DEF Record
  <2>2. [case |-> d, status |-> status] \in Section
    BY DEF Section
  <2>3. /\ pc = "status" /\ pc' = "case" /\ index' = index + 1 /\ logs' = logs
        /\ index <= Len(Input) /\ skipped' = skipped
    BY <1>5 DEF Record, files, ScriptInv
  <2>4. Sections(body', d) # {} /\ \A c \in Case : Sections(body, c) # {} => Sections(body', c) # {}
    BY <1>0, <2>1, <2>2, AppendSection
  <2>5. \A p \in 1..(index' - 1) : p = index \/ (p \in 1..(index - 1) /\ Input[p] \in Case)
    BY <1>0, <2>3, InputType
  <2>6. \A s \in skipped : s.shown_by \subseteq Case
    BY DEF ScriptInv, TypeOK, Skipped
  <2>7. \A s \in skipped : Kept(s) => Kept(s)'
    BY <2>0, <2>3, <2>4, <2>6 DEF Kept, Rerun
  <2> QED
    BY <2>0, <2>3, <2>4, <2>5, <2>7 DEF AccountedInv, Running
<1>6. CASE OpenResult
  <2>1. \A s : Kept(s) => Kept(s)'
    BY <1>6 DEF OpenResult, Kept, Rerun
  <2> QED
    BY <1>6, <2>1 DEF OpenResult, AccountedInv, Running
<1>7. CASE WriteResult
  BY <1>7 DEF WriteResult, AccountedInv, Running
<1> QED
  BY <1>1, <1>2, <1>3, <1>4, <1>5, <1>6, <1>7 DEF Next, Script

LEMMA HistoryStutter ==
    ASSUME UNCHANGED vars
    PROVE  (RecordedInv => RecordedInv') /\ (AccountedInv => AccountedInv')
BY DEF vars, count, RecordedInv, Recorded, AccountedInv, Kept, Rerun, Running

LEMMA InitHistory == Init => RecordedInv /\ AccountedInv
BY DEF Init, RecordedInv, AccountedInv, Running

-----------------------------------------------------------------------------
(* Theorems. *)

\* Every variable keeps its type; in particular `failed`, which decides the
\* exit status, is the number of failures among the sections of the batch.
THEOREM BatchTypes == Spec => []TypeOK
<1>1. ScriptInv => TypeOK
  BY DEF ScriptInv
<1> QED
  BY <1>1, ScriptInvariant, PTL

\* However many batches there are and wherever they are interrupted, the
\* result file only grows at its end.
THEOREM ResultGrows == Spec => ResultOnlyGrows
<1>1. ASSUME ScriptInv, [Next]_vars
      PROVE  IsPrefix(result, result')
  <2>1. result \in Seq(Section) /\ body \in Seq(Section)
    BY <1>1 DEF ScriptInv, TypeOK
  <2>2. IsPrefix(result, result)
    BY <2>1, PrefixItself
  <2>3. CASE WriteResult
    BY <2>1, <2>3, JoinedSections DEF WriteResult
  <2>4. CASE ~ WriteResult
    <3>1. result' = result
      BY <1>1, <2>4, OpenResultKeeps
         DEF Next, Script, StartBatch, Skip, Launch, MakeRuns, Record, Interrupt, files, vars
    <3> QED
      BY <2>2, <3>1
  <2> QED
    BY <2>3, <2>4
<1>2. ScriptInv /\ [Next]_vars => [IsPrefix(result, result')]_vars
  BY <1>1
<1> QED
  BY <1>2, ScriptInvariant, PTL DEF Spec, ResultOnlyGrows

\* Whatever other cases' lines a run prints, as long as no batch is
\* interrupted a case is skipped only if the result file has, when the batch
\* ends, the section of a run whose log showed the case.
THEOREM UninterruptedRecorded == Spec => []UninterruptedIsRecorded
<1>1. ScriptInv /\ RecordedInv /\ [Next]_vars => RecordedInv'
  BY RecordedKept, HistoryStutter
<1>2. ScriptInv /\ RecordedInv => UninterruptedIsRecorded
  BY DEF ScriptInv, RecordedInv, Recorded, Sections, UninterruptedIsRecorded, SkippedIsRecorded
<1> QED
  BY <1>1, <1>2, InitHistory, ScriptInvariant, PTL DEF Spec

\* A batch that ends has dealt with every case of the input, whatever
\* happened to the batches before it and whatever other cases' lines a run
\* prints: it ran the case, or skipped it because of logs that show it still
\* unless the batch itself has run their cases again.
THEOREM CasesAccounted == Spec => EveryCaseAccounted
<1>1. ScriptInv /\ AccountedInv /\ [Next]_vars => AccountedInv'
  BY AccountedKept, HistoryStutter
<1>2. ASSUME ScriptInv, AccountedInv, pc = "write", NEW c \in Range(Input)
      PROVE  Sections(body, c) # {} \/ Showing(c) # {} \/ Overwritten(c)
  <2>1. Len(Input) \in Nat /\ DOMAIN Input = 1..Len(Input)
    BY InputType, LenProperties
  <2>2. index \in 1..(Len(Input) + 1) /\ index > Len(Input)
    BY <1>2 DEF ScriptInv, TypeOK
  <2>3. 1..Len(Input) \subseteq 1..(index - 1)
    BY <2>1, <2>2
  <2>4. PICK p \in 1..(index - 1) : Input[p] = c
    BY <2>1, <2>3 DEF Range
  <2>5. CASE Sections(body, c) # {}
    BY <2>5
  <2>6. ASSUME NEW s \in skipped, s.case = c
        PROVE  Showing(c) # {} \/ Overwritten(c)
    <3>1. Kept(s)
      BY <1>2 DEF AccountedInv
    <3>2. PICK n \in s.shown_by : (n \in DOMAIN logs /\ c \in logs[n]) \/ Sections(body, n) # {}
      BY <1>2, <2>6, <3>1 DEF Kept, Rerun
    <3> QED
      BY <2>6, <3>2 DEF Showing, Overwritten
  <2> QED
    BY <1>2, <2>4, <2>5, <2>6 DEF AccountedInv
<1>3. ScriptInv /\ AccountedInv /\ [Next]_vars =>
        [pc = "write" /\ pc' = "ended" =>
            \A c \in Range(Input) :
                Sections(body, c) # {} \/ Showing(c) # {} \/ Overwritten(c)]_vars
  BY <1>2
<1> QED
  BY <1>1, <1>3, InitHistory, ScriptInvariant, PTL DEF Spec, EveryCaseAccounted
=============================================================================
