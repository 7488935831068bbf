---------------------------- MODULE GdbMiriProofs ---------------------------
(***************************************************************************)
(* Proofs about the GDB tracker, for any number of inferiors and any set   *)
(* of programs.                                                            *)
(***************************************************************************)
EXTENDS GdbMiri, FiniteSetTheorems, WellFoundedInduction, TLAPS

-----------------------------------------------------------------------------
(* max() of a set of inferior numbers. *)

\* The numbers above x, for a smallest such set, are none.
LEMMA MaxOfInferiors ==
    ASSUME NEW S \in SUBSET Inferior, S # {}
    PROVE  Max(S) \in S
<1> DEFINE Above(x) == {y \in S : y > x}
           T == {Above(x) : x \in S}
<1>1. IsFiniteSet(S)
  <2>1. IsFiniteSet(Inferior)
    BY GdbMiriAssumption, FS_Interval DEF Inferior
  <2> QED
    BY <2>1, FS_Subset
<1>2. IsWellFoundedOn(StrictSubsetOrdering(S), SUBSET S)
  BY <1>1, FS_StrictSubsetOrderingWellFounded, FS_FiniteSubsetsOfFinite
<1>3. T \subseteq SUBSET S /\ T # {}
  OBVIOUS
<1>4. PICK A \in T : \A B \in T : ~ (<<B, A>> \in StrictSubsetOrdering(S))
  <2> HIDE DEF T
  <2> QED
    BY <1>2, <1>3, WFMin
<1>5. PICK x \in S : A = Above(x)
  OBVIOUS
<1>6. ASSUME NEW y \in S, y > x
      PROVE  FALSE
  <2>1. x \in Int /\ y \in Int
    BY <1>6 DEF Inferior
  <2>2. Above(y) \subseteq Above(x) /\ Above(y) # Above(x)
    <3>1. \A z \in S : z > y => z > x
      BY <1>6, <2>1 DEF Inferior
    <3>2. y \in Above(x) /\ y \notin Above(y)
      BY <1>6, <2>1
    <3> QED
      BY <3>1, <3>2
  <2>3. <<Above(y), Above(x)>> \in StrictSubsetOrdering(S)
    BY <2>2 DEF StrictSubsetOrdering
  <2> QED
    BY <1>4, <1>5, <2>3
<1>7. \A y \in S : x >= y
  BY <1>6 DEF Inferior
<1> QED
  BY <1>7 DEF Max

-----------------------------------------------------------------------------
(* Types, and the target of an exit. *)

\* Nothing assigns a parent, and only inferiors are recorded.
Tracked ==
    /\ DOMAIN child_to_parent \subseteq Inferior
    /\ \A num \in DOMAIN child_to_parent : child_to_parent[num].parent = NoInferior

TrackerInv == TypeOK /\ Tracked

Record == [exited : BOOLEAN, cmdline : Program \cup {None}, parent : Inferior \cup {NoInferior}]

\* A map that is up to date knows which inferiors live.
LEMMA UpToDate ==
    ASSUME TrackerInv
    PROVE  LET t == update_inferiors(child_to_parent) IN
           /\ DOMAIN t = Present
           /\ \A num \in Present : /\ t[num] \in Record
                                   /\ t[num].parent = NoInferior
                                   /\ t[num].exited = ~ Living(num)
<1> DEFINE t == update_inferiors(child_to_parent)
<1>1. DOMAIN t = Present /\ \A num \in Present : t[num] = Item(child_to_parent, num)
  BY DEF update_inferiors
<1>2. ASSUME NEW num \in Present
      PROVE  /\ Item(child_to_parent, num) \in Record
             /\ Item(child_to_parent, num).parent = NoInferior
             /\ Item(child_to_parent, num).exited = ~ Living(num)
  <2>1. new(num) \in Program \cup {None} /\ Living(num) \in BOOLEAN
    BY DEF new, Living
  <2>2. CASE num \in DOMAIN child_to_parent
    <3>1. child_to_parent[num] \in Record /\ child_to_parent[num].parent = NoInferior
      BY <2>2 DEF TrackerInv, TypeOK, Tracked, Record
    <3>2. Item(child_to_parent, num) = [child_to_parent[num] EXCEPT !.exited = ~ Living(num)]
      BY <2>2 DEF Item
    <3> QED
      BY <2>1, <3>1, <3>2 DEF Record
  <2>3. CASE num \notin DOMAIN child_to_parent
    BY <2>1, <2>3 DEF Item, Record
  <2> QED
    BY <2>2, <2>3
<1> QED
  BY <1>1, <1>2

\* Among the living, miri goes first, then cargo-miri.
Preferred(t, target) ==
    \A wanted \in {IsMiri, IsMiri \cup IsCargoMiri} :
        (\E i \in Inferior : Living(i) /\ t[i].cmdline \in wanted) => t[target].cmdline \in wanted

\* The target, if there is one, is alive; there is one if an inferior is.
LEMMA TargetLives ==
    ASSUME TrackerInv
    PROVE  LET t == update_inferiors(child_to_parent) IN
           /\ Target(t) # NoInferior => Target(t) \in Present /\ Living(Target(t))
           /\ (\E i \in Inferior : Living(i)) => Target(t) # NoInferior
           /\ Preferred(t, Target(t))
<1> DEFINE t == update_inferiors(child_to_parent)
           alive == {num \in DOMAIN t : ~ t[num].exited}
           cargo_miri == {num \in alive : t[num].cmdline \in IsCargoMiri}
           miri == {num \in alive : t[num].cmdline \in IsMiri}
<1>1. DOMAIN t = Present /\ Present \subseteq Inferior /\ NoInferior \notin Inferior
  BY UpToDate DEF Present, Inferior, NoInferior
<1>2. alive = {num \in Inferior : Living(num)} /\ alive \subseteq Present
  BY UpToDate, <1>1 DEF Present
<1>3. inferior_to_be_returned(t, selected) = NoInferior
  BY UpToDate, <1>1 DEF inferior_to_be_returned
<1>4. /\ miri_inferior(t) \in alive \cup {NoInferior}
      /\ miri # {} => miri_inferior(t) \in miri
      /\ cargo_miri # {} => miri_inferior(t) \in miri \cup cargo_miri
  <2>1. miri # {} => Max(miri) \in miri
    BY <1>2, MaxOfInferiors
  <2>2. cargo_miri # {} => Max(cargo_miri) \in cargo_miri
    BY <1>2, MaxOfInferiors
  <2>3. miri_inferior(t) = IF miri # {} THEN Max(miri)
                           ELSE IF cargo_miri # {} THEN Max(cargo_miri) ELSE NoInferior
    BY DEF miri_inferior
  <2> HIDE DEF t
  <2> QED
    BY <2>1, <2>2, <2>3
<1>5. newest_alive_inferior(t) = IF alive = {} THEN NoInferior ELSE Max(alive)
  BY DEF newest_alive_inferior
<1>6. alive # {} => Max(alive) \in alive
  BY <1>2, MaxOfInferiors
<1>7. Target(t) = IF miri_inferior(t) # NoInferior THEN miri_inferior(t) ELSE newest_alive_inferior(t)
  BY <1>3 DEF Target
<1> HIDE DEF t, alive
<1>8. /\ miri # {} => Target(t) \in miri
      /\ cargo_miri # {} => Target(t) \in miri \cup cargo_miri
  <2>1. NoInferior \notin alive
    BY <1>1, <1>2
  <2> QED
    BY <1>4, <1>7, <2>1
<1>9. Preferred(t, Target(t))
  BY <1>2, <1>8 DEF Preferred
<1> HIDE DEF miri, cargo_miri
<1>10. Target(t) # NoInferior => Target(t) \in alive
  BY <1>4, <1>5, <1>6, <1>7
<1>11. alive # {} => Target(t) # NoInferior
  BY <1>1, <1>2, <1>4, <1>5, <1>6, <1>7
<1> QED
  BY <1>2, <1>9, <1>10, <1>11 DEF t

LEMMA InitTracker == Init => TrackerInv
<1> SUFFICES ASSUME Init
             PROVE  TrackerInv
  OBVIOUS
<1>1. proc \in [Inferior -> Program \cup {Unused, Exited, Removed}] /\ selected \in Present
  BY GdbMiriAssumption DEF Init, Inferior, Present
<1>2. DOMAIN child_to_parent = {}
  BY DEF Init
<1> QED
  BY <1>1, <1>2 DEF Init, TrackerInv, TypeOK, Tracked

LEMMA UserTracker ==
    ASSUME TrackerInv, User
    PROVE  TrackerInv'
<1>1. CASE InvokeRun
  <2>1. proc' \in [Inferior -> Program \cup {Unused, Exited, Removed}] /\ selected' \in Present'
    BY <1>1, GdbMiriAssumption DEF TrackerInv, TypeOK, InvokeRun, Inferior, Present, Living
  <2> QED
    BY <1>1, <2>1 DEF InvokeRun, TrackerInv, TypeOK, Tracked
<1>2. CASE InvokeDisconnect \/ InvokeSetBreakpoints \/ UserContinues
  BY <1>2 DEF InvokeDisconnect, InvokeSetBreakpoints, UserContinues, TrackerInv, TypeOK, Tracked, Present, Living
<1> QED
  BY <1>1, <1>2 DEF User

LEMMA ContinuedTypes ==
    ASSUME TrackerInv, NEW inf \in Present, Continued(inf)
    PROVE  (running \in BOOLEAN /\ connected \in BOOLEAN /\ breakpoints \in BOOLEAN)'
BY DEF Continued, Entry, TrackerInv, TypeOK

LEMMA ClosureTracker ==
    ASSUME TrackerInv, Closure
    PROVE  TrackerInv'
<1>1. CASE RunContinue
  <2>1. selected \in Present
    BY DEF TrackerInv, TypeOK
  <2>2. (running \in BOOLEAN /\ connected \in BOOLEAN /\ breakpoints \in BOOLEAN)'
    BY <1>1, <2>1, ContinuedTypes DEF RunContinue
  <2> QED
    BY <1>1, <2>2 DEF RunContinue, TrackerInv, TypeOK, Tracked, Present, Living
<1>2. CASE ExitToAnotherInferior
  <2> DEFINE t == update_inferiors(child_to_parent)
  <2>1. child_to_parent' = t /\ proc' = proc /\ posted' = None
    BY <1>2 DEF ExitToAnotherInferior
  <2>2. selected' \in Present /\ (running \in BOOLEAN /\ connected \in BOOLEAN /\ breakpoints \in BOOLEAN)'
    <3>1. CASE AttributeError(t) \/ Target(t) = NoInferior
      BY <1>2, <3>1 DEF ExitToAnotherInferior, TrackerInv, TypeOK
    <3>2. CASE ~ (AttributeError(t) \/ Target(t) = NoInferior)
      <4>1. Target(t) \in Present /\ selected' = Target(t) /\ Continued(Target(t))
        BY <1>2, <3>2, TargetLives DEF ExitToAnotherInferior
      <4> QED
        BY <4>1, ContinuedTypes
    <3> QED
      BY <3>1, <3>2
  <2>3. Present' = Present
    BY <2>1 DEF Present, Living
  <2>4. /\ DOMAIN t = Present /\ Present \subseteq Inferior
        /\ \A num \in Present : t[num] \in Record /\ t[num].parent = NoInferior
    BY UpToDate DEF Present
  <2> HIDE DEF t
  <2> QED
    BY <2>1, <2>2, <2>3, <2>4 DEF TrackerInv, TypeOK, Tracked, Record
<1> QED
  BY <1>1, <1>2 DEF Closure

LEMMA GdbTracker ==
    ASSUME TrackerInv, Gdb
    PROVE  TrackerInv'
<1>1. PICK i \in Inferior : Exec(i) \/ Stop(i) \/ Exit(i) \/ Remove(i) \/ \E j \in Inferior : Fork(i, j)
  BY DEF Gdb
<1>2. CASE Exec(i) \/ Stop(i) \/ Exit(i)
  <2>1. /\ proc' \in [Inferior -> Program \cup {Unused, Exited, Removed}]
        /\ proc'[i] \in Program \cup {Exited}
    BY <1>2 DEF Exec, Stop, Exit, TrackerInv, TypeOK, Living
  <2>2. StopAt(i, "run_continue") \/ StopAt(i, "exit_to_another_inferior")
    BY <1>2 DEF Exec, Stop, Exit
  <2>3. selected' \in Present'
    BY <2>1, <2>2 DEF StopAt, Present, Living
  <2> QED
    BY <2>1, <2>2, <2>3 DEF StopAt, TrackerInv, TypeOK, Tracked
<1>3. CASE Remove(i)
  <2>1. proc' \in [Inferior -> Program \cup {Unused, Exited, Removed}] /\ selected' \in Present'
    BY <1>3 DEF Remove, TrackerInv, TypeOK, Present, Living
  <2> QED
    BY <1>3, <2>1 DEF Remove, TrackerInv, TypeOK, Tracked
<1>4. ASSUME NEW j \in Inferior, Fork(i, j)
      PROVE  TrackerInv'
  <2>1. /\ proc' \in [Inferior -> Program \cup {Unused, Exited, Removed}]
        /\ proc'[j] \in Program /\ \A k \in Inferior \ {j} : proc'[k] = proc[k]
    BY <1>4 DEF Fork, TrackerInv, TypeOK, Living
  <2>2. selected' \in Present'
    BY <1>4, <2>1 DEF Fork, TrackerInv, TypeOK, Present, Living
  <2> QED
    BY <1>4, <2>1, <2>2 DEF Fork, TrackerInv, TypeOK, Tracked
<1> QED
  BY <1>1, <1>2, <1>3, <1>4

LEMMA TrackerInvariant == Spec => []TrackerInv
<1>1. ASSUME TrackerInv, [Next]_vars
      PROVE  TrackerInv'
  <2>1. CASE UNCHANGED vars
    BY <1>1, <2>1 DEF vars, TrackerInv, TypeOK, Tracked, Present, Living
  <2> QED
    BY <1>1, <2>1, UserTracker, ClosureTracker, GdbTracker DEF Next
<1> QED
  BY InitTracker, <1>1, PTL DEF Spec

-----------------------------------------------------------------------------
(* The kernel waits. *)

\* While the handlers are connected, the kernel's interpreter is one that has
\* just been executed, and the closure that will see it is the next step.
KernelSeen ==
    connected =>
        \A i \in Inferior : proc[i] \in IsInterested =>
            ~ running /\ posted = "run_continue" /\ selected = i

LEMMA KernelSeenKept ==
    ASSUME TypeOK, KernelSeen, [Next]_vars
    PROVE  /\ KernelSeen'
           /\ running' /\ (\E i \in Inferior : proc'[i] \in IsInterested /\ proc[i] \in IsInterested)
                => ~ connected' /\ (connected => breakpoints')
<1>0. /\ proc \in [Inferior -> Program \cup {Unused, Exited, Removed}]
      /\ connected \in BOOLEAN /\ running \in BOOLEAN
      /\ IsInterested \subseteq Program /\ First \notin IsInterested
      /\ {Unused, Exited, Removed} \cap IsInterested = {}
      /\ None # "run_continue" /\ None # "exit_to_another_inferior"
      /\ "exit_to_another_inferior" # "run_continue"
  BY GdbMiriAssumption DEF TypeOK, Unused, Exited, Removed, None
<1>1. CASE UNCHANGED vars
  BY <1>0, <1>1 DEF vars, KernelSeen
<1>2. CASE InvokeRun
  BY <1>0, <1>2 DEF InvokeRun, Prompt, KernelSeen, TypeOK
<1>3. CASE InvokeDisconnect \/ InvokeSetBreakpoints \/ UserContinues
  BY <1>0, <1>3 DEF InvokeDisconnect, InvokeSetBreakpoints, UserContinues, Prompt, KernelSeen
<1>4. CASE RunContinue
  BY <1>0, <1>4 DEF RunContinue, Continued, Entry, new, Living, KernelSeen
<1>5. CASE ExitToAnotherInferior
  <2>1. proc' = proc /\ connected => \A i \in Inferior : proc'[i] \notin IsInterested
    BY <1>0, <1>5 DEF ExitToAnotherInferior, KernelSeen
  <2>2. proc' = proc /\ (connected' = connected \/ connected' = FALSE)
    BY <1>5 DEF ExitToAnotherInferior, Continued, Entry
  <2> QED
    BY <1>0, <2>1, <2>2 DEF KernelSeen
<1>6. CASE Gdb
  <2>1. PICK i \in Inferior : Exec(i) \/ Stop(i) \/ Exit(i) \/ Remove(i) \/ \E j \in Inferior : Fork(i, j)
    BY <1>6 DEF Gdb
  <2>2. CASE Exec(i)
    BY <1>0, <2>2 DEF Exec, StopAt, KernelSeen
  <2>3. CASE Stop(i) \/ Exit(i)
    BY <1>0, <2>3 DEF Stop, Exit, StopAt, KernelSeen
  <2>4. CASE Remove(i)
    BY <1>0, <2>4 DEF Remove, KernelSeen
  <2>5. CASE \E j \in Inferior : Fork(i, j)
    BY <1>0, <2>5 DEF Fork, KernelSeen
  <2> QED
    BY <2>1, <2>2, <2>3, <2>4, <2>5
<1> QED
  BY <1>1, <1>2, <1>3, <1>4, <1>5, <1>6 DEF Next, User, Closure

-----------------------------------------------------------------------------
(* The theorems. *)

\* Type correctness of the tracker's map and of the session.
THEOREM TrackerTypes == Spec => []TypeOK
<1>1. TrackerInv => TypeOK
  BY DEF TrackerInv
<1> QED
  BY TrackerInvariant, <1>1, PTL

\* However many processes fork, execute and exit, the interpreter of the
\* kernel does not run on before the session has been handed over, and
\* set-breakpoints invoked.
THEOREM KernelIsHandedOver == Spec => KernelWaits
<1>1. Init => KernelSeen
  BY GdbMiriAssumption DEF Init, KernelSeen, Unused, Exited
<1>2. TrackerInv => TypeOK
  BY DEF TrackerInv
<1>3. TypeOK /\ KernelSeen /\ [Next]_vars => KernelSeen'
  BY KernelSeenKept
<1>4. TypeOK /\ KernelSeen /\ [Next]_vars =>
        [running' /\ (\E i \in Inferior : proc'[i] \in IsInterested /\ proc[i] \in IsInterested)
            => ~ connected' /\ (connected => breakpoints')]_vars
  BY KernelSeenKept
<1> QED
  BY TrackerInvariant, <1>1, <1>2, <1>3, <1>4, PTL DEF Spec, KernelWaits

\* After an exit the session goes on with a living process, if there is one
\* and no living one lacks its command line; with one recorded as miri if
\* there is, else with one recorded as cargo-miri if there is.
THEOREM ExitsSwitchToLiving == Spec => SwitchesToLiving
<1>1. TrackerInv /\ [Next]_vars =>
        [ExitToAnotherInferior /\ (\E i \in Inferior : Living(i)) /\ ~ AttributeError(child_to_parent')
            => /\ Living(selected') /\ running'
               /\ \A wanted \in {IsMiri, IsMiri \cup IsCargoMiri} :
                    (\E i \in Inferior : Living(i) /\ child_to_parent'[i].cmdline \in wanted)
                        => child_to_parent'[selected'].cmdline \in wanted]_vars
  <2> SUFFICES ASSUME TrackerInv, ExitToAnotherInferior, \E i \in Inferior : Living(i),
                      ~ AttributeError(child_to_parent')
               PROVE  /\ Living(selected') /\ running'
                      /\ Preferred(child_to_parent', selected')
    BY DEF Preferred
  <2> DEFINE t == update_inferiors(child_to_parent)
  <2>1. /\ child_to_parent' = t /\ Target(t) # NoInferior /\ Living(Target(t))
        /\ Preferred(t, Target(t))
    BY TargetLives DEF ExitToAnotherInferior
  <2>2. selected' = Target(t) /\ Continued(Target(t))
    BY <2>1 DEF ExitToAnotherInferior
  <2>3. running'
    BY <2>1, <2>2 DEF Continued, Entry
  <2> HIDE DEF t
  <2> QED
    BY <2>1, <2>2, <2>3
<1> QED
  BY TrackerInvariant, <1>1, PTL DEF Spec, SwitchesToLiving
=============================================================================
