---------------------------- MODULE RunnerProofs ----------------------------
(***************************************************************************)
(* Proofs about Runner, for every set of plans.  IInv is the inductive     *)
(* invariant: the type, where the main thread may be with which state, what *)
(* the tasks that had no turn yet look like, and why a run may be at fault. *)
(***************************************************************************)
EXTENDS Runner, TLAPS, SequenceTheorems

OnTask == {"decide", "setup", "announce", "poll", "judge"}
Ending == {"conclude", "promote", "final", "finished"}

\* The position of the main thread, the state and the step fit each other.
Control ==
  /\ pc = "idle" => /\ state \in {"Initial", "Prepare", "Preflight"}
                    /\ attempted = {} /\ ~faulted /\ ~stopped
                    /\ report \in {"none", "Preflight"}
                    /\ step = IF state = "Initial" THEN 0 ELSE 1
  /\ pc # "idle" => state \in {"Running", "Failed", "Success"} /\ step >= 1
  /\ pc \in OnTask => step \in Tasks
  /\ pc \in Ending => step > Len(plan)
  /\ step <= Len(plan) + 1
  /\ state = "Success" => pc \in {"final", "finished", "crashed"}
  /\ pc \in {"final", "finished"} => state # "Running"
  /\ pc = "finished" => report \in {"Success", "Failed"}
  /\ report = "Success" => pc = "finished"

\* Which tasks were run.
Turns ==
  /\ state = "Running" => \A i \in Tasks : i < step => i \in attempted
  /\ \A i \in Tasks : i < step /\ plan[i].teardown => i \in attempted
  /\ pc \in OnTask \ {"decide"} => step \in attempted
  /\ pc = "promote" \/ state = "Success" \/ report = "Success" => attempted = Tasks
  /\ pc = "setup" /\ faulted => plan[step].teardown

\* Why the run is in the state it is in.
Blame ==
  /\ faulted => state = "Failed"
  /\ stopped => state = "Failed"
  /\ state = "Failed" => faulted \/ stopped \/ pc = "promote"
  /\ pc = "promote" => ~faulted /\ ~stopped
  /\ state = "Success" => ~faulted /\ ~stopped
  /\ report = "Success" => ~faulted /\ ~stopped
  /\ pc = "finished" => report = state
  /\ \A i \in Tasks : announced[i] = "failure" => faulted

\* What is known of a task that has had no turn, has it, or has had it.
Untouched(i) ==
  proc[i] = "none" /\ ~isDone[i] /\ ~hasEnd[i] /\ progress[i] = 0

\* What a poll may say of a process that runs.
Alive(i, p) ==
  p = 99 \/ (plan[i].kind = "grub" /\ p = 999) \/ plan[i].kind = "wipe"

\* How a task is over whose process still runs.
LeftBehind(i) ==
  \/ announced[i] = "none" /\ progress[i] = 999
  \/ announced[i] = "failure" /\ plan[i].kind = "grub" /\ progress[i] = 999
  \/ plan[i].kind = "wipe" /\ progress[i] \in {100, 999}

TaskFacts ==
  \A i \in Tasks :
    /\ i > step \/ (i = step /\ pc \in {"idle", "loop", "decide", "setup"}) => Untouched(i)
    /\ i >= step => announced[i] = "none"
    /\ i = step /\ pc = "announce" /\ proc[i] = "running" => progress[i] \in {0, 999}
    /\ i = step /\ pc \in {"poll", "judge"} => ~isDone[i]
    /\ i = step /\ pc = "poll" => progress[i] < 100
    /\ i = step /\ pc = "judge" /\ proc[i] = "running" => Alive(i, progress[i])
    /\ i < step /\ proc[i] = "running" => LeftBehind(i)
    /\ isDone[i] => progress[i] >= 100
    /\ isDone[i] /\ ~hasEnd[i] =>
         /\ plan[i].kind = "boot_entry"
         /\ faulted \/ (i = step /\ pc = "announce")

Crashed == pc = "crashed" => faulted /\ Undescribable

IInv == TypeOK /\ Control /\ Turns /\ Blame /\ TaskFacts /\ Crashed
-----------------------------------------------------------------------------
\* The values that a setup may leave, whatever the class of the task.
LEMMA SetupOutcomes ==
  ASSUME NEW k \in Kind, NEW outcome \in SetupOf[k]
  PROVE  /\ outcome \in {"none", "popen", "raise", "failed", "flag", "flag_popen",
                         "pass", "noop"}
         /\ outcome = "noop" => k = "boot_entry"
BY DEF Kind, SetupOf, ProcessSetup, UnmountSetup, MountSetup, FsckSetup, ExpandSetup,
       SetUuidSetup, BootEntrySetup, GrubSetup, PythonSetup

LEMMA EmptyRun == Init => IInv
<1> SUFFICES ASSUME Init PROVE IInv
  OBVIOUS
<1> USE DEF Init
<1>1. Tasks = {}
  BY DEF Tasks
<1>2. TypeOK
  <2>1. plan \in Seq(TaskDesc)
    BY EmptySeq
  <2>2. \A S : <<>> \in [Tasks -> S]
    BY <1>1
  <2>3. QED
    BY <2>1, <2>2 DEF TypeOK, RunState, PC
<1>3. Control /\ Turns /\ Blame /\ TaskFacts /\ Crashed
  BY <1>1 DEF Control, Turns, Blame, TaskFacts, Crashed, OnTask, Ending
<1>4. QED
  BY <1>2, <1>3 DEF IInv

LEMMA PrepareStep == IInv /\ Prepare => IInv'
<1> SUFFICES ASSUME IInv, Prepare PROVE IInv'
  OBVIOUS
<1>1. PICK p \in Plans :
        /\ plan' = p
        /\ progress'  = [i \in 1 .. Len(p) |-> 0]
        /\ isStarted' = [i \in 1 .. Len(p) |-> FALSE]
        /\ isDone'    = [i \in 1 .. Len(p) |-> FALSE]
        /\ hasEnd'    = [i \in 1 .. Len(p) |-> FALSE]
        /\ killed'    = [i \in 1 .. Len(p) |-> FALSE]
        /\ proc'      = [i \in 1 .. Len(p) |-> "none"]
        /\ announced' = [i \in 1 .. Len(p) |-> "none"]
  BY DEF Prepare
<1>2. /\ pc = "idle" /\ state = "Initial"
      /\ state' = "Prepare" /\ step' = 1
      /\ UNCHANGED <<pc, report, attempted, faulted, stopped>>
  BY DEF Prepare, histVars
<1>3. /\ attempted = {} /\ ~faulted /\ ~stopped /\ report \in {"none", "Preflight"}
      /\ faulted \in BOOLEAN /\ stopped \in BOOLEAN
      /\ Control /\ report \in RunState \cup {"none"}
  BY <1>2 DEF IInv, Control, TypeOK
<1>4. plan' \in Seq(TaskDesc) /\ Len(plan') \in Nat
  BY <1>1, PlansAssumption, LenProperties
<1>5. Tasks' = 1 .. Len(plan')
  BY DEF Tasks
<1>6. TypeOK'
  <2>1. /\ progress' \in [Tasks' -> Progress]
        /\ proc' \in [Tasks' -> ProcState]
        /\ announced' \in [Tasks' -> Announcement]
    BY <1>1, <1>5 DEF Progress, ProcState, Announcement
  <2>2. /\ isStarted' \in [Tasks' -> BOOLEAN]
        /\ isDone' \in [Tasks' -> BOOLEAN]
        /\ hasEnd' \in [Tasks' -> BOOLEAN]
        /\ killed' \in [Tasks' -> BOOLEAN]
    BY <1>1, <1>5
  <2>3. state' \in RunState /\ step' \in Nat /\ pc' \in PC /\ report' \in RunState \cup {"none"}
    BY <1>2, <1>3 DEF RunState, PC
  <2>4. attempted' \subseteq Tasks' /\ faulted' \in BOOLEAN /\ stopped' \in BOOLEAN
    BY <1>2, <1>3
  <2>5. QED
    BY <1>4, <2>1, <2>2, <2>3, <2>4 DEF TypeOK
<1>7. (Control /\ Turns /\ Blame)'
  BY <1>1, <1>2, <1>3, <1>4, <1>5 DEF Control, Turns, Blame, OnTask, Ending
<1>8. (TaskFacts /\ Crashed)'
  BY <1>1, <1>2, <1>3, <1>4, <1>5 DEF TaskFacts, Alive, LeftBehind, Untouched, Crashed
<1>9. QED
  BY <1>6, <1>7, <1>8 DEF IInv

LEMMA PreflightStep == IInv /\ Preflight => IInv'
<1> SUFFICES ASSUME IInv, Preflight PROVE IInv'
  OBVIOUS
<1> USE DEF IInv, Preflight, taskVars, histVars, Tasks
<1>1. TypeOK'
  BY DEF TypeOK, RunState
<1>2. (Control /\ Turns /\ Blame)'
  BY DEF TypeOK, Control, Turns, Blame, OnTask, Ending
<1>3. (TaskFacts /\ Crashed)'
  BY DEF TypeOK, TaskFacts, Alive, LeftBehind, Untouched, Crashed
<1>4. QED
  BY <1>1, <1>2, <1>3

LEMMA StartStep == IInv /\ Start => IInv'
<1> SUFFICES ASSUME IInv, Start PROVE IInv'
  OBVIOUS
<1> USE DEF IInv, Start, taskVars, histVars, Tasks
<1>1. TypeOK'
  BY DEF TypeOK, RunState, PC
<1>2. (Control /\ Turns /\ Blame)'
  BY DEF TypeOK, Control, Turns, Blame, OnTask, Ending
<1>3. (TaskFacts /\ Crashed)'
  BY DEF TypeOK, TaskFacts, Alive, LeftBehind, Untouched, Crashed, Control
<1>4. QED
  BY <1>1, <1>2, <1>3

\* A task that no report can describe has skipped itself, and but for the moment
\* right after that it has already put the run at fault.
LEMMA Undescribed ==
  ASSUME IInv, Undescribable
  PROVE  \E i \in Tasks : /\ isDone[i] /\ ~hasEnd[i] /\ plan[i].kind = "boot_entry"
                          /\ faulted \/ (i = step /\ pc = "announce")
<1>1. PICK i \in Tasks : isDone[i] /\ (progress[i] < 100 \/ ~hasEnd[i])
  BY DEF Undescribable
<1>2. progress[i] \in Nat
  BY DEF IInv, TypeOK, Progress
<1>3. progress[i] >= 100
  BY <1>1 DEF IInv, TaskFacts
<1>4. ~hasEnd[i]
  BY <1>1, <1>2, <1>3
<1>5. plan[i].kind = "boot_entry" /\ (faulted \/ (i = step /\ pc = "announce"))
  BY <1>1, <1>4 DEF IInv, TaskFacts
<1>6. QED
  BY <1>1, <1>4, <1>5

LEMMA LoopTopStep == IInv /\ LoopTop => IInv'
<1> SUFFICES ASSUME IInv, LoopTop PROVE IInv'
  OBVIOUS
<1> USE DEF IInv, LoopTop, ReportRunState, taskVars, histVars, Tasks
<1>1. TypeOK'
  BY DEF TypeOK, RunState, PC
<1>2. (Control /\ Turns /\ Blame)'
  BY DEF TypeOK, Control, Turns, Blame, OnTask, Ending
<1>3. Undescribable => faulted
  BY Undescribed
<1>4. TaskFacts'
  BY DEF TypeOK, TaskFacts, Alive, LeftBehind, Untouched
<1>5. Crashed'
  BY <1>3 DEF Crashed, Undescribable
<1>6. QED
  BY <1>1, <1>2, <1>4, <1>5

LEMMA DecideStep == IInv /\ Decide => IInv'
<1> SUFFICES ASSUME IInv, Decide PROVE IInv'
  OBVIOUS
<1> USE DEF IInv, Decide, Current, taskVars, histVars, Tasks
<1>1. TypeOK'
  <2>1. step \in Tasks /\ step \in Nat
    BY DEF TypeOK, Control, OnTask
  <2>2. step' \in Nat /\ pc' \in PC
    BY <2>1 DEF PC
  <2>3. attempted' = attempted \/ attempted' = attempted \cup {step}
    OBVIOUS
  <2>4. attempted' \subseteq Tasks
    BY <2>1, <2>3 DEF TypeOK
  <2>5. QED
    BY <2>2, <2>4 DEF TypeOK
<1>2. (Control /\ Turns /\ Blame)'
  BY DEF TypeOK, Control, Turns, Blame, OnTask, Ending
<1>3. step \in Nat /\ (step' = step \/ step' = step + 1)
  BY DEF TypeOK
<1>4. (TaskFacts /\ Crashed)'
  BY <1>3 DEF TaskFacts, Alive, LeftBehind, Untouched, Crashed, Undescribable
<1>5. QED
  BY <1>1, <1>2, <1>4
\* What the except block of run() does to the invariant, wherever the exception
\* came from.
LEMMA RaisedStep ==
  ASSUME IInv, pc \in OnTask, pc # "decide", Raised, killed' \in [Tasks -> BOOLEAN],
         UNCHANGED <<plan, isDone, hasEnd, proc, report, announced, attempted, stopped>>
  PROVE  IInv'
<1> USE DEF IInv, Raised, Tasks
<1>1. step \in Tasks /\ step \in Nat
  BY DEF TypeOK, Control
<1>2. TypeOK'
  BY <1>1 DEF TypeOK, RunState, PC, Progress
<1>3. Control'
  BY <1>1 DEF TypeOK, Control, OnTask, Ending
<1>4. Turns'
  BY <1>1 DEF TypeOK, Control, Turns, OnTask
<1>5. Blame'
  BY <1>1 DEF TypeOK, Control, Blame, OnTask
<1>6. TaskFacts'
  <2> SUFFICES ASSUME NEW i \in Tasks PROVE TaskFacts!(i)'
    BY DEF TaskFacts
  <2>1. CASE i = step
    BY <1>1, <2>1 DEF TypeOK, TaskFacts, Alive, LeftBehind, Untouched
  <2>2. CASE i # step
    BY <1>1, <2>2 DEF TypeOK, TaskFacts, Alive, LeftBehind, Untouched
  <2>3. QED
    BY <2>1, <2>2
<1>7. Crashed'
  BY DEF Crashed
<1>8. QED
  BY <1>2, <1>3, <1>4, <1>5, <1>6, <1>7

LEMMA SetupStep == ASSUME NEW outcome PROVE IInv /\ Setup(outcome) => IInv'
<1> SUFFICES ASSUME IInv, Setup(outcome) PROVE IInv'
  OBVIOUS
<1>1. /\ step \in Tasks /\ step \in Nat /\ pc = "setup"
      /\ plan[step] \in TaskDesc
  BY DEF IInv, TypeOK, Control, OnTask, Setup, Tasks
<1>2. Untouched(step) /\ announced[step] = "none" /\ step \in attempted
  BY <1>1 DEF IInv, TaskFacts, Turns, OnTask
<1>3. /\ outcome \in {"none", "popen", "raise", "failed", "flag", "flag_popen", "pass", "noop"}
      /\ outcome = "noop" => plan[step].kind = "boot_entry"
  BY <1>1, SetupOutcomes DEF Setup, Current, TaskDesc
<1>4. CASE outcome = "raise"
  <2>1. Raised /\ UNCHANGED <<plan, killed, isDone, hasEnd, proc, report,
                           announced, attempted, stopped>>
    BY <1>4 DEF Setup
  <2>2. QED
    BY <1>1, <2>1, RaisedStep DEF IInv, TypeOK, OnTask
<1>5. CASE outcome # "raise"
  <2>1. /\ pc' = "announce"
        /\ UNCHANGED <<plan, state, step, killed, report, announced, histVars>>
        /\ progress' = [progress EXCEPT ![step] = progress'[step]]
        /\ isStarted' = [isStarted EXCEPT ![step] = isStarted'[step]]
        /\ isDone' = [isDone EXCEPT ![step] = isDone'[step]]
        /\ hasEnd' = [hasEnd EXCEPT ![step] = hasEnd'[step]]
        /\ proc' = [proc EXCEPT ![step] = proc'[step]]
    BY <1>1, <1>5 DEF Setup, histVars, IInv, TypeOK
  <2>2. /\ progress'[step] = IF outcome \in {"failed", "flag", "flag_popen"} THEN 999
                             ELSE IF outcome \in {"pass", "noop"} THEN 100 ELSE 0
        /\ isStarted'[step] \in BOOLEAN
        /\ isDone'[step] \in BOOLEAN /\ (isDone'[step] <=> outcome \in {"failed", "noop"})
        /\ hasEnd'[step] \in BOOLEAN /\ (hasEnd'[step] <=> outcome = "failed")
        /\ proc'[step] = IF outcome \in {"popen", "flag_popen"} THEN "running" ELSE "none"
    <3>1. /\ step \in DOMAIN progress /\ step \in DOMAIN isStarted /\ step \in DOMAIN isDone
          /\ step \in DOMAIN hasEnd /\ step \in DOMAIN proc
      BY <1>1 DEF IInv, TypeOK
    <3>2. progress'[step] = IF outcome \in {"failed", "flag", "flag_popen"} THEN 999
                            ELSE IF outcome \in {"pass", "noop"} THEN 100 ELSE 0
      BY <1>2, <1>3, <1>5, <3>1 DEF Setup, Untouched
    <3>3. isDone'[step] \in BOOLEAN /\ (isDone'[step] <=> outcome \in {"failed", "noop"})
      BY <1>2, <1>5, <3>1 DEF Setup, Untouched
    <3>4. hasEnd'[step] \in BOOLEAN /\ (hasEnd'[step] <=> outcome = "failed")
      BY <1>2, <1>5, <3>1, ZenonT(60) DEF Setup, Untouched
    <3>5. proc'[step] = IF outcome \in {"popen", "flag_popen"} THEN "running" ELSE "none"
      BY <1>2, <1>5, <3>1 DEF Setup, Untouched
    <3>6. isStarted'[step] \in BOOLEAN
      BY <1>5, <3>1 DEF Setup
    <3>7. QED
      BY <3>2, <3>3, <3>4, <3>5, <3>6
  <2> HIDE DEF Setup
  <2>3. TypeOK'
    <3>1. progress' \in [Tasks -> Progress] /\ proc' \in [Tasks -> ProcState]
      <4>1. progress'[step] \in Progress /\ proc'[step] \in ProcState
        BY <2>2 DEF Progress, ProcState
      <4>2. QED
        BY <1>1, <2>1, <4>1 DEF IInv, TypeOK
    <3>2. /\ isStarted' \in [Tasks -> BOOLEAN]
          /\ isDone' \in [Tasks -> BOOLEAN]
          /\ hasEnd' \in [Tasks -> BOOLEAN]
      BY <1>1, <2>1, <2>2 DEF IInv, TypeOK
    <3>3. QED
      BY <2>1, <3>1, <3>2 DEF IInv, TypeOK, histVars, PC, Tasks
  <2>4. (Control /\ Turns /\ Blame /\ Crashed)'
    BY <1>1, <1>2, <2>1 DEF IInv, TypeOK, histVars, Control, Turns, Blame, Crashed, Tasks,
       OnTask, Ending
  <2>5. TaskFacts'
    <3> SUFFICES ASSUME NEW i \in Tasks PROVE TaskFacts!(i)'
      BY <2>1 DEF TaskFacts, Tasks
    <3>1. CASE i = step
      <4>1. progress'[step] \in {0, 100, 999} /\ (proc'[step] = "running" => progress'[step] # 100)
        BY <1>3, <2>2
      <4>2. /\ isDone'[step] => progress'[step] >= 100
            /\ isDone'[step] /\ ~hasEnd'[step] => plan[step].kind = "boot_entry"
        BY <1>3, <2>2
      <4>3. QED
        BY <1>1, <1>2, <2>1, <3>1, <4>1, <4>2
    <3>2. CASE i # step
      <4>1. /\ progress'[i] = progress[i] /\ isDone'[i] = isDone[i]
            /\ hasEnd'[i] = hasEnd[i] /\ proc'[i] = proc[i]
        BY <2>1, <3>2 DEF IInv, TypeOK
      <4>2. QED
        BY <1>1, <2>1, <3>2, <4>1
           DEF IInv, TypeOK, TaskFacts, Alive, LeftBehind, Untouched, histVars
    <3>3. QED
      BY <3>1, <3>2
  <2>6. QED
    BY <2>3, <2>4, <2>5 DEF IInv
<1>6. QED
  BY <1>4, <1>5

LEMMA AnnounceStep == IInv /\ AnnounceTask => IInv'
<1> SUFFICES ASSUME IInv, AnnounceTask PROVE IInv'
  OBVIOUS
<1>1. pc = "announce" /\ step \in Tasks /\ step \in Nat
  BY DEF AnnounceTask, IInv, Control, TypeOK, OnTask
<1>2. CASE Undescribable
  BY <1>1, <1>2, RaisedStep DEF AnnounceTask, IInv, TypeOK, OnTask
<1>3. CASE ~Undescribable
  <2>1. /\ IF progress[step] < 100 THEN pc' = "poll" /\ UNCHANGED step
                                   ELSE pc' = "loop" /\ step' = step + 1
        /\ UNCHANGED <<plan, state, progress, isStarted, isDone, hasEnd, killed, proc, report,
                       announced, attempted, faulted, stopped>>
    BY <1>3 DEF AnnounceTask
  <2>2. ~(isDone[step] /\ ~hasEnd[step]) /\ progress[step] \in Progress
    BY <1>1, <1>3 DEF Undescribable, IInv, TypeOK
  <2> USE DEF IInv, Tasks
  <2>3. TypeOK'
    BY <1>1, <2>1 DEF TypeOK, PC
  <2>4. (Control /\ Turns /\ Blame /\ Crashed)'
    BY <1>1, <2>1 DEF TypeOK, Control, Turns, Blame, Crashed, OnTask, Ending
  <2>5. TaskFacts'
    <3> SUFFICES ASSUME NEW i \in Tasks PROVE TaskFacts!(i)'
      BY <2>1 DEF TaskFacts
    <3>1. CASE i = step
      BY <1>1, <2>1, <2>2, <3>1 DEF TypeOK, TaskFacts, Alive, LeftBehind, Untouched, Progress
    <3>2. CASE i # step
      BY <1>1, <2>1, <3>2 DEF TypeOK, TaskFacts, Alive, LeftBehind, Untouched
    <3>3. QED
      BY <3>1, <3>2
  <2>6. QED
    BY <2>3, <2>4, <2>5
<1>4. QED
  BY <1>2, <1>3
\* A poll that returns: the task in turn gets a progress that agrees with its
\* process.
Polled(p) ==
  /\ pc = "poll" /\ pc' = "judge"
  /\ killed' \in [Tasks -> BOOLEAN]
  /\ proc[step] = "running" => Alive(step, p)
  /\ progress' = [progress EXCEPT ![step] = p]
  /\ isStarted' = [isStarted EXCEPT ![step] = TRUE]
  /\ UNCHANGED <<plan, state, step, isDone, hasEnd, proc, report, announced, histVars>>

LEMMA PolledStep == ASSUME IInv, NEW p \in {99, 100, 999}, Polled(p) PROVE IInv'
<1> USE DEF IInv, Tasks, histVars, Polled
<1>1. step \in Tasks /\ step \in Nat
  BY DEF Control, OnTask, TypeOK
<1>2. TypeOK'
  BY <1>1 DEF TypeOK, PC, Progress
<1>3. (Control /\ Turns /\ Blame /\ Crashed)'
  BY <1>1 DEF TypeOK, Control, Turns, Blame, Crashed, OnTask, Ending
<1>4. TaskFacts'
  <2> SUFFICES ASSUME NEW i \in Tasks PROVE TaskFacts!(i)'
    BY DEF TaskFacts
  <2>1. CASE i = step
    BY <1>1, <2>1 DEF TypeOK, TaskFacts, Alive, LeftBehind, Untouched
  <2>2. CASE i # step
    BY <1>1, <2>2 DEF TypeOK, TaskFacts, Alive, LeftBehind, Untouched
  <2>3. QED
    BY <2>1, <2>2
<1>5. QED
  BY <1>2, <1>3, <1>4

LEMMA PollProcessStep == IInv /\ PollProcess => IInv'
<1> SUFFICES ASSUME IInv, PollProcess PROVE IInv'
  OBVIOUS
<1>1. killed' \in [Tasks -> BOOLEAN]
  BY DEF PollProcess, Signalled, IInv, TypeOK
<1>2. PICK p \in PolledProgress(step) : progress' = [progress EXCEPT ![step] = p]
  BY DEF PollProcess
<1>3. p \in {99, 100, 999} /\ (proc[step] = "running" => Alive(step, p))
  BY <1>2 DEF PolledProgress, ReportsDecide, TimesOut, Awaits, Succeeds, Alive
<1>4. Polled(p)
  BY <1>1, <1>2, <1>3, ZenonT(60) DEF PollProcess, Polled
<1>5. QED
  BY <1>3, <1>4, PolledStep

LEMMA PollPythonStep == IInv /\ PollPython => IInv'
<1> SUFFICES ASSUME IInv, PollPython PROVE IInv'
  OBVIOUS
<1>1. PICK p \in {100, 999} : progress' = [progress EXCEPT ![step] = p]
  BY ZenonT(40) DEF PollPython
<1>2. killed' \in [Tasks -> BOOLEAN]
  BY DEF PollPython, IInv, TypeOK
<1>3. p \in {99, 100, 999} /\ (proc[step] = "running" => Alive(step, p))
  BY DEF PollPython
<1>4. /\ pc = "poll" /\ pc' = "judge"
      /\ isStarted' = [isStarted EXCEPT ![step] = TRUE]
      /\ UNCHANGED <<plan, state, step, isDone, hasEnd, proc, report, announced,
                     histVars>>
  BY DEF PollPython
<1>. Polled(p)
  BY <1>1, <1>2, <1>3, <1>4 DEF Polled
<1>5. QED
  BY <1>3, PolledStep

LEMMA PollRaisesStep == IInv /\ (PollProcessRaises \/ PollPythonRaises) => IInv'
<1> SUFFICES ASSUME IInv, PollProcessRaises \/ PollPythonRaises PROVE IInv'
  OBVIOUS
<1>1. killed' \in [Tasks -> BOOLEAN]
  BY DEF PollProcessRaises, PollPythonRaises, Signalled, IInv, TypeOK
<1>2. QED
  BY <1>1, RaisedStep DEF PollProcessRaises, PollPythonRaises, OnTask

LEMMA JudgeRunningStep == IInv /\ JudgeRunning => IInv'
<1> SUFFICES ASSUME IInv, JudgeRunning PROVE IInv'
  OBVIOUS
<1> USE DEF IInv, JudgeRunning, taskVars, histVars, Tasks
<1>1. TypeOK'
  BY DEF TypeOK, PC
<1>2. (Control /\ Turns /\ Blame /\ Crashed)'
  BY DEF TypeOK, Control, Turns, Blame, Crashed, OnTask, Ending
<1>3. TaskFacts'
  BY DEF TypeOK, TaskFacts, Alive, LeftBehind, Untouched
<1>4. QED
  BY <1>1, <1>2, <1>3

LEMMA JudgeFinishedStep == IInv /\ JudgeFinished => IInv'
<1> SUFFICES ASSUME IInv, JudgeFinished PROVE IInv'
  OBVIOUS
<1> USE DEF IInv, Tasks
<1>1. step \in Tasks /\ step \in Nat /\ progress[step] \in Progress
  BY DEF JudgeFinished, Control, OnTask, TypeOK
<1>2. /\ pc = "judge" /\ pc' = "loop" /\ step' = step + 1
      /\ isDone' = [isDone EXCEPT ![step] = TRUE]
      /\ hasEnd' = [hasEnd EXCEPT ![step] = TRUE]
      /\ UNCHANGED <<plan, progress, isStarted, killed, proc, report, attempted, stopped>>
      /\ progress[step] >= 100
  BY DEF JudgeFinished
<1>3. \/ /\ state' = "Failed" /\ faulted' = TRUE /\ progress[step] > 100
         /\ announced' = [announced EXCEPT ![step] = "failure"]
      \/ /\ state' = state /\ faulted' = faulted /\ progress[step] = 100
         /\ announced' = [announced EXCEPT ![step] = "success"]
  BY <1>1 DEF JudgeFinished, Progress
<1>4. /\ progress[step] \in {100, 999}
      /\ proc[step] = "running" =>
           (plan[step].kind = "grub" /\ progress[step] = 999) \/ plan[step].kind = "wipe"
  BY <1>1, <1>2 DEF TaskFacts, Alive, Progress
<1>5. TypeOK'
  <2>1. state' \in RunState /\ faulted' \in BOOLEAN
    BY <1>3 DEF TypeOK, RunState
  <2>2. announced' \in [Tasks -> Announcement]
    <3>1. PICK a \in Announcement : announced' = [announced EXCEPT ![step] = a]
      BY <1>3, Zenon DEF Announcement
    <3>2. QED
      BY <3>1 DEF TypeOK
  <2>3. isDone' \in [Tasks -> BOOLEAN] /\ hasEnd' \in [Tasks -> BOOLEAN]
    BY <1>2 DEF TypeOK
  <2>4. step' \in Nat /\ pc' \in PC
    BY <1>1, <1>2 DEF PC
  <2>5. QED
    BY <1>2, <2>1, <2>2, <2>3, <2>4 DEF TypeOK
<1>6. (Control /\ Turns /\ Crashed)'
  BY <1>1, <1>2, <1>3 DEF TypeOK, Control, Turns, Crashed, OnTask, Ending
<1>7. Blame'
  BY <1>1, <1>2, <1>3 DEF TypeOK, Control, Blame
<1>8. TaskFacts'
  <2> SUFFICES ASSUME NEW i \in Tasks PROVE TaskFacts!(i)'
    BY <1>2 DEF TaskFacts
  <2>1. CASE i = step
    BY <1>1, <1>2, <1>3, <1>4, <2>1 DEF TypeOK, TaskFacts, Alive, LeftBehind, Untouched
  <2>2. CASE i # step
    BY <1>1, <1>2, <1>3, <2>2 DEF TypeOK, TaskFacts, Alive, LeftBehind, Untouched
  <2>3. QED
    BY <2>1, <2>2
<1>9. QED
  BY <1>5, <1>6, <1>7, <1>8

LEMMA EndSteps == IInv /\ (Conclude \/ Promote \/ FinalReport) => IInv'
<1> SUFFICES ASSUME IInv, Conclude \/ Promote \/ FinalReport PROVE IInv'
  OBVIOUS
<1> USE DEF IInv, taskVars, histVars, Tasks
<1>1. TypeOK'
  <2>1. pc' \in PC /\ state' \in RunState
    BY DEF TypeOK, RunState, PC, Conclude, Promote, FinalReport, ReportRunState
  <2>2. report' \in RunState \cup {"none"}
    BY DEF TypeOK, Conclude, Promote, FinalReport, ReportRunState
  <2>3. UNCHANGED <<plan, step, taskVars, announced, histVars>>
    BY DEF Conclude, Promote, FinalReport
  <2>4. QED
    BY <2>1, <2>2, <2>3 DEF TypeOK
<1>2. TaskFacts'
  BY DEF TypeOK, TaskFacts, Alive, LeftBehind, Untouched,
     Conclude, Promote, FinalReport, ReportRunState
<1>3. CASE Conclude
  <2>1. pc' = "promote" => attempted = Tasks
    <3>1. step > Len(plan) /\ step \in Nat /\ Len(plan) \in Nat
      BY <1>3, LenProperties DEF Conclude, Control, TypeOK, Ending
    <3>2. \A i \in Tasks : i < step
      BY <3>1
    <3>3. state = "Running" => \A i \in Tasks : i \in attempted
      BY <3>2 DEF Turns
    <3>4. QED
      BY <1>3, <3>3 DEF Conclude, TypeOK
  <2>2. (Control /\ Turns /\ Blame /\ Crashed)'
    BY <1>3, <2>1 DEF Conclude, TypeOK, Control, Turns, Blame, Crashed, OnTask, Ending
  <2>3. QED
    BY <1>1, <1>2, <2>2
<1>4. CASE Promote
  <2>1. (Control /\ Turns /\ Blame /\ Crashed)'
    BY <1>4 DEF Promote, TypeOK, Control, Turns, Blame, Crashed, OnTask, Ending
  <2>2. QED
    BY <1>1, <1>2, <2>1
<1>5. CASE FinalReport
  <2>1. Undescribable => faulted
    BY <1>5, Undescribed DEF FinalReport
  <2>2. (Control /\ Turns /\ Blame)'
    BY <1>5 DEF FinalReport, ReportRunState, TypeOK, Control, Turns, Blame, OnTask, Ending
  <2>3. Crashed'
    BY <1>5, <2>1 DEF FinalReport, ReportRunState, Crashed, Undescribable
  <2>4. QED
    BY <1>1, <1>2, <2>2, <2>3
<1>6. QED
  BY <1>3, <1>4, <1>5

LEMMA InterruptStep == IInv /\ Interrupt => IInv'
<1> SUFFICES ASSUME IInv, Interrupt PROVE IInv'
  OBVIOUS
<1> USE DEF IInv, Interrupt, taskVars, Tasks
<1>1. TypeOK'
  BY DEF TypeOK, RunState
<1>2. (Control /\ Turns /\ Blame /\ Crashed)'
  BY DEF TypeOK, Control, Turns, Blame, Crashed, OnTask, Ending
<1>3. TaskFacts'
  BY DEF TypeOK, TaskFacts, Alive, LeftBehind, Untouched
<1>4. QED
  BY <1>1, <1>2, <1>3

LEMMA ProcessExitsStep == ASSUME NEW j \in Tasks PROVE IInv /\ ProcessExits(j) => IInv'
<1> SUFFICES ASSUME IInv, ProcessExits(j) PROVE IInv'
  OBVIOUS
<1> USE DEF IInv, histVars, Tasks
<1>1. PICK code \in {"good", "bad"} : proc' = [proc EXCEPT ![j] = code]
  BY DEF ProcessExits
<1>2. /\ proc[j] = "running"
      /\ UNCHANGED <<plan, state, step, pc, progress, isStarted, isDone, hasEnd,
                     killed, report, announced, histVars>>
  BY DEF ProcessExits
<1>3. TypeOK'
  BY <1>1, <1>2 DEF TypeOK, ProcState
<1>4. (Control /\ Turns /\ Blame)'
  BY <1>2 DEF TypeOK, Control, Turns, Blame, OnTask, Ending
<1>5. Crashed'
  BY <1>2 DEF Crashed, Undescribable
<1>6. TaskFacts'
  <2> SUFFICES ASSUME NEW i \in Tasks PROVE TaskFacts!(i)'
    BY <1>2 DEF TaskFacts
  <2>1. CASE i = j
    BY <1>1, <1>2, <2>1 DEF TypeOK, TaskFacts, Alive, LeftBehind, Untouched
  <2>2. CASE i # j
    BY <1>1, <1>2, <2>2 DEF TypeOK, TaskFacts, Alive, LeftBehind, Untouched
  <2>3. QED
    BY <2>1, <2>2
<1>7. QED
  BY <1>3, <1>4, <1>5, <1>6
LEMMA Inductive == IInv /\ [Next]_vars => IInv'
<1> SUFFICES ASSUME IInv, [Next]_vars PROVE IInv'
  OBVIOUS
<1>1. CASE Run
  BY <1>1, PrepareStep, PreflightStep, StartStep, LoopTopStep, DecideStep, SetupStep,
     AnnounceStep, PollProcessStep, PollRaisesStep, PollPythonStep, JudgeRunningStep,
     JudgeFinishedStep, EndSteps DEF Run
<1>2. CASE Interrupt
  BY <1>2, InterruptStep
<1>3. CASE \E i \in Tasks : ProcessExits(i)
  BY <1>3, ProcessExitsStep
<1>4. CASE UNCHANGED vars
  BY <1>4 DEF vars, taskVars, histVars, IInv, TypeOK, Control, Turns, Blame,
     TaskFacts, Alive, LeftBehind, Untouched, Crashed, Undescribable, Tasks, OnTask, Ending
<1>5. QED
  BY <1>1, <1>2, <1>3, <1>4 DEF Next, Ended

\* The inductive invariant holds throughout every run, for every set of plans.
THEOREM Invariance == Spec => []IInv
<1>1. Init => IInv
  BY EmptyRun
<1>2. IInv /\ [Next]_vars => IInv'
  BY Inductive
<1>3. QED
  BY <1>1, <1>2, PTL DEF Spec

\* Every variable keeps its type.
THEOREM TypeCorrect == Spec => []TypeOK
<1>1. IInv => TypeOK
  BY DEF IInv
<1>2. QED
  BY <1>1, Invariance, PTL

\* A run reported as a success ran every task and saw none fail.
THEOREM SuccessEarned == Spec => []SuccessIsEarned
<1>1. IInv => SuccessIsEarned
  BY DEF IInv, Turns, Blame, SuccessIsEarned
<1>2. QED
  BY <1>1, Invariance, PTL

\* A failure that was shown, and a stop that came in time, are in the outcome.
THEOREM FailureReported == Spec => []FailureIsReported
<1>1. IInv => FailureIsReported
  BY DEF IInv, Control, Blame, FailureIsReported
<1>2. QED
  BY <1>1, Invariance, PTL

\* A run that reaches its regular end gave every teardown task its turn.
THEOREM TeardownDone == Spec => []TeardownAttempted
<1>1. IInv => TeardownAttempted
  <2> SUFFICES ASSUME IInv, pc = "finished", NEW i \in Tasks, plan[i].teardown
               PROVE  i \in attempted
    BY DEF TeardownAttempted
  <2>1. step > Len(plan) /\ step \in Nat /\ Len(plan) \in Nat
    BY LenProperties DEF IInv, TypeOK, Control, Ending
  <2>2. i < step
    BY <2>1 DEF Tasks
  <2>3. QED
    BY <2>2 DEF IInv, Turns
<1>2. QED
  BY <1>1, Invariance, PTL

\* A task is announced only after its process has exited, except one that timed out
\* and a wipe.
THEOREM ExitBeforeAnnouncement == Spec => []AnnouncedAfterExit
<1>1. IInv => AnnouncedAfterExit
  BY DEF IInv, TaskFacts, LeftBehind, AnnouncedAfterExit
<1>2. QED
  BY <1>1, Invariance, PTL

\* A run is lost only through an optional task that skipped itself.
THEOREM CrashCause == Spec => []OnlySkippingCrashes
<1>1. IInv => OnlySkippingCrashes
  BY Undescribed DEF IInv, Crashed, OnlySkippingCrashes
<1>2. QED
  BY <1>1, Invariance, PTL

\* Where the end of a run stands: all of the above that is about it.
THEOREM EndMeansWhatItSays == Spec => []EndIsTrue
BY SuccessEarned, FailureReported, TeardownDone, CrashCause, PTL DEF EndIsTrue

\* Once the run has begun, a process is started by the setup of the task whose turn
\* it is, and by no other step.
LEMMA StartsAtSetup ==
  ASSUME IInv, Next, pc # "idle",
         NEW i \in Tasks, proc[i] = "none", proc'[i] = "running"
  PROVE  i = step /\ pc = "setup"
<1>1. UNCHANGED proc => FALSE
  OBVIOUS
<1>2. CASE \E outcome : Setup(outcome)
  <2>1. PICK outcome : Setup(outcome)
    BY <1>2
  <2>2. step \in Tasks /\ pc = "setup"
    BY <2>1 DEF IInv, Control, OnTask, Setup
  <2>3. i = step
    BY <1>1, <2>1, <2>2 DEF IInv, TypeOK, Setup
  <2>4. QED
    BY <2>2, <2>3
<1>3. CASE Prepare
  BY <1>3 DEF Prepare
<1>4. CASE \E j \in Tasks : ProcessExits(j)
  BY <1>4 DEF ProcessExits, IInv, TypeOK
<1>5. QED
  BY <1>1, <1>2, <1>3, <1>4 DEF Next, Run, Preflight, Start, LoopTop, Decide, AnnounceTask,
     PollProcess, PollProcessRaises, PollPython, PollPythonRaises, JudgeRunning, JudgeFinished,
     Conclude, Promote, FinalReport, Interrupt, Ended, taskVars, vars

\* After a task has failed only teardown tasks start a process.
THEOREM NoNewWork == Spec => NoNewWorkAfterFault
<1> DEFINE A == \A i \in Tasks :
      proc[i] = "none" /\ proc'[i] = "running" /\ faulted => plan[i].teardown
<1>1. ASSUME IInv, [Next]_vars PROVE [A]_vars
  <2> SUFFICES ASSUME NEW i \in Tasks, proc[i] = "none", proc'[i] = "running", faulted, Next
               PROVE  plan[i].teardown
    BY <1>1
  <2>1. pc # "idle"
    BY <1>1 DEF IInv, Control
  <2>2. QED
    BY <1>1, <2>1, StartsAtSetup DEF IInv, Turns
<1>2. QED
  BY <1>1, Invariance, PTL DEF Spec, NoNewWorkAfterFault

\* A process starts only when those of the earlier tasks are over, or were left
\* behind by a task that failed or by a wipe that reported its end.
THEOREM OneProcess == Spec => NoOverlap
<1> DEFINE A == \A i \in Tasks :
      plan # <<>> /\ proc[i] = "none" /\ proc'[i] = "running" =>
        \A j \in 1 .. i - 1 :
          \/ proc[j] # "running"
          \/ progress[j] = 999
          \/ plan[j].kind = "wipe" /\ progress[j] = 100
<1>1. ASSUME IInv, [Next]_vars PROVE [A]_vars
  <2> SUFFICES ASSUME NEW i \in Tasks, proc[i] = "none", proc'[i] = "running", Next,
                      NEW j \in 1 .. i - 1, proc[j] = "running"
               PROVE  progress[j] = 999 \/ (plan[j].kind = "wipe" /\ progress[j] = 100)
    BY <1>1
  <2>1. j \in Tasks /\ j < i /\ step \in Nat
    BY <1>1, LenProperties DEF Tasks, IInv, TypeOK
  <2>2. pc # "idle"
    BY <1>1, <2>1 DEF IInv, Control, TaskFacts, Alive, LeftBehind, Untouched, Tasks
  <2>3. j < step
    BY <1>1, <2>1, <2>2, StartsAtSetup
  <2>4. QED
    BY <1>1, <2>1, <2>3 DEF IInv, TaskFacts, LeftBehind
<1>2. QED
  BY <1>1, Invariance, PTL DEF Spec, NoOverlap

\* When a process may start.
THEOREM OrderOfStarts == Spec => StartsInOrder
BY NoNewWork, OneProcess, PTL DEF StartsInOrder
-----------------------------------------------------------------------------
(***************************************************************************)
(* What is true of Termination without fairness: the loop of run() goes    *)
(* forward.  Its position is the step and, within it, the Place.           *)
(***************************************************************************)
\* The main thread polls a process that still runs, or one of a task that may wait
\* for more than its exit.
Watching ==
  /\ pc = "poll" \/ (pc = "judge" /\ progress[step] < 100)
  /\ proc[step] = "running" \/ plan[step].kind \in {"wipe", "partprobe"}

\* Places within a step at which the main thread does not look at a process.
PlaceOf == [loop |-> 3, decide |-> 4, setup |-> 5, announce |-> 6, conclude |-> 11,
            promote |-> 12, final |-> 13, finished |-> 14, crashed |-> 14]

\* The place of the main thread, in the order in which it passes through them.
Place ==
  IF pc = "idle" THEN IF state = "Initial" THEN 0 ELSE IF state = "Prepare" THEN 1 ELSE 2
  ELSE IF pc \notin {"poll", "judge"} THEN PlaceOf[pc]
  ELSE IF Watching THEN 7
  ELSE IF pc = "poll" THEN 9
  ELSE IF progress[step] < 100 THEN 8 ELSE 10

Stays    == step' = step /\ Place' = Place
Advances == step' > step \/ (step' = step /\ Place' > Place)

\* No step of a run, a stop or an exit takes the main thread back, and of its own
\* steps only a look at a process that still runs, or whose result is awaited, leaves
\* it where it was.
OnlyForward == [][(Advances \/ Stays) /\ (Run => Advances \/ (Watching /\ Stays))]_vars

\* The positions of a run are finitely many.
Within == step \in 0 .. Len(plan) + 1 /\ Place \in 0 .. 14

\* A position is within the plan.
THEOREM PositionsBounded == Spec => []Within
<1>1. IInv => step \in 0 .. Len(plan) + 1
  BY LenProperties DEF IInv, TypeOK, Control
<1>2. IInv => Place \in 0 .. 14
  BY DEF IInv, TypeOK, PC, Place, PlaceOf
<1>3. QED
  BY <1>1, <1>2, Invariance, PTL DEF Within

\* A step of the main thread goes forward, or is a look at a process that runs.
LEMMA RunAdvances == ASSUME IInv, Run PROVE Advances \/ (Watching /\ Stays)
<1>1. step \in Nat
  BY DEF IInv, TypeOK
<1>2. CASE Prepare
  BY <1>2, <1>1 DEF Prepare, IInv, Control, Advances
<1>3. CASE Preflight \/ Start
  BY <1>3 DEF Preflight, Start, Advances, Place, PlaceOf
<1>4. CASE LoopTop
  BY <1>4 DEF LoopTop, ReportRunState, Advances, Place, PlaceOf
<1>5. CASE Decide
  BY <1>5, <1>1 DEF Decide, Advances, Place, PlaceOf
<1>6. ASSUME NEW outcome, Setup(outcome) PROVE Advances
  BY <1>6, <1>1 DEF Setup, Raised, Advances, Place, PlaceOf
<1>7. CASE AnnounceTask
  BY <1>7, <1>1 DEF AnnounceTask, Raised, Advances, Place, PlaceOf, Watching
<1>8. CASE PollProcess
  BY <1>8, <1>1 DEF PollProcess, PolledProgress, ReportsDecide, TimesOut, Awaits, Advances, Stays,
     Place, PlaceOf, Watching, IInv, TypeOK, Control, OnTask
<1>9. CASE PollPython
  BY <1>9, <1>1 DEF PollPython, Advances, Stays, Place, PlaceOf, Watching, IInv,
     TypeOK, Control, OnTask
<1>10. CASE PollProcessRaises \/ PollPythonRaises
  BY <1>10, <1>1 DEF PollProcessRaises, PollPythonRaises, Raised, Advances
<1>11. CASE JudgeRunning
  BY <1>11 DEF JudgeRunning, taskVars, Advances, Stays, Place, PlaceOf, Watching
<1>12. CASE JudgeFinished
  BY <1>12, <1>1 DEF JudgeFinished, Advances
<1>13. CASE Conclude \/ Promote \/ FinalReport
  BY <1>13 DEF Conclude, Promote, FinalReport, ReportRunState, Advances, Place, PlaceOf
<1>14. QED
  BY <1>2, <1>3, <1>4, <1>5, <1>6, <1>7, <1>8, <1>9, <1>10, <1>11, <1>12, <1>13 DEF Run

\* A stop leaves the main thread where it is; an exit may end its watch.
LEMMA OthersKeepPlace ==
  ASSUME IInv, Interrupt \/ (\E i \in Tasks : ProcessExits(i))
  PROVE  Advances \/ Stays
<1>1. CASE Interrupt
  BY <1>1 DEF Interrupt, taskVars, Stays, Place, PlaceOf, Watching
<1>2. ASSUME NEW i \in Tasks, ProcessExits(i) PROVE Advances \/ Stays
  <2>1. pc' = pc /\ state' = state /\ step' = step /\ progress' = progress
    BY <1>2 DEF ProcessExits
  <2>2. Watching' => Watching
    BY <1>2, <2>1 DEF ProcessExits, Watching, IInv, TypeOK, Control, OnTask
  <2>3. QED
    BY <2>1, <2>2 DEF Advances, Stays, Place, PlaceOf, Watching
<1>3. QED
  BY <1>1, <1>2

\* A run goes forward.
THEOREM Forward == Spec => OnlyForward
<1> DEFINE A == (Advances \/ Stays) /\ (Run => Advances \/ (Watching /\ Stays))
<1>1. ASSUME IInv, [Next]_vars PROVE [A]_vars
  BY <1>1, RunAdvances, OthersKeepPlace DEF Next, Ended
<1>2. QED
  BY <1>1, Invariance, PTL DEF Spec, OnlyForward
-----------------------------------------------------------------------------
(***************************************************************************)
(* A run implements RunContract: each step of the code is a step of the    *)
(* contract, or changes nothing that the contract speaks of.               *)
(***************************************************************************)
Outcome == CASE pc = "finished" -> report
             [] pc = "crashed"  -> "Lost"
             [] OTHER           -> "open"

LEMMA OutcomeOpen ==
  /\ pc \notin {"finished", "crashed"} => Outcome = "open"
  /\ pc = "finished" => Outcome = report
  /\ pc = "crashed" => Outcome = "Lost"
BY Zenon DEF Outcome

\* A step of the loop that leaves the turn, the tasks run and the blame alone.
LEMMA Invisible ==
  ASSUME pc \notin {"finished", "crashed"}, pc' \notin {"finished", "crashed"},
         UNCHANGED <<plan, step, attempted, faulted, stopped>>
  PROVE  UNCHANGED Contract!cvars
<1>1. Outcome = "open" /\ Outcome' = "open"
  BY OutcomeOpen DEF Outcome
<1>2. QED
  BY <1>1 DEF Contract!cvars, Outcome

\* The task in turn is over: on to the next.
LEMMA Passed ==
  ASSUME IInv, pc \in OnTask, pc' = "loop", step' = step + 1,
         step \in attempted \/ faulted \/ stopped,
         faulted' \in {faulted, TRUE}, UNCHANGED <<plan, attempted, stopped>>
  PROVE  Contract!Pass
<1>1. Outcome = "open" /\ Outcome' = "open"
  BY OutcomeOpen DEF Outcome, OnTask
<1>2. step \in Tasks /\ step > 0 /\ step <= Len(plan)
  BY LenProperties DEF IInv, TypeOK, Control, OnTask, Tasks
<1>3. QED
  BY <1>1, <1>2 DEF Contract!Pass, Contract!Open, Outcome
LEMMA RunRefines == ASSUME IInv, Run PROVE [Contract!Next]_Contract!cvars
<1> USE DEF Contract!Next
<1>1. CASE Prepare
  <2>1. /\ plan' \in Plans /\ step' = 1 /\ pc = "idle" /\ state = "Initial"
        /\ UNCHANGED <<pc, attempted, faulted, stopped>>
    BY <1>1 DEF Prepare, histVars
  <2>2. Outcome' = Outcome
    BY <2>1, OutcomeOpen DEF Outcome
  <2>3. step = 0
    BY <2>1 DEF IInv, Control
  <2>4. Contract!Accept
    BY <2>1, <2>2, <2>3 DEF Contract!Accept, Outcome
  <2>5. QED
    BY <2>4
<1>2. CASE Preflight \/ Start \/ JudgeRunning \/ Conclude \/ Promote
  BY <1>2, Invisible DEF Preflight, Start, JudgeRunning, Conclude, Promote, histVars
<1>3. CASE PollProcess \/ PollPython
  BY <1>3, Invisible DEF PollProcess, PollPython, histVars
<1>4. CASE LoopTop
  <2>1. UNCHANGED <<plan, step, attempted, faulted, stopped>> /\ pc = "loop"
    BY <1>4 DEF LoopTop, histVars
  <2>2. CASE pc' = "crashed"
    <3>1. faulted /\ step > 0
      BY <1>4, <2>2, Undescribed DEF LoopTop, ReportRunState, IInv, Control, TypeOK
    <3>2. Outcome = "open" /\ Outcome' = "Lost"
      BY <2>1, <2>2, OutcomeOpen DEF Outcome
    <3>3. Contract!Conclude
      BY <2>1, <3>1, <3>2 DEF Contract!Conclude, Contract!Open, Outcome
    <3>4. QED
      BY <3>3
  <2>3. CASE pc' # "crashed"
    BY <1>4, <2>1, <2>3, Invisible DEF LoopTop, ReportRunState
  <2>4. QED
    BY <2>2, <2>3
<1>5. CASE Decide
  <2>1. step \in Tasks /\ step > 0 /\ step <= Len(plan)
    BY <1>5, LenProperties DEF Decide, IInv, TypeOK, Control, OnTask, Tasks
  <2>2. UNCHANGED <<plan, faulted, stopped>> /\ pc = "decide"
    BY <1>5 DEF Decide
  <2>3. CASE state = "Running" \/ plan[step].teardown
    <3>1. Outcome = "open" /\ Outcome' = "open"
      BY <1>5, <2>3, OutcomeOpen DEF Decide, Current, Outcome
    <3>2. ~(faulted \/ stopped) \/ plan[step].teardown
      BY <2>3 DEF IInv, Blame
    <3>3. attempted' = attempted \cup {step} /\ step' = step
      BY <1>5, <2>3 DEF Decide, Current
    <3>4. Contract!Run
      BY <2>1, <2>2, <3>1, <3>2, <3>3 DEF Contract!Run, Contract!Open, Outcome
    <3>5. QED
      BY <3>4
  <2>4. CASE ~(state = "Running" \/ plan[step].teardown)
    <3>1. pc' = "loop" /\ step' = step + 1 /\ UNCHANGED attempted
      BY <1>5, <2>4 DEF Decide, Current
    <3>2. faulted \/ stopped
      BY <2>2, <2>4 DEF IInv, Blame, Control
    <3>3. Contract!Pass
      BY <2>2, <3>1, <3>2, Passed DEF OnTask
    <3>4. QED
      BY <3>3
  <2>5. QED
    BY <2>3, <2>4
<1>6. CASE \E outcome : Setup(outcome)
  <2>1. PICK outcome : Setup(outcome)
    BY <1>6
  <2>2. pc = "setup" /\ UNCHANGED <<plan, attempted, stopped>> /\ step \in attempted
    BY <2>1 DEF Setup, IInv, Turns, OnTask
  <2>3. CASE outcome = "raise"
    BY <2>1, <2>2, <2>3, Passed DEF Setup, Raised, OnTask
  <2>4. CASE outcome # "raise"
    BY <2>1, <2>2, <2>4, Invisible DEF Setup
  <2>5. QED
    BY <2>3, <2>4
<1>7. CASE AnnounceTask
  <2>1. pc = "announce" /\ UNCHANGED <<plan, attempted, stopped>> /\ step \in attempted
    BY <1>7 DEF AnnounceTask, IInv, Turns, OnTask
  <2>2. CASE pc' = "loop"
    BY <1>7, <2>1, <2>2, Passed, ZenonT(60) DEF AnnounceTask, Raised, OnTask
  <2>3. CASE pc' # "loop"
    BY <1>7, <2>1, <2>3, Invisible DEF AnnounceTask, Raised
  <2>4. QED
    BY <2>2, <2>3
<1>8. CASE PollProcessRaises \/ PollPythonRaises
  <2>1. pc = "poll" /\ Raised /\ UNCHANGED <<plan, attempted, stopped>>
    BY <1>8 DEF PollProcessRaises, PollPythonRaises
  <2>2. step \in attempted
    BY <2>1 DEF IInv, Turns, OnTask
  <2>3. Contract!Pass
    BY <2>1, <2>2, Passed DEF Raised, OnTask
  <2>4. QED
    BY <2>3
<1>9. CASE JudgeFinished
  BY <1>9, Passed DEF JudgeFinished, IInv, Turns, OnTask
<1>10. CASE FinalReport
  <2>1. UNCHANGED <<plan, step, state, attempted, faulted, stopped>> /\ pc = "final"
    BY <1>10 DEF FinalReport, histVars
  <2>2. step > Len(plan) /\ step > 0
    BY <2>1 DEF IInv, Control, TypeOK, Ending
  <2>3. Outcome = "open"
    BY <2>1, OutcomeOpen
  <2>4. CASE pc' = "crashed"
    <3>1. faulted
      BY <1>10, <2>1, <2>4, Undescribed DEF FinalReport, ReportRunState
    <3>2. Outcome' = "Lost"
      BY <2>4 DEF Outcome
    <3>3. Contract!Conclude
      BY <2>1, <2>2, <2>3, <3>1, <3>2 DEF Contract!Conclude, Contract!Open, Outcome
    <3>4. QED
      BY <3>3
  <2>5. CASE pc' = "finished"
    <3>1. Outcome' = state
      BY <1>10, <2>5 DEF FinalReport, ReportRunState, Outcome
    <3>2. state \in {"Success", "Failed"}
      BY <2>1 DEF IInv, Control
    <3>3. state = "Success" => attempted = 1 .. Len(plan) /\ ~faulted
      BY DEF IInv, Turns, Blame, Tasks
    <3>4. state = "Failed" => faulted \/ stopped
      BY <2>1 DEF IInv, Blame
    <3>5. Contract!Conclude
      BY <2>1, <2>2, <2>3, <3>1, <3>2, <3>3, <3>4 DEF Contract!Conclude, Contract!Open, Outcome
    <3>6. QED
      BY <3>5
  <2>6. QED
    BY <1>10, <2>4, <2>5 DEF FinalReport, ReportRunState
<1>11. QED
  BY <1>1, <1>2, <1>3, <1>4, <1>5, <1>6, <1>7, <1>8, <1>9, <1>10 DEF Run

LEMMA EnvironmentRefines ==
  ASSUME IInv, Interrupt \/ \E i \in Tasks : ProcessExits(i)
  PROVE  [Contract!Next]_Contract!cvars
<1>1. CASE Interrupt
  <2>1. /\ pc \notin {"idle", "finished", "crashed"}
        /\ UNCHANGED <<plan, step, pc, attempted, faulted>>
        /\ stopped' = (stopped \/ pc # "promote")
    BY <1>1 DEF Interrupt
  <2>2. Outcome = "open" /\ Outcome' = "open" /\ step > 0
    BY <2>1, OutcomeOpen DEF Outcome, IInv, Control, TypeOK
  <2>3. CASE pc = "promote"
    <3>1. stopped' = stopped
      BY <2>1, <2>3 DEF IInv, TypeOK
    <3>2. QED
      BY <2>1, <2>2, <3>1 DEF Contract!cvars, Outcome
  <2>4. CASE pc # "promote"
    <3>1. Contract!Cancel
      BY <2>1, <2>2, <2>4 DEF Contract!Cancel, Contract!Open, Outcome
    <3>2. QED
      BY <3>1 DEF Contract!Next
  <2>5. QED
    BY <2>3, <2>4
<1>2. CASE \E i \in Tasks : ProcessExits(i)
  <2>1. UNCHANGED <<plan, step, pc, report, attempted, faulted, stopped>>
    BY <1>2 DEF ProcessExits, histVars
  <2>2. UNCHANGED Contract!cvars
    BY <2>1 DEF Contract!cvars
  <2>3. QED
    BY <2>2
<1>3. QED
  BY <1>1, <1>2

\* Every run keeps the contract.
THEOREM Refinement == Spec => KeepsContract
<1>1. Init => Contract!Init
  BY DEF Init, Contract!Init
<1>2. IInv /\ [Next]_vars => [Contract!Next]_Contract!cvars
  <2> SUFFICES ASSUME IInv, [Next]_vars PROVE [Contract!Next]_Contract!cvars
    OBVIOUS
  <2>1. CASE UNCHANGED vars
    BY <2>1 DEF vars, histVars, Contract!cvars
  <2>2. QED
    BY <2>1, RunRefines, EnvironmentRefines DEF Next, Ended
<1>3. QED
  BY <1>1, <1>2, Invariance, PTL DEF Spec, KeepsContract, Contract!Spec
=============================================================================
