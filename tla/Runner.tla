------------------------------- MODULE Runner -------------------------------
(***************************************************************************)
(* The engine that executes a disk operation (wce_triage/ops/runner.py and *)
(* the task base classes of wce_triage/ops/tasks.py).                      *)
(*                                                                         *)
(* A run works through a plan, a sequence of tasks.  The main thread sets a *)
(* task up, polls it until its progress reaches 100 (success) or more than *)
(* 100 (failure), tears it down and moves on.  Most tasks drive an external *)
(* process, which runs, and exits, concurrently.  SIGINT, which is how a   *)
(* user stops a run, is handled between any two bytecodes of the main      *)
(* thread, so it is an action of its own that may fall between any two     *)
(* steps.                                                                  *)
(*                                                                         *)
(* Progress is abstracted to 0 (nothing yet), 99 (any value from 1 to 99), *)
(* 100 and 999.  The tasks that sync images are in RsyncTask, and MultiWipe *)
(* has the reports that task_multiwipe reads.  Time estimates, messages and *)
(* the text of reports are left out; that a report can RAISE is not.       *)
(***************************************************************************)
EXTENDS Naturals, Sequences, FiniteSets

CONSTANTS
  Plans     \* the task lists that prepare() may build, sequences of TaskDesc

(***************************************************************************)
(* What setup() can do, one definition per way a task class writes it:     *)
(*   none        nothing to set up                                         *)
(*   popen       the subprocess was started                                *)
(*   raise       an exception (an executable or a partition is missing)    *)
(*   failed      _setup_failed: progress 999 and the task is done          *)
(*   flag        set_progress(999) and return, no subprocess               *)
(*   flag_popen  set_progress(999), and the subprocess is started anyway   *)
(*   pass        set_progress(100) and return, no subprocess               *)
(*   noop        _noop(): done, progress 100, but no end time              *)
(***************************************************************************)
ProcessSetup   == {"popen", "raise"}
UnmountSetup   == {"popen", "raise", "failed"}
MountSetup     == {"popen", "raise", "flag", "flag_popen"}
FsckSetup      == {"popen", "raise", "failed"}
ExpandSetup    == {"popen", "raise", "flag"}
SetUuidSetup   == {"popen", "raise", "flag", "pass"}
BootEntrySetup == {"popen", "raise", "noop"}
GrubSetup      == {"popen", "raise", "failed"}
PythonSetup    == {"none"}

SetupOf ==
  [ process    |-> ProcessSetup,     fetch   |-> ProcessSetup,
    unmount    |-> UnmountSetup,     mount   |-> MountSetup,
    fsck       |-> FsckSetup,        expand  |-> ExpandSetup,
    set_uuid   |-> SetUuidSetup,     boot_entry |-> BootEntrySetup,
    python     |-> PythonSetup,      grub    |-> GrubSetup,
    wipe       |-> ProcessSetup,     partprobe  |-> ProcessSetup ]

Kind == DOMAIN SetupOf

TaskDesc == [kind : Kind, teardown : BOOLEAN]

ASSUME PlansAssumption == Plans \subseteq Seq(TaskDesc)

VARIABLES
  plan,        \* self.tasks
  state,       \* Runner.state
  step,        \* Runner.task_step, counted from 1
  pc,          \* where the main thread is
  progress,    \* op_task.progress
  isStarted,   \* op_task.is_started
  isDone,      \* op_task.is_done
  hasEnd,      \* is op_task.end_time set?
  killed,      \* op_task_process._kill_count > 0
  proc,        \* the task's subprocess
  report,      \* runStatus of the last report_run_progress
  announced,   \* report_task_success / report_task_failure sent for a task
  attempted,   \* history: tasks that the loop decided to run
  faulted,     \* history: the runner has seen a task fail
  stopped      \* history: SIGINT was handled, other than between the test
               \* and the assignment of the state at the end of run()

taskVars == <<progress, isStarted, isDone, hasEnd, killed, proc>>
histVars == <<attempted, faulted, stopped>>
vars == <<plan, state, step, pc, taskVars, report, announced, histVars>>

RunState == {"Initial", "Prepare", "Preflight", "Running", "Success", "Failed"}
PC       == {"idle", "loop", "decide", "setup", "announce", "poll", "judge",
             "conclude", "promote", "final", "finished", "crashed"}
Progress == {0, 99, 100, 999}
ProcState == {"none", "running", "good", "bad"}
Announcement == {"none", "success", "failure"}

Tasks   == 1 .. Len(plan)
Current == plan[step]

\* _describe_task raises for a task that is done without an end time (or
\* with a progress below 100).  Every report describes every task.
Undescribable == \E i \in Tasks : isDone[i] /\ (progress[i] < 100 \/ ~hasEnd[i])

(***************************************************************************)
(* Before the run: prepare() builds the plan, preflight() lets the tasks   *)
(* see their neighbours.                                                   *)
(***************************************************************************)
Init ==
  /\ plan = <<>>
  /\ state = "Initial"
  /\ step = 0
  /\ pc = "idle"
  /\ progress = <<>> /\ isStarted = <<>> /\ isDone = <<>> /\ hasEnd = <<>>
  /\ killed = <<>> /\ proc = <<>> /\ announced = <<>>
  /\ report = "none"
  /\ attempted = {} /\ faulted = FALSE /\ stopped = FALSE

Prepare ==
  /\ pc = "idle" /\ state = "Initial"
  /\ state' = "Prepare"
  /\ step' = 1
  /\ \E p \in Plans :
       /\ plan' = p
       /\ progress'  = [i \in 1 .. Len(p) |-> 0]
       /\ isStarted' = [i \in 1 .. Len(p) |-> FALSE]
       /\ isDone'    = [i \in 1 .. Len(p) |-> FALSE]
       /\ hasEnd'    = [i \in 1 .. Len(p) |-> FALSE]
       /\ killed'    = [i \in 1 .. Len(p) |-> FALSE]
       /\ proc'      = [i \in 1 .. Len(p) |-> "none"]
       /\ announced' = [i \in 1 .. Len(p) |-> "none"]
  /\ UNCHANGED <<pc, report, histVars>>

Preflight ==
  /\ pc = "idle" /\ state = "Prepare"
  /\ state' = "Preflight"
  /\ report' = "Preflight"
  /\ UNCHANGED <<plan, step, pc, taskVars, announced, histVars>>

\* run() up to the loop: from here on SIGINT is caught by kill_handler.
Start ==
  /\ pc = "idle" /\ state = "Preflight"
  /\ state' = "Running"
  /\ pc' = "loop"
  /\ UNCHANGED <<plan, step, taskVars, report, announced, histVars>>

(***************************************************************************)
(* The loop of run().                                                      *)
(***************************************************************************)
\* report_run_state(), called outside the try block: if it raises, run() is
\* over, with every remaining task abandoned.
ReportRunState(next) ==
  IF Undescribable
  THEN /\ pc' = "crashed"
       /\ UNCHANGED report
  ELSE /\ pc' = next
       /\ report' = state

LoopTop ==
  /\ pc = "loop"
  /\ IF step <= Len(plan)
     THEN ReportRunState("decide")
     ELSE /\ pc' = "conclude"
          /\ UNCHANGED report
  /\ UNCHANGED <<plan, state, step, taskVars, announced, histVars>>

\* mutant: the state of the run is not tested
DecideAlways ==
  /\ pc = "decide"
  /\ pc' = "setup" /\ attempted' = attempted \cup {step}
  /\ UNCHANGED <<plan, state, step, taskVars, report, announced, faulted, stopped>>

\* mutant: a skipped task keeps its turn
DecideStuck ==
  /\ pc = "decide"
  /\ IF state = "Running" \/ Current.teardown
     THEN pc' = "setup" /\ attempted' = attempted \cup {step}
     ELSE pc' = "loop" /\ UNCHANGED attempted
  /\ UNCHANGED <<plan, state, step, taskVars, report, announced, faulted, stopped>>

\* The test of the state, and whether this task is run at all.
Decide ==
  /\ pc = "decide"
  /\ IF state = "Running" \/ Current.teardown
     THEN /\ pc' = "setup"
          /\ attempted' = attempted \cup {step}
          /\ UNCHANGED step
     ELSE /\ pc' = "loop"
          /\ step' = step + 1
          /\ UNCHANGED attempted
  /\ UNCHANGED <<plan, state, taskVars, report, announced, faulted, stopped>>

\* An exception left _run_task: the except block of run(), and on to the next
\* task.  is_done is not set here, and a subprocess is not stopped.
Raised ==
  /\ state' = "Failed"
  /\ progress' = [progress EXCEPT ![step] = 999]
  /\ isStarted' = [isStarted EXCEPT ![step] = TRUE]
  /\ faulted' = TRUE
  /\ step' = step + 1
  /\ pc' = "loop"

\* task.pre_setup() and task.setup(), with one outcome of its class.
Setup(outcome) ==
  /\ pc = "setup"
  /\ outcome \in SetupOf[Current.kind]
  /\ IF outcome = "raise"
     THEN /\ Raised
          /\ UNCHANGED <<isDone, hasEnd, proc>>
     ELSE /\ pc' = "announce"
          /\ progress' = [progress EXCEPT ![step] =
               CASE outcome \in {"failed", "flag", "flag_popen"} -> 999
                 [] outcome \in {"pass", "noop"} -> 100
                 [] OTHER -> @]
          /\ isStarted' = [isStarted EXCEPT ![step] =
               @ \/ outcome \in {"flag", "flag_popen", "pass", "noop"}]
          /\ isDone' = [isDone EXCEPT ![step] = @ \/ outcome \in {"failed", "noop"}]
          /\ hasEnd' = [hasEnd EXCEPT ![step] = @ \/ outcome = "failed"]
          /\ proc' = [proc EXCEPT ![step] =
               IF outcome \in {"popen", "flag_popen"} THEN "running" ELSE @]
          /\ UNCHANGED <<state, step, faulted>>
  /\ UNCHANGED <<plan, killed, report, announced, attempted, stopped>>

\* The report that follows setup(), and the test of `while progress < 100`:
\* a task whose setup() already set 100 or more is over, with no teardown()
\* and without a look at why.
AnnounceTask ==
  /\ pc = "announce"
  /\ IF Undescribable
     THEN /\ Raised
     ELSE /\ IF progress[step] < 100
             THEN pc' = "poll" /\ UNCHANGED step
             ELSE pc' = "loop" /\ step' = step + 1
          /\ UNCHANGED <<state, progress, isStarted, faulted>>
  /\ UNCHANGED <<plan, isDone, hasEnd, killed, proc, report, announced,
                 attempted, stopped>>

(***************************************************************************)
(* One poll of the current task.                                           *)
(***************************************************************************)
\* _poll_process: a runner that is not Running sends its task's process one
\* SIGINT.  send_signal does nothing to a process that has already exited.
Signalled == killed' = [killed EXCEPT ![step] = @ \/ state # "Running"]

\* is_success(): two classes accept any exit code.
Succeeds(i) == \/ proc[i] = "good"
               \/ plan[i].kind \in {"set_uuid", "boot_entry"} /\ proc[i] = "bad"

\* op_task_wipe_disk takes its progress from the reports of multiwipe.
ReportsDecide(i) == plan[i].kind = "wipe"

\* task_install_grub gives up on a process that takes far too long (and task_sleep,
\* which no plan has).
TimesOut(i) == plan[i].kind = "grub" /\ proc[i] = "running"

\* After its exit, task_sync_partitions waits for the device files.
Awaits(i) == plan[i].kind = "partprobe" /\ Succeeds(i)

\* mutant: the estimate of a running process may be 100
PolledProgressUncapped(i) ==
  {p \in {99, 100, 999} :
     \/ ReportsDecide(i)
     \/ /\ p = 99  => proc[i] = "running" \/ Awaits(i)
        /\ p = 100 => proc[i] = "running" \/ Succeeds(i)
        /\ p = 999 => \/ TimesOut(i)
                      \/ proc[i] # "running" /\ (~Succeeds(i) \/ plan[i].kind = "fetch")}

\* _update_progress, and what the classes add.  While the process runs the estimate
\* is at most 99, except for task_install_grub, which times out: 999, and the
\* process is left alone.  The reports of a wipe overwrite all this.
\* task_fetch_partitions may still reject what a successful process printed.
PolledProgress(i) ==
  {p \in {99, 100, 999} :
     \/ ReportsDecide(i)
     \/ /\ p = 99  => proc[i] = "running" \/ Awaits(i)
        /\ p = 100 => Succeeds(i)
        /\ p = 999 => \/ TimesOut(i)
                      \/ proc[i] # "running" /\ (~Succeeds(i) \/ plan[i].kind = "fetch")}

PollProcess ==
  /\ pc = "poll" /\ proc[step] # "none"
  /\ Signalled
  /\ \E p \in PolledProgress(step) : progress' = [progress EXCEPT ![step] = p]
  /\ isStarted' = [isStarted EXCEPT ![step] = TRUE]
  /\ pc' = "judge"
  /\ UNCHANGED <<plan, state, step, isDone, hasEnd, proc, report, announced, histVars>>

\* The output is decoded 1024 bytes at a time: a multibyte character split by
\* a read raises, whether or not the process is still running.
PollProcessRaises ==
  /\ pc = "poll" /\ proc[step] # "none"
  /\ Signalled
  /\ Raised
  /\ UNCHANGED <<plan, isDone, hasEnd, proc, report, announced, attempted, stopped>>

\* A task that runs in the runner's own process.  One that takes several
\* calls (task_refresh_partitions, a partition per call) does so here in one:
\* none of its calls looks at the state of the runner.
PollPython ==
  /\ pc = "poll" /\ proc[step] = "none"
  /\ \E p \in {100, 999} : progress' = [progress EXCEPT ![step] = p]
  /\ isStarted' = [isStarted EXCEPT ![step] = TRUE]
  /\ pc' = "judge"
  /\ UNCHANGED <<plan, state, step, isDone, hasEnd, killed, proc, report,
                 announced, histVars>>

PollPythonRaises ==
  /\ pc = "poll" /\ proc[step] = "none"
  /\ Raised
  /\ UNCHANGED <<plan, isDone, hasEnd, killed, proc, report, announced,
                 attempted, stopped>>

(***************************************************************************)
(* The rest of the polling loop: teardown(), the verdict and its report.   *)
(***************************************************************************)
JudgeRunning ==
  /\ pc = "judge" /\ progress[step] < 100
  /\ pc' = "poll"
  /\ UNCHANGED <<plan, state, step, taskVars, report, announced, histVars>>

\* teardown() sets is_done and the end time, so the report cannot raise on
\* account of this task; an earlier one may still be undescribable.
JudgeFinished ==
  /\ pc = "judge" /\ progress[step] >= 100
  /\ isDone' = [isDone EXCEPT ![step] = TRUE]
  /\ hasEnd' = [hasEnd EXCEPT ![step] = TRUE]
  /\ step' = step + 1
  /\ pc' = "loop"
  /\ IF progress[step] > 100
     THEN /\ state' = "Failed"
          /\ faulted' = TRUE
          /\ announced' = [announced EXCEPT ![step] = "failure"]
     ELSE /\ announced' = [announced EXCEPT ![step] = "success"]
          /\ UNCHANGED <<state, faulted>>
  /\ UNCHANGED <<plan, progress, isStarted, killed, proc, report, attempted, stopped>>

(***************************************************************************)
(* The end of run(): the state is tested and then assigned, so a SIGINT    *)
(* may fall in between.                                                    *)
(***************************************************************************)
\* mutant: the state is not tested at the end
ConcludeAlways ==
  /\ pc = "conclude"
  /\ pc' = "promote"
  /\ UNCHANGED <<plan, state, step, taskVars, report, announced, histVars>>

Conclude ==
  /\ pc = "conclude"
  /\ pc' = IF state = "Running" THEN "promote" ELSE "final"
  /\ UNCHANGED <<plan, state, step, taskVars, report, announced, histVars>>

\* mutant: a state the protocol does not know
PromoteUnknown ==
  /\ pc = "promote"
  /\ state' = "Done"
  /\ pc' = "final"
  /\ UNCHANGED <<plan, step, taskVars, report, announced, histVars>>

Promote ==
  /\ pc = "promote"
  /\ state' = "Success"
  /\ pc' = "final"
  /\ UNCHANGED <<plan, step, taskVars, report, announced, histVars>>

FinalReport ==
  /\ pc = "final"
  /\ ReportRunState("finished")
  /\ UNCHANGED <<plan, state, step, taskVars, announced, histVars>>

(***************************************************************************)
(* What happens around the main thread.                                    *)
(***************************************************************************)
\* kill_handler, between any two steps of run().
Interrupt ==
  /\ pc \notin {"idle", "finished", "crashed"}
  /\ state' = "Failed"
  /\ stopped' = (stopped \/ pc # "promote")
  /\ UNCHANGED <<plan, step, pc, taskVars, report, announced, attempted, faulted>>

\* A subprocess exits, by itself or because it was signalled.
ProcessExits(i) ==
  /\ i \in Tasks /\ proc[i] = "running"
  /\ \E code \in {"good", "bad"} : proc' = [proc EXCEPT ![i] = code]
  /\ UNCHANGED <<plan, state, step, pc, progress, isStarted, isDone, hasEnd,
                 killed, report, announced, histVars>>

Run ==
  \/ Prepare \/ Preflight \/ Start
  \/ LoopTop \/ Decide
  \/ \E outcome \in UNION {SetupOf[k] : k \in Kind} : Setup(outcome)
  \/ AnnounceTask
  \/ PollProcess \/ PollProcessRaises \/ PollPython \/ PollPythonRaises
  \/ JudgeRunning \/ JudgeFinished
  \/ Conclude \/ Promote \/ FinalReport

\* The program is over and nothing it started is left.
Ended ==
  /\ pc \in {"finished", "crashed"}
  /\ \A i \in Tasks : proc[i] # "running"
  /\ UNCHANGED vars

Next == Run \/ Interrupt \/ (\E i \in Tasks : ProcessExits(i)) \/ Ended

\* A poll that finds what the task still waited for after the exit of its process:
\* the last report, or the device files.
Settle == PollProcess /\ proc[step] # "running" /\ progress'[step] # 99

\* The main thread keeps running, and the programs it starts end some day.  The
\* pipe of one that has ended holds finitely many reports, and the kernel makes
\* the device files in the end.  Nothing obliges a user to send SIGINT.
Fairness ==
  /\ WF_vars(Run) /\ SF_vars(Settle)
  /\ WF_vars(\E i \in Tasks : ProcessExits(i))

Spec == Init /\ [][Next]_vars /\ Fairness

-----------------------------------------------------------------------------
(***************************************************************************)
(* Type invariant.                                                         *)
(***************************************************************************)
TypeOK ==
  /\ plan \in Seq(TaskDesc)
  /\ state \in RunState
  /\ step \in Nat
  /\ pc \in PC
  /\ progress \in [Tasks -> Progress]
  /\ isStarted \in [Tasks -> BOOLEAN]
  /\ isDone \in [Tasks -> BOOLEAN]
  /\ hasEnd \in [Tasks -> BOOLEAN]
  /\ killed \in [Tasks -> BOOLEAN]
  /\ proc \in [Tasks -> ProcState]
  /\ announced \in [Tasks -> Announcement]
  /\ report \in RunState \cup {"none"}
  /\ attempted \subseteq Tasks
  /\ faulted \in BOOLEAN
  /\ stopped \in BOOLEAN

(***************************************************************************)
(* Safety.                                                                 *)
(***************************************************************************)
\* A run that comes to its regular end has given every teardown task its
\* turn, whatever failed before it and whenever the user stopped the run
\* (tasks.py: "Teardown task is always executed even in the failed run").
TeardownAttempted ==
  pc = "finished" => \A i \in Tasks : plan[i].teardown => i \in attempted

\* A run reported as a success ran every task of its plan, and no task raised,
\* or was announced as failed, on the way: neither a late failure nor a stop
\* can be papered over by the final assignment of Success.
SuccessIsEarned ==
  report = "Success" =>
    /\ attempted = Tasks
    /\ ~faulted
    /\ \A i \in Tasks : announced[i] # "failure"

\* A user's stop, or a failure that was shown to the user, is in the outcome
\* that the final report carries.
FailureIsReported ==
  pc = "finished" /\ (stopped \/ \E i \in Tasks : announced[i] = "failure")
    => report = "Failed"

\* What may be left running behind the run: the process of a task that failed
\* without being announced, of one that timed out and was announced as failed
\* (task_install_grub), or of a wipe, whose reports decide.  Any other task is
\* announced as over only when its process is, so that no file system is checked
\* or mounted while the previous tool still writes to it.
AnnouncedAfterExit ==
  \A i \in Tasks : proc[i] = "running" /\ i < step =>
    \/ announced[i] = "none" /\ progress[i] = 999
    \/ announced[i] = "failure" /\ plan[i].kind = "grub" /\ progress[i] = 999
    \/ plan[i].kind = "wipe"

\* The only way out of run() other than its end is a report about an optional
\* task that skipped itself.
OnlySkippingCrashes ==
  pc = "crashed" =>
    \E i \in Tasks : plan[i].kind = "boot_entry" /\ isDone[i] /\ ~hasEnd[i]

\* What the end of a run means: teardown had its turn, success is earned, a stop
\* or failure is reported, and only a task that skipped itself can end it early.
EndIsTrue ==
  TeardownAttempted /\ SuccessIsEarned /\ FailureIsReported /\ OnlySkippingCrashes

(***************************************************************************)
(* What a step may never do.                                               *)
(***************************************************************************)
\* Once a task has failed, the run starts no process other than those of
\* teardown tasks.  (After a SIGINT it may start one, when the signal falls
\* between the test of the state and the setup of the task.)
NoNewWorkAfterFault ==
  [][\A i \in Tasks :
       proc[i] = "none" /\ proc'[i] = "running" /\ faulted => plan[i].teardown]_vars

\* Processes of one run do not overlap, except with one left behind by a task
\* that failed or by a wipe: a process starts only when every process before it is
\* over, or its task is marked as failed, or its reports said that all is wiped.
NoOverlap ==
  [][\A i \in Tasks :
       plan # <<>> /\ proc[i] = "none" /\ proc'[i] = "running" =>
         \A j \in 1 .. i - 1 :
           \/ proc[j] # "running"
           \/ progress[j] = 999
           \/ plan[j].kind = "wipe" /\ progress[j] = 100]_vars

\* When a process may start: not beside another one, and after a failure only
\* for teardown.
StartsInOrder == NoNewWorkAfterFault /\ NoOverlap

(***************************************************************************)
(* Liveness.                                                               *)
(***************************************************************************)
\* Every run comes to an end, with or without a stop, provided the programs it
\* starts do.
Termination == <>(pc \in {"finished", "crashed"})

-----------------------------------------------------------------------------
(***************************************************************************)
(* The abstract promise of a run, and how this module's state maps to it.  *)
(***************************************************************************)
Contract ==
  INSTANCE RunContract WITH
    turn    <- step,
    ran     <- attempted,
    fault   <- faulted,
    cancel  <- stopped,
    outcome <- CASE pc = "finished" -> report
                 [] pc = "crashed"  -> "Lost"
                 [] OTHER           -> "open"

\* Every run keeps the promise of RunContract: order, skipping after a fault or
\* a stop, teardown, and an outcome that matches what happened.
KeepsContract == Contract!Spec

-----------------------------------------------------------------------------
(***************************************************************************)
(* What comments of the source say, and the code does not do.              *)
(***************************************************************************)
\* A run in which some task failed is not a success (tasks.py:1816, "a failing
\* task here would otherwise flip the whole runner to RunState.Failed").  A
\* setup() that fails by setting the progress escapes it.
FailedTaskFailsRun ==
  report = "Success" => \A i \in Tasks : progress[i] = 100

=============================================================================
