------------------------------ MODULE MultiWipe ------------------------------
(***************************************************************************)
(* Wiping several disks at once: bin/multiwipe.py, a program with a wiper  *)
(* thread per disk, a reporter thread and its main thread, and             *)
(* task_multiwipe of ops/tasks.py, the task of the runner that starts it,  *)
(* stops it with one SIGINT, and judges it by its reports.                 *)
(*                                                                         *)
(* Wipers and reporter share n_written and running without a lock.  A      *)
(* report is the disk and 99 (running), 100 (completed) or 999 (failed).   *)
(***************************************************************************)
EXTENDS Naturals, Sequences, FiniteSets

CONSTANTS
  Sectors,       \* the size of each disk, a sequence; the program asks for a disk
  Chunk,         \* sectors in one write of zeros
  ShortWrites,   \* may a raw write return before all is written?
  MaxReports     \* bound: reports that wait in the pipe

ASSUME SectorsAssumption == Sectors \in Seq(Nat \ {0}) /\ Sectors # <<>>
ASSUME ChunkAssumption == Chunk \in Nat \ {0}

VARIABLES
  nWritten,      \* Wiper.n_written
  running,       \* Wiper.running
  wiper,         \* where each wiper thread is
  size,          \* write_size, local to each wiper
  main,          \* where the main thread is
  launched,      \* wipers started
  listed,        \* wipers appended to the list of wipers
  wiping,        \* the global of that name
  reporter,      \* where the reporter thread is
  turn,          \* the disk it reports about
  noted,         \* its local n_written
  anyRunning,    \* its local n_running > 0
  pipe,          \* stderr of the program
  exit,          \* its exit code
  signal,        \* SIGINT: "none", "sent", "handled"
  seen,          \* task_multiwipe.device_reports, 0 for no report
  progress,      \* task_multiwipe.progress
  zeroed,        \* history: sectors of the disk that are zero
  told,          \* history: the wipers that the signal handler stopped
  late           \* history: writes begun after the signal was handled

wiperVars    == <<nWritten, running, wiper, size, zeroed, late>>
mainVars     == <<main, launched, listed, wiping>>
reporterVars == <<reporter, turn, noted, anyRunning>>
taskVars     == <<seen, progress>>
vars == <<wiperVars, mainVars, reporterVars, taskVars, pipe, exit, signal, told>>

Disks == DOMAIN Sectors
N     == Len(Sectors)

Init ==
  /\ nWritten = [d \in Disks |-> 0] /\ running = [d \in Disks |-> TRUE]
  /\ wiper = [d \in Disks |-> "unborn"] /\ size = [d \in Disks |-> 0]
  /\ main = "boot" /\ launched = 0 /\ listed = 0 /\ wiping = TRUE
  /\ reporter = "unborn" /\ turn = 1 /\ noted = 0 /\ anyRunning = FALSE
  /\ pipe = <<>> /\ exit = "none" /\ signal = "none"
  /\ seen = [d \in Disks |-> 0] /\ progress = 0
  /\ zeroed = [d \in Disks |-> 0] /\ told = {} /\ late = [d \in Disks |-> 0]

(***************************************************************************)
(* Wiper.run()                                                             *)
(***************************************************************************)
\* what a wiper leaves alone
others == <<mainVars, reporterVars, taskVars, pipe, exit, signal, told>>

Test(d) ==
  /\ wiper[d] = "test"
  /\ IF running[d]
     THEN /\ wiper' = [wiper EXCEPT ![d] = "write"]
          /\ late' = [late EXCEPT ![d] = IF signal = "handled" /\ @ < 2 THEN @ + 1 ELSE @]
     ELSE /\ wiper' = [wiper EXCEPT ![d] = "closed"]
          /\ UNCHANGED late
  /\ UNCHANGED <<nWritten, running, size, zeroed, others>>

Smaller(a, b) == IF a < b THEN a ELSE b

WriteSize(d) == Smaller(Sectors[d] - nWritten[d], Chunk)

\* The write of a chunk, or of what remains; the latter clears running before
\* n_written is updated.  The count that a raw write returns is not looked at.
Write(d) ==
  /\ wiper[d] = "write"
  /\ size' = [size EXCEPT ![d] = WriteSize(d)]
  /\ \E n \in IF ShortWrites THEN 0 .. WriteSize(d) ELSE {WriteSize(d)} :
       zeroed' = [zeroed EXCEPT ![d] = @ + n]
  /\ running' = [running EXCEPT ![d] = @ /\ WriteSize(d) = Chunk]
  /\ wiper' = [wiper EXCEPT ![d] = "count"]
  /\ UNCHANGED <<nWritten, late, others>>

WriteRaises(d) ==
  /\ wiper[d] = "write"
  /\ running' = [running EXCEPT ![d] = FALSE]
  /\ wiper' = [wiper EXCEPT ![d] = "test"]
  /\ UNCHANGED <<nWritten, size, zeroed, late, others>>

\* mutant: every write counts as a whole chunk
CountChunk(d) ==
  /\ wiper[d] = "count"
  /\ nWritten' = [nWritten EXCEPT ![d] = @ + Chunk]
  /\ wiper' = [wiper EXCEPT ![d] = "test"]
  /\ UNCHANGED <<running, size, zeroed, late, others>>

Count(d) ==
  /\ wiper[d] = "count"
  /\ nWritten' = [nWritten EXCEPT ![d] = @ + size[d]]
  /\ wiper' = [wiper EXCEPT ![d] = "test"]
  /\ UNCHANGED <<running, size, zeroed, late, others>>

(***************************************************************************)
(* Reporter.run(): n_written is read before running, and then the report   *)
(* is printed.                                                             *)
(***************************************************************************)
ReadCount ==
  /\ reporter = "count"
  /\ noted' = nWritten[turn]
  /\ reporter' = "report"
  /\ UNCHANGED <<turn, anyRunning, wiperVars, mainVars, taskVars, pipe, exit, signal, told>>

Verdict(d) ==
  IF running[d] THEN 99 ELSE IF noted = Sectors[d] THEN 100 ELSE 999

\* After the last disk the thread sleeps and starts again, or ends.
Report ==
  /\ reporter = "report" /\ Len(pipe) < MaxReports
  /\ pipe' = Append(pipe, [disk |-> turn, progress |-> Verdict(turn)])
  /\ LET someRunning == (turn > 1 /\ anyRunning) \/ running[turn]
     IN  /\ anyRunning' = someRunning
         /\ IF turn < N
            THEN turn' = turn + 1 /\ reporter' = "count"
            ELSE turn' = 1 /\ reporter' = IF someRunning THEN "count" ELSE "done"
  /\ UNCHANGED <<noted, wiperVars, mainVars, taskVars, exit, signal, told>>

\* mutant: a report that could not be printed is printed again
ReportRetries ==
  /\ reporter = "report" /\ progress >= 100
  /\ UNCHANGED vars

\* The runner has judged the task and is gone: print raises.
ReportRaises ==
  /\ reporter = "report" /\ progress >= 100
  /\ reporter' = "done"
  /\ UNCHANGED <<turn, noted, anyRunning, wiperVars, mainVars, taskVars, pipe, exit,
                 signal, told>>

(***************************************************************************)
(* zero_wipe(), the main thread                                            *)
(***************************************************************************)
\* The devices are open and the signal handler is in place.
Boot ==
  /\ main = "boot"
  /\ main' = "launch"
  /\ UNCHANGED <<launched, listed, wiping, wiperVars, reporterVars, taskVars, pipe,
                 exit, signal, told>>

\* A device does not open, or SIGINT comes before its handler.
BootFails ==
  /\ main = "boot"
  /\ main' = "died"
  /\ UNCHANGED <<launched, listed, wiping, wiperVars, reporterVars, taskVars, pipe,
                 exit, signal, told>>

Launch ==
  /\ main = "launch" /\ launched = listed /\ launched < N
  /\ launched' = launched + 1
  /\ wiper' = [wiper EXCEPT ![launched + 1] = "test"]
  /\ UNCHANGED <<nWritten, running, size, zeroed, late, main, listed, wiping,
                 reporterVars, taskVars, pipe, exit, signal, told>>

\* parted says nothing about the disk: int(None) raises.
LaunchRaises ==
  /\ main = "launch" /\ launched = listed /\ launched < N
  /\ main' = "died"
  /\ UNCHANGED <<launched, listed, wiping, wiperVars, reporterVars, taskVars, pipe,
                 exit, signal, told>>

List ==
  /\ main = "launch" /\ listed < launched
  /\ listed' = launched
  /\ UNCHANGED <<launched, main, wiping, wiperVars, reporterVars, taskVars, pipe,
                 exit, signal, told>>

StartReporter ==
  /\ main = "launch" /\ listed = N
  /\ main' = "watch"
  /\ reporter' = "count"
  /\ UNCHANGED <<launched, listed, wiping, wiperVars, turn, noted, anyRunning,
                 taskVars, pipe, exit, signal, told>>

\* The loop over wiping, and the join of the reporter, which times out.
Watch ==
  /\ main = "watch"
  /\ ~wiping \/ \A d \in Disks : ~running[d]
  /\ main' = "join"
  /\ wiping' = FALSE
  /\ UNCHANGED <<launched, listed, wiperVars, reporterVars, taskVars, pipe, exit,
                 signal, told>>

Join ==
  /\ main = "join"
  /\ \A d \in Disks : wiper[d] = "closed"
  /\ main' = "done"
  /\ UNCHANGED <<launched, listed, wiping, wiperVars, reporterVars, taskVars, pipe,
                 exit, signal, told>>

\* mutant: the threads are daemons
ExitEarly ==
  /\ exit = "none" /\ main \in {"done", "died"}
  /\ exit' = IF main = "done" THEN "good" ELSE "bad"
  /\ UNCHANGED <<wiperVars, mainVars, reporterVars, taskVars, pipe, signal, told>>

\* The interpreter ends when all its threads have.
Exit ==
  /\ exit = "none" /\ main \in {"done", "died"}
  /\ reporter \in {"unborn", "done"}
  /\ \A d \in Disks : wiper[d] \in {"unborn", "closed"}
  /\ exit' = IF main = "done" THEN "good" ELSE "bad"
  /\ UNCHANGED <<wiperVars, mainVars, reporterVars, taskVars, pipe, signal, told>>

\* handler_stop_signals: the wipers in the list stop, one that is not (yet) in
\* the list does not.
HandleStopSignal ==
  /\ signal = "sent" /\ exit = "none" /\ main # "boot"
  /\ signal' = "handled"
  /\ wiping' = FALSE
  /\ told' = 1 .. listed
  /\ running' = [d \in Disks |-> running[d] /\ d > listed]
  /\ UNCHANGED <<nWritten, wiper, size, zeroed, late, main, launched, listed,
                 reporterVars, taskVars, pipe, exit>>

(***************************************************************************)
(* task_multiwipe, polled until its progress is 100 or more                *)
(***************************************************************************)
\* The runner was stopped: the first poll after that sends SIGINT.
SendStop ==
  /\ progress < 100 /\ signal = "none" /\ exit = "none"
  /\ signal' = "sent"
  /\ UNCHANGED <<wiperVars, mainVars, reporterVars, taskVars, pipe, exit, told>>

\* The last report of each disk after the first k reports of the pipe.
SeenAfter(k) ==
  [d \in Disks |->
     LET mine == {i \in 1 .. k : pipe[i].disk = d}
     IN  IF mine = {} THEN seen[d]
         ELSE pipe[CHOOSE i \in mine : \A j \in mine : j <= i].progress]

\* mutant: a disk without a report does not count
AggregateHeard(reports) ==
  IF \A d \in Disks : reports[d] = 0
  THEN CASE exit = "none" -> 99 [] exit = "good" -> 100 [] exit = "bad" -> 999
  ELSE CASE \E d \in Disks : reports[d] = 999 -> 999
         [] \A d \in Disks : reports[d] \in {0, 100} -> 100
         [] OTHER -> 99

\* mutant: a failed disk is waited for
AggregatePatient(reports) ==
  IF \A d \in Disks : reports[d] = 0
  THEN CASE exit = "none" -> 99 [] exit = "good" -> 100 [] exit = "bad" -> 999
  ELSE IF \A d \in Disks : reports[d] = 100 THEN 100 ELSE 99

\* The exit code counts until there is a report, from then on the reports do.
Aggregate(reports) ==
  IF \A d \in Disks : reports[d] = 0
  THEN CASE exit = "none" -> 99 [] exit = "good" -> 100 [] exit = "bad" -> 999
  ELSE CASE \E d \in Disks : reports[d] = 999 -> 999
         [] \A d \in Disks : reports[d] = 100 -> 100
         [] OTHER -> 99

\* A poll reads up to 1024 bytes of the pipe, and a report is shorter than
\* that: once the program has exited, at least one report if there is any.
Poll ==
  /\ progress < 100
  /\ \E k \in 0 .. Len(pipe) :
       /\ exit # "none" /\ pipe # <<>> => k > 0
       /\ seen' = SeenAfter(k)
       /\ pipe' = SubSeq(pipe, k + 1, Len(pipe))
  /\ progress' = Aggregate(seen')
  /\ UNCHANGED <<wiperVars, mainVars, reporterVars, exit, signal, told>>

-----------------------------------------------------------------------------
Wipe(d) == Test(d) \/ Write(d) \/ WriteRaises(d) \/ Count(d)
Main == Boot \/ Launch \/ List \/ StartReporter \/ Watch \/ Join \/ Exit
Reporting == ReadCount \/ Report

Next ==
  \/ \E d \in Disks : Wipe(d)
  \/ Main \/ BootFails \/ LaunchRaises
  \/ Reporting \/ ReportRaises
  \/ HandleStopSignal \/ SendStop \/ Poll

\* Threads and the runner's loop go on.  Polls read what there is in the end,
\* because select() returns whenever the pipe has data.  The runner ends some time
\* after it has judged the task (Termination in Runner), which closes the pipe.
Fairness ==
  /\ \A d \in Disks : WF_vars(Wipe(d))
  /\ WF_vars(Main) /\ WF_vars(Reporting) /\ WF_vars(ReportRaises)
  /\ WF_vars(Poll /\ (pipe # <<>> => pipe' # pipe))

Spec == Init /\ [][Next]_vars /\ Fairness

-----------------------------------------------------------------------------
TypeOK ==
  /\ nWritten \in [Disks -> Nat] /\ zeroed \in [Disks -> Nat]
  /\ size \in [Disks -> 0 .. Chunk]
  /\ \A d \in Disks : nWritten[d] <= Sectors[d]
  /\ running \in [Disks -> BOOLEAN]
  /\ wiper \in [Disks -> {"unborn", "test", "write", "count", "closed"}]
  /\ main \in {"boot", "launch", "watch", "join", "done", "died"}
  /\ launched \in 0 .. N /\ listed \in 0 .. N
  /\ wiping \in BOOLEAN /\ anyRunning \in BOOLEAN
  /\ reporter \in {"unborn", "count", "report", "done"}
  /\ turn \in 1 .. N /\ noted \in Nat
  /\ pipe \in Seq([disk : Disks, progress : {99, 100, 999}])
  /\ exit \in {"none", "good", "bad"}
  /\ signal \in {"none", "sent", "handled"}
  /\ seen \in [Disks -> {0, 99, 100, 999}]
  /\ progress \in {0, 99, 100, 999}
  /\ told \subseteq Disks /\ late \in [Disks -> 0 .. 2]

\* A wipe that the task calls a success has zeroed every sector of every disk,
\* and no thread writes any more, whatever was stopped or failed meanwhile.
\* (Provided that raw writes are never short: ShortWrites.)
SuccessIsTrue ==
  progress = 100 =>
    \A d \in Disks : zeroed[d] = Sectors[d] /\ ~running[d] /\ nWritten[d] = Sectors[d]

\* When the reporter has ended by itself it has given a final verdict on every
\* disk: none is left behind as running.
EveryDiskJudged ==
  reporter = "done" /\ progress < 100 =>
    \A d \in Disks : SeenAfter(Len(pipe))[d] \in {100, 999}

\* What was reported is what was done: success means zeroed disks, and the
\* reporter does not leave before it has judged every disk.
VerdictsAreTrue == SuccessIsTrue /\ EveryDiskJudged

\* A wiper that was in the list when the signal was handled begins no write after
\* that.  One that was not, as the launch was still under way, is not stopped, and
\* wipes its disk to the end.
ListedStop == \A d \in told : late[d] = 0

\* The task comes to a verdict, even if disks fail, the launch raises or the
\* user stops it.
TaskEnds == <>(progress >= 100)

\* The program ends too, long after its task perhaps: when the task has given up
\* on it because of one disk, when a stop missed a wiper that was not in the list
\* yet, and when the pipe is full and nobody is left to read it.  Only then are all
\* the disks released.
ProgramEnds == <>(exit # "none")

\* Reports decide (tasks.py:2087, "completion/failure has to be read from the
\* per-disk reports"): a disk that was wiped to its last sector is
\* never reported as failed.
WipedIsNotFailed ==
  \A i \in 1 .. Len(pipe) :
    pipe[i].progress = 999 => zeroed[pipe[i].disk] < Sectors[pipe[i].disk]

=============================================================================
