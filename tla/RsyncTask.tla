------------------------------ MODULE RsyncTask ------------------------------
(***************************************************************************)
(* Copying a disk image to several disks: task_image_rsync of              *)
(* ops/sync_image_tasks.py, which runs bin/rsync_copy.py, a process driver *)
(* with one rsync per disk, and learns from its events how far the copy is.*)
(*                                                                         *)
(* The driver is DriverStream.  The runner polls the task until its        *)
(* progress is 100 (done) or 999 (failed).  A disk that has the image      *)
(* already is not copied to.                                               *)
(***************************************************************************)
EXTENDS Naturals, Sequences

CONSTANTS
  Disks,     \* the disks to copy to
  MaxOut     \* bound: events that wait in the pipe

VARIABLES
  has,       \* disks that have the image before the task starts
  argv,      \* "unset", "copy" (rsync_copy), "print" (a line about no copy)
  targets,   \* the destinations in argv
  phase, out, exit,   \* see DriverStream
  polling,   \* between the two halves of poll()
  returned,  \* process.returncode is not None
  pids,      \* the rsync processes that have started and not ended
  progress

stream == <<phase, out, exit>>
task   == <<argv, targets, returned, pids, progress>>
vars   == <<has, task, stream, polling>>

Driver == INSTANCE DriverStream WITH Procs <- Disks, cmds <- Disks

Init ==
  /\ has \in SUBSET Disks
  /\ argv = "unset" /\ targets = {}
  /\ Driver!StreamInit
  /\ polling = FALSE /\ returned = FALSE /\ pids = {} /\ progress = 0

(***************************************************************************)
(* setup(): the disks are looked at one by one; each adds itself to        *)
(* argv, or replaces argv when it has the image.                           *)
(***************************************************************************)
Setup ==
  /\ argv = "unset"
  /\ targets' = Disks \ has
  /\ argv' = IF has = {} THEN "copy" ELSE "print"
  /\ UNCHANGED <<has, returned, pids, progress, stream, polling>>

(***************************************************************************)
(* The process                                                             *)
(***************************************************************************)
Drive ==
  /\ argv = "copy"
  /\ Driver!Emit \/ Driver!Finish
  /\ UNCHANGED <<has, task, polling>>

\* python -c 'print(...)': one report about a disk that has the image.
PrintNoCopy ==
  /\ argv = "print" /\ exit = "none"
  /\ \E d \in has : out' = <<[type |-> "nocopy", proc |-> d]>>
  /\ exit' = "good"
  /\ UNCHANGED <<has, task, phase, polling>>

(***************************************************************************)
(* poll(): _poll_process(), which asks for the return code and reads what  *)
(* there is, and then parse_rsync_copy_progress().                         *)
(***************************************************************************)
AskReturnCode ==
  /\ argv # "unset" /\ progress < 100 /\ ~polling
  /\ returned' = (exit # "none")
  /\ polling' = TRUE
  /\ UNCHANGED <<has, argv, targets, pids, progress, stream>>

\* The copies that are known to run once the events were parsed, one by one: a
\* start appends the process to pids, an exit removes it, so its last one counts.
PidsAfter(events) ==
  LET told(d) == {i \in DOMAIN events : /\ events[i].type \in {"start", "good", "bad"}
                                        /\ events[i].proc = d}
  IN  {d \in Disks : \/ told(d) = {} /\ d \in pids
                     \/ \E i \in told(d) : /\ events[i].type = "start"
                                           /\ \A j \in told(d) : j <= i}

\* mutant: every exit is a completion
ReportOfExit(e) ==
  CASE e.type = "start" -> 0
    [] e.type = "line"  -> 50
    [] e.type \in {"good", "bad", "nocopy"} -> 100

\* The progress in the report that an event is turned into; errors make none.
\* Lines of rsync are clamped to 99; 50 stands for what they say.
ReportOf(e) ==
  CASE e.type = "start" -> 0
    [] e.type = "line"  -> 50
    [] e.type \in {"good", "nocopy"} -> 100
    [] e.type = "bad"   -> 999

Reporting(events) == {i \in DOMAIN events : events[i].type # "error"}

\* Each exit sets progress, but the report that was made last overwrites it: the
\* set of the last event that makes a report.
LastReport(events) ==
  {events[i] : i \in {i \in Reporting(events) : \A j \in Reporting(events) : j <= i}}

\* progress reaches 100 when the driver has really returned.
Clamped(value) == IF value >= 100 /\ ~returned THEN 99 ELSE value

ReadAndParse ==
  /\ polling
  /\ \E k \in 0 .. Len(out) :
       /\ out # <<>> => k > 0
       /\ pids' = PidsAfter(SubSeq(out, 1, k))
       /\ LET last == LastReport(SubSeq(out, 1, k))
          IN  \/ last = {} /\ progress' = Clamped(progress)
              \/ \E e \in last : progress' = Clamped(ReportOf(e))
       /\ out' = SubSeq(out, k + 1, Len(out))
  /\ polling' = FALSE
  /\ UNCHANGED <<has, argv, targets, returned, phase, exit>>

Poll == AskReturnCode \/ ReadAndParse

Next == Setup \/ Drive \/ PrintNoCopy \/ Poll

\* The runner polls; the driver need not come to an end.
Spec == Init /\ [][Next]_vars /\ WF_vars(Poll)

-----------------------------------------------------------------------------
TypeOK ==
  /\ has \subseteq Disks /\ targets \subseteq Disks
  /\ argv \in {"unset", "copy", "print"}
  /\ phase \in [Disks -> Driver!Phases]
  /\ out \in Seq([type : Driver!Kinds \cup {"nocopy"}, proc : Disks])
  /\ exit \in {"none", "good", "bad"}
  /\ polling \in BOOLEAN /\ returned \in BOOLEAN
  /\ pids \subseteq targets
  /\ progress \in {0, 50, 99, 100, 999}

\* The clamp at the end of poll(): the runner does not go on to the next task
\* while the driver, and with it an rsync, may still be writing to the disks.
NotBeforeDriver == progress >= 100 => returned /\ exit # "none"

\* Copies that all ended with 0 do not fail the task, whatever they print.
NoFalseFailure == progress = 999 => exit = "bad"

\* A success rests on a disk that has the image: one copy at least ended with 0,
\* or nothing was to be copied there.  With one disk, that is all of them.
SuccessHasReason == progress = 100 => has # {} \/ \E d \in Disks : phase[d] = "good"

\* The verdict of the task: it waits for the driver, a failure is one, and a
\* success rests on a disk that has the image.
VerdictHasReason == NotBeforeDriver /\ NoFalseFailure /\ SuccessHasReason

=============================================================================
