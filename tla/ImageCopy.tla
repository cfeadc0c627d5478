----------------------------- MODULE ImageCopy ------------------------------
(***************************************************************************)
(* The copy of a disk image as a whole: task_image_rsync of                *)
(* ops/sync_image_tasks.py (RsyncTask) in the process of the server, and   *)
(* the driver that it starts (ProcessDriver, bin/rsync_copy.py calls       *)
(* drive_process) with one rsync for each disk.  They share the pipe and   *)
(* the exit code of the driver, and nothing else.                          *)
(*                                                                         *)
(* RsyncTask alone is about any driver that keeps DriverStream.  Here the  *)
(* verdict of the task is compared with what became of the commands.       *)
(***************************************************************************)
EXTENDS ProcessDriver

VARIABLES has, argv, targets, polling, returned, pids, progress   \* see RsyncTask

Task == INSTANCE RsyncTask WITH Disks <- Procs

taskVars   == <<has, argv, targets, polling, returned, pids, progress>>
driverVars == <<childVars, stateVars, pending, emitter, shown, stop, main, noted, owed,
                signalVars, waiter, reader, important, latest>>

\* The driver is given all disks.
CopyInit == Init /\ cmds = Procs /\ Task!Init

\* The driver runs once setup() has started it.
Copying == argv = "copy" /\ Driving /\ UNCHANGED taskVars

\* The task reads from the driver what it has written, in a poll.
Tasking == (Task!Setup \/ Task!PrintNoCopy \/ Task!Poll) /\ UNCHANGED driverVars

CopyNext == Copying \/ Tasking

copyVars == <<vars, taskVars>>
CopySpec == CopyInit /\ [][CopyNext]_copyVars

-----------------------------------------------------------------------------
\* The types of the driver, unless a process without a driver writes to the pipe,
\* and those of the task.
CopyTypeOK == (argv # "print" => TypeOK) /\ Task!TypeOK

\* What the user is told of a copy is true of the copies themselves, though it comes
\* from events that were queued, written and read long after they ended
\* (sync_image_tasks.py:385-402).  The task is over only after the driver.  Without
\* a failure or a stop, none of the disks is still written to then, and all have the
\* image.  A success means that some disk has it, a failure that some rsync failed.
VerdictIsTrue ==
  /\ progress >= 100 => returned /\ exit # "none"
  /\ progress >= 100 /\ argv = "copy" /\ ~termReq => \A d \in Procs : code[d] = "good"
  /\ progress = 100 => has # {} \/ \E d \in Procs : code[d] = "good"
  /\ progress = 999 => \E d \in Procs : code[d] \in {"bad", "term"}

\* The two together are what RsyncTask says of the task.
ImplementsTask == Task!Init /\ [][Task!Next]_Task!vars

=============================================================================
