--------------------------- MODULE ProcessDriver ---------------------------
(***************************************************************************)
(* bin/process_driver.py: it drives the commands of rsync_copy or of a     *)
(* partclone pipeline and reports what they do to its parent, as events.   *)
(*                                                                         *)
(* Per command a thread reads its output and a thread waits for its exit;  *)
(* they hand events to the emitter's thread, which alone writes to the     *)
(* pipe of the parent.  The main thread waits until all commands have      *)
(* ended, and runs the signal handler.  Starts, exits and errors are       *)
(* queued; of the lines a command prints only the latest is kept.          *)
(*                                                                         *)
(* The wake event of the emitter is left out: it waits 0.1 s at most.      *)
(***************************************************************************)
EXTENDS Naturals, Sequences, FiniteSets

CONSTANTS
  Procs,        \* the commands there may be
  Loads,        \* what the driver may be given: sets of commands
  MaxOut,       \* bound: events that wait in the pipe to the parent
  MaxLines,     \* bound: lines that each command prints
  MaxSignals,   \* bound: SIGINT and SIGTERM sent to the driver
  Fallible      \* commands whose threads may raise an exception

ASSUME BoundsAssumption ==
  /\ Loads \subseteq SUBSET Procs /\ \A load \in Loads : IsFiniteSet(load)
  /\ MaxOut \in Nat \ {0} /\ MaxLines \in [Procs -> Nat] /\ MaxSignals \in Nat
  /\ Fallible \subseteq Procs

VARIABLES
  cmds,         \* the commands the driver was given
  code,         \* how each command ended: "none", "good", "bad", "term"
  termed,       \* commands that were sent SIGTERM
  waiter,       \* where the waiter thread of each command is
  reader,       \* where its reader thread is
  left,         \* _DriverState._processes
  retcode,      \* _DriverState.retcode, "good" for 0
  termReq,      \* terminate_requested
  important,    \* the emitter's queue
  latest,       \* _latest_lines: number of the line, 0 for none
  pending,      \* the lines that _drain() took
  emitter,      \* where the emitter thread is
  stop,         \* its _stop event
  main,         \* where the main thread is
  noted,        \* retcode, as the main thread read it
  handler,      \* "none", "locked", "stuck" inside of the signal handler
  sent,         \* signals sent to the driver
  out, exit,    \* the pipe and the exit code, see DriverStream
  phase,        \* history: what was told of each command
  read,         \* history: the number of lines read
  shown,        \* history: the number of the last line emitted
  owed          \* history: what close() has to deliver

childVars   == <<cmds, code, read>>
stateVars   == <<left, retcode, termReq, termed>>
emitterVars == <<pending, emitter, phase, shown>>
mainVars    == <<stop, main, noted, owed, exit>>
signalVars  == <<handler, sent>>
vars == <<childVars, stateVars, emitterVars, mainVars, signalVars, waiter, reader,
          important, latest, out>>

event(type, p) == [type |-> type, proc |-> p]

Init ==
  /\ code = [p \in Procs |-> "none"] /\ read = [p \in Procs |-> 0]
  /\ waiter = [p \in Procs |-> "unborn"] /\ reader = [p \in Procs |-> "unborn"]
  /\ cmds \in Loads /\ left = cmds /\ retcode = "good" /\ termReq = FALSE /\ termed = {}
  /\ important = <<>> /\ latest = [p \in Procs |-> 0]
  /\ pending = [p \in Procs |-> 0] /\ emitter = "drain"
  /\ stop = FALSE /\ main = "boot" /\ noted = "good"
  /\ handler = "none" /\ sent = 0
  /\ out = <<>> /\ exit = "none"
  /\ phase = [p \in Procs |-> "new"] /\ shown = [p \in Procs |-> 0]
  /\ owed = [exits |-> {}, lines |-> {}]

Alive == exit = "none"

(***************************************************************************)
(* The commands.  One that was sent SIGTERM may take its time, or ignore   *)
(* it.                                                                     *)
(***************************************************************************)
ChildEnds(p) ==
  /\ p \in cmds /\ code[p] = "none"
  /\ \E c \in {"good", "bad"} \cup (IF p \in termed THEN {"term"} ELSE {}) :
       code' = [code EXCEPT ![p] = c]
  /\ UNCHANGED <<cmds, read, stateVars, emitterVars, mainVars, signalVars, waiter, reader,
                 important, latest, out>>

(***************************************************************************)
(* _PipeReaderThread.run()                                                 *)
(***************************************************************************)
ReadLine(p) ==
  /\ Alive /\ reader[p] = "read" /\ read[p] < MaxLines[p]
  /\ read' = [read EXCEPT ![p] = @ + 1]
  /\ latest' = [latest EXCEPT ![p] = read'[p]]
  /\ UNCHANGED <<cmds, code, stateVars, emitterVars, mainVars, signalVars, waiter, reader,
                 important, out>>

ReadEnd(p) ==
  /\ Alive /\ reader[p] = "read" /\ code[p] # "none"
  /\ reader' = [reader EXCEPT ![p] = "done"]
  /\ UNCHANGED <<childVars, stateVars, emitterVars, mainVars, signalVars, waiter,
                 important, latest, out>>

ReadFails(p) ==
  /\ Alive /\ reader[p] = "read" /\ p \in Fallible
  /\ reader' = [reader EXCEPT ![p] = "done"]
  /\ important' = Append(important, event("error", p))
  /\ UNCHANGED <<childVars, stateVars, emitterVars, mainVars, signalVars, waiter,
                 latest, out>>

(***************************************************************************)
(* _ProcessWaiterThread.run()                                              *)
(***************************************************************************)
WaitReturns(p) ==
  /\ Alive /\ waiter[p] = "wait" /\ code[p] # "none"
  /\ important' = Append(important, event(IF code[p] = "good" THEN "good" ELSE "bad", p))
  /\ waiter' = [waiter EXCEPT ![p] = code[p]]
  /\ UNCHANGED <<childVars, stateVars, emitterVars, mainVars, signalVars, reader,
                 latest, out>>

WaitRaises(p) ==
  /\ Alive /\ waiter[p] = "wait" /\ p \in Fallible
  /\ important' = Append(important, event("error", p))
  /\ waiter' = [waiter EXCEPT ![p] = "raised"]
  /\ UNCHANGED <<childVars, stateVars, emitterVars, mainVars, signalVars, reader,
                 latest, out>>

Waited == {"good", "bad", "term", "raised"}

\* mutant: a wait that raises has no code
CodeRaw(p) == waiter[p]

\* The return code that process_exited() is called with.
Code(p) == IF waiter[p] = "raised" THEN "bad" ELSE waiter[p]
Over(p) == IF waiter[p] = "raised" THEN "lost" ELSE "done"

\* mutant: the last failure names the culprit
ProcessExitedLast(p) ==
  /\ Alive /\ handler = "none" /\ waiter[p] \in Waited
  /\ left' = left \ {p}
  /\ IF Code(p) # "good"
     THEN retcode' = Code(p) /\ termReq' = TRUE /\ termed' = termed \cup left'
     ELSE UNCHANGED <<retcode, termReq, termed>>
  /\ waiter' = [waiter EXCEPT ![p] = Over(p)]
  /\ UNCHANGED <<childVars, emitterVars, mainVars, signalVars, reader, important,
                 latest, out>>

\* mutant: a failure does not ask the others to end
ProcessExitedAlone(p) ==
  /\ Alive /\ handler = "none" /\ waiter[p] \in Waited
  /\ left' = left \ {p}
  /\ waiter' = [waiter EXCEPT ![p] = Over(p)]
  /\ UNCHANGED <<childVars, retcode, termReq, termed, emitterVars, mainVars,
                 signalVars, reader, important, latest, out>>

\* process_exited(), all of it under the lock: the first failure is kept and
\* ends the others.  all_done is set when left is empty.
ProcessExited(p) ==
  /\ Alive /\ handler = "none" /\ waiter[p] \in Waited
  /\ left' = left \ {p}
  /\ IF Code(p) # "good" /\ retcode = "good"
     THEN retcode' = Code(p) /\ termReq' = TRUE /\ termed' = termed \cup left'
     ELSE UNCHANGED <<retcode, termReq, termed>>
  /\ waiter' = [waiter EXCEPT ![p] = Over(p)]
  /\ UNCHANGED <<childVars, emitterVars, mainVars, signalVars, reader, important,
                 latest, out>>

(***************************************************************************)
(* DriverEmitter._writer_loop() and _drain()                               *)
(***************************************************************************)
Told(e) == IF e.type = "start" THEN "started" ELSE e.type

EmitImportant ==
  /\ Alive /\ emitter = "drain" /\ important # <<>> /\ Len(out) < MaxOut
  /\ out' = Append(out, Head(important))
  /\ important' = Tail(important)
  /\ phase' = IF Head(important).type = "error" THEN phase
              ELSE [phase EXCEPT ![Head(important).proc] = Told(Head(important))]
  /\ UNCHANGED <<childVars, stateVars, pending, emitter, shown, mainVars, signalVars,
                 waiter, reader, latest>>

SwapLines ==
  /\ Alive /\ emitter = "drain" /\ important = <<>>
  /\ pending' = latest
  /\ latest' = [p \in Procs |-> 0]
  /\ emitter' = "lines"
  /\ UNCHANGED <<childVars, stateVars, phase, shown, mainVars, signalVars, waiter,
                 reader, important, out>>

EmitLine(p) ==
  /\ Alive /\ emitter = "lines" /\ pending[p] # 0 /\ Len(out) < MaxOut
  /\ out' = Append(out, event("line", p))
  /\ shown' = [shown EXCEPT ![p] = pending[p]]
  /\ pending' = [pending EXCEPT ![p] = 0]
  /\ UNCHANGED <<childVars, stateVars, emitter, phase, mainVars, signalVars, waiter,
                 reader, important, latest>>

NoLines(lines) == \A p \in Procs : lines[p] = 0

CheckStop ==
  /\ Alive /\ emitter = "lines" /\ NoLines(pending)
  /\ emitter' = IF stop /\ important = <<>> /\ NoLines(latest) THEN "done" ELSE "drain"
  /\ UNCHANGED <<childVars, stateVars, pending, phase, shown, mainVars, signalVars,
                 waiter, reader, important, latest, out>>

(***************************************************************************)
(* The main thread: drive_process() and the signal handler                 *)
(***************************************************************************)
\* The commands in the order they were given.
procSeq == CHOOSE s \in [1 .. Cardinality(cmds) -> cmds] :
             \A i, j \in DOMAIN s : s[i] = s[j] => i = j

StartThreads ==
  /\ Alive /\ main = "boot"
  /\ important' = [i \in DOMAIN procSeq |-> event("start", procSeq[i])]
  /\ waiter' = [p \in Procs |-> IF p \in cmds THEN "wait" ELSE "unborn"]
  /\ reader' = [p \in Procs |-> IF p \in cmds THEN "read" ELSE "unborn"]
  /\ main' = "wait"
  /\ UNCHANGED <<childVars, stateVars, emitterVars, stop, noted, owed, exit,
                 signalVars, latest, out>>

\* A signal before the handlers are in place.
BootDies ==
  /\ Alive /\ main = "boot" /\ sent < MaxSignals
  /\ sent' = sent + 1
  /\ exit' = "bad" /\ main' = "died"
  /\ UNCHANGED <<childVars, stateVars, emitterVars, stop, noted, owed, handler,
                 waiter, reader, important, latest, out>>

\* all_done is set.
AllDone ==
  /\ Alive /\ main = "wait" /\ handler = "none" /\ left = {}
  /\ main' = "join"
  /\ UNCHANGED <<childVars, stateVars, emitterVars, stop, noted, owed, exit,
                 signalVars, waiter, reader, important, latest, out>>

\* mutant: the grace period begins with a failure only
GiveUpFailed ==
  /\ Alive /\ main = "wait" /\ handler = "none" /\ left # {} /\ retcode # "good"
  /\ noted' = retcode
  /\ main' = "giveup"
  /\ UNCHANGED <<childVars, stateVars, emitterVars, stop, owed, exit, signalVars,
                 waiter, reader, important, latest, out>>

\* The grace period is over.  retcode is read and written without the lock.
GiveUp ==
  /\ Alive /\ main = "wait" /\ handler = "none" /\ left # {} /\ termReq
  /\ noted' = retcode
  /\ main' = "giveup"
  /\ UNCHANGED <<childVars, stateVars, emitterVars, stop, owed, exit, signalVars,
                 waiter, reader, important, latest, out>>

SetGaveUp ==
  /\ Alive /\ main = "giveup" /\ handler = "none"
  /\ retcode' = IF noted = "good" THEN "gaveup" ELSE noted
  /\ noted' = "good"
  /\ main' = "join"
  /\ UNCHANGED <<childVars, left, termReq, termed, emitterVars, stop, owed, exit,
                 signalVars, waiter, reader, important, latest, out>>

\* The joins end, if need be because they time out, and close() sets _stop.  A
\* waiter that has only its last statements left is not timed out.
Close ==
  /\ Alive /\ main = "join" /\ handler = "none"
  /\ \A p \in Procs : waiter[p] \in {"unborn", "wait", "done", "lost"}
  /\ stop' = TRUE
  /\ owed' = [exits |-> {p \in Procs : waiter[p] = "done"},
              lines |-> {p \in Procs : reader[p] = "done"}]
  /\ main' = "close"
  /\ UNCHANGED <<childVars, stateVars, emitterVars, noted, exit, signalVars, waiter,
                 reader, important, latest, out>>

Exit ==
  /\ Alive /\ main = "close" /\ handler = "none" /\ emitter = "done"
  /\ exit' = IF retcode = "good" THEN "good" ELSE "bad"
  /\ UNCHANGED <<childVars, stateVars, emitterVars, stop, main, noted, owed,
                 signalVars, waiter, reader, important, latest, out>>

\* The handler runs in the main thread, between any two of its steps.
Signal ==
  /\ Alive /\ main # "boot" /\ sent < MaxSignals /\ handler = "none"
  /\ sent' = sent + 1
  /\ handler' = "locked"
  /\ UNCHANGED <<childVars, stateVars, emitterVars, mainVars, waiter, reader,
                 important, latest, out>>

TerminateAll ==
  /\ Alive /\ handler = "locked"
  /\ termReq' = TRUE /\ termed' = termed \cup left
  /\ handler' = "none"
  /\ UNCHANGED <<childVars, left, retcode, emitterVars, mainVars, sent,
                 waiter, reader, important, latest, out>>

\* Also inside of itself, before or after the commands were asked to end: there the
\* lock is taken, and the main thread waits for itself.
NestedSignal ==
  /\ Alive /\ sent < MaxSignals /\ handler = "locked"
  /\ sent' = sent + 1
  /\ handler' = "stuck"
  /\ \/ UNCHANGED <<termReq, termed>>
     \/ termReq' = TRUE /\ termed' = termed \cup left
  /\ UNCHANGED <<childVars, left, retcode, emitterVars, mainVars, waiter, reader,
                 important, latest, out>>

\* The parent reads.
ParentReads ==
  /\ out # <<>>
  /\ out' = Tail(out)
  /\ UNCHANGED <<childVars, stateVars, emitterVars, mainVars, signalVars, waiter,
                 reader, important, latest>>

-----------------------------------------------------------------------------
Reading(p) == ReadLine(p) \/ ReadEnd(p)
Waiting(p) == WaitReturns(p) \/ ProcessExited(p)
Emitting   == EmitImportant \/ SwapLines \/ CheckStop \/ \E p \in Procs : EmitLine(p)
Main       == StartThreads \/ AllDone \/ GiveUp \/ SetGaveUp \/ Close \/ Exit

Driving ==
  \/ \E p \in Procs :
       ChildEnds(p) \/ Reading(p) \/ ReadFails(p) \/ Waiting(p) \/ WaitRaises(p)
  \/ Emitting \/ Main \/ BootDies \/ Signal \/ TerminateAll \/ NestedSignal

Next == Driving \/ ParentReads

\* Threads run, and the parent reads.  Nothing is asked of the commands: one may
\* run for hours, and one that was told to end may not.
Fairness ==
  /\ \A p \in Procs : WF_vars(Waiting(p))
  /\ WF_vars(Emitting) /\ WF_vars(Main) /\ WF_vars(TerminateAll) /\ WF_vars(ParentReads)

Spec == Init /\ [][Next]_vars /\ Fairness

-----------------------------------------------------------------------------
TypeOK ==
  /\ cmds \in Loads
  /\ code \in [Procs -> {"none", "good", "bad", "term"}]
  /\ termed \subseteq cmds /\ left \subseteq cmds
  /\ waiter \in [Procs -> {"unborn", "wait", "done", "lost"} \cup Waited]
  /\ reader \in [Procs -> {"unborn", "read", "done"}]
  /\ retcode \in {"good", "bad", "term", "gaveup"} /\ noted \in {"good", "bad", "term", "gaveup"}
  /\ termReq \in BOOLEAN /\ stop \in BOOLEAN
  /\ important \in Seq([type : {"start", "good", "bad", "error"}, proc : Procs])
  /\ latest \in [Procs -> Nat] /\ pending \in [Procs -> Nat]
  /\ read \in [Procs -> Nat] /\ shown \in [Procs -> Nat]
  /\ emitter \in {"drain", "lines", "done"}
  /\ main \in {"boot", "wait", "giveup", "join", "close", "died"}
  /\ handler \in {"none", "locked", "stuck"}
  /\ sent \in 0 .. MaxSignals
  /\ out \in Seq([type : {"start", "line", "good", "bad", "error"}, proc : Procs])
  /\ exit \in {"none", "good", "bad"}
  /\ phase \in [Procs -> {"new", "started", "good", "bad"}]
  /\ owed \in [exits : SUBSET Procs, lines : SUBSET Procs]

\* The driver keeps what DriverStream promises the parent (see there): starts
\* first, one exit for a command, 0 only for a complete success.
Stream == INSTANCE DriverStream
ImplementsStream == Stream!StreamSpec

\* close() "guarantees buffered exit/error events actually reach the parent"
\* (process_driver.py:97): the exit of every command that was reaped, and the
\* last line of every output that was read to its end, were told before the
\* driver exits.
CloseDelivers ==
  exit # "none" =>
    /\ \A p \in owed.exits : phase[p] \in {"good", "bad"}
    /\ \A p \in owed.lines : shown[p] = read[p]

\* The return code names the command that failed first, not one that was ended
\* because of it: without a signal from outside it is never that of SIGTERM.
FirstFailureKept == sent = 0 => retcode \notin {"term", "gaveup"}

\* The parent learns everything: each exit and each output, and the code of the
\* command that failed first.
ParentLearnsAll == CloseDelivers /\ FirstFailureKept

\* Once it was sent a signal, or a command has failed, or all have ended, the driver
\* exits, even if a command ignores SIGTERM.  One thing alone can keep it from that, a
\* second signal that falls into the handler of the first.
StopEnds == (sent > 0 \/ termReq \/ left = {}) ~> (exit # "none" \/ handler = "stuck")

\* Whatever becomes of the main thread, its deadlock included, the parent of a driver
\* that has not begun to close is told, in the end, of each command that was reaped.
ReapedAreTold ==
  \A p \in Procs :
    waiter[p] \in {"good", "bad", "term", "done"} => phase[p] \in {"good", "bad"}

ExitsAreTold == []<>(ReapedAreTold \/ stop)

\* A stop comes to its end, and what ends is told, also by a driver that is stuck.
StopIsAnswered == StopEnds /\ ExitsAreTold

=============================================================================
