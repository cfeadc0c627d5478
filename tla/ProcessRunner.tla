--------------------------- MODULE ProcessRunner ---------------------------
(***************************************************************************)
(* How the server runs the commands of one kind (load, save, wipe, sync,   *)
(* unmount): get_runner() of api/server.py, the routes of                  *)
(* api/routers/dispatch.py and ProcessRunner of                            *)
(* api/internal/process_runner.py.                                         *)
(*                                                                         *)
(* Routes run in threads of the web server.  The first request of a kind   *)
(* makes a runner, a thread that takes jobs from its queue and starts a    *)
(* child for each; a reader per child puts the child's reports into the    *)
(* model that the page sees.  A runner is named by the request that made   *)
(* it, a job by the request that queued it.                                *)
(*                                                                         *)
(* Standard error of the child has a reader too, which cannot fail; it is  *)
(* left out.                                                               *)
(***************************************************************************)
EXTENDS Naturals, Sequences, FiniteSets

CONSTANTS
  Jobs,        \* requests to run a command
  Mixes,       \* the kinds that the jobs may be of together
  Stops,       \* requests to stop
  MaxLines,    \* bound: lines that a child of each kind prints
  PipeSize     \* lines that the pipe of a child holds

Kinds == {"tidy", "noisy", "broken", "missing"}
ASSUME MixesAssumption == Mixes \subseteq [Jobs -> Kinds]
ASSUME BoundsAssumption ==
  MaxLines \in [Kinds -> Nat] /\ PipeSize \in Nat \ {0} /\ IsFiniteSet(Stops)

None  == "none"
Unset == "unset"
ASSUME NamesAssumption == {None, Unset} \cap Jobs = {}

VARIABLES
  kind,        \* of each job: "tidy", its child prints JSON; "noisy", not only;
               \* "broken", None is among its arguments; "missing", it cannot start
  request,     \* where each request to run is
  target,      \* the runner it got
  registered,  \* _runners[name]
  worker,      \* where the thread of each runner is
  queue,       \* its _queue
  process,     \* its process: a job, None, or Unset before the first
  current,     \* the job its worker has in hand
  kills,       \* its _kill_count
  child,       \* the child of each job: "none", "alive", "ended"
  got,         \* the signals that were sent to it
  printed,     \* lines it has printed
  pipe,        \* lines not read yet: "report" or, not JSON, "text"
  reader,      \* where its reader thread is
  stopper,     \* where each request to stop is
  aim,         \* the runner it got
  seen,        \* history: the job that it found running
  shown        \* reports of each job that were put in the model

routeVars  == <<kind, request, target, registered>>
workerVars == <<worker, queue, process, current>>
childVars  == <<child, printed>>
readVars   == <<pipe, reader, shown>>
stopVars   == <<stopper, aim, seen, kills, got>>
vars == <<routeVars, workerVars, childVars, readVars, stopVars>>

Init ==
  /\ kind \in Mixes
  /\ request = [j \in Jobs |-> "look"] /\ target = [j \in Jobs |-> None]
  /\ registered = None
  /\ worker = [r \in Jobs |-> "unborn"] /\ queue = [r \in Jobs |-> <<>>]
  /\ process = [r \in Jobs |-> Unset] /\ current = [r \in Jobs |-> None]
  /\ kills = [r \in Jobs |-> 0]
  /\ child = [j \in Jobs |-> "none"] /\ got = [j \in Jobs |-> {}]
  /\ printed = [j \in Jobs |-> 0] /\ pipe = [j \in Jobs |-> <<>>]
  /\ reader = [j \in Jobs |-> "none"]
  /\ shown = [j \in Jobs |-> 0]
  /\ stopper = [s \in Stops |-> "look"] /\ aim = [s \in Stops |-> None]
  /\ seen = [s \in Stops |-> None]

(***************************************************************************)
(* get_runner() in the thread of a request, and queue().  No lock is held. *)
(***************************************************************************)
Look(j) ==
  /\ request[j] = "look"
  /\ target' = [target EXCEPT ![j] = registered]
  /\ request' = [request EXCEPT ![j] = IF registered = None THEN "make" ELSE "queue"]
  /\ UNCHANGED <<kind, registered, workerVars, childVars, readVars, stopVars>>

\* The runner is registered, and started after that.
Make(j) ==
  /\ request[j] = "make"
  /\ registered' = j
  /\ target' = [target EXCEPT ![j] = j]
  /\ request' = [request EXCEPT ![j] = "start"]
  /\ UNCHANGED <<kind, workerVars, childVars, readVars, stopVars>>

Start(j) ==
  /\ request[j] = "start"
  /\ worker' = [worker EXCEPT ![j] = "get"]
  /\ request' = [request EXCEPT ![j] = "queue"]
  /\ UNCHANGED <<kind, target, registered, queue, process, current, childVars, readVars,
                 stopVars>>

Queue(j) ==
  /\ request[j] = "queue"
  /\ queue' = [queue EXCEPT ![target[j]] = Append(@, j)]
  /\ request' = [request EXCEPT ![j] = "done"]
  /\ UNCHANGED <<kind, target, registered, worker, process, current, childVars, readVars,
                 stopVars>>

(***************************************************************************)
(* ProcessRunner.run() and run_process()                                   *)
(***************************************************************************)
Dequeue(r) ==
  /\ worker[r] = "get" /\ queue[r] # <<>>
  /\ current' = [current EXCEPT ![r] = Head(queue[r])]
  /\ queue' = [queue EXCEPT ![r] = Tail(@)]
  /\ worker' = [worker EXCEPT ![r] = "spawn"]
  /\ UNCHANGED <<routeVars, process, childVars, readVars, stopVars>>

\* shlex.join() of a list with None raises, outside of the try block.
Die(r) ==
  /\ worker[r] = "spawn" /\ kind[current[r]] = "broken"
  /\ worker' = [worker EXCEPT ![r] = "dead"]
  /\ UNCHANGED <<routeVars, queue, process, current, childVars, readVars, stopVars>>

\* mutant: an exception of Popen is not caught
CannotStartDies(r) ==
  /\ worker[r] = "spawn" /\ kind[current[r]] = "missing"
  /\ worker' = [worker EXCEPT ![r] = "dead"]
  /\ UNCHANGED <<routeVars, queue, process, current, childVars, readVars, stopVars>>

CannotStart(r) ==
  /\ worker[r] = "spawn" /\ kind[current[r]] = "missing"
  /\ worker' = [worker EXCEPT ![r] = "get"]
  /\ UNCHANGED <<routeVars, queue, process, current, childVars, readVars, stopVars>>

\* Popen(), and the start of the readers.
Spawn(r) ==
  /\ worker[r] = "spawn" /\ kind[current[r]] \in {"tidy", "noisy"}
  /\ LET j == current[r]
     IN  /\ process' = [process EXCEPT ![r] = j]
         /\ child' = [child EXCEPT ![j] = "alive"]
         /\ reader' = [reader EXCEPT ![j] = "read"]
  /\ worker' = [worker EXCEPT ![r] = "wait"]
  /\ UNCHANGED <<routeVars, queue, current, printed, pipe, shown, stopVars>>

\* process.wait()
Wait(r) ==
  /\ worker[r] = "wait" /\ child[current[r]] = "ended"
  /\ worker' = [worker EXCEPT ![r] = "join"]
  /\ UNCHANGED <<routeVars, queue, process, current, childVars, readVars, stopVars>>

\* mutant: the readers are not waited for
JoinNot(r) ==
  /\ worker[r] = "join"
  /\ process' = [process EXCEPT ![r] = None]
  /\ worker' = [worker EXCEPT ![r] = "get"]
  /\ UNCHANGED <<routeVars, queue, current, childVars, readVars, stopVars>>

\* mutant: the process is replaced by a mark that it is over
JoinMarks(r) ==
  /\ worker[r] = "join" /\ reader[current[r]] \in {"eof", "dead"}
  /\ process' = [process EXCEPT ![r] = "over"]
  /\ worker' = [worker EXCEPT ![r] = "get"]
  /\ UNCHANGED <<routeVars, queue, current, childVars, readVars, stopVars>>

\* The readers are joined, end() is called, and the process is forgotten.
Join(r) ==
  /\ worker[r] = "join" /\ reader[current[r]] \in {"eof", "dead"}
  /\ process' = [process EXCEPT ![r] = None]
  /\ worker' = [worker EXCEPT ![r] = "get"]
  /\ UNCHANGED <<routeVars, queue, current, childVars, readVars, stopVars>>

(***************************************************************************)
(* The child, and ProcessPipeReader.run() with the dispatch of a line      *)
(***************************************************************************)
PrintLine(j) ==
  /\ child[j] = "alive" /\ printed[j] < MaxLines[kind[j]] /\ Len(pipe[j]) < PipeSize
  /\ \E line \in {"report"} \cup (IF kind[j] = "noisy" THEN {"text"} ELSE {}) :
       pipe' = [pipe EXCEPT ![j] = Append(@, line)]
  /\ printed' = [printed EXCEPT ![j] = @ + 1]
  /\ UNCHANGED <<routeVars, workerVars, child, reader, shown, stopVars>>

\* A command ends after its last line,
ChildEnds(j) ==
  /\ child[j] = "alive" /\ printed[j] = MaxLines[kind[j]]
  /\ child' = [child EXCEPT ![j] = "ended"]
  /\ UNCHANGED <<routeVars, workerVars, printed, readVars, stopVars>>

\* or at any time, by itself or because of a signal.
ChildDies(j) ==
  /\ child[j] = "alive"
  /\ child' = [child EXCEPT ![j] = "ended"]
  /\ UNCHANGED <<routeVars, workerVars, printed, readVars, stopVars>>

\* RunnerOutputDispatch.dispatch() raises "not json", which ends the thread.
Read(j) ==
  /\ reader[j] = "read" /\ pipe[j] # <<>>
  /\ pipe' = [pipe EXCEPT ![j] = Tail(@)]
  /\ IF Head(pipe[j]) = "report"
     THEN /\ shown' = [shown EXCEPT ![j] = @ + 1]
          /\ UNCHANGED reader
     ELSE /\ reader' = [reader EXCEPT ![j] = "dead"]
          /\ UNCHANGED shown
  /\ UNCHANGED <<routeVars, workerVars, childVars, stopVars>>

\* mutant: the pipe is closed as soon as the child has ended
CloseEarly(j) ==
  /\ reader[j] = "read" /\ child[j] = "ended"
  /\ reader' = [reader EXCEPT ![j] = "eof"]
  /\ UNCHANGED <<routeVars, workerVars, childVars, pipe, shown, stopVars>>

EndOfFile(j) ==
  /\ reader[j] = "read" /\ pipe[j] = <<>> /\ child[j] = "ended"
  /\ reader' = [reader EXCEPT ![j] = "eof"]
  /\ UNCHANGED <<routeVars, workerVars, childVars, pipe, shown, stopVars>>

(***************************************************************************)
(* stop_runner() and terminate(), in the thread of a request.  Each step   *)
(* reads self.process anew; where it is not a process, the request fails   *)
(* with an exception.                                                      *)
(***************************************************************************)
At(s, from, to) ==
  /\ stopper[s] = from
  /\ stopper' = [stopper EXCEPT ![s] = to]

StopLook(s) ==
  /\ At(s, "look", IF registered = None THEN "done" ELSE "test")
  /\ aim' = [aim EXCEPT ![s] = registered]
  /\ UNCHANGED <<seen, kills, got>>

\* is_process_running(), first half
StopTest(s) ==
  /\ At(s, "test", CASE process[aim[s]] = Unset -> "raised"
                     [] process[aim[s]] = None  -> "done"
                     [] OTHER                   -> "code")
  /\ seen' = [seen EXCEPT ![s] = IF process[aim[s]] = Unset THEN None ELSE process[aim[s]]]
  /\ UNCHANGED <<aim, kills, got>>

\* mutant: the test of the return code is the wrong way round
StopCodeInverted(s) ==
  /\ At(s, "code", CASE process[aim[s]] = None     -> "raised"
                     [] worker[aim[s]] = "join"    -> "count"
                     [] OTHER                      -> "done")
  /\ UNCHANGED <<aim, seen, kills, got>>

\* ... and second half: returncode is set when the worker's wait() has returned.
StopCode(s) ==
  /\ At(s, "code", CASE process[aim[s]] = None     -> "raised"
                     [] worker[aim[s]] = "join"    -> "done"
                     [] OTHER                      -> "count")
  /\ UNCHANGED <<aim, seen, kills, got>>

StopCount(s) ==
  /\ At(s, "count", "send")
  /\ kills' = [kills EXCEPT ![aim[s]] = @ + 1]
  /\ UNCHANGED <<aim, seen, got>>

Signal(n) == CASE n > 2 -> "kill" [] n = 2 -> "term" [] OTHER -> "int"

\* Nothing is sent to a process that has ended.
StopSend(s) ==
  LET j == process[aim[s]]
  IN  /\ At(s, "send", IF j = None THEN "raised" ELSE "done")
      /\ got' = IF j # None /\ child[j] = "alive"
                THEN [got EXCEPT ![j] = @ \cup {Signal(kills[aim[s]])}]
                ELSE got
      /\ UNCHANGED <<aim, seen, kills>>

Stop(s) ==
  /\ StopLook(s) \/ StopTest(s) \/ StopCode(s) \/ StopCount(s) \/ StopSend(s)
  /\ UNCHANGED <<routeVars, workerVars, childVars, readVars>>

-----------------------------------------------------------------------------
Request(j) == Look(j) \/ Make(j) \/ Start(j) \/ Queue(j)
Work(r)    == Dequeue(r) \/ Die(r) \/ CannotStart(r) \/ Spawn(r) \/ Wait(r) \/ Join(r)
Child(j)   == PrintLine(j) \/ ChildEnds(j)
Reader(j)  == Read(j) \/ EndOfFile(j)

Next ==
  \/ \E j \in Jobs : Request(j) \/ Work(j) \/ Child(j) \/ ChildDies(j) \/ Reader(j)
  \/ \E s \in Stops : Stop(s)

\* The threads run.  A command comes to its end as long as it can write.
Fairness ==
  \A j \in Jobs : /\ WF_vars(Request(j)) /\ WF_vars(Work(j))
                  /\ WF_vars(Child(j)) /\ WF_vars(Reader(j))

Spec == Init /\ [][Next]_vars /\ Fairness

-----------------------------------------------------------------------------
TypeOK ==
  /\ kind \in Mixes
  /\ request \in [Jobs -> {"look", "make", "start", "queue", "done"}]
  /\ target \in [Jobs -> Jobs \cup {None}] /\ registered \in Jobs \cup {None}
  /\ worker \in [Jobs -> {"unborn", "get", "spawn", "wait", "join", "dead"}]
  /\ queue \in [Jobs -> Seq(Jobs)]
  /\ process \in [Jobs -> Jobs \cup {None, Unset}]
  /\ current \in [Jobs -> Jobs \cup {None}]
  /\ kills \in [Jobs -> Nat]
  /\ child \in [Jobs -> {"none", "alive", "ended"}]
  /\ got \in [Jobs -> SUBSET {"int", "term", "kill"}]
  /\ printed \in [Jobs -> Nat] /\ shown \in [Jobs -> Nat]
  /\ pipe \in [Jobs -> Seq({"report", "text"})]
  /\ reader \in [Jobs -> {"none", "read", "dead", "eof"}]
  /\ stopper \in [Stops -> {"look", "test", "code", "count", "send", "done", "raised"}]
  /\ aim \in [Stops -> Jobs \cup {None}] /\ seen \in [Stops -> Jobs \cup {None}]

Active(j) == child[j] = "alive" \/ reader[j] = "read"

\* A runner has one job at a time: the next does not begin, nor show anything on
\* the page, before the child of the last has ended and all it said is read.
OneJobPerRunner ==
  \A i, j \in Jobs : Active(i) /\ Active(j) /\ i # j => target[i] # target[j]

Over(j) == child[j] = "ended" /\ \A r \in Jobs : process[r] # j

\* What a child reports before it ends, however it ends, reaches the model,
\* unless its reader died of a line that is not JSON.
ReportsReachModel ==
  \A j \in Jobs : Over(j) /\ reader[j] # "dead" => shown[j] = printed[j]

\* A request to stop that found a job running has not missed it: when it returns
\* the job was signalled, or has ended, however their steps interleave.
StopNotLost ==
  \A s \in Stops : stopper[s] \in {"done", "raised"} /\ seen[s] # None =>
    child[seen[s]] = "ended" \/ got[seen[s]] # {}

\* Requests to stop escalate one by one, though two of them may count before
\* either sends: the second that found a job running may end it with SIGTERM, and
\* none before the third with SIGKILL.
Escalation ==
  LET found == Cardinality({s \in Stops : seen[s] # None})
  IN  \A j \in Jobs : /\ "term" \in got[j] => found >= 2
                      /\ "kill" \in got[j] => found >= 3

\* A request to stop reaches the job it found, and with the force that its number
\* among the requests says.
StopsObeyed == StopNotLost /\ Escalation

Blocked(j) ==
  \E i, r \in Jobs :
    /\ target[i] = r /\ target[j] = r
    /\ reader[i] = "dead" \/ (kind[i] = "broken" /\ worker[r] = "dead")

\* Every job that was queued is run to its end, or refused because its program
\* cannot be started.  Two things may keep it from that: a broken job kills the
\* runner it shares with it, or the reader of a job on that runner dies.
EveryJobRuns ==
  \A j \in Jobs : request[j] = "done" ~>
    Over(j) \/ kind[j] = "missing" \/ Blocked(j)

=============================================================================
