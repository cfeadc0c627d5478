------------------------ MODULE ProcessRunnerProofs ------------------------
(***************************************************************************)
(* Proofs about ProcessRunner, for any number of requests to run and to    *)
(* stop, any lines and any pipe: the jobs of one runner do not overlap,    *)
(* what a child reported reaches the model, and a stop is neither lost nor *)
(* harder than its number.                                                 *)
(*                                                                         *)
(* IInv says where a job is between its request and its end (Routed,       *)
(* InLine, Held, Running), that the lines of a child are shown, waiting or *)
(* dropped with their reader (Piped), what a request to stop knows of the  *)
(* job that it found (Aimed), and how many may have counted (Counts).      *)
(***************************************************************************)
EXTENDS ProcessRunner, SequenceTheorems, FiniteSetTheorems, TLAPS

InQueue(r) == 1 .. Len(queue[r])

\* A request has a runner when it goes to queue, and starts the one it made.
Routed ==
  /\ \A j \in Jobs : request[j] \in {"start", "queue", "done"} => target[j] \in Jobs
  /\ \A j \in Jobs : request[j] \in {"look", "make", "start"} => worker[j] = "unborn"

\* A job is in the queue of its runner once, and was not begun.
OwnLine   == \A r \in Jobs : \A i \in InQueue(r) :
  target[queue[r][i]] = r /\ request[queue[r][i]] = "done" /\ child[queue[r][i]] = "none"
LinesOnce == \A r \in Jobs : \A i, k \in InQueue(r) : i # k => queue[r][i] # queue[r][k]
InLine    == OwnLine /\ LinesOnce

\* The job in hand is one of the runner's own, and the process is that of the job.
OwnJob     == \A r \in Jobs : worker[r] \in {"spawn", "wait", "join"} =>
  current[r] \in Jobs /\ target[current[r]] = r /\ request[current[r]] = "done"
NotInLine  == \A r \in Jobs : worker[r] \in {"spawn", "wait", "join"} =>
  \A i \in InQueue(r) : queue[r][i] # current[r]
Begun      == \A r \in Jobs :
  /\ worker[r] = "spawn" => child[current[r]] = "none"
  /\ worker[r] \in {"wait", "join"} => child[current[r]] # "none"
  /\ worker[r] = "join" => child[current[r]] = "ended"
ItsProcess == \A r \in Jobs :
  /\ worker[r] \in {"wait", "join"} => process[r] = current[r]
  /\ worker[r] \notin {"wait", "join"} => process[r] \notin Jobs
  /\ worker[r] = "unborn" => process[r] = Unset
Held       == OwnJob /\ NotInLine /\ Begun /\ ItsProcess

\* A child that is alive or is read is the one its runner waits for.
Asked     == \A j \in Jobs : child[j] # "none" => request[j] = "done" /\ process[target[j]] # Unset
HasReader == \A j \in Jobs : reader[j] = "none" <=> child[j] = "none"
Awaited   == \A j \in Jobs :
  Active(j) => worker[target[j]] \in {"wait", "join"} /\ current[target[j]] = j
Running   == Asked /\ HasReader /\ Awaited

\* Each line that was printed is shown or in the pipe, while the reader lives.
Piped ==
  \A j \in Jobs :
    /\ child[j] = "none" => printed[j] = 0
    /\ reader[j] # "dead" => shown[j] + Len(pipe[j]) = printed[j]
    /\ reader[j] = "eof" => child[j] = "ended" /\ pipe[j] = <<>>

\* A request to stop aims at the runner of the job that it found.
Aimed ==
  \A s \in Stops :
    /\ stopper[s] = "test" => aim[s] \in Jobs
    /\ stopper[s] \in {"look", "test"} => seen[s] = None
    /\ stopper[s] \in {"code", "count", "send"} => seen[s] # None
    /\ seen[s] # None => aim[s] \in Jobs /\ child[seen[s]] # "none" /\ target[seen[s]] = aim[s]

\* Those that found a job, and those that may have counted at a runner.
Found      == {s \in Stops : seen[s] # None}
Counted(r) == {s \in Found : aim[s] = r /\ stopper[s] \in {"send", "done", "raised"}}
Counts     == \A r \in Jobs : kills[r] <= Cardinality(Counted(r))

IInv ==
  /\ TypeOK /\ Routed /\ InLine /\ Held /\ Running /\ Piped
  /\ Aimed /\ Counts /\ StopNotLost /\ Escalation

-----------------------------------------------------------------------------
\* Nobody has asked for anything: the initial states satisfy IInv.
LEMMA InitIInv == Init => IInv
<1> SUFFICES ASSUME Init PROVE IInv
  OBVIOUS
<1>1. TypeOK
  BY EmptySeq DEF Init, TypeOK
<1>2. \A r \in Jobs : InQueue(r) = {}
  BY DEF Init, InQueue
<1>3. Routed /\ InLine /\ Held
  BY <1>2, NamesAssumption DEF Init, Routed, InLine, OwnLine, LinesOnce, Held, OwnJob, NotInLine,
     Begun, ItsProcess
<1>4. Running /\ Piped
  BY DEF Init, Running, Asked, HasReader, Awaited, Active, Piped
<1>5. Aimed /\ StopNotLost /\ Escalation
  BY DEF Init, Aimed, StopNotLost, Escalation
<1>6. Counts
  <2>1. \A r \in Jobs : Counted(r) = {} /\ kills[r] = 0
    BY DEF Init, Counted, Found
  <2>2. QED
    BY <2>1, FS_EmptySet DEF Counts
<1>7. QED
  BY <1>1, <1>3, <1>4, <1>5, <1>6 DEF IInv

-----------------------------------------------------------------------------
\* What is in a queue is a job.
LEMMA QueuedJobs ==
  ASSUME TypeOK
  PROVE  \A r \in Jobs : /\ queue[r] \in Seq(Jobs) /\ Len(queue[r]) \in Nat
                         /\ \A i \in InQueue(r) : queue[r][i] \in Jobs
<1> SUFFICES ASSUME NEW r \in Jobs
             PROVE  /\ queue[r] \in Seq(Jobs) /\ Len(queue[r]) \in Nat
                    /\ \A i \in InQueue(r) : queue[r][i] \in Jobs
  OBVIOUS
<1>1. queue[r] \in Seq(Jobs)
  BY DEF TypeOK
<1>2. QED
  BY <1>1, LenProperties, ElementOfSeq DEF InQueue

\* Where the queues stay, jobs that were queued keep their runner and were not begun.
LEMMA LineStays ==
  ASSUME IInv, UNCHANGED queue,
         \A j \in Jobs : request[j] = "done" /\ child[j] = "none" =>
           /\ request'[j] = "done" /\ target'[j] = target[j]
           /\ \/ child'[j] = "none"
              \/ \A r \in Jobs : \A i \in InQueue(r) : queue[r][i] # j
  PROVE  InLine'
<1>1. \A r \in Jobs : InQueue(r)' = InQueue(r)
  BY DEF InQueue
<1>2. \A r \in Jobs : \A i \in InQueue(r) : queue[r][i] \in Jobs
  BY QueuedJobs DEF IInv
<1>3. OwnLine'
  BY <1>1, <1>2 DEF IInv, InLine, OwnLine
<1>4. LinesOnce'
  BY <1>1 DEF IInv, InLine, LinesOnce
<1>5. QED
  BY <1>3, <1>4 DEF InLine

\* What holds of jobs that were queued is not disturbed by those that are not yet.
LEMMA RouteStays ==
  ASSUME IInv, UNCHANGED <<workerVars, childVars, readVars, stopVars>>,
         \A j \in Jobs : request[j] = "done" => request'[j] = "done" /\ target'[j] = target[j]
  PROVE  InLine' /\ Held' /\ Running' /\ Piped' /\ Aimed' /\ Counts' /\ StopNotLost' /\ Escalation'
<1> USE DEF workerVars, childVars, readVars, stopVars
<1>1. InLine'
  BY LineStays
<1>2. OwnJob' /\ Begun' /\ ItsProcess'
  BY DEF IInv, Held, OwnJob, Begun, ItsProcess
<1>3. NotInLine'
  BY DEF IInv, Held, NotInLine, InQueue
<1>4. Asked'
  BY DEF IInv, Running, Asked
<1>5. HasReader' /\ Piped'
  BY DEF IInv, Running, HasReader, Piped
<1>6. Awaited'
  BY DEF IInv, Running, Asked, HasReader, Awaited, Active
<1>7. Aimed'
  BY DEF IInv, Aimed, TypeOK, Running, Asked
<1>8. Counts'
  BY DEF IInv, Counts, Counted, Found
<1>9. StopNotLost' /\ Escalation'
  BY DEF IInv, StopNotLost, Escalation
<1>10. QED
  BY <1>1, <1>2, <1>3, <1>4, <1>5, <1>6, <1>7, <1>8, <1>9 DEF Held, Running

\* What holds of the requests to stop is not disturbed by the others.
LEMMA StopsStay ==
  ASSUME IInv, UNCHANGED <<stopVars, target>>,
         \A j \in Jobs : child[j] # "none" => child'[j] \in {child[j], "ended"}
  PROVE  Aimed' /\ Counts' /\ StopNotLost' /\ Escalation'
<1> USE DEF stopVars
<1>1. Aimed'
  BY DEF IInv, TypeOK, Aimed
<1>2. Counts'
  BY DEF IInv, Counts, Counted, Found
<1>3. StopNotLost'
  BY DEF IInv, TypeOK, Aimed, StopNotLost
<1>4. Escalation'
  BY DEF IInv, Escalation
<1>5. QED
  BY <1>1, <1>2, <1>3, <1>4

\* A child that is alive or is read has a runner.
LEMMA ActiveHasRunner ==
  ASSUME IInv, NEW j \in Jobs, Active(j)
  PROVE  target[j] \in Jobs
BY DEF Active, IInv, TypeOK, Running, Asked, HasReader, Routed

-----------------------------------------------------------------------------
\* A request looks for the runner.
LEMMA LookKeeps ==
  ASSUME IInv, NEW j \in Jobs, Look(j)
  PROVE  IInv'
<1> USE DEF routeVars, workerVars, childVars, readVars, stopVars
<1>1. TypeOK'
  BY DEF IInv, Look, TypeOK
<1>2. Routed'
  BY DEF IInv, Look, Routed, TypeOK
<1>3. UNCHANGED <<workerVars, childVars, readVars, stopVars>>
      /\ \A x \in Jobs : request[x] = "done" => request'[x] = "done" /\ target'[x] = target[x]
  BY DEF IInv, Look, TypeOK
<1>4. QED
  BY <1>1, <1>2, <1>3, RouteStays DEF IInv

\* It finds none and makes one.
LEMMA MakeKeeps ==
  ASSUME IInv, NEW j \in Jobs, Make(j)
  PROVE  IInv'
<1> USE DEF routeVars, workerVars, childVars, readVars, stopVars
<1>1. TypeOK'
  BY DEF IInv, Make, TypeOK
<1>2. Routed'
  BY DEF IInv, Make, Routed, TypeOK
<1>3. UNCHANGED <<workerVars, childVars, readVars, stopVars>>
      /\ \A x \in Jobs : request[x] = "done" => request'[x] = "done" /\ target'[x] = target[x]
  BY DEF IInv, Make, TypeOK
<1>4. QED
  BY <1>1, <1>2, <1>3, RouteStays DEF IInv

\* It starts the one it made.
LEMMA StartKeeps ==
  ASSUME IInv, NEW j \in Jobs, Start(j)
  PROVE  IInv'
<1> USE DEF routeVars, workerVars, childVars, readVars, stopVars
<1>1. UNCHANGED <<target, queue, process, current, childVars, readVars, stopVars>>
      /\ \A x \in Jobs : request[x] = "done" => request'[x] = "done"
  BY DEF IInv, Start, TypeOK
<1>2. worker[j] = "unborn" /\ worker'[j] = "get" /\ \A x \in Jobs : x # j => worker'[x] = worker[x]
  BY DEF IInv, Routed, Start, TypeOK
<1>3. TypeOK'
  BY DEF IInv, Start, TypeOK
<1>4. Routed'
  BY DEF IInv, Start, Routed, TypeOK
<1>5. InLine'
  BY <1>1, LineStays
<1>6. OwnJob' /\ Begun'
  BY <1>1, <1>2 DEF IInv, Held, OwnJob, Begun
<1>7. NotInLine'
  BY <1>1, <1>2 DEF IInv, Held, NotInLine, InQueue
<1>8. ItsProcess'
  BY <1>1, <1>2 DEF IInv, Held, ItsProcess
<1>9. Asked' /\ HasReader' /\ Piped'
  BY <1>1 DEF IInv, Running, Asked, HasReader, Piped
<1>10. Awaited'
  BY <1>1, <1>2, ActiveHasRunner DEF IInv, Running, Awaited, Active
<1>11. Aimed' /\ Counts' /\ StopNotLost' /\ Escalation'
  BY <1>1, StopsStay
<1>12. QED
  BY <1>3, <1>4, <1>5, <1>6, <1>7, <1>8, <1>9, <1>10, <1>11 DEF IInv, Held, Running

\* It queues its job.
LEMMA QueueKeeps ==
  ASSUME IInv, NEW j \in Jobs, Queue(j)
  PROVE  IInv'
<1> USE DEF routeVars, workerVars, childVars, readVars, stopVars
<1> DEFINE t == target[j]
<1>1. UNCHANGED <<kind, target, registered, worker, process, current, childVars, readVars, stopVars>>
  BY DEF Queue
<1>2. /\ request[j] = "queue" /\ request' = [request EXCEPT ![j] = "done"]
      /\ t \in Jobs
  BY DEF IInv, Queue, Routed
<1>3. /\ queue' = [queue EXCEPT ![t] = Append(queue[t], j)]
      /\ queue[t] \in Seq(Jobs) /\ Len(queue[t]) \in Nat
  BY <1>2, QueuedJobs DEF Queue, IInv, TypeOK
<1>4. /\ Append(queue[t], j) \in Seq(Jobs) /\ Len(Append(queue[t], j)) = Len(queue[t]) + 1
      /\ \A i \in 1 .. Len(queue[t]) : Append(queue[t], j)[i] = queue[t][i]
      /\ Append(queue[t], j)[Len(queue[t]) + 1] = j
  BY <1>3, AppendProperties
<1>5. queue' \in [Jobs -> Seq(Jobs)]
      /\ queue'[t] = Append(queue[t], j) /\ \A r \in Jobs : r # t => queue'[r] = queue[r]
  BY <1>2, <1>3, <1>4 DEF IInv, TypeOK
<1>6. \A r \in Jobs : \A i \in InQueue(r)' :
        \/ i \in InQueue(r) /\ queue'[r][i] = queue[r][i]
        \/ r = t /\ i = Len(queue[t]) + 1 /\ queue'[r][i] = j
  BY <1>3, <1>4, <1>5 DEF InQueue
<1>7. \A r \in Jobs : \A i \in InQueue(r) : queue[r][i] \in Jobs /\ queue[r][i] # j
  BY <1>2, QueuedJobs DEF IInv, InLine, OwnLine
<1>8. TypeOK'
  BY <1>1, <1>2, <1>5 DEF IInv, TypeOK
<1>9. Routed'
  BY <1>1, <1>2, SMTT(30) DEF IInv, Routed, TypeOK
<1>10. request'[j] = "done" /\ \A x \in Jobs : request[x] = "done" => request'[x] = "done"
  BY <1>2 DEF IInv, TypeOK
<1>11. child[j] = "none"
  BY <1>2 DEF IInv, Running, Asked
<1>12. OwnLine'
  BY <1>1, <1>6, <1>7, <1>10, <1>11 DEF IInv, InLine, OwnLine
<1>13. LinesOnce'
  BY <1>6, <1>7 DEF IInv, InLine, LinesOnce
<1>14. OwnJob' /\ Begun' /\ ItsProcess'
  BY <1>1, <1>10 DEF IInv, Held, OwnJob, Begun, ItsProcess
<1>15. NotInLine'
  BY <1>1, <1>2, <1>6 DEF IInv, Held, NotInLine, OwnJob
<1>16. Asked' /\ HasReader' /\ Awaited' /\ Piped'
  BY <1>1, <1>10 DEF IInv, Running, Asked, HasReader, Awaited, Active, Piped
<1>17. Aimed' /\ Counts' /\ StopNotLost' /\ Escalation'
  BY <1>1, StopsStay
<1>18. QED
  BY <1>8, <1>9, <1>12, <1>13, <1>14, <1>15, <1>16, <1>17 DEF IInv, InLine, Held, Running

\* A runner takes a job in hand.
LEMMA DequeueKeeps ==
  ASSUME IInv, NEW r \in Jobs, Dequeue(r)
  PROVE  IInv'
<1> USE DEF routeVars, workerVars, childVars, readVars, stopVars
<1> DEFINE q == queue[r]
           h == q[1]
<1>1. UNCHANGED <<routeVars, process, childVars, readVars, stopVars>> /\ worker[r] = "get" /\ q # <<>>
  BY DEF Dequeue
<1>2. q \in Seq(Jobs) /\ Len(q) \in Nat \ {0} /\ \A i \in InQueue(r) : q[i] \in Jobs
  BY <1>1, QueuedJobs, EmptySeq DEF IInv
<1>3. /\ Head(q) = h /\ Tail(q) \in Seq(Jobs) /\ Len(Tail(q)) = Len(q) - 1
      /\ \A i \in 1 .. Len(Tail(q)) : Tail(q)[i] = q[i + 1]
  BY <1>1, <1>2, HeadTailProperties
<1>4. /\ worker' = [worker EXCEPT ![r] = "spawn"] /\ current' = [current EXCEPT ![r] = h]
      /\ queue' = [queue EXCEPT ![r] = Tail(q)]
  BY <1>3 DEF Dequeue
<1>5. /\ worker'[r] = "spawn" /\ current'[r] = h /\ queue'[r] = Tail(q)
      /\ \A x \in Jobs : x # r =>
           worker'[x] = worker[x] /\ current'[x] = current[x] /\ queue'[x] = queue[x]
  BY <1>4 DEF IInv, TypeOK
<1>6. 1 \in InQueue(r)
  BY <1>2 DEF InQueue
<1>7. h \in Jobs /\ target[h] = r /\ request[h] = "done" /\ child[h] = "none"
  BY <1>2, <1>6 DEF IInv, InLine, OwnLine
<1>8. \A i \in InQueue(r)' : i + 1 \in InQueue(r) /\ queue'[r][i] = q[i + 1] /\ i + 1 # 1
  BY <1>2, <1>3, <1>5 DEF InQueue
<1>9. \A x \in Jobs : x # r => InQueue(x)' = InQueue(x)
  BY <1>5 DEF InQueue
<1>10. TypeOK'
  <2>1. /\ worker' \in [Jobs -> {"unborn", "get", "spawn", "wait", "join", "dead"}]
        /\ current' \in [Jobs -> Jobs \cup {None}]
    BY <1>4, <1>7 DEF IInv, TypeOK
  <2>2. queue' \in [Jobs -> Seq(Jobs)]
    BY <1>3, <1>4 DEF IInv, TypeOK
  <2>3. QED
    BY <1>1, <2>1, <2>2 DEF IInv, TypeOK
<1>11. Routed'
  BY <1>1, <1>5 DEF IInv, Routed
<1>12. OwnLine'
  <2> SUFFICES ASSUME NEW x \in Jobs, NEW i \in InQueue(x)'
               PROVE  /\ target[queue'[x][i]] = x /\ request[queue'[x][i]] = "done"
                      /\ child[queue'[x][i]] = "none"
    BY <1>1 DEF OwnLine
  <2>1. \A k \in InQueue(x) : /\ target[queue[x][k]] = x /\ request[queue[x][k]] = "done"
                              /\ child[queue[x][k]] = "none"
    BY DEF IInv, InLine, OwnLine
  <2>2. CASE x = r
    BY <1>8, <2>1, <2>2
  <2>3. CASE x # r
    BY <1>5, <1>9, <2>1, <2>3
  <2>4. QED
    BY <2>2, <2>3
<1>13. LinesOnce'
  <2> SUFFICES ASSUME NEW x \in Jobs, NEW i \in InQueue(x)', NEW k \in InQueue(x)', i # k
               PROVE  queue'[x][i] # queue'[x][k]
    BY DEF LinesOnce
  <2>1. \A m, n \in InQueue(x) : m # n => queue[x][m] # queue[x][n]
    BY DEF IInv, InLine, LinesOnce
  <2>2. CASE x = r
    <3>1. i + 1 # k + 1
      BY <2>2, <1>3, <1>5 DEF InQueue
    <3>2. /\ i + 1 \in InQueue(x) /\ k + 1 \in InQueue(x)
          /\ queue'[x][i] = queue[x][i + 1] /\ queue'[x][k] = queue[x][k + 1]
      BY <1>8, <2>2
    <3>3. QED
      BY <2>1, <3>1, <3>2
  <2>3. CASE x # r
    BY <1>5, <1>9, <2>1, <2>3
  <2>4. QED
    BY <2>2, <2>3
<1>14. OwnJob'
  BY <1>1, <1>5, <1>7 DEF IInv, Held, OwnJob
<1>15. NotInLine'
  <2> SUFFICES ASSUME NEW x \in Jobs, worker'[x] \in {"spawn", "wait", "join"}, NEW i \in InQueue(x)'
               PROVE  queue'[x][i] # current'[x]
    BY DEF NotInLine
  <2>1. CASE x = r
    <3>1. \A m, n \in InQueue(r) : m # n => q[m] # q[n]
      BY DEF IInv, InLine, LinesOnce
    <3>2. i + 1 \in InQueue(r) /\ queue'[x][i] = q[i + 1] /\ i + 1 # 1
      BY <1>8, <2>1
    <3>3. QED
      BY <1>5, <1>6, <2>1, <3>1, <3>2
  <2>2. CASE x # r
    BY <1>5, <1>9, <2>2 DEF IInv, Held, NotInLine
  <2>3. QED
    BY <2>1, <2>2
<1>16. Begun'
  BY <1>1, <1>5, <1>7 DEF IInv, Held, Begun
<1>17. ItsProcess'
  BY <1>1, <1>5 DEF IInv, Held, ItsProcess
<1>18. Asked' /\ HasReader' /\ Piped'
  BY <1>1 DEF IInv, Running, Asked, HasReader, Piped
<1>19. Awaited'
  <2> SUFFICES ASSUME NEW j \in Jobs, Active(j)
               PROVE  worker'[target[j]] \in {"wait", "join"} /\ current'[target[j]] = j
    BY <1>1 DEF Awaited, Active
  <2>1. worker[target[j]] \in {"wait", "join"} /\ current[target[j]] = j
    BY DEF IInv, Running, Awaited
  <2>2. target[j] \in Jobs
    BY DEF Active, IInv, TypeOK, Running, Asked, HasReader, Routed
  <2>3. QED
    BY <1>1, <1>5, <2>1, <2>2
<1>20. Aimed' /\ Counts' /\ StopNotLost' /\ Escalation'
  BY <1>1, StopsStay
<1>21. QED
  BY <1>10, <1>11, <1>12, <1>13, <1>14, <1>15, <1>16, <1>17, <1>18, <1>19, <1>20
     DEF IInv, InLine, Held, Running

\* A runner that leaves its job before the child was started.
LEMMA GiveUpJob ==
  ASSUME IInv, NEW r \in Jobs, worker[r] = "spawn", NEW to \in {"get", "dead"},
         worker' = [worker EXCEPT ![r] = to],
         UNCHANGED <<routeVars, queue, process, current, childVars, readVars, stopVars>>
  PROVE  IInv'
<1> USE DEF routeVars, childVars, readVars, stopVars
<1>1. worker'[r] = to /\ \A x \in Jobs : x # r => worker'[x] = worker[x]
  BY DEF IInv, TypeOK
<1>2. TypeOK'
  BY DEF IInv, TypeOK
<1>3. Routed'
  BY <1>1 DEF IInv, Routed
<1>4. InLine'
  BY LineStays
<1>5. OwnJob' /\ Begun'
  BY <1>1 DEF IInv, Held, OwnJob, Begun
<1>6. NotInLine'
  BY <1>1 DEF IInv, Held, NotInLine, InQueue
<1>7. ItsProcess'
  BY <1>1 DEF IInv, Held, ItsProcess
<1>8. Asked' /\ HasReader' /\ Piped'
  BY DEF IInv, Running, Asked, HasReader, Piped
<1>9. Awaited'
  BY <1>1, ActiveHasRunner DEF IInv, Running, Awaited, Active
<1>10. Aimed' /\ Counts' /\ StopNotLost' /\ Escalation'
  BY StopsStay
<1>11. QED
  BY <1>2, <1>3, <1>4, <1>5, <1>6, <1>7, <1>8, <1>9, <1>10 DEF IInv, Held, Running

\* A runner dies of a job, or its program cannot be started.
LEMMA DieKeeps ==
  ASSUME IInv, NEW r \in Jobs, Die(r) \/ CannotStart(r)
  PROVE  IInv'
BY GiveUpJob DEF Die, CannotStart

\* A child is started, and its reader.
LEMMA SpawnKeeps ==
  ASSUME IInv, NEW r \in Jobs, Spawn(r)
  PROVE  IInv'
<1> USE DEF routeVars, workerVars, childVars, readVars, stopVars
<1> DEFINE c == current[r]
<1>1. UNCHANGED <<routeVars, queue, current, printed, pipe, shown, stopVars>> /\ worker[r] = "spawn"
  BY DEF Spawn
<1>2. c \in Jobs /\ target[c] = r /\ request[c] = "done" /\ child[c] = "none" /\ reader[c] = "none"
  BY <1>1 DEF IInv, Held, OwnJob, Begun, Running, HasReader
<1>3. /\ worker' = [worker EXCEPT ![r] = "wait"] /\ process' = [process EXCEPT ![r] = c]
      /\ child' = [child EXCEPT ![c] = "alive"] /\ reader' = [reader EXCEPT ![c] = "read"]
  BY DEF Spawn
<1>4. /\ worker'[r] = "wait" /\ process'[r] = c /\ child'[c] = "alive" /\ reader'[c] = "read"
      /\ \A x \in Jobs : x # r => worker'[x] = worker[x] /\ process'[x] = process[x]
      /\ \A x \in Jobs : x # c => child'[x] = child[x] /\ reader'[x] = reader[x]
  BY <1>2, <1>3 DEF IInv, TypeOK
<1>5. TypeOK'
  BY <1>1, <1>2, <1>3 DEF IInv, TypeOK
<1>6. Routed'
  BY <1>1, <1>4 DEF IInv, Routed
<1>7. InLine'
  <2>1. \A x \in Jobs : \A i \in InQueue(x) : queue[x][i] # c
    BY <1>1, <1>2 DEF IInv, Held, NotInLine, InLine, OwnLine
  <2>2. QED
    BY <1>1, <1>4, <2>1, LineStays
<1>8. OwnJob'
  BY <1>1, <1>4 DEF IInv, Held, OwnJob
<1>9. NotInLine'
  BY <1>1, <1>4 DEF IInv, Held, NotInLine, InQueue
<1>10. Begun'
  <2> SUFFICES ASSUME NEW x \in Jobs, worker'[x] \in {"spawn", "wait", "join"}
               PROVE  /\ worker'[x] = "spawn" => child'[current[x]] = "none"
                      /\ worker'[x] \in {"wait", "join"} => child'[current[x]] # "none"
                      /\ worker'[x] = "join" => child'[current[x]] = "ended"
    BY <1>1 DEF Begun
  <2>1. CASE x = r
    BY <1>4, <2>1
  <2>2. CASE x # r
    <3>1. current[x] \in Jobs /\ current[x] # c
      BY <1>2, <1>4, <2>2 DEF IInv, Held, OwnJob
    <3>2. QED
      BY <1>4, <2>2, <3>1 DEF IInv, Held, Begun
  <2>3. QED
    BY <2>1, <2>2
<1>11. ItsProcess'
  BY <1>1, <1>4 DEF IInv, Held, ItsProcess
<1>12. Asked'
  <2> SUFFICES ASSUME NEW x \in Jobs, child'[x] # "none"
               PROVE  request[x] = "done" /\ process'[target[x]] # Unset
    BY <1>1 DEF Asked
  <2>1. CASE x = c
    BY <1>2, <1>4, <2>1, NamesAssumption
  <2>2. CASE x # c
    <3>1. request[x] = "done" /\ process[target[x]] # Unset
      BY <1>4, <2>2 DEF IInv, Running, Asked
    <3>2. target[x] \in Jobs
      BY <3>1 DEF IInv, Routed
    <3>3. QED
      BY <1>2, <1>4, <3>1, <3>2, NamesAssumption
  <2>3. QED
    BY <2>1, <2>2
<1>13. HasReader'
  BY <1>4 DEF IInv, Running, HasReader
<1>14. Awaited'
  <2> SUFFICES ASSUME NEW x \in Jobs, Active(x)'
               PROVE  worker'[target[x]] \in {"wait", "join"} /\ current[target[x]] = x
    BY <1>1 DEF Awaited
  <2>1. CASE x = c
    BY <1>2, <1>4, <2>1
  <2>2. CASE x # c
    <3>1. Active(x)
      BY <1>4, <2>2 DEF Active
    <3>2. worker[target[x]] \in {"wait", "join"} /\ current[target[x]] = x /\ target[x] \in Jobs
      BY <3>1, ActiveHasRunner DEF IInv, Running, Awaited
    <3>3. QED
      BY <1>1, <1>4, <3>2
  <2>3. QED
    BY <2>1, <2>2
<1>15. Piped'
  BY <1>1, <1>2, <1>4 DEF IInv, Piped
<1>16. Aimed' /\ Counts' /\ StopNotLost' /\ Escalation'
  <2>1. \A j \in Jobs : child[j] # "none" => child'[j] = child[j]
    BY <1>2, <1>4
  <2>2. QED
    BY <1>1, <2>1, StopsStay
<1>17. QED
  BY <1>5, <1>6, <1>7, <1>8, <1>9, <1>10, <1>11, <1>12, <1>13, <1>14, <1>15, <1>16
     DEF IInv, Held, Running

\* The child has ended.
LEMMA WaitKeeps ==
  ASSUME IInv, NEW r \in Jobs, Wait(r)
  PROVE  IInv'
<1> USE DEF routeVars, workerVars, childVars, readVars, stopVars
<1>1. UNCHANGED <<routeVars, queue, process, current, childVars, readVars, stopVars>>
      /\ worker[r] = "wait" /\ child[current[r]] = "ended"
  BY DEF Wait
<1>2. worker'[r] = "join" /\ \A x \in Jobs : x # r => worker'[x] = worker[x]
  BY DEF Wait, IInv, TypeOK
<1>3. TypeOK'
  BY DEF Wait, IInv, TypeOK
<1>4. Routed'
  BY <1>1, <1>2 DEF IInv, Routed
<1>5. InLine'
  BY <1>1, LineStays
<1>6. OwnJob' /\ Begun'
  BY <1>1, <1>2 DEF IInv, Held, OwnJob, Begun
<1>7. NotInLine'
  BY <1>1, <1>2 DEF IInv, Held, NotInLine, InQueue
<1>8. ItsProcess'
  BY <1>1, <1>2 DEF IInv, Held, ItsProcess
<1>9. Asked' /\ HasReader' /\ Piped'
  BY <1>1 DEF IInv, Running, Asked, HasReader, Piped
<1>10. Awaited'
  BY <1>1, <1>2, ActiveHasRunner DEF IInv, Running, Awaited, Active
<1>11. Aimed' /\ Counts' /\ StopNotLost' /\ Escalation'
  BY <1>1, StopsStay
<1>12. QED
  BY <1>3, <1>4, <1>5, <1>6, <1>7, <1>8, <1>9, <1>10, <1>11 DEF IInv, Held, Running

\* Its reader has ended.
LEMMA JoinKeeps ==
  ASSUME IInv, NEW r \in Jobs, Join(r)
  PROVE  IInv'
<1> USE DEF routeVars, workerVars, childVars, readVars, stopVars
<1>1. /\ UNCHANGED <<routeVars, queue, current, childVars, readVars, stopVars>>
      /\ worker[r] = "join" /\ reader[current[r]] \in {"eof", "dead"}
  BY DEF Join
<1>2. /\ worker'[r] = "get" /\ process'[r] = None
      /\ \A x \in Jobs : x # r => worker'[x] = worker[x] /\ process'[x] = process[x]
  BY DEF Join, IInv, TypeOK
<1>3. ~Active(current[r])
  BY <1>1 DEF IInv, Held, Begun, Active
<1>4. TypeOK'
  <2>1. /\ worker' \in [Jobs -> {"unborn", "get", "spawn", "wait", "join", "dead"}]
        /\ process' \in [Jobs -> Jobs \cup {None, Unset}]
    BY DEF Join, IInv, TypeOK
  <2>2. QED
    BY <1>1, <2>1 DEF IInv, TypeOK
<1>5. Routed'
  BY <1>1, <1>2 DEF IInv, Routed
<1>6. InLine'
  BY <1>1, LineStays
<1>7. OwnJob' /\ Begun'
  BY <1>1, <1>2 DEF IInv, Held, OwnJob, Begun
<1>8. NotInLine'
  BY <1>1, <1>2 DEF IInv, Held, NotInLine, InQueue
<1>9. ItsProcess'
  BY <1>1, <1>2, NamesAssumption DEF IInv, Held, ItsProcess
<1>10. Asked'
  BY <1>1, <1>2 DEF IInv, Running, Asked, Routed, None, Unset
<1>11. HasReader' /\ Piped'
  BY <1>1 DEF IInv, Running, HasReader, Piped
<1>12. Awaited'
  <2> SUFFICES ASSUME NEW x \in Jobs, Active(x)
               PROVE  worker'[target[x]] \in {"wait", "join"} /\ current[target[x]] = x
    BY <1>1 DEF Awaited, Active
  <2>1. worker[target[x]] \in {"wait", "join"} /\ current[target[x]] = x /\ target[x] \in Jobs
    BY ActiveHasRunner DEF IInv, Running, Awaited
  <2>2. target[x] # r
    BY <1>3, <2>1
  <2>3. QED
    BY <1>2, <2>1, <2>2
<1>13. Aimed' /\ Counts' /\ StopNotLost' /\ Escalation'
  BY <1>1, StopsStay
<1>14. QED
  BY <1>4, <1>5, <1>6, <1>7, <1>8, <1>9, <1>10, <1>11, <1>12, <1>13 DEF IInv, Held, Running

-----------------------------------------------------------------------------
\* What the child and its reader do keeps what holds of requests, runners and stops.
LEMMA JobsStay ==
  ASSUME IInv, UNCHANGED <<routeVars, workerVars, stopVars>>,
         \A j \in Jobs : child'[j] = child[j] \/ (child[j] = "alive" /\ child'[j] = "ended")
  PROVE  InLine' /\ Held' /\ Asked' /\ Aimed' /\ Counts' /\ StopNotLost' /\ Escalation'
<1> USE DEF routeVars, workerVars
<1>1. InLine'
  BY LineStays
<1>2. OwnJob' /\ ItsProcess'
  BY DEF IInv, Held, OwnJob, ItsProcess
<1>3. NotInLine'
  BY DEF IInv, Held, NotInLine, InQueue
<1>4. Begun'
  BY DEF IInv, Held, OwnJob, Begun
<1>5. Asked'
  BY DEF IInv, Running, Asked
<1>6. Aimed' /\ Counts' /\ StopNotLost' /\ Escalation'
  BY StopsStay
<1>7. QED
  BY <1>1, <1>2, <1>3, <1>4, <1>5, <1>6 DEF Held

\* The pipe of a job is a sequence of its lines.
LEMMA PipedLines ==
  ASSUME TypeOK, NEW j \in Jobs
  PROVE  pipe[j] \in Seq({"report", "text"}) /\ Len(pipe[j]) \in Nat
<1>1. pipe[j] \in Seq({"report", "text"})
  BY DEF TypeOK
<1>2. QED
  BY <1>1, LenProperties

\* A child prints a line.
LEMMA PrintLineKeeps ==
  ASSUME IInv, NEW j \in Jobs, PrintLine(j)
  PROVE  IInv'
<1> USE DEF routeVars, workerVars, stopVars
<1>1. UNCHANGED <<routeVars, workerVars, child, reader, shown, stopVars>> /\ child[j] = "alive"
  BY DEF PrintLine
<1>2. PICK line \in {"report", "text"} : pipe' = [pipe EXCEPT ![j] = Append(pipe[j], line)]
  BY DEF PrintLine
<1>3. /\ Append(pipe[j], line) \in Seq({"report", "text"})
      /\ Len(Append(pipe[j], line)) = Len(pipe[j]) + 1 /\ Len(pipe[j]) \in Nat
  BY PipedLines, AppendProperties DEF IInv
<1>4. /\ pipe' \in [Jobs -> Seq({"report", "text"})]
      /\ Len(pipe'[j]) = Len(pipe[j]) + 1 /\ \A x \in Jobs : x # j => pipe'[x] = pipe[x]
  BY <1>2, <1>3 DEF IInv, TypeOK
<1>5. /\ printed' \in [Jobs -> Nat]
      /\ printed'[j] = printed[j] + 1 /\ \A x \in Jobs : x # j => printed'[x] = printed[x]
  BY DEF PrintLine, IInv, TypeOK
<1>6. TypeOK'
  BY <1>1, <1>4, <1>5 DEF IInv, TypeOK
<1>7. Routed'
  BY <1>1 DEF IInv, Routed
<1>8. InLine' /\ Held' /\ Asked' /\ Aimed' /\ Counts' /\ StopNotLost' /\ Escalation'
  BY <1>1, JobsStay
<1>9. HasReader' /\ Awaited'
  BY <1>1 DEF IInv, Running, HasReader, Awaited, Active
<1>10. Piped'
  <2> SUFFICES ASSUME NEW x \in Jobs
               PROVE  /\ child[x] = "none" => printed'[x] = 0
                      /\ reader[x] # "dead" => shown[x] + Len(pipe'[x]) = printed'[x]
                      /\ reader[x] = "eof" => child[x] = "ended" /\ pipe'[x] = <<>>
    BY <1>1 DEF Piped
  <2>1. /\ child[x] = "none" => printed[x] = 0
        /\ reader[x] # "dead" => shown[x] + Len(pipe[x]) = printed[x]
        /\ reader[x] = "eof" => child[x] = "ended" /\ pipe[x] = <<>>
    BY DEF IInv, Piped
  <2>2. CASE x = j
    <3>1. shown[j] \in Nat /\ printed[j] \in Nat
      BY DEF IInv, TypeOK
    <3>2. child[x] # "none" /\ reader[x] # "eof"
      BY <1>1, <2>1, <2>2
    <3>3. Len(pipe[j]) \in Nat
      BY PipedLines DEF IInv
    <3>4. reader[x] # "dead" => shown[x] + Len(pipe'[x]) = printed'[x]
      <4>1. reader[x] # "dead" => shown[j] + Len(pipe[j]) = printed[j]
        BY <2>1, <2>2
      <4>2. Len(pipe'[j]) = Len(pipe[j]) + 1 /\ printed'[j] = printed[j] + 1
        BY <1>4, <1>5
      <4>3. QED
        BY <2>2, <3>1, <3>3, <4>1, <4>2
    <3>5. QED
      BY <3>2, <3>4
  <2>3. CASE x # j
    BY <1>4, <1>5, <2>1, <2>3
  <2>4. QED
    BY <2>2, <2>3
<1>11. QED
  BY <1>6, <1>7, <1>8, <1>9, <1>10 DEF IInv, Running

\* A child ends, after its last line or before.
LEMMA EndKeeps ==
  ASSUME IInv, NEW j \in Jobs, ChildEnds(j) \/ ChildDies(j)
  PROVE  IInv'
<1> USE DEF routeVars, workerVars, readVars, stopVars
<1>1. UNCHANGED <<routeVars, workerVars, printed, readVars, stopVars>> /\ child[j] = "alive"
      /\ child' = [child EXCEPT ![j] = "ended"]
  BY DEF ChildEnds, ChildDies
<1>2. child'[j] = "ended" /\ \A x \in Jobs : x # j => child'[x] = child[x]
  BY <1>1 DEF IInv, TypeOK
<1>3. TypeOK'
  BY <1>1 DEF IInv, TypeOK
<1>4. Routed'
  BY <1>1 DEF IInv, Routed
<1>5. InLine' /\ Held' /\ Asked' /\ Aimed' /\ Counts' /\ StopNotLost' /\ Escalation'
  BY <1>1, <1>2, JobsStay
<1>6. HasReader' /\ Awaited'
  BY <1>1, <1>2 DEF IInv, Running, HasReader, Awaited, Active
<1>7. Piped'
  BY <1>1, <1>2 DEF IInv, Piped
<1>8. QED
  BY <1>3, <1>4, <1>5, <1>6, <1>7 DEF IInv, Running

\* The reader takes a line: it shows a report and dies of a text.
LEMMA ReadKeeps ==
  ASSUME IInv, NEW j \in Jobs, Read(j)
  PROVE  IInv'
<1> USE DEF routeVars, workerVars, childVars, stopVars
<1>1. UNCHANGED <<routeVars, workerVars, childVars, stopVars>> /\ reader[j] = "read" /\ pipe[j] # <<>>
  BY DEF Read
<1>2. /\ Tail(pipe[j]) \in Seq({"report", "text"})
      /\ Len(Tail(pipe[j])) = Len(pipe[j]) - 1 /\ Len(pipe[j]) \in Nat
  BY <1>1, PipedLines, HeadTailProperties DEF IInv
<1>3. /\ pipe' \in [Jobs -> Seq({"report", "text"})]
      /\ Len(pipe'[j]) = Len(pipe[j]) - 1 /\ \A x \in Jobs : x # j => pipe'[x] = pipe[x]
  <2>1. pipe' = [pipe EXCEPT ![j] = Tail(pipe[j])]
    BY DEF Read
  <2>2. QED
    BY <1>2, <2>1 DEF IInv, TypeOK
<1>4. \/ shown' = [shown EXCEPT ![j] = shown[j] + 1] /\ UNCHANGED reader
      \/ reader' = [reader EXCEPT ![j] = "dead"] /\ UNCHANGED shown
  BY DEF Read
<1>5. /\ \A x \in Jobs : x # j => shown'[x] = shown[x] /\ reader'[x] = reader[x]
      /\ (shown'[j] = shown[j] + 1 /\ reader'[j] = "read") \/ reader'[j] = "dead"
  BY <1>1, <1>4 DEF IInv, TypeOK
<1>6. TypeOK'
  <2>1. /\ shown \in [Jobs -> Nat] /\ reader \in [Jobs -> {"none", "read", "dead", "eof"}]
        /\ shown[j] + 1 \in Nat
    BY DEF IInv, TypeOK
  <2>2. shown' \in [Jobs -> Nat] /\ reader' \in [Jobs -> {"none", "read", "dead", "eof"}]
    BY <1>4, <2>1
  <2>3. QED
    BY <1>1, <1>3, <2>2 DEF IInv, TypeOK
<1>7. Routed'
  BY <1>1 DEF IInv, Routed
<1>8. InLine' /\ Held' /\ Asked' /\ Aimed' /\ Counts' /\ StopNotLost' /\ Escalation'
  BY <1>1, JobsStay
<1>9. HasReader' /\ Awaited'
  BY <1>1, <1>5 DEF IInv, Running, HasReader, Awaited, Active
<1>10. Piped'
  <2> SUFFICES ASSUME NEW x \in Jobs
               PROVE  /\ child[x] = "none" => printed[x] = 0
                      /\ reader'[x] # "dead" => shown'[x] + Len(pipe'[x]) = printed[x]
                      /\ reader'[x] = "eof" => child[x] = "ended" /\ pipe'[x] = <<>>
    BY <1>1 DEF Piped
  <2>1. /\ child[x] = "none" => printed[x] = 0
        /\ reader[x] # "dead" => shown[x] + Len(pipe[x]) = printed[x]
        /\ reader[x] = "eof" => child[x] = "ended" /\ pipe[x] = <<>>
    BY DEF IInv, Piped
  <2>2. CASE x = j
    <3>1. shown[j] \in Nat /\ printed[j] \in Nat
      BY DEF IInv, TypeOK
    <3>2. reader'[x] # "eof"
      BY <1>5, <2>2
    <3>3. Len(pipe[j]) \in Nat
      BY PipedLines DEF IInv
    <3>4. reader'[x] # "dead" => shown'[x] + Len(pipe'[x]) = printed[x]
      <4>1. shown[j] + Len(pipe[j]) = printed[j]
        BY <1>1, <2>1, <2>2
      <4>2. Len(pipe'[j]) = Len(pipe[j]) - 1 /\ (reader'[j] # "dead" => shown'[j] = shown[j] + 1)
        BY <1>3, <1>5
      <4>3. QED
        BY <2>2, <3>1, <3>3, <4>1, <4>2
    <3>5. QED
      BY <2>1, <3>2, <3>4
  <2>3. CASE x # j
    BY <1>3, <1>5, <2>1, <2>3
  <2>4. QED
    BY <2>2, <2>3
<1>11. QED
  BY <1>6, <1>7, <1>8, <1>9, <1>10 DEF IInv, Running

\* The reader has read all that the child said.
LEMMA EndOfFileKeeps ==
  ASSUME IInv, NEW j \in Jobs, EndOfFile(j)
  PROVE  IInv'
<1> USE DEF routeVars, workerVars, childVars, stopVars
<1>1. UNCHANGED <<routeVars, workerVars, childVars, pipe, shown, stopVars>>
      /\ reader[j] = "read" /\ pipe[j] = <<>> /\ child[j] = "ended"
      /\ reader' = [reader EXCEPT ![j] = "eof"]
  BY DEF EndOfFile
<1>2. reader'[j] = "eof" /\ \A x \in Jobs : x # j => reader'[x] = reader[x]
  BY <1>1 DEF IInv, TypeOK
<1>3. TypeOK'
  BY <1>1 DEF IInv, TypeOK
<1>4. Routed'
  BY <1>1 DEF IInv, Routed
<1>5. InLine' /\ Held' /\ Asked' /\ Aimed' /\ Counts' /\ StopNotLost' /\ Escalation'
  BY <1>1, JobsStay
<1>6. HasReader' /\ Awaited'
  BY <1>1, <1>2 DEF IInv, Running, HasReader, Awaited, Active
<1>7. Piped'
  BY <1>1, <1>2 DEF IInv, Piped
<1>8. QED
  BY <1>3, <1>4, <1>5, <1>6, <1>7 DEF IInv, Running

-----------------------------------------------------------------------------
\* A request to stop moves nothing but itself, its counter and its signals.
LEMMA JobsUndisturbed ==
  ASSUME IInv, UNCHANGED <<routeVars, workerVars, childVars, readVars>>
  PROVE  Routed' /\ InLine' /\ Held' /\ Running' /\ Piped'
<1> USE DEF routeVars, workerVars, childVars, readVars
<1>1. Routed'
  BY DEF IInv, Routed
<1>2. InLine'
  BY LineStays
<1>3. OwnJob' /\ Begun' /\ ItsProcess'
  BY DEF IInv, Held, OwnJob, Begun, ItsProcess
<1>4. NotInLine'
  BY DEF IInv, Held, NotInLine, InQueue
<1>5. Running' /\ Piped'
  BY DEF IInv, Running, Asked, HasReader, Awaited, Active, Piped
<1>6. QED
  BY <1>1, <1>2, <1>3, <1>4, <1>5 DEF Held

\* A request to stop takes a step, and no other does.
LEMMA StopMoves ==
  ASSUME TypeOK, NEW s \in Stops, NEW from, At(s, from, stopper'[s]),
         stopper'[s] \in {"look", "test", "code", "count", "send", "done", "raised"}
  PROVE  /\ stopper[s] = from /\ \A x \in Stops : x # s => stopper'[x] = stopper[x]
         /\ stopper' \in [Stops -> {"look", "test", "code", "count", "send", "done", "raised"}]
BY ZenonT(30) DEF At, TypeOK

\* Those that found a job, and those that may have counted, are finitely many.
LEMMA FewStops ==
  /\ IsFiniteSet(Found) /\ Cardinality(Found) \in Nat
  /\ \A r : /\ IsFiniteSet(Counted(r)) /\ Cardinality(Counted(r)) \in Nat
            /\ Cardinality(Counted(r)) <= Cardinality(Found)
<1>1. IsFiniteSet(Stops) /\ Found \subseteq Stops /\ \A r : Counted(r) \subseteq Found
  BY BoundsAssumption DEF Found, Counted
<1>2. QED
  BY <1>1, FS_Subset, FS_CardinalityType

\* While nobody counts, the requests that may have counted become no fewer.
LEMMA CountsGrow ==
  ASSUME IInv, UNCHANGED kills, \A r \in Jobs : Counted(r) \subseteq Counted(r)'
  PROVE  Counts'
<1> SUFFICES ASSUME NEW r \in Jobs
             PROVE  kills[r] <= Cardinality(Counted(r)')
  BY DEF Counts
<1>1. IsFiniteSet(Counted(r)')
  <2>1. Counted(r)' \subseteq Stops
    BY DEF Counted, Found
  <2>2. QED
    BY <2>1, BoundsAssumption, FS_Subset
<1>2. /\ Cardinality(Counted(r)) <= Cardinality(Counted(r)')
      /\ Cardinality(Counted(r)) \in Nat /\ Cardinality(Counted(r)') \in Nat
  BY <1>1, FewStops, FS_Subset, FS_CardinalityType
<1>3. kills[r] \in Nat /\ kills[r] <= Cardinality(Counted(r))
  BY DEF IInv, TypeOK, Counts
<1>4. QED
  BY <1>2, <1>3

\* While nobody sends, the requests that found a job become no fewer.
LEMMA EscalationGrows ==
  ASSUME IInv, UNCHANGED got, Found \subseteq Found'
  PROVE  Escalation'
<1>1. IsFiniteSet(Found')
  <2>1. Found' \subseteq Stops
    BY DEF Found
  <2>2. QED
    BY <2>1, BoundsAssumption, FS_Subset
<1>2. /\ Cardinality(Found) <= Cardinality(Found')
      /\ Cardinality(Found) \in Nat /\ Cardinality(Found') \in Nat
  BY <1>1, FewStops, FS_Subset, FS_CardinalityType
<1>3. QED
  BY <1>2 DEF IInv, Escalation, Found

\* A child that a request to stop found and that is alive is still the process.
LEMMA FoundIsProcess ==
  ASSUME IInv, NEW s \in Stops, seen[s] # None
  PROVE  /\ aim[s] \in Jobs /\ seen[s] \in Jobs /\ process[aim[s]] # Unset
         /\ \/ child[seen[s]] = "ended"
            \/ /\ child[seen[s]] = "alive"
               /\ process[aim[s]] = seen[s] /\ worker[aim[s]] # "join"
<1>1. /\ aim[s] \in Jobs /\ seen[s] \in Jobs
      /\ child[seen[s]] \in {"alive", "ended"} /\ target[seen[s]] = aim[s]
  BY DEF IInv, TypeOK, Aimed
<1>2. process[aim[s]] # Unset
  BY <1>1 DEF IInv, Running, Asked
<1>3. ASSUME child[seen[s]] = "alive"
      PROVE  process[aim[s]] = seen[s] /\ worker[aim[s]] # "join"
  <2>1. worker[aim[s]] \in {"wait", "join"} /\ current[aim[s]] = seen[s]
    BY <1>1, <1>3 DEF IInv, Running, Awaited, Active
  <2>2. process[aim[s]] = current[aim[s]]
    BY <1>1, <2>1 DEF IInv, Held, ItsProcess
  <2>3. worker[aim[s]] = "join" => child[seen[s]] = "ended"
    BY <1>1, <2>1 DEF IInv, Held, Begun
  <2>4. QED
    BY <1>3, <2>1, <2>2, <2>3
<1>4. QED
  BY <1>1, <1>2, <1>3

\* A request to stop looks for the runner.
LEMMA StopLookKeeps ==
  ASSUME IInv, NEW s \in Stops, StopLook(s),
         UNCHANGED <<routeVars, workerVars, childVars, readVars>>
  PROVE  IInv'
<1> USE DEF routeVars, workerVars, childVars, readVars
<1>1. /\ UNCHANGED <<seen, kills, got>> /\ At(s, "look", stopper'[s])
      /\ stopper'[s] = IF registered = None THEN "done" ELSE "test"
      /\ aim' = [aim EXCEPT ![s] = registered]
  BY DEF StopLook, At, IInv, TypeOK
<1>2. /\ stopper[s] = "look" /\ \A x \in Stops : x # s => stopper'[x] = stopper[x]
      /\ stopper' \in [Stops -> {"look", "test", "code", "count", "send", "done", "raised"}]
  BY <1>1, StopMoves DEF IInv
<1>3. aim'[s] = registered /\ \A x \in Stops : x # s => aim'[x] = aim[x]
  BY <1>1 DEF IInv, TypeOK
<1>4. seen[s] = None
  BY <1>2 DEF IInv, Aimed
<1>5. TypeOK'
  BY <1>1, <1>2 DEF IInv, TypeOK
<1>6. Routed' /\ InLine' /\ Held' /\ Running' /\ Piped'
  BY JobsUndisturbed
<1>7. Aimed'
  BY <1>1, <1>2, <1>3, <1>4 DEF IInv, Aimed, TypeOK
<1>8. Counts'
  <2>1. \A r \in Jobs : Counted(r) \subseteq Counted(r)'
    BY <1>1, <1>2, <1>3, <1>4 DEF Counted, Found
  <2>2. QED
    BY <1>1, <2>1, CountsGrow
<1>9. StopNotLost'
  BY <1>1, <1>2, <1>4 DEF IInv, StopNotLost
<1>10. Escalation'
  BY <1>1, EscalationGrows DEF Found
<1>11. QED
  BY <1>5, <1>6, <1>7, <1>8, <1>9, <1>10 DEF IInv

\* A request to stop looks for a process.
LEMMA StopTestKeeps ==
  ASSUME IInv, NEW s \in Stops, StopTest(s),
         UNCHANGED <<routeVars, workerVars, childVars, readVars>>
  PROVE  IInv'
<1> USE DEF routeVars, workerVars, childVars, readVars
<1> DEFINE p == process[aim[s]]
<1>1. /\ UNCHANGED <<aim, kills, got>> /\ At(s, "test", stopper'[s])
      /\ \/ p \in {None, Unset} /\ stopper'[s] \in {"raised", "done"} /\ seen'[s] = None
         \/ p \notin {None, Unset} /\ stopper'[s] = "code" /\ seen'[s] = p
      /\ \A x \in Stops : x # s => seen'[x] = seen[x]
  BY NamesAssumption DEF StopTest, At, IInv, TypeOK, None, Unset
<1>2. /\ stopper[s] = "test" /\ \A x \in Stops : x # s => stopper'[x] = stopper[x]
      /\ stopper' \in [Stops -> {"look", "test", "code", "count", "send", "done", "raised"}]
  BY <1>1, StopMoves DEF IInv
<1>3. aim[s] \in Jobs /\ seen[s] = None /\ p \in Jobs \cup {None, Unset}
  BY <1>2 DEF IInv, TypeOK, Aimed
<1>4. p \in Jobs => child[p] # "none" /\ target[p] = aim[s]
  <2>1. p \in Jobs => worker[aim[s]] \in {"wait", "join"} /\ current[aim[s]] = p
    BY <1>3 DEF IInv, Held, ItsProcess
  <2>2. QED
    BY <1>3, <2>1 DEF IInv, Held, OwnJob, Begun
<1>5. TypeOK'
  <2>1. seen' \in [Stops -> Jobs \cup {None}]
    BY <1>3 DEF StopTest, IInv, TypeOK
  <2>2. QED
    BY <1>1, <1>2, <2>1 DEF IInv, TypeOK
<1>6. Routed' /\ InLine' /\ Held' /\ Running' /\ Piped'
  BY JobsUndisturbed
<1>7. Aimed'
  BY <1>1, <1>2, <1>3, <1>4 DEF IInv, Aimed
<1>8. Counts'
  <2>1. \A r \in Jobs : Counted(r) \subseteq Counted(r)'
    BY <1>1, <1>2, <1>3 DEF Counted, Found
  <2>2. QED
    BY <1>1, <2>1, CountsGrow
<1>9. StopNotLost'
  BY <1>1, <1>2 DEF IInv, StopNotLost
<1>10. Escalation'
  <2>1. Found \subseteq Found'
    BY <1>1, <1>3 DEF Found
  <2>2. QED
    BY <1>1, <2>1, EscalationGrows
<1>11. QED
  BY <1>5, <1>6, <1>7, <1>8, <1>9, <1>10 DEF IInv

\* It looks whether that has ended.
LEMMA StopCodeKeeps ==
  ASSUME IInv, NEW s \in Stops, StopCode(s),
         UNCHANGED <<routeVars, workerVars, childVars, readVars>>
  PROVE  IInv'
<1> USE DEF routeVars, workerVars, childVars, readVars
<1>1. /\ UNCHANGED <<aim, seen, kills, got>> /\ At(s, "code", stopper'[s])
      /\ \/ process[aim[s]] = None /\ stopper'[s] = "raised"
         \/ worker[aim[s]] = "join" /\ stopper'[s] = "done"
         \/ stopper'[s] = "count"
  BY DEF StopCode, At, IInv, TypeOK
<1>2. /\ stopper[s] = "code" /\ \A x \in Stops : x # s => stopper'[x] = stopper[x]
      /\ stopper' \in [Stops -> {"look", "test", "code", "count", "send", "done", "raised"}]
  BY <1>1, StopMoves DEF IInv
<1>3. seen[s] # None
  BY <1>2 DEF IInv, Aimed
<1>4. stopper'[s] \in {"done", "raised"} => child[seen[s]] = "ended"
  BY <1>1, <1>3, FoundIsProcess, NamesAssumption
<1>5. TypeOK'
  BY <1>1, <1>2 DEF IInv, TypeOK
<1>6. Routed' /\ InLine' /\ Held' /\ Running' /\ Piped'
  BY JobsUndisturbed
<1>7. Aimed'
  BY <1>1, <1>2, <1>3 DEF IInv, Aimed
<1>8. Counts'
  <2>1. \A r \in Jobs : Counted(r) \subseteq Counted(r)'
    BY <1>1, <1>2 DEF Counted, Found
  <2>2. QED
    BY <1>1, <2>1, CountsGrow
<1>9. StopNotLost'
  BY <1>1, <1>2, <1>4 DEF IInv, StopNotLost
<1>10. Escalation'
  BY <1>1, EscalationGrows DEF Found
<1>11. QED
  BY <1>5, <1>6, <1>7, <1>8, <1>9, <1>10 DEF IInv

\* It counts.
LEMMA StopCountKeeps ==
  ASSUME IInv, NEW s \in Stops, StopCount(s),
         UNCHANGED <<routeVars, workerVars, childVars, readVars>>
  PROVE  IInv'
<1> USE DEF routeVars, workerVars, childVars, readVars
<1> DEFINE a == aim[s]
<1>1. /\ UNCHANGED <<aim, seen, got>> /\ At(s, "count", stopper'[s]) /\ stopper'[s] = "send"
      /\ kills' = [kills EXCEPT ![a] = kills[a] + 1]
  BY DEF StopCount, At, IInv, TypeOK
<1>2. /\ stopper[s] = "count" /\ \A x \in Stops : x # s => stopper'[x] = stopper[x]
      /\ stopper' \in [Stops -> {"look", "test", "code", "count", "send", "done", "raised"}]
  BY <1>1, StopMoves DEF IInv
<1>3. seen[s] # None /\ a \in Jobs /\ kills[a] \in Nat
  BY <1>2 DEF IInv, TypeOK, Aimed
<1>4. kills' \in [Jobs -> Nat] /\ kills'[a] = kills[a] + 1 /\ \A r \in Jobs : r # a => kills'[r] = kills[r]
  BY <1>1, <1>3, SMTT(30) DEF IInv, TypeOK
<1>5. TypeOK'
  BY <1>1, <1>2, <1>4 DEF IInv, TypeOK
<1>6. Routed' /\ InLine' /\ Held' /\ Running' /\ Piped'
  BY JobsUndisturbed
<1>7. Aimed'
  BY <1>1, <1>2, <1>3 DEF IInv, Aimed
<1>8. Counts'
  <2> SUFFICES ASSUME NEW r \in Jobs
               PROVE  kills'[r] <= Cardinality(Counted(r)')
    BY DEF Counts
  <2>1. kills[r] <= Cardinality(Counted(r)) /\ kills[r] \in Nat
        /\ IsFiniteSet(Counted(r)) /\ Cardinality(Counted(r)) \in Nat
    BY FewStops DEF IInv, TypeOK, Counts
  <2>2. CASE r = a
    <3>1. s \notin Counted(r) /\ Counted(r)' = Counted(r) \cup {s}
      BY <1>1, <1>2, <1>3, <2>2 DEF Counted, Found
    <3>2. Cardinality(Counted(r)') = Cardinality(Counted(r)) + 1
      BY <2>1, <3>1, FS_AddElement
    <3>3. kills'[r] = kills[r] + 1
      BY <1>4, <2>2
    <3>4. QED
      BY <2>1, <3>2, <3>3
  <2>3. CASE r # a
    <3>1. Counted(r)' = Counted(r)
      BY <1>1, <1>2, <2>3 DEF Counted, Found
    <3>2. QED
      BY <1>4, <2>1, <2>3, <3>1
  <2>4. QED
    BY <2>2, <2>3
<1>9. StopNotLost'
  BY <1>1, <1>2 DEF IInv, StopNotLost
<1>10. Escalation'
  BY <1>1, EscalationGrows DEF Found
<1>11. QED
  BY <1>5, <1>6, <1>7, <1>8, <1>9, <1>10 DEF IInv

\* The signal is no harder than the count.
LEMMA SignalOfCount ==
  ASSUME NEW n \in Nat
  PROVE  /\ Signal(n) \in {"int", "term", "kill"}
         /\ Signal(n) = "term" => n >= 2
         /\ Signal(n) = "kill" => n >= 3
BY DEF Signal

\* It sends the signal, unless the process was forgotten or has ended.
LEMMA StopSendKeeps ==
  ASSUME IInv, NEW s \in Stops, StopSend(s),
         UNCHANGED <<routeVars, workerVars, childVars, readVars>>
  PROVE  IInv'
<1> USE DEF routeVars, workerVars, childVars, readVars
<1> DEFINE a == aim[s]
           j == process[a]
           g == Signal(kills[a])
<1>1. /\ UNCHANGED <<aim, seen, kills>> /\ At(s, "send", stopper'[s])
      /\ stopper'[s] = IF j = None THEN "raised" ELSE "done"
      /\ got' = IF j # None /\ child[j] = "alive" THEN [got EXCEPT ![j] = got[j] \cup {g}] ELSE got
  BY DEF StopSend, At, IInv, TypeOK
<1>2. /\ stopper[s] = "send" /\ \A x \in Stops : x # s => stopper'[x] = stopper[x]
      /\ stopper' \in [Stops -> {"look", "test", "code", "count", "send", "done", "raised"}]
  BY <1>1, StopMoves DEF IInv
<1>3. seen[s] # None
  BY <1>2 DEF IInv, Aimed
<1>4. a \in Jobs /\ j \in Jobs \cup {None}
  BY <1>3, FoundIsProcess, SMTT(30) DEF IInv, TypeOK
<1>5. kills[a] \in Nat /\ kills[a] <= Cardinality(Found)
  <2>1. kills[a] \in Nat /\ kills[a] <= Cardinality(Counted(a))
    BY <1>4 DEF IInv, TypeOK, Counts
  <2>2. QED
    BY <2>1, FewStops
<1>6. \A x \in Jobs : /\ got[x] \subseteq got'[x] /\ got'[x] \subseteq got[x] \cup {g}
                      /\ x = j /\ child[x] = "alive" => g \in got'[x]
  BY <1>1, <1>4, NamesAssumption, SMTT(30) DEF IInv, TypeOK
<1>7. TypeOK'
  <2>1. got' \in [Jobs -> SUBSET {"int", "term", "kill"}]
    BY <1>1, <1>4, <1>5, SignalOfCount DEF IInv, TypeOK
  <2>2. QED
    BY <1>1, <1>2, <2>1 DEF IInv, TypeOK
<1>8. Routed' /\ InLine' /\ Held' /\ Running' /\ Piped'
  BY JobsUndisturbed
<1>9. Aimed'
  BY <1>1, <1>2 DEF IInv, Aimed
<1>10. Counts'
  <2>1. \A r \in Jobs : Counted(r) \subseteq Counted(r)'
    BY <1>1, <1>2 DEF Counted, Found
  <2>2. QED
    BY <1>1, <2>1, CountsGrow
<1>11. StopNotLost'
  <2> SUFFICES ASSUME NEW x \in Stops, stopper'[x] \in {"done", "raised"}, seen[x] # None
               PROVE  child[seen[x]] = "ended" \/ got'[seen[x]] # {}
    BY <1>1 DEF StopNotLost
  <2>1. seen[x] \in Jobs
    BY FoundIsProcess
  <2>2. CASE x = s
    BY <1>6, <2>1, <2>2, FoundIsProcess
  <2>3. CASE x # s
    BY <1>2, <1>6, <2>1, <2>3 DEF IInv, StopNotLost
  <2>4. QED
    BY <2>2, <2>3
<1>12. Escalation'
  <2>1. Cardinality(Found) \in Nat /\ Found' = Found
    BY <1>1, FewStops DEF Found
  <2> SUFFICES ASSUME NEW x \in Jobs
               PROVE  /\ "term" \in got'[x] => Cardinality(Found) >= 2
                      /\ "kill" \in got'[x] => Cardinality(Found) >= 3
    BY <1>1 DEF Escalation, Found
  <2>2. /\ "term" \in got[x] => Cardinality(Found) >= 2
        /\ "kill" \in got[x] => Cardinality(Found) >= 3
    BY DEF IInv, Escalation, Found
  <2>3. /\ g = "term" => Cardinality(Found) >= 2
        /\ g = "kill" => Cardinality(Found) >= 3
    <3>1. /\ g = "term" => kills[a] >= 2
          /\ g = "kill" => kills[a] >= 3
      BY <1>5, SignalOfCount
    <3>2. QED
      BY <1>5, <2>1, <3>1
  <2>4. QED
    BY <1>6, <2>2, <2>3
<1>13. QED
  BY <1>7, <1>8, <1>9, <1>10, <1>11, <1>12 DEF IInv

-----------------------------------------------------------------------------
\* Nothing happens.
LEMMA StutterKeeps == IInv /\ UNCHANGED vars => IInv'
<1> SUFFICES ASSUME IInv, UNCHANGED vars PROVE IInv'
  OBVIOUS
<1>1. UNCHANGED <<routeVars, workerVars, childVars, readVars, stopVars>>
  BY DEF vars
<1>2. TypeOK'
  BY <1>1 DEF IInv, TypeOK, routeVars, workerVars, childVars, readVars, stopVars
<1>3. Routed' /\ InLine' /\ Held' /\ Running' /\ Piped'
  BY <1>1, JobsUndisturbed
<1>4. Aimed' /\ Counts' /\ StopNotLost' /\ Escalation'
  BY <1>1, StopsStay DEF routeVars, childVars
<1>5. QED
  BY <1>2, <1>3, <1>4 DEF IInv

\* IInv is inductive.
LEMMA NextKeeps == IInv /\ [Next]_vars => IInv'
<1> SUFFICES ASSUME IInv, [Next]_vars PROVE IInv'
  OBVIOUS
<1>1. ASSUME NEW j \in Jobs, Request(j) PROVE IInv'
  BY <1>1, LookKeeps, MakeKeeps, StartKeeps, QueueKeeps DEF Request
<1>2. ASSUME NEW r \in Jobs, Work(r) PROVE IInv'
  BY <1>2, DequeueKeeps, DieKeeps, SpawnKeeps, WaitKeeps, JoinKeeps DEF Work
<1>3. ASSUME NEW j \in Jobs, Child(j) \/ ChildDies(j) \/ Reader(j) PROVE IInv'
  BY <1>3, PrintLineKeeps, EndKeeps, ReadKeeps, EndOfFileKeeps DEF Child, Reader
<1>4. ASSUME NEW s \in Stops, Stop(s) PROVE IInv'
  BY <1>4, StopLookKeeps, StopTestKeeps, StopCodeKeeps, StopCountKeeps, StopSendKeeps DEF Stop
<1>5. CASE UNCHANGED vars
  BY <1>5, StutterKeeps
<1>6. QED
  BY <1>1, <1>2, <1>3, <1>4, <1>5 DEF Next

\* IInv holds in every state of every behaviour.
THEOREM Invariance == Spec => []IInv
<1>1. Init => IInv
  BY InitIInv
<1>2. IInv /\ [Next]_vars => IInv'
  BY NextKeeps
<1>3. QED
  BY <1>1, <1>2, PTL DEF Spec

\* The state has its types: no request queues its job at a runner that is none, no
\* runner takes a job in hand that nobody asked for.
THEOREM TypeCorrect == Spec => []TypeOK
<1>1. IInv => TypeOK
  BY DEF IInv
<1>2. QED
  BY <1>1, Invariance, PTL

\* However requests, runners, children, readers and stops interleave, no runner has
\* two jobs whose child is alive or is still read.
THEOREM OneJob == Spec => []OneJobPerRunner
<1>1. IInv => OneJobPerRunner
  BY DEF IInv, Running, Awaited, OneJobPerRunner
<1>2. QED
  BY <1>1, Invariance, PTL

\* When a child has ended and its runner has forgotten it, the page has all its
\* reports, unless its reader died.
THEOREM ReportsReach == Spec => []ReportsReachModel
<1>1. ASSUME IInv, NEW j \in Jobs, Over(j), reader[j] # "dead"
      PROVE  shown[j] = printed[j]
  <2>1. child[j] = "ended" /\ \A r \in Jobs : process[r] # j
    BY <1>1 DEF Over
  <2>2. target[j] \in Jobs
    BY <1>1, <2>1 DEF IInv, Running, Asked, Routed
  <2>3. reader[j] # "read"
    <3>1. ASSUME reader[j] = "read" PROVE FALSE
      <4>1. worker[target[j]] \in {"wait", "join"} /\ current[target[j]] = j
        BY <1>1, <3>1 DEF IInv, Running, Awaited, Active
      <4>2. process[target[j]] = j
        BY <1>1, <2>2, <4>1 DEF IInv, Held, ItsProcess
      <4>3. QED
        BY <2>1, <2>2, <4>2
    <3>2. QED
      BY <3>1
  <2>4. reader[j] = "eof"
    BY <1>1, <2>1, <2>3 DEF IInv, TypeOK, Running, HasReader
  <2>5. pipe[j] = <<>> /\ shown[j] + Len(pipe[j]) = printed[j] /\ shown[j] \in Nat
    BY <1>1, <2>4 DEF IInv, TypeOK, Piped
  <2>6. QED
    BY <2>5, EmptySeq
<1>2. IInv => ReportsReachModel
  BY <1>1 DEF ReportsReachModel
<1>3. QED
  BY <1>2, Invariance, PTL

\* A stop that found a job is not lost, and no job is signalled harder than the
\* number of stops that found one allows.
THEOREM Stopping == Spec => []StopsObeyed
<1>1. IInv => StopsObeyed
  BY DEF IInv, StopsObeyed
<1>2. QED
  BY <1>1, Invariance, PTL

=============================================================================
