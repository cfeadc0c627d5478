------------------------ MODULE ProcessDriverProofs ------------------------
(***************************************************************************)
(* Proofs about ProcessDriver, for any commands, any number of lines and   *)
(* any signals: ParentLearnsAll holds, and the driver implements           *)
(* DriverStream.  Then (Task!) about RsyncTask, which reads such a stream: *)
(* what it makes of the events is true; and at the end about ImageCopy,    *)
(* the two together: what it makes of them is true of the copies.          *)
(*                                                                         *)
(* An event is told long after it was queued, by another thread.  IInv     *)
(* says what is queued when (Order, Exits), that it is true (Truth), where *)
(* the last line of each output is (LastLine), what the main thread may    *)
(* conclude when it joins and closes (Ends), and who is to blame (Blame).  *)
(***************************************************************************)
EXTENDS ImageCopy, SequenceTheorems, FiniteSetTheorems, TLAPS

Event   == [type : {"start", "good", "bad", "error"}, proc : Procs]
Queued  == 1 .. Len(important)
Started == main \notin {"boot", "died"}
Reaped  == {"good", "bad", "term", "done"}
Exited  == {"good", "bad"}

\* The threads of a command begin all together.
Born ==
  /\ \A p \in Procs : waiter[p] # "unborn" <=> Started /\ p \in cmds
  /\ \A p \in Procs : reader[p] # "unborn" <=> Started /\ p \in cmds
  /\ \A p \in Procs : read[p] # 0 => Started /\ p \in cmds
  /\ ~Started => important = <<>> /\ \A p \in Procs : phase[p] = "new"

\* The start of a command is first in the queue, or was told.
OfGiven    == \A i \in Queued : important[i].proc \in cmds
StartFirst == \A i, j \in Queued :
  i < j /\ important[j].type = "start" => important[i].proc # important[j].proc
StartNew   == \A i \in Queued : important[i].type = "start" => phase[important[i].proc] = "new"
StartTold  == Started => \A p \in cmds :
  phase[p] = "new" => \E i \in Queued : important[i] = event("start", p)
Order == OfGiven /\ StartFirst /\ StartNew /\ StartTold

\* The exit of a command that was reaped is queued, or was told: never both.
ExitReaped == \A i \in Queued : important[i].type \in Exited =>
  waiter[important[i].proc] \in Reaped /\ phase[important[i].proc] \notin Exited
ExitOnce   == \A i, j \in Queued :
  i < j /\ important[i].type \in Exited /\ important[j].type \in Exited =>
    important[i].proc # important[j].proc
ToldReaped == \A p \in Procs : phase[p] \in Exited => waiter[p] \in Reaped
ExitTold   == \A p \in Procs : waiter[p] \in Reaped /\ phase[p] \notin Exited =>
  \E i \in Queued : important[i].proc = p /\ important[i].type \in Exited
Exits == ExitReaped /\ ExitOnce /\ ToldReaped /\ ExitTold

\* A waiter has the code of its command, and an exit is a good one if that code is.
WaiterCode == \A p \in Procs :
  /\ waiter[p] \in {"good", "bad", "term"} => code[p] = waiter[p]
  /\ waiter[p] \in Reaped => code[p] # "none"
TrueQueued == \A i \in Queued :
  /\ important[i].type = "bad" => code[important[i].proc] # "good"
  /\ important[i].type = "good" => code[important[i].proc] = "good"
TrueTold   == \A p \in Procs :
  /\ phase[p] = "bad" => code[p] # "good"
  /\ phase[p] = "good" => code[p] = "good"
Truth == WaiterCode /\ TrueQueued /\ TrueTold

\* The last line read is the latest, or the pending, or was told.
LastLine ==
  /\ \A p \in Procs :
       IF latest[p] # 0 THEN latest[p] = read[p]
       ELSE IF pending[p] # 0 THEN pending[p] = read[p]
       ELSE shown[p] = read[p]
  /\ \A p \in Procs : pending[p] # 0 => p \in cmds /\ phase[p] # "new"
  /\ emitter = "drain" => NoLines(pending)

\* What the main thread relies on when it closes the emitter and exits.
AllGood   == retcode = "good" =>
  /\ \A p \in cmds \ left : waiter[p] = "done" /\ code[p] = "good"
  /\ main \in {"join", "close"} => left = {}
  /\ main = "close" => cmds \subseteq owed.exits
Owed      ==
  /\ main # "close" => ~stop /\ owed.exits = {} /\ owed.lines = {}
  /\ \A p \in owed.exits : waiter[p] = "done"
  /\ \A p \in owed.lines : reader[p] = "done"
Delivered == emitter = "done" =>
  /\ stop
  /\ \A p \in owed.exits : phase[p] \in Exited
  /\ \A p \in owed.lines : shown[p] = read[p]
Left      ==
  /\ exit # "none" => main = "died" \/ (main = "close" /\ emitter = "done")
  /\ main = "died" => exit # "none"
Ends == AllGood /\ Owed /\ Delivered /\ Left

\* Without a signal from outside nothing was asked to end before a failure.
Blame ==
  sent = 0 =>
    /\ handler = "none"
    /\ termReq \/ termed # {} \/ (\E p \in Procs : code[p] = "term") => retcode # "good"
    /\ retcode \in {"good", "bad"} /\ noted \in {"good", "bad"}
    /\ main = "giveup" => noted # "good"

IInv == TypeOK /\ Born /\ Order /\ Exits /\ Truth /\ LastLine /\ Ends /\ Blame

-----------------------------------------------------------------------------
\* The queue lost its first event.
Leaves ==
  /\ important' \in Seq(Event)
  /\ 1 \in Queued /\ Head(important) = important[1]
  /\ \A i \in Queued : important[i] \in Event /\ i >= 1
  /\ \A i \in Queued' : i + 1 \in Queued /\ important'[i] = important[i + 1] /\ i + 1 # 1
  /\ \A i \in Queued : i # 1 => i - 1 \in Queued' /\ important'[i - 1] = important[i]
  /\ \A i, j \in Queued' : i < j => i + 1 < j + 1

LEMMA Dequeue ==
  ASSUME important \in Seq(Event), important # <<>>, important' = Tail(important)
  PROVE  Leaves
<1>1. /\ important' \in Seq(Event) /\ Len(important) \in Nat \ {0}
      /\ Len(important') = Len(important) - 1
      /\ \A i \in 1 .. Len(important') : important'[i] = important[i + 1]
      /\ Head(important) = important[1]
      /\ \A i \in 1 .. Len(important) : important[i] \in Event
  BY LenProperties, HeadTailProperties, EmptySeq, ElementOfSeq
<1>2. Queued = 1 .. Len(important) /\ Queued' = 1 .. Len(important) - 1
  BY <1>1 DEF Queued
<1>3. /\ 1 \in Queued
      /\ \A i \in Queued : i >= 1 /\ (i # 1 => i - 1 \in Queued')
      /\ \A i \in Queued' : i + 1 \in Queued /\ i + 1 # 1
      /\ \A i, j \in Queued' : i < j => i + 1 < j + 1
  BY <1>1, <1>2
<1>4. \A i \in Queued : i # 1 => important'[i - 1] = important[i]
  BY <1>1, <1>2
<1>5. QED
  BY <1>1, <1>2, <1>3, <1>4 DEF Leaves

\* The events have the fields they were made with.
LEMMA Events ==
  ASSUME NEW p \in Procs, NEW type \in {"start", "good", "bad", "error"}
  PROVE  event(type, p) \in Event /\ event(type, p).type = type /\ event(type, p).proc = p
BY DEF event, Event

\* The starts of all commands, in the order they were given.
LEMMA Starts ==
  ASSUME TypeOK
  PROVE  /\ Cardinality(cmds) \in Nat
         /\ procSeq \in [1 .. Cardinality(cmds) -> cmds]
         /\ \A i, j \in 1 .. Cardinality(cmds) : procSeq[i] = procSeq[j] => i = j
         /\ \A p \in cmds : \E i \in 1 .. Cardinality(cmds) : procSeq[i] = p
<1> DEFINE N == Cardinality(cmds)
<1>1. IsFiniteSet(cmds)
  BY BoundsAssumption DEF TypeOK
<1>2. N \in Nat /\ ExistsBijection(1 .. N, cmds)
  BY <1>1, FS_CardinalityType
<1>3. PICK f \in [1 .. N -> cmds] : \A i, j \in 1 .. N : f[i] = f[j] => i = j
  BY <1>2 DEF ExistsBijection, Bijection, Injection, IsInjective
<1>4. /\ procSeq \in [1 .. N -> cmds]
      /\ \A i, j \in DOMAIN procSeq : procSeq[i] = procSeq[j] => i = j
  <2>1. \A i, j \in DOMAIN f : f[i] = f[j] => i = j
    BY <1>3
  <2>2. QED
    BY <1>3, <2>1 DEF procSeq
<1>5. procSeq \in Injection(1 .. N, cmds)
  BY <1>4 DEF Injection, IsInjective
<1>6. IsFiniteSet(1 .. N) /\ Cardinality(1 .. N) = N
  BY <1>2, FS_Interval
<1>7. procSeq \in Surjection(1 .. N, cmds)
  BY <1>1, <1>5, <1>6, FS_Injection
<1>8. \A p \in cmds : \E i \in 1 .. N : procSeq[i] = p
  BY <1>7 DEF Surjection
<1>9. QED
  BY <1>2, <1>4, <1>8

-----------------------------------------------------------------------------
\* Nothing was started, queued or told: the initial states satisfy IInv.
LEMMA InitIInv == Init => IInv
<1> SUFFICES ASSUME Init PROVE IInv
  OBVIOUS
<1> USE DEF Init
<1>1. TypeOK
  <2>1. important \in Seq(Event) /\ out \in Seq([type : {"start", "line", "good", "bad", "error"}, proc : Procs])
    BY EmptySeq
  <2>2. MaxSignals \in Nat
    BY BoundsAssumption
  <2>3. owed \in [exits : SUBSET Procs, lines : SUBSET Procs] /\ sent \in 0 .. MaxSignals
    BY <2>2
  <2>4. cmds \in Loads /\ left \subseteq cmds
    OBVIOUS
  <2>5. QED
    BY <2>1, <2>3, <2>4 DEF TypeOK, Event
<1>2. Queued = {}
  BY DEF Queued
<1>3. Born
  BY DEF Born, Started
<1>4. Order /\ Exits /\ Truth
  BY <1>2 DEF Order, OfGiven, StartFirst, StartNew, StartTold, Exits, ExitReaped, ExitOnce,
     ToldReaped, ExitTold, Truth, WaiterCode, TrueQueued, TrueTold, Started, Reaped, Exited
<1>5. LastLine /\ Ends /\ Blame
  BY DEF LastLine, NoLines, Ends, AllGood, Owed, Delivered, Left, Blame
<1>6. QED
  BY <1>1, <1>3, <1>4, <1>5 DEF IInv
-----------------------------------------------------------------------------
\* The queue only grew by e.
Joins(e) ==
  /\ important' \in Seq(Event)
  /\ Len(important) \in Nat /\ Len(important') = Len(important) + 1
  /\ \A i \in Queued : important'[i] = important[i] /\ important[i] \in Event
  /\ important'[Len(important')] = e
  /\ \A i \in Queued' : i = Len(important') \/ (i \in Queued /\ i < Len(important'))
  /\ \A i \in Queued : i \in Queued'
  /\ Len(important') \in Queued'

LEMMA Enqueue ==
  ASSUME important \in Seq(Event), NEW e \in Event, important' = Append(important, e)
  PROVE  Joins(e)
<1>1. /\ important' \in Seq(Event) /\ Len(important) \in Nat
      /\ Len(important') = Len(important) + 1
      /\ \A i \in Queued : important'[i] = important[i] /\ important[i] \in Event
      /\ important'[Len(important')] = e
  BY LenProperties, AppendProperties, ElementOfSeq DEF Queued
<1>2. Queued = 1 .. Len(important) /\ Queued' = 1 .. Len(important')
  BY DEF Queued
<1>3. /\ \A i \in Queued' : i = Len(important') \/ (i \in Queued /\ i < Len(important'))
      /\ \A i \in Queued : i \in Queued'
      /\ Len(important') \in Queued'
  BY <1>1, <1>2
<1>4. QED
  BY <1>1, <1>3 DEF Joins

\* Order, where an event that is not a start joins the queue.
LEMMA OrderAfter ==
  ASSUME IInv, Started, Started', UNCHANGED <<phase, cmds>>, NEW e \in Event, Joins(e),
         e.type # "start", e.proc \in cmds
  PROVE  Order'
<1>1. OfGiven'
  BY DEF IInv, Order, OfGiven, Joins
<1>2. StartFirst'
  <2> SUFFICES ASSUME NEW i \in Queued', NEW j \in Queued', i < j, important'[j].type = "start"
               PROVE  important'[i].proc # important'[j].proc
    BY DEF StartFirst
  <2>1. j \in Queued /\ j < Len(important')
    BY DEF Joins
  <2>2. i \in Queued
    BY <2>1 DEF Joins, Queued
  <2>3. QED
    BY <2>1, <2>2 DEF IInv, Order, StartFirst, Joins
<1>3. StartNew'
  BY DEF IInv, Order, StartNew, Joins
<1>4. StartTold'
  BY DEF IInv, Order, StartTold, Joins
<1>5. QED
  BY <1>1, <1>2, <1>3, <1>4 DEF Order

\* Exits and Truth, where the error of a thread joins the queue.
LEMMA ErrorQueued ==
  ASSUME IInv, UNCHANGED <<phase, cmds, code>>, NEW e \in Event, Joins(e), e.type = "error",
         \A q \in Procs : waiter'[q] = waiter[q] \/ (waiter[q] = "wait" /\ waiter'[q] = "raised")
  PROVE  Exits' /\ Truth'
<1>1. \A i \in Queued' : important'[i].type \in Exited =>
        i \in Queued /\ important'[i] = important[i] /\ important[i].proc \in Procs
  BY DEF Joins, Exited, Event
<1>2. \A q \in Procs : /\ waiter'[q] \in Reaped <=> waiter[q] \in Reaped
                       /\ waiter'[q] \in {"good", "bad", "term"} => waiter'[q] = waiter[q]
  BY DEF Reaped
<1>3. ExitReaped'
  BY <1>1, <1>2 DEF IInv, Exits, ExitReaped
<1>4. ExitOnce'
  BY <1>1 DEF IInv, Exits, ExitOnce
<1>5. ToldReaped'
  BY <1>2 DEF IInv, Exits, ToldReaped
<1>6. ExitTold'
  BY <1>2 DEF IInv, Exits, ExitTold, Joins
<1>7. WaiterCode'
  BY <1>2 DEF IInv, Truth, WaiterCode
<1>8. TrueQueued'
  BY <1>1 DEF IInv, Truth, TrueQueued, Exited
<1>9. TrueTold'
  BY DEF IInv, Truth, TrueTold
<1>10. QED
  BY <1>3, <1>4, <1>5, <1>6, <1>7, <1>8, <1>9 DEF Exits, Truth

\* Order, Exits and Truth, where the queue and what they compare it with stay.
LEMMA SameQueue ==
  ASSUME IInv, UNCHANGED <<important, phase, cmds, code>>, Started' <=> Started,
         \A q \in Procs : /\ waiter'[q] \in Reaped <=> waiter[q] \in Reaped
                          /\ waiter'[q] \in {"good", "bad", "term"} => waiter'[q] = waiter[q]
  PROVE  Order' /\ Exits' /\ Truth'
<1>1. Queued' = Queued
  BY DEF Queued
<1>2. Order'
  BY <1>1 DEF IInv, Order, OfGiven, StartFirst, StartNew, StartTold
<1>3. Exits'
  <2>1. \A i \in Queued : important[i].proc \in Procs
    BY BoundsAssumption DEF IInv, TypeOK, Order, OfGiven
  <2>2. QED
    BY <1>1, <2>1 DEF IInv, Exits, ExitReaped, ExitOnce, ToldReaped, ExitTold
<1>4. Truth'
  BY <1>1 DEF IInv, Truth, WaiterCode, TrueQueued, TrueTold
<1>5. QED
  BY <1>2, <1>3, <1>4

-----------------------------------------------------------------------------
\* A command ends.
LEMMA ChildEndsKeeps ==
  ASSUME IInv, NEW p \in Procs, ChildEnds(p)
  PROVE  IInv'
<1> USE DEF IInv, ChildEnds, childVars, stateVars, emitterVars, mainVars, signalVars, Alive
<1>1. TypeOK'
  BY SMTT(30) DEF TypeOK, Waited
<1>2. Born'
  BY DEF Born, Started, TypeOK, Waited
<1>3. Order'
  BY DEF Order, OfGiven, StartFirst, StartNew, StartTold, Queued, Started
<1>4. Exits'
  BY DEF Exits, ExitReaped, ExitOnce, ToldReaped, ExitTold, Queued
<1>5. Truth'
  <2>1. \A q \in Procs : waiter[q] \in Reaped => code'[q] = code[q]
    BY DEF TypeOK, Truth, WaiterCode
  <2>2. \A i \in Queued : important[i].type = "bad" =>
          code'[important[i].proc] = code[important[i].proc]
    <3>1. \A i \in Queued : important[i].proc \in Procs
      BY BoundsAssumption DEF Order, OfGiven, TypeOK
    <3>2. QED
      BY <2>1, <3>1 DEF Exits, ExitReaped, Exited
  <2>3. \A q \in Procs : phase[q] = "bad" => code'[q] = code[q]
    BY <2>1 DEF Exits, ToldReaped, Exited
  <2>4. \A q \in Procs : waiter[q] \in {"good", "bad", "term"} => code'[q] = code[q]
    BY <2>1 DEF Reaped
  <2>5. Queued' = Queued
    BY DEF Queued
  <2>6. QED
    BY <2>1, <2>2, <2>3, <2>4, <2>5 DEF Truth, WaiterCode, TrueQueued, TrueTold
<1>6. LastLine'
  BY DEF LastLine, NoLines, TypeOK
<1>7. Ends'
  BY DEF Ends, AllGood, Owed, Delivered, Left, Exited, TypeOK
<1>8. Blame'
  BY DEF Blame, TypeOK
<1>9. QED
  BY <1>1, <1>2, <1>3, <1>4, <1>5, <1>6, <1>7, <1>8

\* A line becomes the latest.
LEMMA ReadLineKeeps ==
  ASSUME IInv, NEW p \in Procs, ReadLine(p)
  PROVE  IInv'
<1> USE DEF IInv, ReadLine, childVars, stateVars, emitterVars, mainVars, signalVars, Alive
<1>1. TypeOK'
  BY DEF TypeOK, Waited
<1>2. Born'
  BY DEF Born, Started, TypeOK, Waited
<1>3. Order' /\ Exits' /\ Truth'
  BY SameQueue DEF Started
<1>4. LastLine'
  BY DEF LastLine, NoLines, TypeOK
<1>5. Ends'
  BY DEF Ends, AllGood, Owed, Delivered, Left, Exited, TypeOK
<1>6. Blame'
  BY DEF Blame, TypeOK
<1>7. QED
  BY <1>1, <1>2, <1>3, <1>4, <1>5, <1>6

\* A reader ends with the output.
LEMMA ReadEndKeeps ==
  ASSUME IInv, NEW p \in Procs, ReadEnd(p)
  PROVE  IInv'
<1> USE DEF IInv, ReadEnd, childVars, stateVars, emitterVars, mainVars, signalVars, Alive
<1>1. TypeOK'
  BY DEF TypeOK, Waited
<1>2. Born'
  BY DEF Born, Started, TypeOK, Waited
<1>3. Order' /\ Exits' /\ Truth'
  BY SameQueue DEF Started
<1>4. LastLine'
  BY DEF LastLine, NoLines, TypeOK
<1>5. Ends'
  BY DEF Ends, AllGood, Owed, Delivered, Left, Exited, TypeOK
<1>6. Blame'
  BY DEF Blame, TypeOK
<1>7. QED
  BY <1>1, <1>2, <1>3, <1>4, <1>5, <1>6

\* A reader raises.
LEMMA ReadFailsKeeps ==
  ASSUME IInv, NEW p \in Procs, ReadFails(p)
  PROVE  IInv'
<1> USE DEF childVars, stateVars, emitterVars, mainVars, signalVars
<1> DEFINE e == event("error", p)
<1>1. p \in cmds /\ Started /\ Started'
  BY DEF IInv, Born, Started, ReadFails
<1>2. e \in Event /\ e.type = "error" /\ e.proc = p
  BY Events
<1>3. Joins(e)
  BY <1>2, Enqueue DEF IInv, TypeOK, Event, ReadFails
<1>4. Order'
  BY <1>1, <1>2, <1>3, OrderAfter DEF ReadFails
<1>5. Exits' /\ Truth'
  BY <1>2, <1>3, ErrorQueued DEF ReadFails
<1>6. TypeOK'
  <2>1. important' \in Seq(Event)
    BY <1>3 DEF Joins
  <2>2. reader' \in [Procs -> {"unborn", "read", "done"}]
    BY DEF IInv, TypeOK, ReadFails
  <2>3. UNCHANGED <<childVars, stateVars, emitterVars, mainVars, signalVars, waiter, latest, out>>
    BY DEF ReadFails
  <2>4. QED
    BY <2>1, <2>2, <2>3 DEF IInv, TypeOK, Event
<1>7. Born'
  BY <1>1 DEF IInv, Born, Started, TypeOK, ReadFails
<1>8. LastLine'
  BY DEF IInv, LastLine, NoLines, ReadFails
<1>9. Ends'
  BY DEF IInv, Ends, AllGood, Owed, Delivered, Left, Exited, TypeOK, ReadFails
<1>10. Blame'
  BY DEF IInv, Blame, ReadFails
<1>11. QED
  BY <1>4, <1>5, <1>6, <1>7, <1>8, <1>9, <1>10 DEF IInv

\* An exit is queued.
LEMMA WaitReturnsKeeps ==
  ASSUME IInv, NEW p \in Procs, WaitReturns(p)
  PROVE  IInv'
<1> USE DEF childVars, stateVars, emitterVars, mainVars, signalVars
<1> DEFINE type == IF code[p] = "good" THEN "good" ELSE "bad"
           e == event(type, p)
<1>1. p \in cmds /\ Started /\ Started'
  BY DEF IInv, Born, Started, WaitReturns
<1>2. e \in Event /\ e.type = type /\ e.proc = p
  BY Events
<1>3. Joins(e)
  BY <1>2, Enqueue DEF IInv, TypeOK, Event, WaitReturns
<1>4. /\ waiter[p] = "wait" /\ waiter[p] \notin Reaped
      /\ waiter'[p] = code[p] /\ code[p] \in {"good", "bad", "term"}
      /\ \A q \in Procs : q # p => waiter'[q] = waiter[q]
      /\ waiter' \in [Procs -> {"unborn", "wait", "done", "lost"} \cup Waited]
  BY DEF IInv, TypeOK, Reaped, Waited, WaitReturns
<1>5. UNCHANGED <<childVars, stateVars, emitterVars, mainVars, signalVars, reader, latest, out>>
  BY DEF WaitReturns
<1>6. Order'
  BY <1>1, <1>2, <1>3, <1>5, OrderAfter
<1>7. \A i \in Queued : important[i].type \in Exited => important[i].proc # p
  BY <1>4 DEF IInv, Exits, ExitReaped
<1>8. phase[p] \notin Exited
  BY <1>4 DEF IInv, Exits, ToldReaped
<1>9. ExitReaped'
  BY <1>2, <1>3, <1>4, <1>5, <1>7, <1>8 DEF IInv, Exits, ExitReaped, Joins, Reaped, Event
<1>10. ExitOnce'
  <2> SUFFICES ASSUME NEW i \in Queued', NEW j \in Queued', i < j,
                      important'[i].type \in Exited, important'[j].type \in Exited
               PROVE  important'[i].proc # important'[j].proc
    BY DEF ExitOnce
  <2>1. i \in Queued
    BY <1>3 DEF Joins, Queued
  <2>2. CASE j \in Queued
    BY <1>3, <2>1, <2>2 DEF Joins, IInv, Exits, ExitOnce
  <2>3. CASE j = Len(important')
    BY <1>2, <1>3, <1>7, <2>1, <2>3 DEF Joins
  <2>4. QED
    BY <1>3, <2>2, <2>3 DEF Joins
<1>11. ToldReaped'
  BY <1>4, <1>5, <1>8 DEF IInv, Exits, ToldReaped
<1>12. ExitTold'
  <2> SUFFICES ASSUME NEW q \in Procs, waiter'[q] \in Reaped, phase[q] \notin Exited
               PROVE  \E i \in Queued' : important'[i].proc = q /\ important'[i].type \in Exited
    BY <1>5 DEF ExitTold
  <2>1. CASE q = p
    BY <1>2, <1>3, <2>1 DEF Joins, Exited
  <2>2. CASE q # p
    BY <1>3, <1>4, <2>2 DEF Joins, IInv, Exits, ExitTold
  <2>3. QED
    BY <2>1, <2>2
<1>13. WaiterCode' /\ TrueTold'
  BY <1>4, <1>5 DEF IInv, Truth, WaiterCode, TrueTold
<1>14. TrueQueued'
  BY <1>2, <1>3, <1>5 DEF IInv, Truth, TrueQueued, Joins
<1>15. TypeOK'
  <2>1. important' \in Seq(Event)
    BY <1>3 DEF Joins
  <2>2. QED
    BY <1>4, <1>5, <2>1 DEF IInv, TypeOK, Event
<1>16. Born'
  BY <1>1, <1>3, <1>4, <1>5 DEF IInv, Born, Started, TypeOK, Joins, Reaped, WaitReturns
<1>17. LastLine'
  BY <1>5 DEF IInv, LastLine, NoLines
<1>18. Ends'
  <2>1. \A q \in Procs : waiter[q] = "done" => waiter'[q] = "done"
    BY <1>4
  <2>2. AllGood'
    BY <1>5, <2>1, BoundsAssumption DEF IInv, TypeOK, Ends, AllGood
  <2>3. Owed'
    BY <1>5, <2>1 DEF IInv, TypeOK, Ends, Owed
  <2>4. Delivered' /\ Left'
    BY <1>5 DEF IInv, Ends, Delivered, Left
  <2>5. QED
    BY <2>2, <2>3, <2>4 DEF Ends
<1>19. Blame'
  BY <1>5 DEF IInv, Blame
<1>20. QED
  BY <1>6, <1>9, <1>10, <1>11, <1>12, <1>13, <1>14, <1>15, <1>16, <1>17, <1>18, <1>19
     DEF IInv, Exits, Truth

\* A waiter raises.
LEMMA WaitRaisesKeeps ==
  ASSUME IInv, NEW p \in Procs, WaitRaises(p)
  PROVE  IInv'
<1> USE DEF childVars, stateVars, emitterVars, mainVars, signalVars
<1> DEFINE e == event("error", p)
<1>1. p \in cmds /\ Started /\ Started'
  BY DEF IInv, Born, Started, WaitRaises
<1>2. e \in Event /\ e.type = "error" /\ e.proc = p
  BY Events
<1>3. Joins(e)
  BY <1>2, Enqueue DEF IInv, TypeOK, Event, WaitRaises
<1>4. waiter' = [waiter EXCEPT ![p] = "raised"] /\ waiter[p] = "wait"
      /\ waiter' \in [Procs -> {"unborn", "wait", "done", "lost"} \cup Waited]
  BY DEF IInv, TypeOK, Waited, WaitRaises
<1>5. Order'
  BY <1>1, <1>2, <1>3, OrderAfter DEF WaitRaises
<1>6. Exits' /\ Truth'
  <2>1. \A q \in Procs : waiter'[q] = waiter[q] \/ (waiter[q] = "wait" /\ waiter'[q] = "raised")
    BY <1>4 DEF IInv, TypeOK
  <2>2. QED
    BY <1>2, <1>3, <2>1, ErrorQueued DEF WaitRaises
<1>7. TypeOK'
  <2>1. important' \in Seq(Event)
    BY <1>3 DEF Joins
  <2>2. UNCHANGED <<childVars, stateVars, emitterVars, mainVars, signalVars, reader, latest, out>>
    BY DEF WaitRaises
  <2>3. QED
    BY <1>4, <2>1, <2>2 DEF IInv, TypeOK, Event
<1>8. Born'
  BY <1>1, <1>4 DEF IInv, Born, Started, TypeOK, WaitRaises
<1>9. LastLine'
  BY DEF IInv, LastLine, NoLines, WaitRaises
<1>10. Ends'
  BY <1>4 DEF IInv, Ends, AllGood, Owed, Delivered, Left, Exited, TypeOK, WaitRaises
<1>11. Blame'
  BY DEF IInv, Blame, WaitRaises
<1>12. QED
  BY <1>5, <1>6, <1>7, <1>8, <1>9, <1>10, <1>11 DEF IInv

\* An exit reaches the state that all threads share.
LEMMA ProcessExitedKeeps ==
  ASSUME IInv, NEW p \in Procs, ProcessExited(p)
  PROVE  IInv'
<1> USE DEF childVars, emitterVars, mainVars, signalVars
<1>1. /\ p \in cmds /\ Started /\ waiter[p] \in Waited
      /\ \A q \in Procs : q # p => waiter'[q] = waiter[q]
      /\ waiter'[p] = Over(p)
      /\ waiter' \in [Procs -> {"unborn", "wait", "done", "lost"} \cup Waited]
  BY DEF IInv, TypeOK, Born, Waited, Over, ProcessExited
<1>2. /\ waiter[p] = "raised" => waiter'[p] = "lost" /\ Code(p) = "bad"
      /\ waiter[p] # "raised" =>
           waiter'[p] = "done" /\ Code(p) = code[p] /\ code[p] = waiter[p]
           /\ waiter[p] \in {"good", "bad", "term"}
  BY <1>1 DEF Over, Code, Waited, IInv, Truth, WaiterCode
<1>3. \A q \in Procs : /\ waiter'[q] \in Reaped <=> waiter[q] \in Reaped
                       /\ waiter'[q] \in {"good", "bad", "term"} => waiter'[q] = waiter[q]
  BY <1>1, <1>2 DEF Reaped, Waited
<1>4. UNCHANGED <<childVars, emitterVars, mainVars, signalVars, reader, important, latest, out>>
  BY DEF ProcessExited
<1>5. /\ left' = left \ {p}
      /\ \/ /\ Code(p) # "good" /\ retcode = "good"
            /\ retcode' = Code(p) /\ termReq' = TRUE /\ termed' = termed \cup left'
         \/ /\ Code(p) = "good" \/ retcode # "good"
            /\ UNCHANGED <<retcode, termReq, termed>>
  BY DEF ProcessExited
<1>6. Order' /\ Exits' /\ Truth'
  BY <1>3, <1>4, SameQueue DEF Started
<1>7. TypeOK'
  <2>1. /\ left' \subseteq cmds /\ termed' \subseteq cmds /\ termReq' \in BOOLEAN
        /\ retcode' \in {"good", "bad", "term", "gaveup"}
    BY <1>2, <1>5 DEF IInv, TypeOK
  <2>2. UNCHANGED <<cmds, code, reader, read, noted, stop, important, latest, pending, shown,
                    emitter, main, handler, sent, out, exit, phase, owed>>
    BY <1>1, <1>4
  <2>3. /\ cmds \in Loads /\ code \in [Procs -> {"none", "good", "bad", "term"}]
        /\ reader \in [Procs -> {"unborn", "read", "done"}]
        /\ read \in [Procs -> Nat] /\ shown \in [Procs -> Nat]
        /\ latest \in [Procs -> Nat] /\ pending \in [Procs -> Nat]
        /\ important \in Seq([type : {"start", "good", "bad", "error"}, proc : Procs])
        /\ out \in Seq([type : {"start", "line", "good", "bad", "error"}, proc : Procs])
    BY DEF IInv, TypeOK
  <2>4. QED
    BY <1>1, <2>1, <2>2, <2>3 DEF IInv, TypeOK
<1>8. Born'
  BY <1>1, <1>2, <1>4 DEF IInv, Born, Started
<1>9. LastLine'
  BY <1>4 DEF IInv, LastLine, NoLines
<1>10. Ends'
  <2>1. AllGood'
    <3> SUFFICES ASSUME retcode' = "good" PROVE AllGood'
      BY DEF AllGood
    <3>1. retcode = "good" /\ Code(p) = "good"
      BY <1>5
    <3>2. waiter'[p] = "done" /\ code'[p] = "good"
      BY <1>2, <1>4, <3>1
    <3>3. \A q \in cmds \ left : waiter[q] = "done" /\ code[q] = "good"
      BY <3>1 DEF IInv, Ends, AllGood
    <3>4. \A q \in cmds' \ left' : waiter'[q] = "done" /\ code'[q] = "good"
      BY <1>1, <1>4, <1>5, <3>2, <3>3, BoundsAssumption DEF IInv, TypeOK
    <3>5. /\ main' \in {"join", "close"} => left' = {}
          /\ main' = "close" => cmds' \subseteq owed'.exits
      BY <1>4, <1>5, <3>1 DEF IInv, Ends, AllGood
    <3>6. QED
      BY <3>4, <3>5 DEF AllGood
  <2>2. Owed'
    BY <1>1, <1>4 DEF IInv, Ends, Owed, TypeOK, Waited
  <2>3. Delivered' /\ Left'
    BY <1>4 DEF IInv, Ends, Delivered, Left
  <2>4. QED
    BY <2>1, <2>2, <2>3 DEF Ends
<1>11. Blame'
  <2> SUFFICES ASSUME sent = 0 PROVE Blame'
    BY <1>4 DEF Blame
  <2>1. /\ handler = "none"
        /\ termReq \/ termed # {} \/ (\E q \in Procs : code[q] = "term") => retcode # "good"
        /\ retcode \in {"good", "bad"} /\ noted \in {"good", "bad"}
        /\ main = "giveup" => noted # "good"
    BY DEF IInv, Blame
  <2>2. retcode' \in {"good", "bad"}
    BY <1>2, <1>5, <2>1
  <2>3. termReq' \/ termed' # {} \/ (\E q \in Procs : code'[q] = "term") => retcode' # "good"
    BY <1>4, <1>5, <2>1
  <2>4. QED
    BY <1>4, <2>1, <2>2, <2>3 DEF Blame
<1>12. QED
  BY <1>6, <1>7, <1>8, <1>9, <1>10, <1>11 DEF IInv

\* What is told next can be told: see DriverStream.
LEMMA HeadOfQueue ==
  ASSUME IInv, EmitImportant
  PROVE  /\ Leaves /\ important[1].proc \in cmds /\ Started
         /\ important[1].type = "start" => phase[important[1].proc] = "new"
         /\ important[1].type # "start" => phase[important[1].proc] # "new"
         /\ important[1].type \in Exited => phase[important[1].proc] \notin Exited
<1>1. Leaves
  BY Dequeue DEF EmitImportant, IInv, TypeOK, Event
<1>2. important[1].proc \in cmds
  BY <1>1 DEF Leaves, IInv, Order, OfGiven
<1>3. Started
  BY DEF IInv, Born, EmitImportant
<1>4. important[1].type = "start" => phase[important[1].proc] = "new"
  BY <1>1 DEF Leaves, IInv, Order, StartNew
<1>5. ASSUME important[1].type # "start", phase[important[1].proc] = "new"
      PROVE  FALSE
  <2>1. PICK i \in Queued : important[i] = event("start", important[1].proc)
    BY <1>2, <1>3, <1>5 DEF IInv, Order, StartTold
  <2>2. important[i].type = "start" /\ important[i].proc = important[1].proc
    BY <2>1 DEF event
  <2>3. 1 < i
    BY <1>1, <1>5, <2>2 DEF Leaves, Queued
  <2>4. QED
    BY <1>1, <2>2, <2>3 DEF Leaves, IInv, Order, StartFirst
<1>6. important[1].type \in Exited => phase[important[1].proc] \notin Exited
  BY <1>1 DEF Leaves, IInv, Exits, ExitReaped
<1>7. QED
  BY <1>1, <1>2, <1>3, <1>4, <1>5, <1>6

\* An event is told.
LEMMA EmitImportantKeeps ==
  ASSUME IInv, EmitImportant
  PROVE  IInv'
<1> USE DEF childVars, stateVars, mainVars, signalVars
<1> DEFINE h == important[1]
<1>1. /\ Leaves /\ h.proc \in cmds /\ Started /\ h \in Event /\ 1 \in Queued
      /\ h.type = "start" => phase[h.proc] = "new"
      /\ h.type # "start" => phase[h.proc] # "new"
      /\ h.type \in Exited => phase[h.proc] \notin Exited
  BY HeadOfQueue DEF Leaves
<1>2. h.type \in {"start", "good", "bad", "error"} /\ h.proc \in Procs
  BY <1>1 DEF Event
<1>3. UNCHANGED <<childVars, stateVars, pending, emitter, shown, mainVars, signalVars,
                  waiter, reader, latest>>
  BY DEF EmitImportant
<1>4. phase' = IF h.type = "error" THEN phase ELSE [phase EXCEPT ![h.proc] = Told(h)]
  BY <1>1 DEF EmitImportant, Leaves
<1>5. /\ phase' \in [Procs -> {"new", "started", "good", "bad"}]
      /\ \A q \in Procs : q # h.proc => phase'[q] = phase[q]
      /\ h.type = "error" => phase'[h.proc] = phase[h.proc]
      /\ h.type = "start" => phase'[h.proc] = "started"
      /\ h.type \in Exited => phase'[h.proc] = h.type
  BY <1>2, <1>4 DEF IInv, TypeOK, Told, Exited
<1>6. TypeOK'
  <2>1. out' \in Seq([type : {"start", "line", "good", "bad", "error"}, proc : Procs])
    <3>1. h \in [type : {"start", "line", "good", "bad", "error"}, proc : Procs]
      BY <1>1 DEF Event
    <3>2. out' = Append(out, h)
      BY <1>1 DEF EmitImportant, Leaves
    <3>3. QED
      BY <3>1, <3>2, AppendProperties DEF IInv, TypeOK
  <2>2. important' \in Seq(Event)
    BY <1>1 DEF Leaves
  <2>3. phase' \in [Procs -> {"new", "started", "good", "bad"}]
    BY <1>5
  <2>4. QED
    BY <1>3, <2>1, <2>2, <2>3 DEF IInv, TypeOK, Event
<1>7. Born'
  BY <1>1, <1>3 DEF IInv, Born, Started
<1>8. OfGiven'
  BY <1>1, <1>3 DEF Leaves, IInv, Order, OfGiven
<1>9. StartFirst'
  BY <1>1 DEF Leaves, IInv, Order, StartFirst
<1>10. StartNew'
  <2> SUFFICES ASSUME NEW i \in Queued', important'[i].type = "start"
               PROVE  phase'[important'[i].proc] = "new"
    BY DEF StartNew
  <2>1. i + 1 \in Queued /\ important'[i] = important[i + 1] /\ 1 < i + 1
    BY <1>1 DEF Leaves, Queued
  <2>2. important[i + 1].proc # h.proc
    BY <1>1, <2>1 DEF IInv, Order, StartFirst
  <2>3. important[i + 1].proc \in Procs
    BY <1>1, <2>1 DEF Leaves, Event
  <2>4. QED
    BY <1>5, <2>1, <2>2, <2>3 DEF IInv, Order, StartNew
<1>11. StartTold'
  <2> SUFFICES ASSUME NEW q \in cmds, phase'[q] = "new"
               PROVE  \E i \in Queued' : important'[i] = event("start", q)
    BY <1>3 DEF StartTold
  <2>1. phase[q] = "new" /\ (q # h.proc \/ h.type # "start")
    BY <1>1, <1>2, <1>5, BoundsAssumption DEF IInv, TypeOK, Exited
  <2>2. PICK i \in Queued : important[i] = event("start", q)
    BY <1>1, <2>1 DEF IInv, Order, StartTold
  <2>3. i # 1
    BY <2>1, <2>2 DEF event
  <2>4. QED
    BY <1>1, <2>2, <2>3 DEF Leaves
<1>12. ExitReaped'
  <2> SUFFICES ASSUME NEW i \in Queued', important'[i].type \in Exited
               PROVE  waiter[important'[i].proc] \in Reaped /\ phase'[important'[i].proc] \notin Exited
    BY <1>3 DEF ExitReaped
  <2>1. i + 1 \in Queued /\ important'[i] = important[i + 1] /\ 1 < i + 1
    BY <1>1 DEF Leaves, Queued
  <2>2. waiter[important[i + 1].proc] \in Reaped /\ phase[important[i + 1].proc] \notin Exited
    BY <2>1 DEF IInv, Exits, ExitReaped
  <2>3. h.type \in Exited => important[i + 1].proc # h.proc
    BY <1>1, <2>1 DEF IInv, Exits, ExitOnce
  <2>4. important[i + 1].proc \in Procs
    BY <1>1, <2>1 DEF Leaves, Event
  <2>5. QED
    BY <1>2, <1>5, <2>1, <2>2, <2>3, <2>4 DEF Exited
<1>13. ExitOnce'
  BY <1>1 DEF Leaves, IInv, Exits, ExitOnce
<1>14. ToldReaped'
  <2>1. h.type \in Exited => waiter[h.proc] \in Reaped
    BY <1>1 DEF IInv, Exits, ExitReaped
  <2>2. QED
    BY <1>2, <1>3, <1>5, <2>1 DEF IInv, Exits, ToldReaped, Exited
<1>15. ExitTold'
  <2> SUFFICES ASSUME NEW q \in Procs, waiter[q] \in Reaped, phase'[q] \notin Exited
               PROVE  \E i \in Queued' : important'[i].proc = q /\ important'[i].type \in Exited
    BY <1>3 DEF ExitTold
  <2>1. phase[q] \notin Exited /\ (q # h.proc \/ h.type \notin Exited)
    BY <1>1, <1>2, <1>5 DEF Exited
  <2>2. PICK i \in Queued : important[i].proc = q /\ important[i].type \in Exited
    BY <2>1 DEF IInv, Exits, ExitTold
  <2>3. i # 1
    BY <2>1, <2>2
  <2>4. QED
    BY <1>1, <2>2, <2>3 DEF Leaves
<1>16. WaiterCode'
  BY <1>3 DEF IInv, Truth, WaiterCode
<1>17. TrueQueued'
  BY <1>1, <1>3 DEF Leaves, IInv, Truth, TrueQueued
<1>18. TrueTold'
  <2>1. (h.type = "bad" => code[h.proc] # "good") /\ (h.type = "good" => code[h.proc] = "good")
    BY <1>1 DEF IInv, Truth, TrueQueued
  <2>2. QED
    BY <1>2, <1>3, <1>5, <2>1 DEF IInv, Truth, TrueTold, Exited
<1>19. LastLine'
  <2>1. \A q \in Procs : phase[q] # "new" => phase'[q] # "new"
    BY <1>2, <1>5 DEF Exited
  <2>2. QED
    BY <1>3, <2>1 DEF IInv, LastLine, NoLines
<1>20. Ends'
  <2>1. \A q \in Procs : phase[q] \in Exited => phase'[q] \in Exited
    BY <1>1, <1>2, <1>5 DEF Exited
  <2>2. QED
    BY <1>3, <2>1 DEF IInv, Ends, AllGood, Owed, Delivered, Left, TypeOK
<1>21. Blame'
  BY <1>3 DEF IInv, Blame
<1>22. QED
  BY <1>6, <1>7, <1>8, <1>9, <1>10, <1>11, <1>12, <1>13, <1>14, <1>15, <1>16, <1>17, <1>18,
     <1>19, <1>20, <1>21 DEF IInv, Order, Exits, Truth

\* With an empty queue all starts were told, and the exits of all that were reaped.
LEMMA QueueEmpty ==
  ASSUME IInv, important = <<>>
  PROVE  /\ Started => \A p \in cmds : phase[p] # "new"
         /\ \A p \in Procs : waiter[p] \in Reaped => phase[p] \in Exited
<1>1. Queued = {}
  BY DEF Queued
<1>2. QED
  BY <1>1 DEF IInv, Order, StartTold, Exits, ExitTold

\* The emitter takes the latest lines.
LEMMA SwapLinesKeeps ==
  ASSUME IInv, SwapLines
  PROVE  IInv'
<1> USE DEF IInv, SwapLines, childVars, stateVars, emitterVars, mainVars, signalVars, Alive
<1>1. TypeOK'
  BY DEF TypeOK, Waited
<1>2. Born'
  BY DEF Born, Started, TypeOK, Waited
<1>3. Order' /\ Exits' /\ Truth'
  BY SameQueue DEF Started
<1>4. LastLine'
  <2>1. \A p \in Procs : latest[p] # 0 => p \in cmds /\ phase[p] # "new"
    BY QueueEmpty DEF LastLine, Born
  <2>2. \A p \in Procs : pending[p] = 0
    BY DEF LastLine, NoLines
  <2>3. QED
    BY <2>1, <2>2 DEF LastLine, NoLines, TypeOK
<1>5. Ends'
  BY DEF Ends, AllGood, Owed, Delivered, Left, Exited, TypeOK
<1>6. Blame'
  BY DEF Blame, TypeOK
<1>7. QED
  BY <1>1, <1>2, <1>3, <1>4, <1>5, <1>6

\* A line is told.
LEMMA EmitLineKeeps ==
  ASSUME IInv, NEW p \in Procs, EmitLine(p)
  PROVE  IInv'
<1> USE DEF IInv, EmitLine, childVars, stateVars, emitterVars, mainVars, signalVars, Alive
<1>1. TypeOK'
  <2>1. event("line", p) \in [type : {"start", "line", "good", "bad", "error"}, proc : Procs]
    BY DEF event
  <2>2. out' \in Seq([type : {"start", "line", "good", "bad", "error"}, proc : Procs])
    BY <2>1, AppendProperties DEF TypeOK
  <2>3. QED
    BY <2>2, SMTT(30) DEF TypeOK
<1>2. Born'
  BY DEF Born, Started, TypeOK, Waited
<1>3. Order' /\ Exits' /\ Truth'
  BY SameQueue DEF Started
<1>4. LastLine'
  BY DEF LastLine, NoLines, TypeOK
<1>5. Ends'
  BY DEF Ends, AllGood, Owed, Delivered, Left, Exited, TypeOK
<1>6. Blame'
  BY DEF Blame, TypeOK
<1>7. QED
  BY <1>1, <1>2, <1>3, <1>4, <1>5, <1>6

\* The emitter ends if there is nothing left to tell.
LEMMA CheckStopKeeps ==
  ASSUME IInv, CheckStop
  PROVE  IInv'
<1> USE DEF IInv, CheckStop, childVars, stateVars, emitterVars, mainVars, signalVars, Alive
<1>1. TypeOK'
  BY SMTT(30) DEF TypeOK, Waited
<1>2. Born'
  BY DEF Born, Started, TypeOK, Waited
<1>3. Order' /\ Exits' /\ Truth'
  BY SameQueue DEF Started
<1>4. LastLine'
  BY DEF LastLine, NoLines, TypeOK
<1>5. Ends'
  <2>1. Delivered'
    <3> SUFFICES ASSUME emitter' = "done" PROVE Delivered'
      BY DEF Delivered
    <3>1. stop /\ important = <<>> /\ NoLines(latest) /\ NoLines(pending)
      OBVIOUS
    <3>2. \A p \in owed.exits : phase[p] \in Exited
      BY <3>1, QueueEmpty DEF Ends, Owed, Reaped, TypeOK
    <3>3. \A p \in owed.lines : shown[p] = read[p]
      BY <3>1 DEF LastLine, NoLines, TypeOK
    <3>4. QED
      BY <3>1, <3>2, <3>3 DEF Delivered
  <2>2. AllGood' /\ Owed' /\ Left'
    BY DEF Ends, AllGood, Owed, Left
  <2>3. QED
    BY <2>1, <2>2 DEF Ends
<1>6. Blame'
  BY DEF Blame, TypeOK
<1>7. QED
  BY <1>1, <1>2, <1>3, <1>4, <1>5, <1>6

\* All starts are queued and all threads begin.
LEMMA StartThreadsKeeps ==
  ASSUME IInv, StartThreads
  PROVE  IInv'
<1> USE DEF childVars, stateVars, emitterVars, signalVars
<1> DEFINE N == Cardinality(cmds)
<1>1. /\ ~Started /\ Started' /\ important = <<>> /\ exit = "none"
      /\ \A p \in Procs : waiter[p] = "unborn" /\ reader[p] = "unborn" /\ phase[p] = "new"
  BY DEF IInv, Born, Started, StartThreads, Alive
<1>2. UNCHANGED <<childVars, stateVars, emitterVars, stop, noted, owed, exit, signalVars,
                  latest, out>>
  BY DEF StartThreads
<1>3. /\ N \in Nat
      /\ procSeq \in [1 .. N -> cmds]
      /\ \A i, j \in 1 .. N : procSeq[i] = procSeq[j] => i = j
      /\ \A p \in cmds : \E i \in 1 .. N : procSeq[i] = p
  BY Starts DEF IInv
<1>4. important' = [i \in 1 .. N |-> event("start", procSeq[i])]
  BY <1>3 DEF StartThreads
<1>5. \A i \in 1 .. N : /\ procSeq[i] \in cmds /\ procSeq[i] \in Procs
                        /\ event("start", procSeq[i]) \in Event
  BY <1>3, Events, BoundsAssumption DEF IInv, TypeOK
<1>6. important' \in Seq(Event) /\ Len(important') = N
  BY <1>3, <1>4, <1>5
<1>7. /\ Queued' = 1 .. N
      /\ \A i \in 1 .. N : /\ important'[i] = event("start", procSeq[i])
                           /\ important'[i].type = "start" /\ important'[i].proc = procSeq[i]
  BY <1>4, <1>6 DEF Queued, event
<1>8. \A p \in Procs : /\ waiter'[p] = IF p \in cmds THEN "wait" ELSE "unborn"
                       /\ reader'[p] = IF p \in cmds THEN "read" ELSE "unborn"
  BY DEF StartThreads
<1>9. TypeOK'
  <2>1. waiter' \in [Procs -> {"unborn", "wait", "done", "lost"} \cup Waited]
        /\ reader' \in [Procs -> {"unborn", "read", "done"}] /\ main' = "wait"
    BY DEF StartThreads
  <2>2. QED
    BY <1>2, <1>6, <2>1 DEF IInv, TypeOK, Event
<1>10. Born'
  BY <1>1, <1>2, <1>8 DEF IInv, Born
<1>11. OfGiven' /\ StartNew'
  BY <1>1, <1>2, <1>5, <1>7 DEF OfGiven, StartNew
<1>12. StartFirst'
  BY <1>3, <1>7 DEF StartFirst
<1>13. StartTold'
  BY <1>2, <1>3, <1>7 DEF StartTold
<1>14. Exits'
  BY <1>1, <1>2, <1>7, <1>8 DEF Exits, ExitReaped, ExitOnce, ToldReaped, ExitTold, Exited, Reaped
<1>15. Truth'
  BY <1>1, <1>2, <1>7, <1>8 DEF Truth, WaiterCode, TrueQueued, TrueTold, Reaped
<1>16. LastLine'
  BY <1>2 DEF IInv, LastLine, NoLines
<1>17. Ends'
  <2>1. main = "boot" /\ main' = "wait"
    BY DEF StartThreads
  <2>2. AllGood'
    BY <1>1, <1>2, <2>1, BoundsAssumption DEF IInv, TypeOK, Ends, AllGood
  <2>3. Owed' /\ Delivered' /\ Left'
    BY <1>1, <1>2, <2>1 DEF IInv, Ends, Owed, Delivered, Left
  <2>4. QED
    BY <2>2, <2>3 DEF Ends
<1>18. Blame'
  BY <1>2 DEF IInv, Blame, StartThreads
<1>19. QED
  BY <1>9, <1>10, <1>11, <1>12, <1>13, <1>14, <1>15, <1>16, <1>17, <1>18 DEF IInv, Order

\* A signal that comes too early.
LEMMA BootDiesKeeps ==
  ASSUME IInv, BootDies
  PROVE  IInv'
<1> USE DEF IInv, BootDies, childVars, stateVars, emitterVars, mainVars, signalVars, Alive
<1>1. TypeOK'
  BY BoundsAssumption DEF TypeOK
<1>2. Born'
  BY DEF Born, Started, TypeOK, Waited
<1>3. Order' /\ Exits' /\ Truth'
  BY SameQueue DEF Started
<1>4. LastLine'
  BY DEF LastLine, NoLines, TypeOK
<1>5. Ends'
  BY DEF Ends, AllGood, Owed, Delivered, Left, Exited, TypeOK
<1>6. Blame'
  BY DEF Blame, TypeOK
<1>7. QED
  BY <1>1, <1>2, <1>3, <1>4, <1>5, <1>6

\* The main thread goes on to join.
LEMMA AllDoneKeeps ==
  ASSUME IInv, AllDone
  PROVE  IInv'
<1> USE DEF IInv, AllDone, childVars, stateVars, emitterVars, mainVars, signalVars, Alive
<1>1. TypeOK'
  BY DEF TypeOK, Waited
<1>2. Born'
  BY DEF Born, Started, TypeOK, Waited
<1>3. Order' /\ Exits' /\ Truth'
  BY SameQueue DEF Started
<1>4. LastLine'
  BY DEF LastLine, NoLines, TypeOK
<1>5. Ends'
  BY DEF Ends, AllGood, Owed, Delivered, Left, Exited, TypeOK
<1>6. Blame'
  BY DEF Blame, TypeOK
<1>7. QED
  BY <1>1, <1>2, <1>3, <1>4, <1>5, <1>6

\* The main thread gives up waiting.
LEMMA GiveUpKeeps ==
  ASSUME IInv, GiveUp
  PROVE  IInv'
<1> USE DEF IInv, GiveUp, childVars, stateVars, emitterVars, mainVars, signalVars, Alive
<1>1. TypeOK'
  BY DEF TypeOK, Waited
<1>2. Born'
  BY DEF Born, Started, TypeOK, Waited
<1>3. Order' /\ Exits' /\ Truth'
  BY SameQueue DEF Started
<1>4. LastLine'
  BY DEF LastLine, NoLines, TypeOK
<1>5. Ends'
  BY DEF Ends, AllGood, Owed, Delivered, Left, Exited, TypeOK
<1>6. Blame'
  BY DEF Blame, TypeOK
<1>7. QED
  BY <1>1, <1>2, <1>3, <1>4, <1>5, <1>6

\* It notes that it gave up.
LEMMA SetGaveUpKeeps ==
  ASSUME IInv, SetGaveUp
  PROVE  IInv'
<1> USE DEF IInv, SetGaveUp, childVars, stateVars, emitterVars, mainVars, signalVars, Alive
<1>1. TypeOK'
  BY DEF TypeOK, Waited
<1>2. Born'
  BY DEF Born, Started, TypeOK, Waited
<1>3. Order' /\ Exits' /\ Truth'
  BY SameQueue DEF Started
<1>4. LastLine'
  BY DEF LastLine, NoLines, TypeOK
<1>5. Ends'
  BY DEF Ends, AllGood, Owed, Delivered, Left, Exited, TypeOK
<1>6. Blame'
  BY DEF Blame, TypeOK
<1>7. QED
  BY <1>1, <1>2, <1>3, <1>4, <1>5, <1>6

\* The main thread closes the emitter.
LEMMA CloseKeeps ==
  ASSUME IInv, Close
  PROVE  IInv'
<1> USE DEF IInv, Close, childVars, stateVars, emitterVars, mainVars, signalVars, Alive
<1>1. TypeOK'
  BY DEF TypeOK, Waited
<1>2. Born'
  BY DEF Born, Started, TypeOK, Waited
<1>3. Order' /\ Exits' /\ Truth'
  BY SameQueue DEF Started
<1>4. LastLine'
  BY DEF LastLine, NoLines, TypeOK
<1>5. Ends'
  <2>1. owed'.exits = {p \in Procs : waiter[p] = "done"}
        /\ owed'.lines = {p \in Procs : reader[p] = "done"}
    OBVIOUS
  <2>2. AllGood'
    BY <2>1, BoundsAssumption DEF Ends, AllGood, TypeOK
  <2>3. Owed' /\ Left'
    BY <2>1 DEF Ends, Owed, Left
  <2>4. Delivered'
    BY DEF Ends, Owed, Delivered
  <2>5. QED
    BY <2>2, <2>3, <2>4 DEF Ends
<1>6. Blame'
  BY DEF Blame, TypeOK
<1>7. QED
  BY <1>1, <1>2, <1>3, <1>4, <1>5, <1>6

\* The driver exits.
LEMMA ExitKeeps ==
  ASSUME IInv, Exit
  PROVE  IInv'
<1> USE DEF IInv, Exit, childVars, stateVars, emitterVars, mainVars, signalVars, Alive
<1>1. TypeOK'
  BY DEF TypeOK, Waited
<1>2. Born'
  BY DEF Born, Started, TypeOK, Waited
<1>3. Order' /\ Exits' /\ Truth'
  BY SameQueue DEF Started
<1>4. LastLine'
  BY DEF LastLine, NoLines, TypeOK
<1>5. Ends'
  BY DEF Ends, AllGood, Owed, Delivered, Left, Exited, TypeOK
<1>6. Blame'
  BY DEF Blame, TypeOK
<1>7. QED
  BY <1>1, <1>2, <1>3, <1>4, <1>5, <1>6

\* The signal handler is entered.
LEMMA SignalKeeps ==
  ASSUME IInv, Signal
  PROVE  IInv'
<1> USE DEF IInv, Signal, childVars, stateVars, emitterVars, mainVars, signalVars, Alive
<1>1. TypeOK'
  BY BoundsAssumption DEF TypeOK
<1>2. Born'
  BY DEF Born, Started, TypeOK, Waited
<1>3. Order' /\ Exits' /\ Truth'
  BY SameQueue DEF Started
<1>4. LastLine'
  BY DEF LastLine, NoLines, TypeOK
<1>5. Ends'
  BY DEF Ends, AllGood, Owed, Delivered, Left, Exited, TypeOK
<1>6. Blame'
  BY DEF Blame, TypeOK
<1>7. QED
  BY <1>1, <1>2, <1>3, <1>4, <1>5, <1>6

\* The signal handler asks all commands to end.
LEMMA TerminateAllKeeps ==
  ASSUME IInv, TerminateAll
  PROVE  IInv'
<1> USE DEF IInv, TerminateAll, childVars, stateVars, emitterVars, mainVars, signalVars, Alive
<1>1. TypeOK'
  BY DEF TypeOK, Waited
<1>2. Born'
  BY DEF Born, Started, TypeOK, Waited
<1>3. Order' /\ Exits' /\ Truth'
  BY SameQueue DEF Started
<1>4. LastLine'
  BY DEF LastLine, NoLines, TypeOK
<1>5. Ends'
  BY DEF Ends, AllGood, Owed, Delivered, Left, Exited, TypeOK
<1>6. Blame'
  BY DEF Blame, TypeOK
<1>7. QED
  BY <1>1, <1>2, <1>3, <1>4, <1>5, <1>6

\* The signal handler is entered again inside of itself.
LEMMA NestedSignalKeeps ==
  ASSUME IInv, NestedSignal
  PROVE  IInv'
<1> USE DEF IInv, NestedSignal, childVars, emitterVars, mainVars, Alive
<1>1. TypeOK'
  <2>1. termed' \subseteq cmds' /\ termReq' \in BOOLEAN
    BY DEF TypeOK
  <2>2. sent' \in 0 .. MaxSignals /\ handler' \in {"none", "locked", "stuck"}
    BY BoundsAssumption DEF TypeOK
  <2>3. QED
    BY <2>1, <2>2 DEF TypeOK, Waited
<1>2. Born'
  BY DEF Born, Started, TypeOK, Waited
<1>3. Order' /\ Exits' /\ Truth'
  BY SameQueue DEF Started
<1>4. LastLine'
  BY DEF LastLine, NoLines, TypeOK
<1>5. Ends'
  BY DEF Ends, AllGood, Owed, Delivered, Left, Exited, TypeOK
<1>6. Blame'
  BY DEF Blame, TypeOK
<1>7. QED
  BY <1>1, <1>2, <1>3, <1>4, <1>5, <1>6

\* Of the pipe nothing is said but what may be in it.
LEMMA PipeKeeps ==
  ASSUME IInv, out' \in Seq([type : {"start", "line", "good", "bad", "error"}, proc : Procs]),
         UNCHANGED <<childVars, stateVars, emitterVars, mainVars, signalVars, waiter, reader,
                     important, latest>>
  PROVE  IInv'
<1> USE DEF IInv, childVars, stateVars, emitterVars, mainVars, signalVars
<1>1. TypeOK'
  BY DEF TypeOK
<1>2. Born'
  BY DEF Born, Started
<1>3. Order' /\ Exits' /\ Truth'
  BY SameQueue DEF Started
<1>4. LastLine'
  BY DEF LastLine, NoLines
<1>5. Ends'
  BY DEF Ends, AllGood, Owed, Delivered, Left
<1>6. Blame'
  BY DEF Blame
<1>7. QED
  BY <1>1, <1>2, <1>3, <1>4, <1>5, <1>6

\* The parent takes an event.
LEMMA ParentReadsKeeps ==
  ASSUME IInv, ParentReads
  PROVE  IInv'
<1>1. UNCHANGED <<childVars, stateVars, emitterVars, mainVars, signalVars, waiter, reader,
                  important, latest>>
  BY DEF ParentReads
<1>2. out' \in Seq([type : {"start", "line", "good", "bad", "error"}, proc : Procs])
  BY HeadTailProperties DEF ParentReads, IInv, TypeOK
<1>3. QED
  BY <1>1, <1>2, PipeKeeps

-----------------------------------------------------------------------------
\* Every step keeps the invariant.
LEMMA NextKeeps == IInv /\ [Next]_vars => IInv'
<1> SUFFICES ASSUME IInv, [Next]_vars PROVE IInv'
  OBVIOUS
<1>1. CASE UNCHANGED vars
  <2> USE <1>1 DEF IInv, vars, childVars, stateVars, emitterVars, mainVars, signalVars
  <2>1. TypeOK' /\ Born'
    BY SMTT(30) DEF TypeOK, Born, Started
  <2>2. Order' /\ Exits' /\ Truth'
    BY SameQueue DEF Started
  <2>3. LastLine' /\ Ends' /\ Blame'
    BY DEF LastLine, NoLines, Ends, AllGood, Owed, Delivered, Left, Blame
  <2>4. QED
    BY <2>1, <2>2, <2>3
<1>2. ASSUME NEW p \in Procs,
             ChildEnds(p) \/ Reading(p) \/ ReadFails(p) \/ Waiting(p) \/ WaitRaises(p)
      PROVE  IInv'
  BY <1>2, ChildEndsKeeps, ReadLineKeeps, ReadEndKeeps, ReadFailsKeeps, WaitReturnsKeeps,
     ProcessExitedKeeps, WaitRaisesKeeps DEF Reading, Waiting
<1>3. CASE Emitting
  BY <1>3, EmitImportantKeeps, SwapLinesKeeps, CheckStopKeeps, EmitLineKeeps DEF Emitting
<1>4. CASE Main
  BY <1>4, StartThreadsKeeps, AllDoneKeeps, GiveUpKeeps, SetGaveUpKeeps, CloseKeeps, ExitKeeps
     DEF Main
<1>5. QED
  BY <1>1, <1>2, <1>3, <1>4, BootDiesKeeps, SignalKeeps, TerminateAllKeeps, NestedSignalKeeps,
     ParentReadsKeeps DEF Next, Driving

\* IInv holds in every state of every behaviour.
THEOREM Invariance == Spec => []IInv
BY InitIInv, NextKeeps, PTL DEF Spec

\* The variables of the driver and its pipe stay within their types.
THEOREM TypeCorrect == Spec => []TypeOK
<1>1. IInv => TypeOK
  BY DEF IInv
<1>2. QED
  BY <1>1, Invariance, PTL

\* The parent learns every exit and the last line of every output before the driver
\* exits, and the code of the command that failed first.
THEOREM ParentLearns == Spec => []ParentLearnsAll
<1>1. ASSUME IInv PROVE CloseDelivers
  BY <1>1 DEF IInv, Ends, Owed, Delivered, Left, CloseDelivers, Exited
<1>2. ASSUME IInv PROVE FirstFailureKept
  BY <1>2 DEF IInv, Blame, FirstFailureKept
<1>3. IInv => ParentLearnsAll
  BY <1>1, <1>2 DEF ParentLearnsAll
<1>4. QED
  BY <1>3, Invariance, PTL

-----------------------------------------------------------------------------
(***************************************************************************)
(* The driver implements DriverStream: each step of it is a step of the    *)
(* stream, or changes nothing that the stream speaks of.                   *)
(***************************************************************************)
\* Telling an event of the queue is telling a start, an error or an exit.
LEMMA EmitTells ==
  ASSUME IInv, EmitImportant
  PROVE  Stream!Emit
<1> DEFINE h == important[1]
<1>1. /\ Leaves /\ h.proc \in cmds /\ h \in Event
      /\ h.type = "start" => phase[h.proc] = "new"
      /\ h.type # "start" => phase[h.proc] # "new"
      /\ h.type \in Exited => phase[h.proc] \notin Exited
  BY HeadOfQueue DEF Leaves
<1>2. /\ h.proc \in Procs /\ h = [type |-> h.type, proc |-> h.proc]
      /\ h.type \in {"start", "good", "bad", "error"}
  BY <1>1 DEF Event
<1>3. phase[h.proc] \in {"new", "started", "good", "bad"}
  BY <1>2 DEF IInv, TypeOK
<1>4. Stream!Put(h.type, h.proc)
  BY <1>1, <1>2 DEF Stream!Put, EmitImportant, Alive, Leaves, mainVars
<1>5. phase' = IF h.type = "error" THEN phase ELSE [phase EXCEPT ![h.proc] = Told(h)]
  BY <1>1 DEF EmitImportant, Leaves
<1>6. ASSUME h.type = "start" PROVE Stream!Emit
  BY <1>1, <1>4, <1>5, <1>6 DEF Told, Stream!TellStart, Stream!Emit
<1>7. ASSUME h.type = "error" PROVE Stream!Emit
  BY <1>1, <1>4, <1>5, <1>7 DEF Stream!Tell, Stream!Emit
<1>8. ASSUME h.type \in Exited PROVE Stream!Emit
  <2>1. phase[h.proc] = "started"
    BY <1>1, <1>3, <1>8 DEF Exited
  <2>2. Stream!TellExit(h.proc)
    BY <1>4, <1>5, <1>8, <2>1 DEF Told, Exited, Stream!TellExit
  <2>3. QED
    BY <1>1, <2>2 DEF Stream!Emit
<1>9. QED
  BY <1>2, <1>6, <1>7, <1>8 DEF Exited

\* A line is of a command whose start was told.
LEMMA EmitLineTells ==
  ASSUME IInv, NEW p \in Procs, EmitLine(p)
  PROVE  Stream!Emit
<1>1. p \in cmds /\ phase[p] # "new"
  BY DEF EmitLine, IInv, LastLine
<1>2. Stream!Put("line", p)
  BY DEF Stream!Put, EmitLine, Alive, event, mainVars
<1>3. Stream!Tell(p)
  BY <1>1, <1>2 DEF Stream!Tell, EmitLine
<1>4. QED
  BY <1>1, <1>3 DEF Stream!Emit

\* Zero is the exit code only if every command was told to have ended with zero.
LEMMA ExitFinishes ==
  ASSUME IInv, Exit
  PROVE  Stream!Finish
<1>1. retcode = "good" => \A p \in cmds : phase[p] = "good"
  <2> SUFFICES ASSUME retcode = "good", NEW p \in cmds PROVE phase[p] = "good"
    OBVIOUS
  <2>1. main = "close" /\ emitter = "done"
    BY DEF Exit
  <2>2. code[p] = "good" /\ phase[p] \in Exited
    BY <2>1 DEF IInv, Ends, AllGood, Delivered
  <2>3. phase[p] # "bad"
    BY <2>2, BoundsAssumption DEF IInv, TypeOK, Truth, TrueTold
  <2>4. QED
    BY <2>2, <2>3 DEF Exited
<1>2. QED
  BY <1>1 DEF Exit, Alive, Stream!Finish, emitterVars

\* The parent reads the first event.
LEMMA ParentReadsFirst ==
  ASSUME IInv, ParentReads
  PROVE  Stream!StreamNext
<1> DEFINE S == [type : {"start", "line", "good", "bad", "error"}, proc : Procs]
<1>1. out \in Seq(S) /\ out # <<>> /\ out' = Tail(out)
  BY DEF ParentReads, IInv, TypeOK
<1> HIDE DEF S
<1>2. Len(out) \in Nat \ {0}
  BY <1>1, LenProperties, EmptySeq
<1>3. /\ Tail(out) \in Seq(S) /\ Len(Tail(out)) = Len(out) - 1
      /\ \A i \in 1 .. Len(Tail(out)) : Tail(out)[i] = out[i + 1]
  BY <1>1, HeadTailProperties
<1>4. \A i \in 2 .. Len(out) : out[i] \in S
  BY <1>1, <1>2, ElementOfSeq
<1>5. /\ SubSeq(out, 2, Len(out)) \in Seq(S)
      /\ Len(SubSeq(out, 2, Len(out))) = Len(out) - 1
      /\ \A i \in 1 .. Len(out) - 1 : SubSeq(out, 2, Len(out))[i] = out[i + 1]
  <2>1. /\ SubSeq(out, 2, Len(out)) \in Seq(S)
        /\ Len(SubSeq(out, 2, Len(out))) = IF 2 <= Len(out) THEN Len(out) - 2 + 1 ELSE 0
        /\ \A i \in 1 .. Len(out) - 2 + 1 : SubSeq(out, 2, Len(out))[i] = out[2 + i - 1]
    BY <1>2, <1>4, SubSeqProperties
  <2>2. Len(out) - 2 + 1 = Len(out) - 1 /\ \A i \in 1 .. Len(out) - 1 : 2 + i - 1 = i + 1
    BY <1>2
  <2>3. QED
    BY <1>2, <2>1, <2>2
<1>6. Tail(out) = SubSeq(out, 1 + 1, Len(out))
  BY <1>3, <1>5, SeqEqual
<1>7. Stream!ReadFirst(1)
  BY <1>1, <1>2, <1>6 DEF Stream!ReadFirst, ParentReads, emitterVars, mainVars
<1>8. QED
  BY <1>2, <1>7 DEF Stream!StreamNext, ParentReads, childVars

\* A step of the driver is one of these, or the stream does not see it.
LEMMA DrivingStreams ==
  ASSUME IInv, Driving
  PROVE  /\ cmds' = cmds
         /\ Stream!Emit \/ Stream!Finish \/ UNCHANGED <<phase, out, exit>>
<1> USE DEF childVars, stateVars, emitterVars, mainVars, signalVars
<1>1. ASSUME NEW p \in Procs,
             ChildEnds(p) \/ Reading(p) \/ ReadFails(p) \/ Waiting(p) \/ WaitRaises(p)
      PROVE  UNCHANGED <<cmds, phase, out, exit>>
  BY <1>1 DEF ChildEnds, Reading, ReadLine, ReadEnd, ReadFails, Waiting, WaitReturns,
     ProcessExited, WaitRaises
<1>2. ASSUME Emitting
      PROVE  cmds' = cmds /\ (Stream!Emit \/ UNCHANGED <<phase, out, exit>>)
  BY <1>2, EmitTells, EmitLineTells DEF Emitting, SwapLines, CheckStop, EmitImportant, EmitLine
<1>3. ASSUME Main
      PROVE  cmds' = cmds /\ (Stream!Finish \/ UNCHANGED <<phase, out, exit>>)
  BY <1>3, ExitFinishes DEF Main, StartThreads, AllDone, GiveUp, SetGaveUp, Close, Exit
<1>4. ASSUME BootDies
      PROVE  cmds' = cmds /\ Stream!Finish
  BY <1>4 DEF BootDies, Alive, Stream!Finish
<1>5. ASSUME Signal \/ TerminateAll \/ NestedSignal
      PROVE  UNCHANGED <<cmds, phase, out, exit>>
  BY <1>5 DEF Signal, TerminateAll, NestedSignal
<1>6. QED
  BY <1>1, <1>2, <1>3, <1>4, <1>5 DEF Driving

\* A step is one of the driver, or the parent reads.
LEMMA NextStreams == IInv /\ [Next]_vars => [Stream!StreamNext]_Stream!streamVars
<1> SUFFICES ASSUME IInv, Next PROVE [Stream!StreamNext]_Stream!streamVars
  BY DEF Stream!streamVars, vars, childVars, emitterVars, mainVars
<1>1. CASE Driving
  BY <1>1, DrivingStreams DEF Stream!StreamNext, Stream!streamVars
<1>2. CASE ParentReads
  BY <1>2, ParentReadsFirst
<1>3. QED
  BY <1>1, <1>2 DEF Next

\* process_driver keeps what its parent relies on: starts come first, exits come once and
\* with the code they had, and it exits with 0 only for a complete success.
THEOREM Refinement == Spec => ImplementsStream
<1>1. Init => Stream!StreamInit
  BY BoundsAssumption DEF Init, Stream!StreamInit
<1>2. QED
  BY <1>1, NextStreams, Invariance, PTL DEF Spec, ImplementsStream, Stream!StreamSpec

-----------------------------------------------------------------------------
(***************************************************************************)
(* The other end of the stream: what the progress of task_image_rsync says *)
(* is true, for every number of disks.  RsyncTask takes the events from    *)
(* DriverStream, with the disks as the commands.                           *)
(*                                                                         *)
(* Its three properties are not inductive.  Progress is set from events    *)
(* that were sent long before, so the invariant says what an event in the  *)
(* pipe still proves about its disk (Truthful), what a progress proves     *)
(* about the disks (Justified), and what an exit code says about them      *)
(* (ExitMeans).                                                            *)
(***************************************************************************)
StreamEvent == [type : Task!Driver!Kinds \cup {"nocopy"}, proc : Procs]

TaskTypes ==
  /\ has \subseteq Procs
  /\ argv \in {"unset", "copy", "print"}
  /\ phase \in [Procs -> Task!Driver!Phases]
  /\ out \in Seq(StreamEvent)
  /\ exit \in {"none", "good", "bad"}
  /\ polling \in BOOLEAN /\ returned \in BOOLEAN
  /\ progress \in {0, 50, 99, 100, 999}

\* What is waiting in the pipe is true of its disk for ever.
True(e) ==
  /\ e.type = "good" => phase[e.proc] = "good"
  /\ e.type = "bad" => phase[e.proc] = "bad"
  /\ e.type = "nocopy" => has # {}

Truthful == \A i \in 1 .. Len(out) : True(out[i])

Justified ==
  /\ progress = 100 => has # {} \/ \E d \in Procs : phase[d] = "good"
  /\ progress = 999 => \E d \in Procs : phase[d] = "bad"

ExitMeans ==
  /\ exit # "none" => argv # "unset"
  /\ argv # "copy" => exit # "bad" /\ \A d \in Procs : phase[d] = "new"
  /\ argv = "copy" /\ exit = "good" => \A d \in Procs : phase[d] = "good"

Returned ==
  /\ returned => exit # "none"
  /\ progress >= 100 => returned
  /\ polling => progress < 100

TaskInv == TaskTypes /\ Truthful /\ Justified /\ ExitMeans /\ Returned

-----------------------------------------------------------------------------
\* The initial states satisfy the invariant: nothing was sent or reported.
LEMMA TaskInvInit == Task!Init => TaskInv
<1> SUFFICES ASSUME Task!Init PROVE TaskInv
  OBVIOUS
<1> USE DEF Task!Init, Task!Driver!StreamInit
<1>1. TaskTypes
  <2>1. out \in Seq(StreamEvent)
    OBVIOUS
  <2>2. phase \in [Procs -> Task!Driver!Phases]
    BY DEF Task!Driver!Phases
  <2> QED
    BY <2>1, <2>2 DEF TaskTypes
<1>2. Truthful
  BY DEF Truthful
<1>3. Justified /\ ExitMeans /\ Returned
  BY DEF Justified, ExitMeans, Returned
<1> QED
  BY <1>1, <1>2, <1>3 DEF TaskInv

\* The disks are looked at once, before anything runs.
LEMMA SetupTaskInv == ASSUME TaskInv, Task!Setup PROVE TaskInv'
  BY DEF Task!Setup, TaskInv, TaskTypes, Truthful, Justified, ExitMeans, Returned, True,
     Task!stream

\* An event that is put at the end of the pipe, and is true, keeps the pipe
\* truthful, if no disk that has ended changes its phase.
LEMMA AppendTruthful ==
  ASSUME TaskInv, NEW e \in StreamEvent, out' = Append(out, e), True(e)', has' = has,
         \A d \in Procs : phase[d] \in {"good", "bad"} => phase'[d] = phase[d]
  PROVE  out' \in Seq(StreamEvent) /\ Truthful'
<1>1. out \in Seq(StreamEvent)
  BY DEF TaskInv, TaskTypes
<1>2. out' \in Seq(StreamEvent) /\ Len(out') = Len(out) + 1
      /\ \A i \in 1 .. Len(out') : out'[i] = IF i = Len(out) + 1 THEN e ELSE out[i]
  BY <1>1
<1>3. \A i \in 1 .. Len(out) : out[i] \in StreamEvent /\ True(out[i])
  BY <1>1 DEF TaskInv, Truthful
<1>4. ASSUME NEW f \in StreamEvent, True(f) PROVE True(f)'
  BY <1>4 DEF True, StreamEvent
<1>5. ASSUME NEW i \in 1 .. Len(out') PROVE True(out[i])'
  <2>1. CASE i = Len(out) + 1
    BY <2>1, <1>2, <1>5 DEF True
  <2>2. CASE i # Len(out) + 1
    <3>1. i \in 1 .. Len(out)
      BY <2>2, <1>1, <1>2, <1>5
    <3>2. out'[i] = out[i]
      BY <2>2, <1>2, <1>5
    <3>3. True(out[i])
      BY <3>1, <1>3
    <3> QED
      BY <3>1, <3>2, <3>3, <1>3 DEF True, StreamEvent
  <2> QED
    BY <2>1, <2>2
<1> QED
  BY <1>2, <1>5 DEF Truthful

\* The driver tells something: what it tells is true, and no ended copy changes.
LEMMA EmitTaskInv == ASSUME TaskInv, Task!Driver!Emit, argv = "copy",
                         UNCHANGED <<has, Task!task, polling>>
                  PROVE  TaskInv'
<1>0. /\ argv' = argv /\ returned' = returned /\ progress' = progress
      /\ has' = has /\ polling' = polling
  BY DEF Task!task
<1>1. PICK d \in Procs : \/ Task!Driver!TellStart(d) \/ Task!Driver!Tell(d)
                         \/ Task!Driver!TellExit(d)
  BY DEF Task!Driver!Emit
<1>2. phase \in [Procs -> Task!Driver!Phases] /\ exit = "none" /\ exit' = "none"
  BY <1>1 DEF TaskInv, TaskTypes, Task!Driver!TellStart, Task!Driver!Tell,
     Task!Driver!TellExit, Task!Driver!Put
<1>3. /\ phase' \in [Procs -> Task!Driver!Phases]
      /\ \A p \in Procs : phase[p] \in {"good", "bad"} => phase'[p] = phase[p]
  BY <1>1, <1>2 DEF Task!Driver!TellStart, Task!Driver!Tell,
     Task!Driver!TellExit, Task!Driver!Phases
<1>4. \E e \in StreamEvent : out' = Append(out, e) /\ True(e)'
  <2>1. CASE Task!Driver!TellStart(d)
    <3> DEFINE e == [type |-> "start", proc |-> d]
    <3>1. e \in StreamEvent /\ out' = Append(out, e)
      BY <2>1 DEF Task!Driver!TellStart, Task!Driver!Put, StreamEvent, Task!Driver!Kinds
    <3>2. True(e)'
      BY DEF True
    <3> QED
      BY <3>1, <3>2
  <2>2. CASE Task!Driver!Tell(d)
    <3>1. PICK type \in {"line", "error"} : Task!Driver!Put(type, d)
      BY <2>2 DEF Task!Driver!Tell
    <3> DEFINE e == [type |-> type, proc |-> d]
    <3>2. e \in StreamEvent /\ out' = Append(out, e)
      BY <3>1 DEF Task!Driver!Put, StreamEvent, Task!Driver!Kinds
    <3>3. True(e)'
      BY <3>1 DEF True
    <3> QED
      BY <3>2, <3>3
  <2>3. CASE Task!Driver!TellExit(d)
    <3>1. PICK type \in {"good", "bad"} :
            Task!Driver!Put(type, d) /\ phase' = [phase EXCEPT ![d] = type]
      BY <2>3 DEF Task!Driver!TellExit
    <3> DEFINE e == [type |-> type, proc |-> d]
    <3>2. e \in StreamEvent /\ out' = Append(out, e)
      BY <3>1 DEF Task!Driver!Put, StreamEvent, Task!Driver!Kinds
    <3>3. phase'[d] = type
      BY <3>1, <1>2
    <3>4. True(e)'
      BY <3>1, <3>3 DEF True
    <3> QED
      BY <3>2, <3>4
  <2> QED
    BY <1>1, <2>1, <2>2, <2>3
<1>5. out' \in Seq(StreamEvent) /\ Truthful'
  BY <1>0, <1>3, <1>4, AppendTruthful
<1>6. TaskTypes'
  BY <1>0, <1>2, <1>3, <1>5 DEF TaskInv, TaskTypes
<1>7. Justified'
  BY <1>0, <1>2, <1>3 DEF TaskInv, Justified
<1>8. ExitMeans' /\ Returned'
  BY <1>0, <1>2 DEF TaskInv, ExitMeans, Returned
<1> QED
  BY <1>5, <1>6, <1>7, <1>8 DEF TaskInv

\* The driver exits, with 0 only if every copy did.
LEMMA FinishTaskInv == ASSUME TaskInv, Task!Driver!Finish, argv = "copy",
                           UNCHANGED <<has, Task!task, polling>>
                    PROVE  TaskInv'
<1>1. /\ argv' = argv /\ returned' = returned /\ progress' = progress
      /\ has' = has /\ polling' = polling /\ phase' = phase /\ out' = out
  BY DEF Task!task, Task!Driver!Finish
<1>2. exit = "none" /\ exit' \in {"good", "bad"}
      /\ (exit' = "good" => \A d \in Procs : phase[d] = "good")
  BY DEF Task!Driver!Finish
<1> QED
  BY <1>1, <1>2 DEF TaskInv, TaskTypes, Truthful, Justified, ExitMeans, Returned, True

\* The line that is printed instead of a copy is about a disk that has the image.
LEMMA PrintNoCopyTaskInv == ASSUME TaskInv, Task!PrintNoCopy PROVE TaskInv'
<1>1. /\ argv' = argv /\ returned' = returned /\ progress' = progress
      /\ has' = has /\ polling' = polling /\ phase' = phase
      /\ argv = "print" /\ exit = "none" /\ exit' = "good"
  BY DEF Task!PrintNoCopy, Task!task
<1>2. PICK d \in has : out' = <<[type |-> "nocopy", proc |-> d]>>
  BY DEF Task!PrintNoCopy
<1>3. has \subseteq Procs
  BY DEF TaskInv, TaskTypes
<1> QED
  BY <1>1, <1>2, <1>3 DEF TaskInv, TaskTypes, Truthful, Justified, ExitMeans, Returned, True,
     StreamEvent

\* poll() asks for the return code before it reads.
LEMMA AskReturnCodeTaskInv == ASSUME TaskInv, Task!AskReturnCode PROVE TaskInv'
  BY DEF Task!AskReturnCode, TaskInv, TaskTypes, Truthful, Justified, ExitMeans, Returned, True,
     Task!stream

\* The progress that a report sets is justified by the event it was made from.
LEMMA ClampedJustified ==
  ASSUME TaskInv, NEW value \in {0, 50, 99, 100, 999},
         value = 100 => has # {} \/ \E d \in Procs : phase[d] = "good",
         value = 999 => \E d \in Procs : phase[d] = "bad",
         progress' = Task!Clamped(value), returned' = returned, phase' = phase, has' = has
  PROVE  /\ progress' \in {0, 50, 99, 100, 999}
         /\ Justified'
         /\ progress' >= 100 => returned'
  BY DEF Task!Clamped, Justified, TaskInv, TaskTypes

\* What waits behind the k events that are read is as it was.
LEMMA RestTruthful ==
  ASSUME TaskInv, NEW k \in 0 .. Len(out), out' = SubSeq(out, k + 1, Len(out)),
         phase' = phase, has' = has
  PROVE  out' \in Seq(StreamEvent) /\ Truthful'
<1>1. out \in Seq(StreamEvent)
  BY DEF TaskInv, TaskTypes
<1>2. out' \in Seq(StreamEvent)
  BY <1>1
<1>3. ASSUME NEW i \in 1 .. Len(out') PROVE True(out[i])'
  <2>1. Len(out') = Len(out) - k /\ out'[i] = out[k + i] /\ k + i \in 1 .. Len(out)
    BY <1>1, <1>3
  <2>2. True(out[k + i])
    BY <2>1 DEF TaskInv, Truthful
  <2> QED
    BY <2>1, <2>2 DEF True
<1> QED
  BY <1>2, <1>3 DEF Truthful

\* poll() reads some of what waits, and the last report sets progress.
LEMMA ReadAndParseTaskInv == ASSUME TaskInv, Task!ReadAndParse PROVE TaskInv'
<1>1. /\ argv' = argv /\ returned' = returned /\ has' = has /\ phase' = phase
      /\ exit' = exit /\ polling' = FALSE
  BY DEF Task!ReadAndParse
<1>2. PICK k \in 0 .. Len(out) :
        /\ out' = SubSeq(out, k + 1, Len(out))
        /\ \/ progress' = Task!Clamped(progress)
           \/ \E e \in Task!LastReport(SubSeq(out, 1, k)) :
                progress' = Task!Clamped(Task!ReportOf(e))
  BY DEF Task!ReadAndParse
<1>3. out' \in Seq(StreamEvent) /\ Truthful'
  BY <1>1, <1>2, RestTruthful
<1>4. /\ progress' \in {0, 50, 99, 100, 999}
      /\ Justified'
      /\ progress' >= 100 => returned'
  <2>1. CASE progress' = Task!Clamped(progress)
    BY <2>1, <1>1, ClampedJustified DEF TaskInv, TaskTypes, Justified
  <2>2. CASE \E e \in Task!LastReport(SubSeq(out, 1, k)) :
               progress' = Task!Clamped(Task!ReportOf(e))
    <3>1. PICK e \in Task!LastReport(SubSeq(out, 1, k)) :
            progress' = Task!Clamped(Task!ReportOf(e))
      BY <2>2
    <3>2. out \in Seq(StreamEvent)
      BY DEF TaskInv, TaskTypes
    <3>3. PICK i \in DOMAIN SubSeq(out, 1, k) :
            e = SubSeq(out, 1, k)[i] /\ e.type # "error"
      BY <3>1 DEF Task!LastReport, Task!Reporting
    <3>4. i \in 1 .. Len(out) /\ e = out[i]
      BY <3>2, <3>3
    <3>5. e \in StreamEvent /\ True(e)
      BY <3>2, <3>4 DEF TaskInv, Truthful
    <3>6. e.type \in {"start", "line", "good", "bad", "nocopy"} /\ e.proc \in Procs
      BY <3>3, <3>5 DEF StreamEvent, Task!Driver!Kinds
    <3>7. /\ Task!ReportOf(e) \in {0, 50, 99, 100, 999}
          /\ Task!ReportOf(e) = 100 => e.type \in {"good", "nocopy"}
          /\ Task!ReportOf(e) = 999 => e.type = "bad"
      BY <3>6 DEF Task!ReportOf
    <3>8. /\ Task!ReportOf(e) = 100 => has # {} \/ \E d \in Procs : phase[d] = "good"
          /\ Task!ReportOf(e) = 999 => \E d \in Procs : phase[d] = "bad"
      BY <3>5, <3>6, <3>7 DEF True
    <3> QED
      BY <3>1, <3>7, <3>8, <1>1, ClampedJustified
  <2> QED
    BY <1>2, <2>1, <2>2
<1>5. TaskTypes'
  <2>1. polling' \in BOOLEAN /\ returned' \in BOOLEAN
    BY <1>1, ZenonT(100) DEF TaskInv, TaskTypes
  <2>2. /\ has' \subseteq Procs /\ argv' \in {"unset", "copy", "print"}
        /\ phase' \in [Procs -> Task!Driver!Phases] /\ exit' \in {"none", "good", "bad"}
    BY <1>1 DEF TaskInv, TaskTypes
  <2> QED
    BY <2>1, <2>2, <1>3, <1>4 DEF TaskTypes
<1>6. Returned'
  BY <1>1, <1>4 DEF TaskInv, Returned
<1>7. ExitMeans'
  BY <1>1 DEF TaskInv, ExitMeans
<1> QED
  BY <1>3, <1>4, <1>5, <1>6, <1>7 DEF TaskInv

\* Every step keeps the invariant.
LEMMA TaskInvNext == TaskInv /\ [Task!Next]_(Task!vars) => TaskInv'
<1> SUFFICES ASSUME TaskInv, [Task!Next]_(Task!vars) PROVE TaskInv'
  OBVIOUS
<1>1. CASE Task!Setup
  BY <1>1, SetupTaskInv
<1>2. CASE Task!Drive
  BY <1>2, EmitTaskInv, FinishTaskInv DEF Task!Drive
<1>3. CASE Task!PrintNoCopy
  BY <1>3, PrintNoCopyTaskInv
<1>4. CASE Task!Poll
  BY <1>4, AskReturnCodeTaskInv, ReadAndParseTaskInv DEF Task!Poll
<1>5. CASE UNCHANGED Task!vars
  BY <1>5 DEF Task!vars, Task!task, Task!stream, TaskInv, TaskTypes, Truthful, Justified, ExitMeans,
     Returned, True
<1> QED
  BY <1>1, <1>2, <1>3, <1>4, <1>5 DEF Task!Next

\* The invariant holds in every state of every behaviour of the task.
THEOREM TaskInvHolds == Task!Spec => []TaskInv
  BY TaskInvInit, TaskInvNext, PTL DEF Task!Spec

\* The clamp at the end of poll(): the runner does not go on to the next task
\* while the driver may still be writing to the disks.
THEOREM NotBeforeDriverHolds == Task!Spec => []Task!NotBeforeDriver
<1>1. TaskInv => Task!NotBeforeDriver
  BY DEF TaskInv, Returned, Task!NotBeforeDriver
<1> QED
  BY <1>1, TaskInvHolds, PTL

\* Copies that all ended with 0 do not fail the task, whatever they print: a 999
\* goes back to a copy that failed, and the driver, which has returned, cannot
\* have returned 0 then.
THEOREM NoFalseFailureHolds == Task!Spec => []Task!NoFalseFailure
<1>1. TaskInv => Task!NoFalseFailure
  <2> SUFFICES ASSUME TaskInv, progress = 999 PROVE exit = "bad"
    BY DEF Task!NoFalseFailure
  <2>1. PICK d \in Procs : phase[d] = "bad"
    BY DEF TaskInv, Justified
  <2>2. exit # "none" /\ exit \in {"none", "good", "bad"}
    BY DEF TaskInv, Returned, TaskTypes
  <2> QED
    BY <2>1, <2>2 DEF TaskInv, ExitMeans
<1> QED
  BY <1>1, TaskInvHolds, PTL

\* A success rests on a copy that ended with 0, or on a disk that has the image.
THEOREM SuccessHasReasonHolds == Task!Spec => []Task!SuccessHasReason
<1>1. TaskInv => Task!SuccessHasReason
  BY DEF TaskInv, Justified, Task!SuccessHasReason
<1> QED
  BY <1>1, TaskInvHolds, PTL

\* The verdict of the task, for every number of disks.
THEOREM VerdictHasReasonHolds == Task!Spec => []Task!VerdictHasReason
BY NotBeforeDriverHolds, NoFalseFailureHolds, SuccessHasReasonHolds, PTL DEF Task!VerdictHasReason

-----------------------------------------------------------------------------
(***************************************************************************)
(* The processes that poll() takes for running.                            *)
(***************************************************************************)
\* All disks are copied to, or no copy starts.
Known ==
  /\ targets \subseteq Procs /\ pids \subseteq Procs
  /\ argv = "copy" => targets = Procs
  /\ argv # "copy" => pids = {} /\ \A i \in 1 .. Len(out) : out[i].type # "start"

\* Where no start is read, no process is taken for running that was not before.
LEMMA NothingStarts ==
  ASSUME NEW events, \A i \in DOMAIN events : events[i].type # "start"
  PROVE  Task!PidsAfter(events) \subseteq pids
BY DEF Task!PidsAfter

\* Every step keeps track of the processes.
LEMMA KnownNext == ASSUME TaskInv, Known, [Task!Next]_(Task!vars) PROVE Known'
<1>1. CASE Task!Setup
  BY <1>1 DEF Task!Setup, Known, TaskInv, TaskTypes, Task!stream
<1>2. CASE Task!Drive
  BY <1>2 DEF Task!Drive, Known, Task!task
<1>3. CASE Task!PrintNoCopy
  <2>1. /\ argv = "print" /\ UNCHANGED <<argv, targets, pids>>
        /\ \E d \in has : out' = <<[type |-> "nocopy", proc |-> d]>>
    BY <1>3 DEF Task!PrintNoCopy, Task!task
  <2>2. Len(out') = 1 /\ out'[1].type = "nocopy"
    BY <2>1
  <2>3. \A i \in 1 .. Len(out') : out'[i].type # "start"
    BY <2>2
  <2>4. QED
    BY <2>1, <2>3 DEF Known
<1>4. CASE Task!AskReturnCode
  BY <1>4 DEF Task!AskReturnCode, Known, Task!stream
<1>5. CASE Task!ReadAndParse
  <2>1. UNCHANGED <<argv, targets>>
    BY <1>5 DEF Task!ReadAndParse
  <2>2. PICK k \in 0 .. Len(out) : /\ pids' = Task!PidsAfter(SubSeq(out, 1, k))
                                   /\ out' = SubSeq(out, k + 1, Len(out))
    BY <1>5 DEF Task!ReadAndParse
  <2>3. out \in Seq(StreamEvent)
    BY DEF TaskInv, TaskTypes
  <2>4. CASE argv = "copy"
    BY <2>1, <2>2, <2>4 DEF Known, Task!PidsAfter
  <2>5. CASE argv # "copy"
    <3>1. pids = {} /\ \A i \in 1 .. Len(out) : out[i].type # "start"
      BY <2>5 DEF Known
    <3>2. \A i \in DOMAIN SubSeq(out, 1, k) : SubSeq(out, 1, k)[i].type # "start"
      BY <2>3, <3>1
    <3>3. \A i \in 1 .. Len(out') : out'[i].type # "start"
      BY <2>2, <2>3, <3>1
    <3>4. pids' = {}
      BY <2>2, <3>1, <3>2, NothingStarts
    <3>5. QED
      BY <2>1, <2>5, <3>3, <3>4 DEF Known
  <2>6. QED
    BY <2>4, <2>5
<1>6. CASE UNCHANGED Task!vars
  BY <1>6 DEF Task!vars, Task!task, Task!stream, Known
<1>7. QED
  BY <1>1, <1>2, <1>3, <1>4, <1>5, <1>6 DEF Task!Next, Task!Poll

\* The state of the task has its types; poll() takes no process for running that
\* copies to a disk outside of argv.
THEOREM RsyncTypeCorrect == Task!Spec => []Task!TypeOK
<1>1. Task!Init => Known
  BY DEF Task!Init, Known, Task!Driver!StreamInit
<1>2. TaskInv /\ Known => Task!TypeOK
  BY DEF TaskInv, TaskTypes, Known, Task!TypeOK, StreamEvent
<1>3. QED
  BY <1>1, <1>2, KnownNext, TaskInvHolds, PTL DEF Task!Spec

-----------------------------------------------------------------------------
(***************************************************************************)
(* The copy as a whole: the task and the driver that it runs.  CopyInv     *)
(* joins their two invariants.  That of the driver is said of it as long   *)
(* as nobody else writes to its pipe, and Asked adds why it may exit early. *)
(***************************************************************************)
Asked ==
  /\ ~termReq => retcode = "good"
  /\ main = "giveup" => termReq

CopyInv ==
  /\ cmds = Procs
  /\ TaskInv /\ Known
  /\ argv = "copy" => has = {}
  /\ argv # "print" => IInv /\ Asked

\* A command that fails, and only it or a signal, asks the others to end.
LEMMA DrivingAsked ==
  ASSUME TypeOK, Asked, Driving
  PROVE  Asked'
<1> USE DEF Asked, childVars, stateVars, emitterVars, mainVars, signalVars
<1>1. ASSUME NEW p \in Procs, ProcessExited(p)
      PROVE  Asked'
  BY <1>1 DEF ProcessExited
<1>2. ASSUME NEW p \in Procs,
             ChildEnds(p) \/ Reading(p) \/ ReadFails(p) \/ Waiting(p) \/ WaitRaises(p)
      PROVE  Asked'
  BY <1>1, <1>2 DEF ChildEnds, Reading, ReadLine, ReadEnd, ReadFails, Waiting, WaitReturns,
     WaitRaises
<1>3. CASE Emitting
  BY <1>3 DEF Emitting, EmitImportant, SwapLines, CheckStop, EmitLine
<1>4. CASE Main
  BY <1>4 DEF Main, StartThreads, AllDone, GiveUp, SetGaveUp, Close, Exit
<1>5. CASE BootDies \/ Signal \/ TerminateAll \/ NestedSignal
  BY <1>5 DEF BootDies, Signal, TerminateAll, NestedSignal
<1>6. QED
  BY <1>2, <1>3, <1>4, <1>5 DEF Driving

\* What the driver does is what the task expects of a driver of all disks.
LEMMA CopyingDrives ==
  ASSUME CopyInv, Copying
  PROVE  Task!Drive \/ UNCHANGED Task!vars
<1>1. IInv /\ cmds = Procs /\ argv = "copy" /\ Driving /\ UNCHANGED taskVars
  BY DEF CopyInv, Copying
<1>2. Stream!Emit \/ Stream!Finish \/ UNCHANGED <<phase, out, exit>>
  BY <1>1, DrivingStreams
<1>3. ASSUME Stream!Emit PROVE Task!Driver!Emit
  BY <1>1, <1>3 DEF Stream!Emit, Stream!TellStart, Stream!Tell, Stream!TellExit, Stream!Put,
     Task!Driver!Emit, Task!Driver!TellStart, Task!Driver!Tell, Task!Driver!TellExit,
     Task!Driver!Put
<1>4. ASSUME Stream!Finish PROVE Task!Driver!Finish
  BY <1>1, <1>4 DEF Stream!Finish, Task!Driver!Finish
<1>5. UNCHANGED <<has, Task!task, polling>>
  BY <1>1 DEF taskVars, Task!task
<1>6. QED
  BY <1>1, <1>2, <1>3, <1>4, <1>5 DEF Task!Drive, Task!vars, Task!stream

\* What the task does leaves the driver to itself: a poll shortens the pipe.
LEMMA TaskingKeepsDriver ==
  ASSUME CopyInv, Tasking, argv' # "print"
  PROVE  IInv' /\ Asked'
<1> DEFINE S == [type : {"start", "line", "good", "bad", "error"}, proc : Procs]
<1>1. argv # "print" /\ IInv /\ Asked
  BY DEF CopyInv, Tasking, Task!Setup, Task!PrintNoCopy, Task!Poll, Task!AskReturnCode,
     Task!ReadAndParse, Task!task
<1>2. UNCHANGED driverVars /\ UNCHANGED <<phase, exit>>
  BY <1>1 DEF Tasking, Task!Setup, Task!PrintNoCopy, Task!Poll, Task!AskReturnCode,
     Task!ReadAndParse, Task!stream
<1>3. out' \in Seq(S)
  <2>1. out \in Seq(S)
    BY <1>1 DEF IInv, TypeOK
  <2>2. out' = out \/ \E k \in 0 .. Len(out) : out' = SubSeq(out, k + 1, Len(out))
    BY <1>1 DEF Tasking, Task!Setup, Task!PrintNoCopy, Task!Poll, Task!AskReturnCode,
       Task!ReadAndParse, Task!stream
  <2> HIDE DEF S
  <2>3. ASSUME NEW k \in 0 .. Len(out) PROVE SubSeq(out, k + 1, Len(out)) \in Seq(S)
    BY <2>1
  <2>4. QED
    BY <2>1, <2>2, <2>3
<1>4. UNCHANGED <<childVars, stateVars, emitterVars, mainVars, signalVars, waiter, reader,
                  important, latest>>
  BY <1>2 DEF driverVars, emitterVars, mainVars
<1>5. IInv'
  BY <1>1, <1>3, <1>4, PipeKeeps
<1>6. QED
  BY <1>1, <1>4, <1>5 DEF Asked, stateVars, mainVars

\* Every step of the two keeps their invariant and is a step of the task.
LEMMA CopyStep ==
  ASSUME CopyInv, [CopyNext]_copyVars
  PROVE  CopyInv' /\ [Task!Next]_(Task!vars)
<1>1. CASE Copying
  <2>1. [Task!Next]_(Task!vars)
    BY <1>1, CopyingDrives DEF Task!Next
  <2>2. TaskInv' /\ Known'
    BY <2>1, TaskInvNext, KnownNext DEF CopyInv
  <2>3. argv = "copy" /\ Driving /\ UNCHANGED taskVars /\ IInv /\ Asked
    BY <1>1 DEF Copying, CopyInv
  <2>4. IInv' /\ Asked'
    BY <2>3, NextKeeps, DrivingAsked DEF Next, IInv
  <2>5. cmds' = cmds
    BY <2>3, DrivingStreams
  <2>6. QED
    BY <2>1, <2>2, <2>3, <2>4, <2>5 DEF CopyInv, taskVars
<1>2. CASE Tasking
  <2>1. Task!Next
    BY <1>2 DEF Tasking, Task!Next
  <2>2. TaskInv' /\ Known'
    BY <2>1, TaskInvNext, KnownNext DEF CopyInv
  <2>3. cmds' = cmds
    BY <1>2 DEF Tasking, driverVars, childVars
  <2>4. argv' = "copy" => has' = {}
    BY <1>2 DEF CopyInv, Tasking, Task!Setup, Task!PrintNoCopy, Task!Poll, Task!AskReturnCode,
       Task!ReadAndParse, Task!task
  <2>5. argv' # "print" => IInv' /\ Asked'
    BY <1>2, TaskingKeepsDriver
  <2>6. QED
    BY <2>1, <2>2, <2>3, <2>4, <2>5 DEF CopyInv
<1>3. CASE UNCHANGED copyVars
  <2>1. UNCHANGED vars /\ UNCHANGED Task!vars
    BY <1>3 DEF copyVars, vars, taskVars, emitterVars, mainVars, Task!vars, Task!task, Task!stream
  <2>2. TaskInv' /\ Known'
    BY <2>1, TaskInvNext, KnownNext DEF CopyInv
  <2>3. IInv => IInv'
    BY <2>1, NextKeeps
  <2>4. Asked => Asked'
    BY <2>1 DEF Asked, vars, stateVars, mainVars
  <2>5. UNCHANGED <<cmds, argv, has>>
    BY <1>3 DEF copyVars, vars, childVars, taskVars
  <2>6. QED
    BY <2>1, <2>2, <2>3, <2>4, <2>5 DEF CopyInv
<1>4. QED
  BY <1>1, <1>2, <1>3 DEF CopyNext

\* The initial states of the two satisfy the invariant.
LEMMA CopyInvInit == CopyInit => CopyInv
<1>1. ASSUME CopyInit PROVE IInv /\ Asked /\ TaskInv /\ Known /\ cmds = Procs /\ argv = "unset"
  BY <1>1, InitIInv, TaskInvInit
     DEF CopyInit, Init, Asked, Known, Task!Init, Task!Driver!StreamInit
<1>2. QED
  BY <1>1 DEF CopyInv

\* CopyInv holds in every state of every copy.
THEOREM CopyInvariance == CopySpec => []CopyInv
BY CopyInvInit, CopyStep, PTL DEF CopySpec

\* Task and driver keep their types, also together.
THEOREM CopyTypeCorrect == CopySpec => []CopyTypeOK
<1>1. CopyInv => CopyTypeOK
  BY DEF CopyInv, IInv, TaskInv, TaskTypes, Known, Task!TypeOK, StreamEvent, CopyTypeOK
<1>2. QED
  BY <1>1, CopyInvariance, PTL

\* The task and the driver that it starts are what RsyncTask says of the task with any
\* driver: so its theorems hold of this one.
THEOREM CopyImplementsTask == CopySpec => ImplementsTask
<1>1. CopyInit => Task!Init
  BY DEF CopyInit
<1>2. QED
  BY <1>1, CopyStep, CopyInvariance, PTL DEF CopySpec, ImplementsTask

\* Nothing was told of a command by a driver that died before it started any.
LEMMA ToldByDriver ==
  ASSUME CopyInv, progress >= 100, argv = "copy"
  PROVE  main = "close" /\ exit # "none"
<1>1. IInv /\ has = {} /\ TaskInv
  BY DEF CopyInv
<1>2. progress = 100 \/ progress = 999
  BY <1>1 DEF TaskInv, TaskTypes
<1>3. PICK d \in Procs : phase[d] # "new"
  BY <1>1, <1>2 DEF TaskInv, Justified
<1>4. main # "died"
  BY <1>1, <1>3 DEF IInv, Born, Started
<1>5. exit # "none"
  BY <1>1 DEF TaskInv, Returned
<1>6. QED
  BY <1>1, <1>4, <1>5 DEF IInv, Ends, Left

\* The verdict on a copy is true of the copies: the task is over after the driver, and
\* unless something failed or was stopped, when all disks have the image; a success
\* means that one has it, and a failure that an rsync failed or was stopped.
THEOREM VerdictTrue == CopySpec => []VerdictIsTrue
<1>1. ASSUME CopyInv, progress >= 100
      PROVE  returned /\ exit # "none"
  BY <1>1 DEF CopyInv, TaskInv, Returned
<1>2. ASSUME CopyInv, progress >= 100, argv = "copy", ~termReq, NEW d \in Procs
      PROVE  code[d] = "good"
  <2>1. IInv /\ Asked /\ cmds = Procs /\ main = "close"
    BY <1>2, ToldByDriver DEF CopyInv
  <2>2. left = {} /\ \A p \in cmds \ left : code[p] = "good"
    BY <1>2, <2>1 DEF Asked, IInv, Ends, AllGood
  <2>3. QED
    BY <2>1, <2>2
<1>3. ASSUME CopyInv, NEW d \in Procs, phase[d] \in Exited
      PROVE  /\ phase[d] = "good" => code[d] = "good"
             /\ phase[d] = "bad" => code[d] \in {"bad", "term"}
  <2>1. argv = "copy"
    BY <1>3 DEF CopyInv, TaskInv, ExitMeans, Exited
  <2>2. IInv
    BY <1>3, <2>1 DEF CopyInv
  <2>3. waiter[d] \in Reaped
    BY <1>3, <2>2 DEF IInv, Exits, ToldReaped
  <2>4. code[d] \in {"good", "bad", "term"}
    BY <2>2, <2>3 DEF IInv, TypeOK, Truth, WaiterCode
  <2>5. QED
    BY <2>2, <2>4 DEF IInv, Truth, TrueTold
<1>4. ASSUME CopyInv, progress = 100
      PROVE  has # {} \/ \E d \in Procs : code[d] = "good"
  BY <1>3, <1>4 DEF CopyInv, TaskInv, Justified, Exited
<1>5. ASSUME CopyInv, progress = 999
      PROVE  \E d \in Procs : code[d] \in {"bad", "term"}
  BY <1>3, <1>5 DEF CopyInv, TaskInv, Justified, Exited
<1>6. CopyInv => VerdictIsTrue
  BY <1>1, <1>2, <1>4, <1>5 DEF VerdictIsTrue
<1>7. QED
  BY <1>6, CopyInvariance, PTL

=============================================================================
