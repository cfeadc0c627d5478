------------------------------ MODULE LogStore ------------------------------
(***************************************************************************)
(* The event log of the server (wce_triage/lib/log_store.py): any thread   *)
(* puts rows into a queue, one writer thread stores them in a database,    *)
(* drops the oldest when the file is full, and stops when close() asks it  *)
(* to.  A row is the thread that logged it and a number; a row takes one    *)
(* page of the file.                                                       *)
(***************************************************************************)
EXTENDS Naturals, Sequences, FiniteSets

CONSTANTS
  Loggers,     \* the threads that log
  Closers,     \* the threads that call close(): in this program, that of atexit
  MaxRows,     \* bound: how many rows each logger logs
  Threshold    \* max_bytes * PRUNE_THRESHOLD, in pages

ASSUME MaxRowsAssumption == MaxRows \in Nat
ASSUME ThresholdAssumption == Threshold \in Nat \ {0}

VARIABLES
  queue,       \* LogStore._queue
  stop,        \* LogStore._stop
  writer,      \* where the writer thread is
  batch,       \* the local rows of _drain()
  db,          \* the table event_log, in the order of the ids
  pages,       \* page_count of the file
  closer,      \* where each closer is
  accepted,    \* history: every row put into the queue
  dropped,     \* history: the rows that pruning deleted
  promised     \* history: for each closer, the rows accepted before its call

vars == <<queue, stop, writer, batch, db, pages, closer, accepted, dropped, promised>>

Row == [by : Loggers, n : 1 .. MaxRows]
WriterPC == {"start", "wait", "take", "insert", "prune", "stop",
             "empty", "closed", "dead"}
CloserPC == {"idle", "set", "join", "returned", "turned_away"}

Init ==
  /\ queue = <<>> /\ stop = FALSE
  /\ writer = "start" /\ batch = <<>>
  /\ db = <<>> /\ pages = 0
  /\ closer = [t \in Closers |-> "idle"]
  /\ accepted = <<>> /\ dropped = <<>>
  /\ promised = [t \in Closers |-> 0]

(***************************************************************************)
(* log(): the row is queued.  The event _wake, set next, only shortens the *)
(* wait of the writer, which ends by itself after 0.2 s; it is left out.   *)
(***************************************************************************)
RowsOf(t) == {i \in 1 .. Len(accepted) : accepted[i].by = t}

Log(t) ==
  /\ Cardinality(RowsOf(t)) < MaxRows
  /\ LET row == [by |-> t, n |-> Cardinality(RowsOf(t)) + 1]
     IN  /\ queue' = Append(queue, row)
         /\ accepted' = Append(accepted, row)
  /\ UNCHANGED <<stop, writer, batch, db, pages, closer, dropped, promised>>

(***************************************************************************)
(* close()                                                                 *)
(***************************************************************************)
CloseTest(t) ==
  /\ closer[t] = "idle"
  /\ closer' = [closer EXCEPT ![t] = IF stop THEN "turned_away" ELSE "set"]
  /\ promised' = [promised EXCEPT ![t] = Len(accepted)]
  /\ UNCHANGED <<queue, stop, writer, batch, db, pages, accepted, dropped>>

CloseSet(t) ==
  /\ closer[t] = "set"
  /\ stop' = TRUE
  /\ closer' = [closer EXCEPT ![t] = "join"]
  /\ UNCHANGED <<queue, writer, batch, db, pages, accepted, dropped, promised>>

CloseJoin(t) ==
  /\ closer[t] = "join" /\ writer \in {"closed", "dead"}
  /\ closer' = [closer EXCEPT ![t] = "returned"]
  /\ UNCHANGED <<queue, stop, writer, batch, db, pages, accepted, dropped, promised>>

(***************************************************************************)
(* The writer thread.                                                      *)
(***************************************************************************)
callers == <<closer, accepted, promised>>

\* The connection, its configuration and the schema.
WriterStart ==
  /\ writer = "start"
  /\ writer' = "wait"
  /\ UNCHANGED <<queue, stop, batch, db, pages, dropped, callers>>

\* _wake.wait(timeout) and clear(): set or timed out, the writer goes on.
WriterWait ==
  /\ writer = "wait"
  /\ writer' = "take"
  /\ UNCHANGED <<queue, stop, batch, db, pages, dropped, callers>>

WriterTake ==
  /\ writer = "take" /\ queue # <<>>
  /\ batch' = Append(batch, Head(queue))
  /\ queue' = Tail(queue)
  /\ UNCHANGED <<stop, writer, db, pages, dropped, callers>>

WriterTookAll ==
  /\ writer = "take" /\ queue = <<>>
  /\ writer' = IF batch = <<>> THEN "stop" ELSE "insert"
  /\ UNCHANGED <<queue, stop, batch, db, pages, dropped, callers>>

Larger(a, b) == IF a > b THEN a ELSE b

\* mutant: the rows of a batch are stored in front of the others
WriterInsertFront ==
  /\ writer = "insert"
  /\ db' = batch \o db
  /\ pages' = Larger(pages, Len(db'))
  /\ batch' = <<>>
  /\ writer' = "prune"
  /\ UNCHANGED <<queue, stop, dropped, callers>>

\* executemany and commit: one transaction.
WriterInsert ==
  /\ writer = "insert"
  /\ db' = db \o batch
  /\ pages' = Larger(pages, Len(db'))
  /\ batch' = <<>>
  /\ writer' = "prune"
  /\ UNCHANGED <<queue, stop, dropped, callers>>

\* max(1, total // 5)
ToDelete == Larger(1, Len(db) \div 5)

\* mutant: the newest rows are deleted
WriterPruneNewest ==
  /\ writer = "prune"
  /\ writer' = "stop"
  /\ IF pages < Threshold \/ db = <<>>
     THEN UNCHANGED <<db, dropped>>
     ELSE /\ dropped' = dropped \o SubSeq(db, Len(db) - ToDelete + 1, Len(db))
          /\ db' = SubSeq(db, 1, Len(db) - ToDelete)
  /\ UNCHANGED <<queue, stop, batch, pages, callers>>

\* The oldest rows go.  Without VACUUM the file keeps its pages.
WriterPrune ==
  /\ writer = "prune"
  /\ writer' = "stop"
  /\ IF pages < Threshold \/ db = <<>>
     THEN UNCHANGED <<db, dropped>>
     ELSE /\ dropped' = dropped \o SubSeq(db, 1, ToDelete)
          /\ db' = SubSeq(db, ToDelete + 1, Len(db))
  /\ UNCHANGED <<queue, stop, batch, pages, callers>>

\* A statement raises (the disk is full, the file is locked for too long):
\* nothing catches it and the thread is over.
WriterFails ==
  /\ writer \in {"start", "insert", "prune"}
  /\ writer' = "dead"
  /\ UNCHANGED <<queue, stop, batch, db, pages, dropped, callers>>

WriterReadStop ==
  /\ writer = "stop"
  /\ writer' = IF stop THEN "empty" ELSE "wait"
  /\ UNCHANGED <<queue, stop, batch, db, pages, dropped, callers>>

\* mutant: the loop ends as soon as it is asked to
WriterReadEmptyNot ==
  /\ writer = "empty"
  /\ writer' = "closed"
  /\ UNCHANGED <<queue, stop, batch, db, pages, dropped, callers>>

\* mutant: the loop ends with the connection open
WriterReadEmptyUnclosed ==
  /\ writer = "empty"
  /\ writer' = IF queue = <<>> THEN "ended" ELSE "wait"
  /\ UNCHANGED <<queue, stop, batch, db, pages, dropped, callers>>

\* mutant: the loop goes on after it was asked to stop
WriterReadEmptyNever ==
  /\ writer = "empty"
  /\ writer' = "wait"
  /\ UNCHANGED <<queue, stop, batch, db, pages, dropped, callers>>

WriterReadEmpty ==
  /\ writer = "empty"
  /\ writer' = IF queue = <<>> THEN "closed" ELSE "wait"
  /\ UNCHANGED <<queue, stop, batch, db, pages, dropped, callers>>

Writer ==
  \/ WriterStart \/ WriterWait \/ WriterTake \/ WriterTookAll
  \/ WriterInsert \/ WriterPrune \/ WriterReadStop \/ WriterReadEmpty

Close(t) == CloseTest(t) \/ CloseSet(t) \/ CloseJoin(t)

Next ==
  \/ \E t \in Loggers : Log(t)
  \/ \E t \in Closers : Close(t)
  \/ Writer \/ WriterFails

\* The writer runs, and a close() under way goes on.
Fairness ==
  /\ WF_vars(Writer)
  /\ \A t \in Closers : WF_vars(Close(t) /\ closer[t] # "idle")

Spec == Init /\ [][Next]_vars /\ Fairness

-----------------------------------------------------------------------------
TypeOK ==
  /\ queue \in Seq(Row) /\ batch \in Seq(Row) /\ db \in Seq(Row)
  /\ accepted \in Seq(Row) /\ dropped \in Seq(Row)
  /\ stop \in BOOLEAN
  /\ writer \in WriterPC
  /\ pages \in Nat
  /\ closer \in [Closers -> CloserPC]
  /\ promised \in [Closers -> Nat]

\* No row is lost, doubled or reordered between log() and the table, and what
\* pruning deletes are the oldest rows, whatever the threads do in between and
\* even when the writer dies.
Conserved == accepted = dropped \o db \o batch \o queue

\* When a close() that stopped the writer returns, every row logged before the
\* call has reached the database, unless the writer had died.
CloseFlushes ==
  \A t \in Closers :
    closer[t] = "returned" =>
      promised[t] <= Len(dropped) + Len(db) \/ writer = "dead"

\* Pruning never empties the table: with room for two rows, the newest one
\* that was stored can still be read (the test of the pruning expects it).
NewestStays == Threshold >= 2 /\ dropped # <<>> => db # <<>>

\* Rows stay in order from log() to the table, and pruning takes the oldest and
\* never all of them.
RowsKept == Conserved /\ NewestStays

\* Every row logged before the store was asked to stop is stored, unless a
\* statement raises.
EventuallyStored ==
  \A n \in 1 .. MaxRows * Cardinality(Loggers) :
    (Len(accepted) >= n /\ ~stop)
      ~> (Len(dropped) + Len(db) >= n \/ writer = "dead")

\* close() returns, even while other threads keep logging and when the writer dies.
CloseReturns ==
  \A t \in Closers : closer[t] = "set" ~> closer[t] = "returned"

\* The table is what EventLog says it is.
Abstract == INSTANCE EventLog WITH log <- accepted, table <- db
KeepsEventLog == Abstract!Spec

=============================================================================
