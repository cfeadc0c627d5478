------------------------------ MODULE LogProofs -----------------------------
(***************************************************************************)
(* Proofs about the log: first the store, then the tab of the web page     *)
(* that shows it (the names of the latter begin with Tab).                 *)
(*                                                                         *)
(* LogStore, for any number of threads and rows and any threshold.  IInv   *)
(* adds to the type and to the conservation of rows what the local         *)
(* variable batch holds at each point of the writer, how far the promise   *)
(* of a closer is from the rows stored, and how many rows pruning finds.   *)
(*                                                                         *)
(* Messages, for every log, page size and choice of the user: the rows     *)
(* answer the question that the controls show, and no message is missing,  *)
(* unless something went wrong that is named.                              *)
(***************************************************************************)
EXTENDS LogStore, Messages, SequenceTheorems, FiniteSetTheorems, TLAPS

Stored == Len(dropped) + Len(db)

\* The batch is empty except between the first row taken and the commit.
BatchInv ==
  /\ writer \in {"start", "wait", "prune", "stop", "empty", "closed"} => batch = <<>>
  /\ writer = "insert" => batch # <<>>

\* Whoever has read stop as unset has its rows stored when the writer ends.
CloseInv ==
  /\ \A t \in Closers : promised[t] <= Len(accepted)
  /\ \A t \in Closers : closer[t] \in {"join", "returned"} => stop
  /\ writer \in {"empty", "closed"} => stop
  /\ writer = "closed" =>
       \A t \in Closers : closer[t] \in {"set", "join", "returned"} => promised[t] <= Stored
  /\ \A t \in Closers : closer[t] = "returned" => writer \in {"closed", "dead"}

\* Pruning finds two rows at least, if the threshold allows for two.
PruneInv ==
  /\ dropped = <<>> => pages = Len(db)
  /\ Threshold >= 2 /\ dropped # <<>> => db # <<>>
  /\ Threshold >= 2 /\ dropped # <<>> /\ writer = "prune" => Len(db) >= 2

IInv == TypeOK /\ Conserved /\ BatchInv /\ CloseInv /\ PruneInv
-----------------------------------------------------------------------------
\* A number of a row counts the rows that its logger has logged.
LEMMA RowNumber ==
  ASSUME TypeOK, NEW t \in Loggers, Cardinality(RowsOf(t)) < MaxRows
  PROVE  [by |-> t, n |-> Cardinality(RowsOf(t)) + 1] \in Row
<1>1. Len(accepted) \in Nat
  BY LenProperties DEF TypeOK
<1>2. IsFiniteSet(1 .. Len(accepted))
  BY <1>1, FS_Interval
<1>3. IsFiniteSet(RowsOf(t))
  BY <1>2, FS_Subset DEF RowsOf
<1>4. Cardinality(RowsOf(t)) \in Nat
  BY <1>3, FS_CardinalityType
<1>5. QED
  BY <1>4, MaxRowsAssumption DEF Row

\* Concatenation of four sequences, whatever the parentheses; what was moved
\* from the front of one to the end of the one before is not lost.
LEMMA MoveHead ==
  ASSUME NEW S, NEW a \in Seq(S), NEW b \in Seq(S), b # <<>>
  PROVE  Append(a, Head(b)) \o Tail(b) = a \o b
<1>1. /\ Head(b) \in S /\ Tail(b) \in Seq(S) /\ Len(Tail(b)) = Len(b) - 1
      /\ \A i \in 1 .. Len(Tail(b)) : Tail(b)[i] = b[i+1]
      /\ Head(b) = b[1]
  BY HeadTailProperties
<1>2. Append(a, Head(b)) \in Seq(S) /\ a \o b \in Seq(S)
      /\ Append(a, Head(b)) \o Tail(b) \in Seq(S)
  BY <1>1, AppendProperties, ConcatProperties
<1>3. Len(a) \in Nat /\ Len(b) \in Nat \ {0}
  BY LenProperties, EmptySeq
<1>4. Len(Append(a, Head(b)) \o Tail(b)) = Len(a \o b)
  BY <1>1, <1>2, <1>3, AppendProperties, ConcatProperties
<1>5. ASSUME NEW i \in 1 .. Len(a \o b)
      PROVE  (Append(a, Head(b)) \o Tail(b))[i] = (a \o b)[i]
  <2>1. i \in 1 .. Len(a) + Len(b) /\ Len(Append(a, Head(b))) = Len(a) + 1
    BY <1>1, <1>3, <1>5, ConcatProperties, AppendProperties
  <2>2. CASE i <= Len(a)
    BY <1>1, <1>2, <1>3, <2>1, <2>2, ConcatProperties, AppendProperties
  <2>3. CASE i = Len(a) + 1
    BY <1>1, <1>2, <1>3, <2>1, <2>3, ConcatProperties, AppendProperties
  <2>4. CASE i > Len(a) + 1
    <3>1. (Append(a, Head(b)) \o Tail(b))[i] = Tail(b)[i - (Len(a) + 1)]
      BY <1>1, <1>2, <1>3, <2>1, <2>4, ConcatProperties
    <3>2. (a \o b)[i] = b[i - Len(a)]
      BY <1>3, <2>1, <2>4, ConcatProperties
    <3>3. QED
      BY <1>1, <1>3, <2>1, <2>4, <3>1, <3>2
  <2>5. QED
    BY <1>3, <2>1, <2>2, <2>3, <2>4
<1>6. QED
  BY <1>2, <1>4, <1>5, SeqEqual

\* A sequence is its first n elements and the others.
LEMMA Split ==
  ASSUME NEW S, NEW s \in Seq(S), NEW n \in 0 .. Len(s)
  PROVE  /\ SubSeq(s, 1, n) \in Seq(S) /\ Len(SubSeq(s, 1, n)) = n
         /\ SubSeq(s, n + 1, Len(s)) \in Seq(S)
         /\ Len(SubSeq(s, n + 1, Len(s))) = Len(s) - n
         /\ SubSeq(s, 1, n) \o SubSeq(s, n + 1, Len(s)) = s
<1>1. Len(s) \in Nat /\ \A i \in 1 .. Len(s) : s[i] \in S
  BY LenProperties, ElementOfSeq
<1>2. SubSeq(s, 1, n) \in Seq(S) /\ Len(SubSeq(s, 1, n)) = n
  BY <1>1, SubSeqProperties
<1>3. SubSeq(s, n + 1, Len(s)) \in Seq(S) /\ Len(SubSeq(s, n + 1, Len(s))) = Len(s) - n
  BY <1>1, SubSeqProperties
<1>4. SubSeq(s, 1, n) \o SubSeq(s, n + 1, Len(s)) = SubSeq(s, 1, Len(s))
  <2>1. 1 \in 1 .. Len(s) + 1 /\ n \in 1 - 1 .. Len(s) /\ Len(s) \in n .. Len(s)
    BY <1>1
  <2>2. QED
    BY <2>1, ConcatAdjacentSubSeq
<1>5. QED
  BY <1>2, <1>3, <1>4, SubSeqFull

\* The middle of three sequences.
LEMMA Middle ==
  ASSUME NEW S, NEW a \in Seq(S), NEW b \in Seq(S), NEW c \in Seq(S)
  PROVE  SubSeq(a \o b \o c, Len(a) + 1, Len(a) + Len(b)) = b
<1>1. /\ Len(a) \in Nat /\ Len(b) \in Nat /\ Len(c) \in Nat
      /\ a \o b \in Seq(S) /\ Len(a \o b) = Len(a) + Len(b)
      /\ \A i \in 1 .. Len(a) + Len(b) :
           (a \o b)[i] = IF i <= Len(a) THEN a[i] ELSE b[i - Len(a)]
  BY LenProperties, ConcatProperties
<1>2. /\ a \o b \o c \in Seq(S)
      /\ Len(a \o b \o c) = Len(a) + Len(b) + Len(c)
      /\ \A i \in 1 .. Len(a) + Len(b) : (a \o b \o c)[i] = (a \o b)[i]
  BY <1>1, ConcatProperties
<1> DEFINE m == SubSeq(a \o b \o c, Len(a) + 1, Len(a) + Len(b))
<1>3. \A i \in Len(a) + 1 .. Len(a) + Len(b) : (a \o b \o c)[i] \in S
  BY <1>1, <1>2, ElementOfSeq
<1>4. /\ m \in Seq(S)
      /\ Len(m) = Len(b)
      /\ \A i \in 1 .. Len(b) : m[i] = (a \o b \o c)[Len(a) + i]
  BY <1>1, <1>3, SubSeqProperties
<1>5. \A i \in 1 .. Len(b) : m[i] = b[i]
  BY <1>1, <1>2, <1>4
<1>6. QED
  BY <1>4, <1>5, SeqEqual

\* A fifth, and one at least.
LEMMA Fifth ==
  ASSUME NEW n \in Nat \ {0}
  PROVE  Larger(1, n \div 5) \in 1 .. n /\ (n >= 2 => Larger(1, n \div 5) < n)
<1>1. n \div 5 \in Nat /\ 5 * (n \div 5) <= n
  OBVIOUS
<1>2. QED
  BY <1>1 DEF Larger

-----------------------------------------------------------------------------
LEMMA Start == Init => IInv
<1> SUFFICES ASSUME Init PROVE IInv
  OBVIOUS
<1>1. TypeOK
  BY EmptySeq DEF Init, TypeOK, WriterPC, CloserPC
<1>2. Conserved
  BY ConcatEmptySeq, EmptySeq DEF Init, Conserved
<1>3. BatchInv /\ CloseInv /\ PruneInv
  BY EmptySeq DEF Init, BatchInv, CloseInv, PruneInv
<1>4. QED
  BY <1>1, <1>2, <1>3 DEF IInv

LEMMA LogStep == \A t \in Loggers : IInv /\ Log(t) => IInv'
<1> SUFFICES ASSUME NEW t \in Loggers, IInv, Log(t) PROVE IInv'
  OBVIOUS
<1> DEFINE row == [by |-> t, n |-> Cardinality(RowsOf(t)) + 1]
<1>1. row \in Row
  BY RowNumber DEF Log, IInv
<1>2. /\ queue' = Append(queue, row) /\ accepted' = Append(accepted, row)
      /\ UNCHANGED <<stop, writer, batch, db, pages, closer, dropped, promised>>
  BY DEF Log
<1>3. queue \in Seq(Row) /\ accepted \in Seq(Row) /\ db \in Seq(Row)
      /\ batch \in Seq(Row) /\ dropped \in Seq(Row)
  BY DEF IInv, TypeOK
<1> HIDE DEF row
<1>4. /\ queue' \in Seq(Row) /\ accepted' \in Seq(Row)
      /\ Len(accepted') = Len(accepted) + 1 /\ Len(accepted) \in Nat
  BY <1>1, <1>2, <1>3, AppendProperties, LenProperties
<1>5. TypeOK'
  BY <1>2, <1>4 DEF IInv, TypeOK
<1>6. Conserved'
  <2>1. dropped \o db \o batch \in Seq(Row) /\ <<row>> \in Seq(Row)
    BY <1>1, <1>3, ConcatProperties
  <2>2. accepted' = accepted \o <<row>> /\ queue' = queue \o <<row>>
    BY <1>1, <1>2, <1>3, AppendIsConcat
  <2>3. PICK front \in Seq(Row) : front = dropped \o db \o batch
    BY <2>1
  <2>4. PICK last \in Seq(Row) : last = <<row>>
    BY <2>1
  <2>5. (front \o queue) \o last = front \o (queue \o last)
    <3>1. queue \in Seq(Row)
      BY <1>3
    <3>2. QED
      BY <3>1, ConcatAssociative
  <2>6. accepted = front \o queue
    BY <2>3 DEF IInv, Conserved
  <2>7. accepted' = front \o queue'
    BY <2>2, <2>4, <2>5, <2>6
  <2>8. QED
    BY <1>2, <2>3, <2>7 DEF Conserved
<1>7. BatchInv' /\ PruneInv'
  BY <1>2 DEF IInv, BatchInv, PruneInv
<1>8. CloseInv'
  BY <1>2, <1>4 DEF IInv, TypeOK, CloseInv, Stored
<1>9. QED
  BY <1>5, <1>6, <1>7, <1>8 DEF IInv

LEMMA CloseStep == \A t \in Closers : IInv /\ Close(t) => IInv'
<1> SUFFICES ASSUME NEW t \in Closers, IInv, Close(t) PROVE IInv'
  OBVIOUS
<1>1. UNCHANGED <<queue, writer, batch, db, pages, accepted, dropped>>
  BY DEF Close, CloseTest, CloseSet, CloseJoin
<1>2. Len(accepted) \in Nat
  BY LenProperties DEF IInv, TypeOK
<1>3. TypeOK'
  BY <1>1, <1>2 DEF Close, CloseTest, CloseSet, CloseJoin, IInv, TypeOK, CloserPC
<1>4. Conserved' /\ BatchInv' /\ PruneInv'
  BY <1>1 DEF IInv, Conserved, BatchInv, PruneInv
<1>5. CloseInv'
  <2>1. CASE CloseTest(t)
    <3>1. stop' = stop /\ promised' = [promised EXCEPT ![t] = Len(accepted)]
          /\ closer' = [closer EXCEPT ![t] = IF stop THEN "turned_away" ELSE "set"]
      BY <2>1 DEF CloseTest
    <3>2. writer = "closed" => closer'[t] = "turned_away"
      BY <3>1 DEF IInv, CloseInv, TypeOK
    <3>3. closer'[t] \in {"turned_away", "set"} /\ promised'[t] = Len(accepted)
          /\ \A u \in Closers \ {t} : closer'[u] = closer[u] /\ promised'[u] = promised[u]
      BY <3>1 DEF IInv, TypeOK
    <3>4. QED
      BY <1>1, <1>2, <3>1, <3>2, <3>3 DEF IInv, TypeOK, CloseInv, Stored
  <2>2. CASE CloseSet(t)
    BY <1>1, <2>2 DEF CloseSet, IInv, TypeOK, CloseInv, Stored
  <2>3. CASE CloseJoin(t)
    BY <1>1, <2>3 DEF CloseJoin, IInv, TypeOK, CloseInv, Stored
  <2>4. QED
    BY <2>1, <2>2, <2>3 DEF Close
<1>6. QED
  BY <1>3, <1>4, <1>5 DEF IInv

\* The steps of the writer that move no row.
Idle ==
  \/ WriterStart \/ WriterWait \/ WriterTookAll \/ WriterReadStop \/ WriterReadEmpty
  \/ WriterFails

LEMMA IdleStep == IInv /\ Idle => IInv'
<1> SUFFICES ASSUME IInv, Idle PROVE IInv'
  OBVIOUS
<1> USE DEF Idle, WriterStart, WriterWait, WriterTookAll, WriterReadStop,
            WriterReadEmpty, WriterFails, callers
<1>1. UNCHANGED <<queue, stop, batch, db, pages, dropped, closer, accepted, promised>>
  OBVIOUS
<1>2. TypeOK'
  BY <1>1 DEF IInv, TypeOK, WriterPC
<1>3. Conserved' /\ BatchInv' /\ PruneInv'
  BY <1>1 DEF IInv, Conserved, BatchInv, PruneInv
<1>4. CloseInv'
  <2>1. writer' = "closed" => Len(accepted) = Stored
    <3> SUFFICES ASSUME writer' = "closed" PROVE Len(accepted) = Stored
      OBVIOUS
    <3>1. writer = "empty" /\ queue = <<>> /\ batch = <<>>
      BY DEF IInv, BatchInv
    <3>2. dropped \in Seq(Row) /\ db \in Seq(Row) /\ dropped \o db \in Seq(Row)
      BY ConcatProperties DEF IInv, TypeOK
    <3>3. accepted = dropped \o db
      BY <3>1, <3>2, ConcatEmptySeq DEF IInv, Conserved
    <3>4. QED
      BY <3>2, <3>3, ConcatProperties DEF Stored
  <2>2. Stored' = Stored
    BY <1>1 DEF Stored
  <2>3. writer \notin {"closed", "dead"} /\ (writer' \in {"empty", "closed"} => stop)
    BY DEF IInv, CloseInv
  <2>4. QED
    BY <1>1, <2>1, <2>2, <2>3 DEF IInv, CloseInv
<1>5. QED
  BY <1>2, <1>3, <1>4 DEF IInv

LEMMA TakeStep == IInv /\ WriterTake => IInv'
<1> SUFFICES ASSUME IInv, WriterTake PROVE IInv'
  OBVIOUS
<1>1. /\ writer = "take" /\ queue # <<>>
      /\ batch' = Append(batch, Head(queue)) /\ queue' = Tail(queue)
      /\ UNCHANGED <<stop, writer, db, pages, dropped, closer, accepted, promised>>
  BY DEF WriterTake, callers
<1>2. queue \in Seq(Row) /\ db \in Seq(Row) /\ batch \in Seq(Row) /\ dropped \in Seq(Row)
  BY DEF IInv, TypeOK
<1>3. queue' \in Seq(Row) /\ batch' \in Seq(Row)
  BY <1>1, <1>2, HeadTailProperties, AppendProperties
<1>4. TypeOK'
  BY <1>1, <1>3 DEF IInv, TypeOK
<1>5. Conserved'
  <2>1. batch' \o queue' = batch \o queue
    BY <1>1, <1>2, MoveHead
  <2>2. dropped \o db \in Seq(Row)
    BY <1>2, ConcatProperties
  <2>3. dropped \o db \o batch \o queue = dropped \o db \o (batch \o queue)
    BY <1>2, <2>2, ConcatAssociative, SMTT(30)
  <2>4. dropped \o db \o batch' \o queue' = dropped \o db \o (batch' \o queue')
    BY <1>3, <2>2, ConcatAssociative, SMTT(30)
  <2>5. QED
    BY <1>1, <2>1, <2>3, <2>4 DEF IInv, Conserved
<1>6. BatchInv' /\ PruneInv' /\ CloseInv'
  BY <1>1 DEF IInv, BatchInv, PruneInv, CloseInv, Stored
<1>7. QED
  BY <1>4, <1>5, <1>6 DEF IInv

LEMMA InsertStep == IInv /\ WriterInsert => IInv'
<1> SUFFICES ASSUME IInv, WriterInsert PROVE IInv'
  OBVIOUS
<1>1. /\ writer = "insert" /\ writer' = "prune"
      /\ db' = db \o batch /\ batch' = <<>>
      /\ pages' = Larger(pages, Len(db'))
      /\ UNCHANGED <<queue, stop, dropped, closer, accepted, promised>>
  BY DEF WriterInsert, callers
<1>2. queue \in Seq(Row) /\ db \in Seq(Row) /\ batch \in Seq(Row) /\ dropped \in Seq(Row)
      /\ batch # <<>> /\ pages \in Nat
  BY <1>1 DEF IInv, TypeOK, BatchInv
<1>3. db' \in Seq(Row) /\ batch' \in Seq(Row) /\ Len(db) \in Nat /\ Len(batch) \in Nat \ {0}
      /\ Len(db') = Len(db) + Len(batch)
  BY <1>1, <1>2, ConcatProperties, EmptySeq, LenProperties
<1>4. pages' \in Nat /\ (pages = Len(db) => pages' = Len(db'))
  BY <1>1, <1>2, <1>3 DEF Larger
<1>5. TypeOK'
  BY <1>1, <1>3, <1>4 DEF IInv, TypeOK, WriterPC
<1>6. Conserved'
  <2>1. dropped \o (db \o batch) = dropped \o db \o batch
    BY <1>2, ConcatAssociative, SMTT(30)
  <2>2. dropped \o db' \in Seq(Row)
    BY <1>2, <1>3, ConcatProperties
  <2>3. dropped \o db' \o batch' = dropped \o db'
    BY <1>1, <2>2, ConcatEmptySeq
  <2>4. QED
    BY <1>1, <2>1, <2>3 DEF IInv, Conserved
<1>7. BatchInv'
  BY <1>1 DEF BatchInv
<1>8. PruneInv'
  <2>1. db = <<>> <=> Len(db) = 0
    BY <1>2, EmptySeq
  <2>2. db' # <<>>
    BY <1>3, EmptySeq
  <2>3. QED
    BY <1>1, <1>3, <1>4, <2>1, <2>2 DEF IInv, PruneInv
<1>9. CloseInv'
  BY <1>1 DEF IInv, CloseInv
<1>10. QED
  BY <1>5, <1>6, <1>7, <1>8, <1>9 DEF IInv

LEMMA PruneStep == IInv /\ WriterPrune => IInv'
<1> SUFFICES ASSUME IInv, WriterPrune PROVE IInv'
  OBVIOUS
<1>1. /\ writer = "prune" /\ writer' = "stop"
      /\ UNCHANGED <<queue, stop, batch, pages, closer, accepted, promised>>
  BY DEF WriterPrune, callers
<1>2. queue \in Seq(Row) /\ db \in Seq(Row) /\ batch \in Seq(Row) /\ dropped \in Seq(Row)
      /\ pages \in Nat
  BY DEF IInv, TypeOK
<1>3. BatchInv' /\ CloseInv'
  BY <1>1 DEF IInv, BatchInv, CloseInv
<1>4. CASE UNCHANGED <<db, dropped>>
  BY <1>1, <1>3, <1>4 DEF IInv, TypeOK, WriterPC, Conserved, PruneInv
<1>5. CASE ~UNCHANGED <<db, dropped>>
  <2>1. /\ pages >= Threshold /\ db # <<>>
        /\ dropped' = dropped \o SubSeq(db, 1, ToDelete)
        /\ db' = SubSeq(db, ToDelete + 1, Len(db))
    <3>1. ~(pages < Threshold \/ db = <<>>)
      BY <1>5 DEF WriterPrune
    <3>2. pages >= Threshold /\ db # <<>>
      BY <1>2, <3>1, ThresholdAssumption
    <3>3. QED
      BY <3>1, <3>2, Zenon DEF WriterPrune
  <2>2. Len(db) \in Nat \ {0}
    BY <1>2, <2>1, EmptySeq
  <2>3. ToDelete \in 1 .. Len(db) /\ (Len(db) >= 2 => ToDelete < Len(db))
    BY <2>2, Fifth DEF ToDelete
  <2>4. /\ SubSeq(db, 1, ToDelete) \in Seq(Row) /\ Len(SubSeq(db, 1, ToDelete)) = ToDelete
        /\ db' \in Seq(Row) /\ Len(db') = Len(db) - ToDelete
        /\ SubSeq(db, 1, ToDelete) \o db' = db
    BY <1>2, <2>1, <2>3, Split, SMTT(30)
  <2>5. dropped' \in Seq(Row) /\ Len(dropped') = Len(dropped) + ToDelete /\ Len(dropped) \in Nat
    BY <1>2, <2>1, <2>4, ConcatProperties, LenProperties
  <2>6. TypeOK'
    BY <1>1, <2>4, <2>5 DEF IInv, TypeOK, WriterPC
  <2>7. dropped' \o db' = dropped \o db
    <3>1. PICK oldest \in Seq(Row) : dropped' = dropped \o oldest /\ oldest \o db' = db
      BY <2>1, <2>4
    <3>2. db' \in Seq(Row)
      BY <2>4
    <3>3. (dropped \o oldest) \o db' = dropped \o (oldest \o db')
      BY <1>2, <3>2, ConcatAssociative, SMTT(30)
    <3>4. QED
      BY <3>1, <3>3
  <2>8. Conserved'
    BY <1>1, <2>7 DEF IInv, Conserved
  <2>9. PruneInv'
    <3>1. dropped' # <<>>
      BY <2>3, <2>5, EmptySeq
    <3>2. Threshold >= 2 => Len(db) >= 2
      BY <1>1, <1>2, <2>1, <2>2, ThresholdAssumption DEF IInv, PruneInv
    <3>3. Threshold >= 2 => db' # <<>>
      BY <2>2, <2>3, <2>4, <3>2, EmptySeq
    <3>4. QED
      BY <1>1, <3>1, <3>3 DEF PruneInv
  <2>10. QED
    BY <1>3, <2>6, <2>8, <2>9 DEF IInv
<1>6. QED
  BY <1>4, <1>5

THEOREM Invariance == Spec => []IInv
<1>1. IInv /\ [Next]_vars => IInv'
  <2> SUFFICES ASSUME IInv, [Next]_vars PROVE IInv'
    OBVIOUS
  <2>1. CASE UNCHANGED vars
    BY <2>1 DEF vars, IInv, TypeOK, Conserved, BatchInv, CloseInv, PruneInv, Stored
  <2>2. CASE Next
    BY <2>2, LogStep, CloseStep, IdleStep, TakeStep, InsertStep, PruneStep
       DEF Next, Writer, Idle
  <2>3. QED
    BY <2>1, <2>2
<1>2. QED
  BY <1>1, Start, PTL DEF Spec

\* The store is well typed.
THEOREM TypeCorrect == Spec => []TypeOK
BY Invariance, PTL DEF IInv

\* No row is lost, doubled or reordered, by any number of threads.
THEOREM RowsConserved == Spec => []Conserved
BY Invariance, PTL DEF IInv

\* close() returns with the rows logged before it in the database.
THEOREM CloseStores == Spec => []CloseFlushes
<1>1. IInv => CloseFlushes
  BY DEF IInv, CloseInv, CloseFlushes, Stored
<1>2. QED
  BY <1>1, Invariance, PTL

-----------------------------------------------------------------------------
\* The table is the middle of what was logged.
LEMMA TableIsStretch ==
  IInv => /\ Len(dropped) \in 0 .. Len(accepted)
          /\ db = Abstract!Stretch(Len(dropped), Len(db))
<1> SUFFICES ASSUME IInv
             PROVE  /\ Len(dropped) \in 0 .. Len(accepted)
                    /\ db = Abstract!Stretch(Len(dropped), Len(db))
  OBVIOUS
<1>1. queue \in Seq(Row) /\ db \in Seq(Row) /\ batch \in Seq(Row) /\ dropped \in Seq(Row)
  BY DEF IInv, TypeOK
<1> DEFINE rest == batch \o queue
<1>2. rest \in Seq(Row) /\ dropped \o db \in Seq(Row)
  BY <1>1, ConcatProperties
<1>3. accepted = dropped \o db \o rest
  BY <1>1, <1>2, ConcatAssociative, SMTT(30) DEF IInv, Conserved
<1> HIDE DEF rest
<1>4. /\ Len(accepted) = Len(dropped) + Len(db) + Len(rest)
      /\ Len(dropped) \in Nat /\ Len(db) \in Nat /\ Len(rest) \in Nat
  BY <1>1, <1>2, <1>3, ConcatProperties, LenProperties
<1>5. SubSeq(accepted, Len(dropped) + 1, Len(dropped) + Len(db)) = db
  BY <1>1, <1>2, <1>3, Middle
<1>6. QED
  BY <1>4, <1>5 DEF Abstract!Stretch

LEMMA InsertRefines == IInv /\ WriterInsert => Abstract!Store
<1> SUFFICES ASSUME IInv, WriterInsert PROVE Abstract!Store
  OBVIOUS
<1>1. UNCHANGED <<accepted, dropped>> /\ db' = db \o batch
  BY DEF WriterInsert, callers
<1>2. IInv'
  BY InsertStep
<1>3. Len(dropped) \in 0 .. Len(accepted) /\ db = Abstract!Stretch(Len(dropped), Len(db))
  BY TableIsStretch
<1>4. db' = Abstract!Stretch(Len(dropped), Len(db'))
  <2>1. IInv' => (db = Abstract!Stretch(Len(dropped), Len(db)))'
    BY TableIsStretch, PTL
  <2>2. QED
    BY <1>1, <1>2, <2>1 DEF Abstract!Stretch
<1>5. Len(db') \in Len(db) .. Len(accepted) - Len(dropped)
  <2>1. PICK q \in Seq(Row) : q = queue
    BY DEF IInv, TypeOK
  <2>2. db \in Seq(Row) /\ batch \in Seq(Row) /\ dropped \in Seq(Row) /\ queue \in Seq(Row)
    BY DEF IInv, TypeOK
  <2>3. dropped \o db \in Seq(Row) /\ dropped \o db \o batch \in Seq(Row)
    BY <2>2, ConcatProperties
  <2>4. Len(accepted) = Len(dropped) + Len(db) + Len(batch) + Len(queue)
    BY <2>2, <2>3, ConcatProperties DEF IInv, Conserved
  <2>5. QED
    BY <1>1, <2>2, <2>4, ConcatProperties, LenProperties
<1>6. QED
  BY <1>1, <1>3, <1>4, <1>5 DEF Abstract!Store

LEMMA PruneRefines == IInv /\ WriterPrune => [Abstract!Expire]_Abstract!evars
<1> SUFFICES ASSUME IInv, WriterPrune, ~UNCHANGED <<db, dropped>> PROVE Abstract!Expire
  BY DEF Abstract!evars, WriterPrune, callers
<1>1. ~(pages < Threshold \/ db = <<>>) /\ UNCHANGED accepted
  BY DEF WriterPrune, callers
<1>2. db' = SubSeq(db, ToDelete + 1, Len(db))
  BY <1>1 DEF WriterPrune
<1>3. Len(db) \in Nat \ {0}
  BY <1>1, EmptySeq DEF IInv, TypeOK
<1>4. ToDelete \in 1 .. Len(db)
  BY <1>3, Fifth DEF ToDelete
<1>5. QED
  BY <1>1, <1>2, <1>4 DEF Abstract!Expire

\* The store implements EventLog.
THEOREM Refinement == Spec => KeepsEventLog
<1>1. Init => Abstract!Init
  BY DEF Init, Abstract!Init
<1>2. IInv /\ [Next]_vars => [Abstract!Next]_Abstract!evars
  <2> SUFFICES ASSUME IInv, [Next]_vars PROVE [Abstract!Next]_Abstract!evars
    OBVIOUS
  <2>1. CASE UNCHANGED vars
    BY <2>1 DEF vars, Abstract!evars
  <2>2. CASE \E t \in Loggers : Log(t)
    <3>1. PICK t \in Loggers : Log(t)
      BY <2>2
    <3>2. [by |-> t, n |-> Cardinality(RowsOf(t)) + 1] \in Row
      BY <3>1, RowNumber DEF Log, IInv
    <3>3. Abstract!Log
      BY <3>1, <3>2 DEF Log, Abstract!Log
    <3>4. QED
      BY <3>3 DEF Abstract!Next
  <2>3. CASE (\E t \in Closers : Close(t)) \/ Idle \/ WriterTake
    <3>1. UNCHANGED <<accepted, db>>
      BY <2>3 DEF Close, CloseTest, CloseSet, CloseJoin, Idle, WriterStart, WriterWait,
         WriterTookAll, WriterReadStop, WriterReadEmpty, WriterFails, WriterTake, callers
    <3>2. QED
      BY <3>1 DEF Abstract!evars
  <2>4. CASE WriterInsert
    BY <2>4, InsertRefines DEF Abstract!Next
  <2>5. CASE WriterPrune
    BY <2>5, PruneRefines DEF Abstract!Next
  <2>6. QED
    BY <2>1, <2>2, <2>3, <2>4, <2>5 DEF Next, Writer, Idle
<1>3. QED
  BY <1>1, <1>2, Invariance, PTL DEF Spec, KeepsEventLog, Abstract!Spec

\* Pruning leaves the newest row, whatever the threshold above one page.
THEOREM NewestKept == Spec => []NewestStays
<1>1. IInv => NewestStays
  BY DEF IInv, PruneInv, NewestStays
<1>2. QED
  BY <1>1, Invariance, PTL

\* The rows that are kept, for any number of threads and any threshold.
THEOREM RowsStayKept == Spec => []RowsKept
BY RowsConserved, NewestKept, PTL DEF RowsKept

-----------------------------------------------------------------------------
(***************************************************************************)
(* The tab of the web page that shows the log.                             *)
(***************************************************************************)
(***************************************************************************)
(* The fields of a grid; what they hold is left open.                      *)
(***************************************************************************)
Shape(g) == g = [above |-> g.above, rows |-> g.rows, below |-> g.below,
                 total |-> g.total, asOf |-> g.asOf]

Counts ==
  /\ asked \in Nat /\ applied \in Nat /\ applied <= asked /\ stored \in Nat
  /\ Shape(grid) /\ Shape(next)

\* Requests are numbered, and not answered with more than the database has.
AsksAreNumbered ==
  \A r \in asks :
    /\ r \in [id : Nat, query : {r.query}, served : BOOLEAN, asOf : Nat]
    /\ r.id \in Nat /\ r.id <= asked
    /\ r.asOf \in 0 .. stored
    /\ r.id = asked => r.query = query

\* The latest request is on its way, or was answered, or failed.
LatestIsKnown ==
  \/ \E r \in asks : r.id = asked
  \/ "failed" \in mishaps
  \/ applied = asked

LatestIsShown ==
  applied = asked /\ mishaps \cap {"late", "failed", "batched"} = {} =>
    \E n \in 0 .. stored : next.rows = Answer(query, n)

Inv == Counts /\ AsksAreNumbered /\ LatestIsKnown /\ LatestIsShown

LEMMA InvInit == TabInit => Inv
  BY DEF TabInit, Inv, Counts, AsksAreNumbered, LatestIsKnown, LatestIsShown, Shape, NoRows,
     FirstQuery

\* A request for the rows that the controls will show.
LEMMA AskKeepsInv ==
  ASSUME Inv, NEW q, Ask(q), query' = q, UNCHANGED <<serverVars, shownVars, history>>
  PROVE  Inv'
<1> USE DEF Inv, serverVars, shownVars, history
<1>1. /\ asked' = asked + 1 /\ asked \in Nat
      /\ asks' = asks \cup {[id |-> asked + 1, query |-> q, served |-> FALSE, asOf |-> 0]}
  BY DEF Ask, Counts
<1>2. Counts'
  BY <1>1 DEF Counts, Shape
<1>3. AsksAreNumbered'
  <2> SUFFICES ASSUME NEW r \in asks'
               PROVE  /\ r \in [id : Nat, query : {r.query}, served : BOOLEAN, asOf : Nat]
                      /\ r.id \in Nat /\ r.id <= asked'
                      /\ r.asOf \in 0 .. stored'
                      /\ r.id = asked' => r.query = query'
    BY DEF AsksAreNumbered
  <2>1. CASE r \in asks
    BY <1>1, <2>1 DEF AsksAreNumbered, Counts
  <2>2. CASE r = [id |-> asked + 1, query |-> q, served |-> FALSE, asOf |-> 0]
    BY <1>1, <2>2 DEF Counts
  <2> QED BY <1>1, <2>1, <2>2
<1>4. LatestIsKnown'
  <2>1. [id |-> asked + 1, query |-> q, served |-> FALSE, asOf |-> 0].id = asked'
    BY <1>1
  <2> QED BY <1>1, <2>1 DEF LatestIsKnown
<1>5. LatestIsShown'
  BY <1>1 DEF LatestIsShown, Counts
<1> QED BY <1>2, <1>3, <1>4, <1>5

LEMMA InvNext == Inv /\ [TabNext]_tabVars => Inv'
<1> SUFFICES ASSUME Inv, [TabNext]_tabVars PROVE Inv'
  OBVIOUS
<1> USE DEF Inv
<1>1. CASE LogRow
  BY <1>1 DEF LogRow, clickVars, shownVars, askVars, history, Counts, AsksAreNumbered,
              LatestIsKnown, LatestIsShown, Shape
<1>2. CASE Store
  <2> USE <1>2 DEF Store, clickVars, shownVars, askVars, history
  <2>1. Counts'
    BY DEF Counts, Shape
  <2>2. stored \in Nat /\ stored' = stored + 1
    BY DEF Counts
  <2>3. AsksAreNumbered'
    BY <2>2 DEF AsksAreNumbered
  <2>4. LatestIsShown'
    BY <2>2 DEF LatestIsShown
  <2> QED BY <2>1, <2>3, <2>4 DEF LatestIsKnown
<1>3. CASE Disconnect
  BY <1>3 DEF Disconnect, clickVars, shownVars, askVars, Counts, AsksAreNumbered,
              LatestIsKnown, LatestIsShown, Shape
<1>4. ASSUME NEW r \in asks, Serve(r) PROVE Inv'
  <2> USE <1>4 DEF Serve, serverVars, clickVars, shownVars, history
  <2> DEFINE s == [r EXCEPT !.served = TRUE, !.asOf = stored]
  <2>1. Counts'
    BY DEF Counts, Shape
  <2>2. /\ s \in [id : Nat, query : {s.query}, served : BOOLEAN, asOf : Nat]
        /\ s.id = r.id /\ s.query = r.query /\ s.asOf = stored
    BY DEF AsksAreNumbered, Counts
  <2>3. asks' = (asks \ {r}) \cup {s} /\ stored \in 0 .. stored
    BY DEF Counts
  <2> HIDE DEF s
  <2>4. AsksAreNumbered'
    <3> SUFFICES ASSUME NEW x \in asks'
                 PROVE  /\ x \in [id : Nat, query : {x.query}, served : BOOLEAN, asOf : Nat]
                        /\ x.id \in Nat /\ x.id <= asked'
                        /\ x.asOf \in 0 .. stored'
                        /\ x.id = asked' => x.query = query'
      BY DEF AsksAreNumbered
    <3>1. CASE x \in asks
      BY <3>1 DEF AsksAreNumbered
    <3>2. CASE x = s
      BY <2>2, <2>3, <3>2 DEF AsksAreNumbered
    <3> QED BY <2>3, <3>1, <3>2
  <2>5. LatestIsKnown'
    BY <2>2, <2>3 DEF LatestIsKnown
  <2>6. LatestIsShown'
    BY DEF LatestIsShown
  <2> QED BY <2>1, <2>4, <2>5, <2>6
<1>5. ASSUME NEW r \in asks, Receive(r) PROVE Inv'
  <2> USE <1>5 DEF Receive, serverVars, clickVars
  <2>1. /\ r.id \in Nat /\ r.id <= asked /\ r.asOf \in 0 .. stored
        /\ r.id = asked => r.query = query
    BY DEF AsksAreNumbered
  <2>2. /\ asked \in Nat /\ applied \in Nat /\ applied <= asked
        /\ applied' = IF r.id < applied THEN applied ELSE r.id
    BY DEF Counts
  <2>3. Counts'
    BY <2>1, <2>2 DEF Counts, Shape
  <2>4. AsksAreNumbered'
    BY DEF AsksAreNumbered
  <2>5. LatestIsKnown'
    <3>1. CASE r.id = asked
      BY <2>2, <3>1 DEF LatestIsKnown
    <3>2. CASE r.id # asked
      <4>1. mishaps \subseteq mishaps'
        BY <3>2 DEF Repaired
      <4>2. applied = asked => applied' = asked
        BY <2>1, <2>2, <3>2
      <4> QED BY <3>2, <4>1, <4>2 DEF LatestIsKnown
    <3> QED BY <3>1, <3>2
  <2>6. LatestIsShown'
    <3>1. "late" \notin mishaps' /\ applied' = asked => r.id = asked
      BY <2>1, <2>2 DEF Overtaken
    <3>2. next'.rows = Answer(r.query, r.asOf)
      OBVIOUS
    <3> QED BY <2>1, <3>1, <3>2 DEF LatestIsShown
  <2> QED BY <2>3, <2>4, <2>5, <2>6
<1>6. ASSUME NEW r \in asks, AskFails(r) PROVE Inv'
  BY <1>6 DEF AskFails, serverVars, clickVars, shownVars, Counts, AsksAreNumbered,
              LatestIsKnown, LatestIsShown, Shape
<1>7. CASE HandleMessage
  <2> USE <1>7 DEF HandleMessage, clickVars, askVars
  <2>1. /\ UNCHANGED <<stored, query, grid, asks, asked, applied>>
        /\ mishaps \subseteq mishaps'
    OBVIOUS
  <2>2. Shape(next') /\ ("batched" \notin mishaps' => next'.rows = next.rows)
    <3>1. CASE query.page = 0 /\ Unfiltered(query)
      <4> DEFINE i == Head(pushed)
      <4>1. /\ Shape(WithMessage(grid, i))
            /\ WithMessage(grid, i).rows = grid.rows
        BY DEF WithMessage, Shape, Counts
      <4> QED BY <3>1, <4>1
    <3>2. CASE ~ (query.page = 0 /\ Unfiltered(query))
      BY <3>2 DEF Counts
    <3> QED BY <3>1, <3>2
  <2>3. Counts'
    BY <2>1, <2>2 DEF Counts, Shape
  <2>4. LatestIsShown'
    BY <2>1, <2>2 DEF LatestIsShown
  <2> QED BY <2>1, <2>3, <2>4 DEF AsksAreNumbered, LatestIsKnown
<1>8. CASE Render
  BY <1>8 DEF Render, serverVars, clickVars, askVars, history, Counts, AsksAreNumbered,
              LatestIsKnown, LatestIsShown, Shape
<1>9. ASSUME NEW q, Change(q) PROVE Inv'
  BY <1>9, AskKeepsInv DEF Change
<1>10. CASE HandleChange
  <2>1. CASE selected'
    BY <1>10, <2>1, AskKeepsInv DEF HandleChange
  <2>2. CASE ~ selected'
    BY <1>10, <2>2 DEF HandleChange, askVars, serverVars, shownVars, history, Counts,
                       AsksAreNumbered, LatestIsKnown, LatestIsShown, Shape
  <2> QED BY <2>1, <2>2
<1>11. CASE UNCHANGED tabVars
  BY <1>11 DEF tabVars, Counts, AsksAreNumbered, LatestIsKnown, LatestIsShown, Shape
<1> QED
  BY <1>1, <1>2, <1>3, <1>4, <1>5, <1>6, <1>7, <1>8, <1>9, <1>10, <1>11
  DEF TabNext, Server, User, Page, HandlePaginationModelChange, HandleSortModelChange,
      HandleFilterModelChange, HandleTypesChange, HandleLevelsChange

\* RowsAnswerQuestion holds in every behaviour: when no answer is awaited, the
\* rows are those that fetchMessages() asked for last (Messages.tsx:116-150).
THEOREM RowsAnswer == TabSpec => []RowsAnswerQuestion
<1>1. Inv => RowsAnswerQuestion
  BY DEF Inv, RowsAnswerQuestion, LatestIsKnown, LatestIsShown
<1> QED BY <1>1, InvInit, InvNext, PTL DEF TabSpec
-----------------------------------------------------------------------------
(***************************************************************************)
(* No message is missing.                                                  *)
(***************************************************************************)
LiveIn(g, i) ==
  \/ \E k \in DOMAIN g.above : g.above[k] = i
  \/ \E k \in DOMAIN g.below : g.below[k] = i

Lists ==
  /\ logged \in Nat /\ heard \in Nat /\ pushed \in Seq(Nat)
  /\ grid.above \in Seq(Nat) /\ grid.below \in Seq(Nat)
  /\ next.above \in Seq(Nat) /\ next.below \in Seq(Nat)

\* The messages that were logged after the last one that was heard, or lost, are on
\* their way, in their order.
OnTheirWay ==
  /\ heard <= logged
  /\ \A k \in 1 .. Len(pushed) : heard < pushed[k] /\ pushed[k] <= logged
  /\ \A j, k \in 1 .. Len(pushed) : j < k => pushed[j] < pushed[k]
  /\ \A i \in 1 .. logged : IsMessage(i) /\ heard < i =>
       \E k \in 1 .. Len(pushed) : pushed[k] = i

\* Those up to that one are on the page, if it shows the latest answer.
OnThePage ==
  mishaps = {} /\ applied = asked /\ query.page = 0 /\ Unfiltered(query) =>
    \A i \in 1 .. logged : IsMessage(i) /\ i <= heard => i <= next.asOf \/ LiveIn(next, i)

MessageInv == Inv /\ Lists /\ OnTheirWay /\ OnThePage

\* handleMessage() puts the message on the page and takes none away.
LEMMA MessageIsAdded ==
  ASSUME NEW g, Shape(g), g.above \in Seq(Nat), g.below \in Seq(Nat), NEW i \in Nat
  PROVE  /\ WithMessage(g, i).above \in Seq(Nat) /\ WithMessage(g, i).below \in Seq(Nat)
         /\ WithMessage(g, i).asOf = g.asOf
         /\ LiveIn(WithMessage(g, i), i)
         /\ \A j : LiveIn(g, j) => LiveIn(WithMessage(g, i), j)
<1>1. CASE query.sort = "asc"
  <2>1. /\ WithMessage(g, i).above = g.above /\ WithMessage(g, i).asOf = g.asOf
        /\ WithMessage(g, i).below = Append(g.below, i)
    BY <1>1 DEF WithMessage, Shape
  <2>2. /\ Append(g.below, i) \in Seq(Nat)
        /\ DOMAIN Append(g.below, i) = 1 .. Len(g.below) + 1
        /\ \A k \in DOMAIN g.below :
             k \in 1 .. Len(g.below) + 1 /\ Append(g.below, i)[k] = g.below[k]
        /\ Append(g.below, i)[Len(g.below) + 1] = i
        /\ Len(g.below) + 1 \in 1 .. Len(g.below) + 1
    OBVIOUS
  <2> QED BY <2>1, <2>2 DEF LiveIn
<1>2. CASE query.sort # "asc"
  <2>1. /\ WithMessage(g, i).below = g.below /\ WithMessage(g, i).asOf = g.asOf
        /\ WithMessage(g, i).above = <<i>> \o g.above
    BY <1>2 DEF WithMessage, Shape
  <2>2. /\ <<i>> \o g.above \in Seq(Nat)
        /\ DOMAIN (<<i>> \o g.above) = 1 .. Len(g.above) + 1
        /\ \A k \in DOMAIN g.above : k + 1 \in 1 .. Len(g.above) + 1
                                     /\ (<<i>> \o g.above)[k + 1] = g.above[k]
        /\ (<<i>> \o g.above)[1] = i /\ 1 \in 1 .. Len(g.above) + 1
    <3>1. <<i>> \in Seq(Nat) /\ Len(<<i>>) = 1 /\ <<i>>[1] = i
      OBVIOUS
    <3> DEFINE one == <<i>>
    <3> HIDE DEF one
    <3> QED BY <3>1, ConcatProperties, SMTT(30) DEF one
  <2> QED BY <2>1, <2>2 DEF LiveIn
<1> QED BY <1>1, <1>2

LEMMA MessageInvInit == TabInit => MessageInv
<1>1. TabInit => Lists /\ OnTheirWay /\ OnThePage
  BY DEF TabInit, Lists, OnTheirWay, OnThePage, NoRows
<1> QED BY <1>1, InvInit DEF MessageInv

\* A request for rows, which has a number that was not answered.
LEMMA AskKeepsMessages ==
  ASSUME MessageInv, NEW q, Ask(q), UNCHANGED <<serverVars, shownVars, history>>
  PROVE  Lists' /\ OnTheirWay' /\ OnThePage'
<1>1. UNCHANGED <<logged, pushed, grid, next, applied, heard, mishaps>> /\ asked' = asked + 1
  BY DEF Ask, serverVars, shownVars, history
<1>2. applied' # asked'
  BY <1>1 DEF MessageInv, Inv, Counts
<1>3. Lists'
  BY <1>1 DEF MessageInv, Lists
<1>4. OnTheirWay'
  BY <1>1 DEF MessageInv, OnTheirWay, IsMessage
<1>5. OnThePage'
  BY <1>2 DEF OnThePage
<1> QED BY <1>3, <1>4, <1>5

LEMMA MessageInvNext == MessageInv /\ [TabNext]_tabVars => MessageInv'
<1> SUFFICES ASSUME MessageInv, [TabNext]_tabVars PROVE Lists' /\ OnTheirWay' /\ OnThePage'
  BY InvNext DEF MessageInv
<1> USE DEF MessageInv
<1>1. CASE LogRow
  <2> USE <1>1 DEF LogRow, clickVars, shownVars, askVars, history
  <2>1. /\ logged \in Nat /\ logged' = logged + 1 /\ heard \in Nat /\ heard' = heard
        /\ pushed \in Seq(Nat)
        /\ pushed' = IF IsMessage(logged + 1) THEN Append(pushed, logged + 1) ELSE pushed
    BY DEF Lists
  <2>2. Lists'
    BY <2>1 DEF Lists
  <2>3. OnTheirWay'
    <3> SUFFICES /\ heard <= logged + 1
                 /\ \A k \in 1 .. Len(pushed') :
                      heard < pushed'[k] /\ pushed'[k] <= logged + 1
                 /\ \A j, k \in 1 .. Len(pushed') : j < k => pushed'[j] < pushed'[k]
                 /\ \A i \in 1 .. logged + 1 : IsMessage(i) /\ heard < i =>
                      \E k \in 1 .. Len(pushed') : pushed'[k] = i
      BY <2>1 DEF OnTheirWay, IsMessage
    <3>1. CASE IsMessage(logged + 1)
      <4>1. /\ Len(pushed') = Len(pushed) + 1 /\ Len(pushed) \in Nat
            /\ \A k \in 1 .. Len(pushed) : pushed'[k] = pushed[k] /\ pushed[k] \in Nat
            /\ pushed'[Len(pushed) + 1] = logged + 1
        BY <2>1, <3>1
      <4>2. /\ heard <= logged + 1
            /\ \A k \in 1 .. Len(pushed') : heard < pushed'[k] /\ pushed'[k] <= logged + 1
        BY <2>1, <4>1 DEF OnTheirWay
      <4>3. \A j, k \in 1 .. Len(pushed') : j < k => pushed'[j] < pushed'[k]
        BY <2>1, <4>1 DEF OnTheirWay
      <4>4. ASSUME NEW i \in 1 .. logged + 1, IsMessage(i), heard < i
            PROVE  \E k \in 1 .. Len(pushed') : pushed'[k] = i
        BY <2>1, <4>1, <4>4 DEF OnTheirWay
      <4> QED BY <4>2, <4>3, <4>4
    <3>2. CASE ~ IsMessage(logged + 1)
      BY <2>1, <3>2 DEF OnTheirWay
    <3> QED BY <3>1, <3>2
  <2>4. OnThePage'
    <3>1. heard <= logged
      BY DEF OnTheirWay
    <3>2. \A i \in 1 .. logged + 1 : i <= heard /\ heard <= logged => i \in 1 .. logged
      BY <2>1
    <3> QED BY <2>1, <3>1, <3>2 DEF OnThePage, IsMessage, Unfiltered
  <2> QED BY <2>2, <2>3, <2>4
<1>2. CASE Store
  BY <1>2 DEF Store, clickVars, shownVars, askVars, history, Lists, OnTheirWay, OnThePage,
              IsMessage
<1>3. CASE Disconnect
  <2> USE <1>3 DEF Disconnect, clickVars, shownVars, askVars
  <2> DEFINE last == pushed[Len(pushed)]
  <2>1. /\ pushed \in Seq(Nat) /\ Len(pushed) \in Nat \ {0} /\ logged \in Nat /\ heard \in Nat
        /\ last \in Nat /\ heard' = last /\ pushed' = <<>> /\ logged' = logged
        /\ \A k \in 1 .. Len(pushed) : pushed[k] \in Nat
    BY DEF Lists
  <2>2. Lists'
    BY <2>1 DEF Lists
  <2>3. last <= logged /\ heard < last
    BY <2>1 DEF OnTheirWay
  <2>4. ASSUME NEW i \in 1 .. logged, IsMessage(i), last < i PROVE FALSE
    <3>1. PICK k \in 1 .. Len(pushed) : pushed[k] = i
      BY <2>1, <2>3, <2>4 DEF OnTheirWay
    <3>2. k = Len(pushed) \/ pushed[k] < last
      BY <2>1 DEF OnTheirWay
    <3> QED BY <2>1, <2>4, <3>1, <3>2
  <2>5. OnTheirWay'
    BY <2>1, <2>3, <2>4 DEF OnTheirWay, IsMessage
  <2> QED BY <2>2, <2>5 DEF OnThePage
<1>4. ASSUME NEW r \in asks, Serve(r) PROVE Lists' /\ OnTheirWay' /\ OnThePage'
  BY <1>4 DEF Serve, serverVars, clickVars, shownVars, history, Lists, OnTheirWay, OnThePage,
              IsMessage
<1>5. ASSUME NEW r \in asks, Receive(r) PROVE Lists' /\ OnTheirWay' /\ OnThePage'
  <2> USE <1>5 DEF Receive, serverVars, clickVars
  <2>1. Lists'
    BY DEF Lists
  <2>2. OnTheirWay'
    BY DEF OnTheirWay, IsMessage
  <2>3. OnThePage'
    <3>1. r.asOf \in Nat /\ heard \in Nat /\ logged \in Nat /\ next'.asOf = r.asOf
      BY DEF Inv, AsksAreNumbered, Lists
    <3>2. mishaps' = {} => heard <= r.asOf
      <4>1. r.asOf < heard => "behind" \in mishaps'
        BY DEF Overtaken
      <4> QED BY <3>1, <4>1
    <3> QED BY <3>1, <3>2 DEF OnThePage
  <2> QED BY <2>1, <2>2, <2>3
<1>6. ASSUME NEW r \in asks, AskFails(r) PROVE Lists' /\ OnTheirWay' /\ OnThePage'
  BY <1>6 DEF AskFails, serverVars, clickVars, shownVars, Lists, OnTheirWay, OnThePage,
              IsMessage
<1>7. CASE HandleMessage
  <2> USE <1>7 DEF HandleMessage, clickVars, askVars
  <2> DEFINE i == pushed[1]
  <2>1. /\ pushed \in Seq(Nat) /\ Len(pushed) \in Nat \ {0} /\ i \in Nat /\ Head(pushed) = i
        /\ pushed' \in Seq(Nat) /\ Len(pushed') = Len(pushed) - 1
        /\ \A k \in 1 .. Len(pushed') : pushed'[k] = pushed[k + 1] /\ pushed[k + 1] \in Nat
        /\ logged \in Nat /\ logged' = logged /\ heard \in Nat /\ heard' = i
    BY SMTT(30) DEF Lists
  <2>2. Shape(grid) /\ Shape(next)
    BY DEF Inv, Counts
  <2>3. Lists'
    BY <2>1, <2>2, MessageIsAdded DEF Lists
  <2>4. OnTheirWay'
    <3> SUFFICES /\ i <= logged
                 /\ \A k \in 1 .. Len(pushed') : i < pushed'[k] /\ pushed'[k] <= logged
                 /\ \A j, k \in 1 .. Len(pushed') : j < k => pushed'[j] < pushed'[k]
                 /\ \A m \in 1 .. logged : IsMessage(m) /\ i < m =>
                      \E k \in 1 .. Len(pushed') : pushed'[k] = m
      BY <2>1 DEF OnTheirWay, IsMessage
    <3>1. i <= logged /\ \A k \in 1 .. Len(pushed') : i < pushed'[k] /\ pushed'[k] <= logged
      BY <2>1 DEF OnTheirWay
    <3>2. \A j, k \in 1 .. Len(pushed') : j < k => pushed'[j] < pushed'[k]
      BY <2>1 DEF OnTheirWay
    <3>3. ASSUME NEW m \in 1 .. logged, IsMessage(m), i < m
          PROVE  \E k \in 1 .. Len(pushed') : pushed'[k] = m
      <4>1. heard < i
        BY <2>1 DEF OnTheirWay
      <4>2. PICK k \in 1 .. Len(pushed) : pushed[k] = m
        BY <2>1, <3>3, <4>1 DEF OnTheirWay
      <4>3. k - 1 \in 1 .. Len(pushed') /\ pushed'[k - 1] = m
        BY <2>1, <3>3, <4>2
      <4> QED BY <4>3
    <3> QED BY <3>1, <3>2, <3>3
  <2>5. OnThePage'
    <3> SUFFICES ASSUME mishaps' = {}, applied = asked, query.page = 0, Unfiltered(query),
                        NEW m \in 1 .. logged, IsMessage(m), m <= i
                 PROVE  m <= next'.asOf \/ LiveIn(next', m)
      BY <2>1 DEF OnThePage, IsMessage, Unfiltered
    <3>1. grid = next /\ mishaps = {} /\ next' = WithMessage(next, i)
      BY <2>1
    <3>2. CASE m <= heard
      BY <2>1, <2>2, <3>1, <3>2, MessageIsAdded DEF OnThePage, Lists
    <3>3. CASE heard < m
      <4>1. PICK k \in 1 .. Len(pushed) : pushed[k] = m
        BY <2>1, <3>1, <3>3 DEF OnTheirWay
      <4>2. m = i
        BY <2>1, <3>1, <4>1 DEF OnTheirWay
      <4> QED BY <2>1, <2>2, <3>1, <4>2, MessageIsAdded DEF Lists
    <3> QED BY <2>1, <3>2, <3>3
  <2> QED BY <2>3, <2>4, <2>5
<1>8. CASE Render
  BY <1>8 DEF Render, serverVars, clickVars, askVars, history, Lists, OnTheirWay, OnThePage,
              IsMessage
<1>9. ASSUME NEW q, Change(q) PROVE Lists' /\ OnTheirWay' /\ OnThePage'
  BY <1>9, AskKeepsMessages DEF Change
<1>10. CASE HandleChange
  <2>1. CASE selected'
    BY <1>10, <2>1, AskKeepsMessages DEF HandleChange
  <2>2. CASE ~ selected'
    BY <1>10, <2>2 DEF HandleChange, askVars, serverVars, shownVars, history, Lists,
                       OnTheirWay, OnThePage, IsMessage
  <2> QED BY <2>1, <2>2
<1>11. CASE UNCHANGED tabVars
  BY <1>11 DEF tabVars, Lists, OnTheirWay, OnThePage, IsMessage
<1> QED
  BY <1>1, <1>2, <1>3, <1>4, <1>5, <1>6, <1>7, <1>8, <1>9, <1>10, <1>11
  DEF TabNext, Server, User, Page, HandlePaginationModelChange, HandleSortModelChange,
      HandleFilterModelChange, HandleTypesChange, HandleLevelsChange

\* NothingMissing holds in every behaviour: each message that was logged is on the
\* first page or was in the database when its rows were read (Messages.tsx:161-178).
THEOREM NoMessageIsMissing == TabSpec => []NothingMissing
<1>1. MessageInv => NothingMissing
  <2> SUFFICES ASSUME MessageInv, asks = {}, pushed = <<>>, mishaps = {}, query.page = 0,
                      Unfiltered(query), NEW i \in 1 .. logged, IsMessage(i)
               PROVE  i <= next.asOf \/ Live(i)
    BY DEF NothingMissing
  <2>1. applied = asked
    BY DEF MessageInv, Inv, LatestIsKnown
  <2>2. i <= heard
    BY DEF MessageInv, Lists, OnTheirWay
  <2>3. LiveIn(next, i) => Live(i)
    BY DEF LiveIn, Live
  <2> QED BY <2>1, <2>2, <2>3 DEF MessageInv, OnThePage
<1> QED BY <1>1, MessageInvInit, MessageInvNext, PTL DEF TabSpec

-----------------------------------------------------------------------------
(***************************************************************************)
(* What /logs answers.                                                     *)
(***************************************************************************)
Rows(q, n)    == {i \in 1 .. n : Passes(i, q)}
UpTo(q, n, i) == {j \in Rows(q, n) : IF q.sort = "asc" THEN j <= i ELSE i <= j}
Place(q, n)   == [i \in Rows(q, n) |-> Cardinality(UpTo(q, n, i))]

\* The rows that pass, and those of them up to a row, are finitely many.
LEMMA RowsAreFinite ==
  ASSUME NEW q, NEW n \in Nat
  PROVE  /\ IsFiniteSet(Rows(q, n)) /\ Cardinality(Rows(q, n)) \in Nat
         /\ Rows(q, n) \subseteq 1 .. n
         /\ \A i \in Rows(q, n) : /\ IsFiniteSet(UpTo(q, n, i))
                                  /\ Cardinality(UpTo(q, n, i)) \in 1 .. Cardinality(Rows(q, n))
<1>1. IsFiniteSet(1 .. n) /\ Rows(q, n) \subseteq 1 .. n
  BY FS_Interval DEF Rows
<1>2. IsFiniteSet(Rows(q, n))
  BY <1>1, FS_Subset
<1>3. Cardinality(Rows(q, n)) \in Nat
  BY <1>2, FS_CardinalityType
<1>4. ASSUME NEW i \in Rows(q, n)
      PROVE  /\ IsFiniteSet(UpTo(q, n, i))
             /\ Cardinality(UpTo(q, n, i)) \in 1 .. Cardinality(Rows(q, n))
  <2>1. i \in 1 .. n
    BY <1>1
  <2>2. UpTo(q, n, i) \subseteq Rows(q, n) /\ i \in UpTo(q, n, i)
    BY <2>1 DEF UpTo
  <2>3. /\ IsFiniteSet(UpTo(q, n, i))
        /\ Cardinality(UpTo(q, n, i)) <= Cardinality(Rows(q, n))
    BY <1>2, <2>2, FS_Subset
  <2>4. Cardinality(UpTo(q, n, i)) \in Nat /\ Cardinality(UpTo(q, n, i)) # 0
    BY <2>2, <2>3, FS_CardinalityType, FS_EmptySet
  <2>5. QED
    BY <1>3, <2>3, <2>4
<1>5. QED
  BY <1>1, <1>2, <1>3, <1>4

\* Does row i come before row j in the answer?
Before(q, i, j) == IF q.sort = "asc" THEN i < j ELSE j < i

\* The row that comes before another has a place before it.
LEMMA PlacesAreOrdered ==
  ASSUME NEW q, NEW n \in Nat, NEW i \in Rows(q, n), NEW j \in Rows(q, n), Before(q, i, j)
  PROVE  Cardinality(UpTo(q, n, i)) < Cardinality(UpTo(q, n, j))
<1>1. i \in 1 .. n /\ j \in 1 .. n
  BY RowsAreFinite
<1>2. j \in UpTo(q, n, j) /\ j \notin UpTo(q, n, i)
  BY <1>1 DEF UpTo, Before
<1>3. UpTo(q, n, i) \subseteq UpTo(q, n, j)
  BY <1>1, RowsAreFinite DEF UpTo, Before, Rows
<1>4. /\ IsFiniteSet(UpTo(q, n, j))
      /\ Cardinality(UpTo(q, n, i)) \in Nat /\ Cardinality(UpTo(q, n, j)) \in Nat
  BY RowsAreFinite
<1>5. /\ Cardinality(UpTo(q, n, i)) <= Cardinality(UpTo(q, n, j))
      /\ Cardinality(UpTo(q, n, i)) # Cardinality(UpTo(q, n, j))
  BY <1>2, <1>3, <1>4, FS_Subset
<1>6. QED
  BY <1>4, <1>5

\* Every place is taken by a row: as many places as rows, and no two rows at one.
LEMMA PlacesAreTaken ==
  ASSUME NEW q, NEW n \in Nat, NEW k \in 1 .. Cardinality(Rows(q, n))
  PROVE  \E i \in Rows(q, n) : Cardinality(UpTo(q, n, i)) = k
<1> DEFINE places == 1 .. Cardinality(Rows(q, n))
<1>1. Cardinality(Rows(q, n)) \in Nat
  BY RowsAreFinite
<1>2. Place(q, n) \in [Rows(q, n) -> places]
  BY RowsAreFinite DEF Place
<1>3. ASSUME NEW i \in Rows(q, n), NEW j \in Rows(q, n), i # j
      PROVE  Place(q, n)[i] # Place(q, n)[j]
  <2>1. i \in 1 .. n /\ j \in 1 .. n
    BY RowsAreFinite
  <2>2. Before(q, i, j) \/ Before(q, j, i)
    BY <1>3, <2>1 DEF Before
  <2>3. /\ Cardinality(UpTo(q, n, i)) \in Nat /\ Cardinality(UpTo(q, n, j)) \in Nat
    BY RowsAreFinite
  <2>4. Cardinality(UpTo(q, n, i)) # Cardinality(UpTo(q, n, j))
    BY <2>2, <2>3, PlacesAreOrdered
  <2>5. QED
    BY <2>4 DEF Place
<1>4. Place(q, n) \in Injection(Rows(q, n), places)
  BY <1>2, <1>3 DEF Injection, IsInjective
<1>5. IsFiniteSet(places) /\ Cardinality(places) = Cardinality(Rows(q, n))
  BY <1>1, FS_Interval
<1>6. Place(q, n) \in Surjection(Rows(q, n), places)
  BY <1>4, <1>5, FS_Injection
<1>7. \E i \in Rows(q, n) : Place(q, n)[i] = k
  BY <1>6 DEF Surjection
<1>8. QED
  BY <1>7 DEF Place

\* The query of the log store answers with the rows that pass, each of them once, in
\* the order that was asked for.
THEOREM AnswersInOrder ==
  ASSUME NEW q, NEW n \in Nat
  PROVE  /\ Matching(q, n) \in Seq(Rows(q, n))
         /\ Len(Matching(q, n)) = Cardinality(Rows(q, n))
         /\ \A i \in Rows(q, n) : \E k \in 1 .. Len(Matching(q, n)) : Matching(q, n)[k] = i
         /\ \A k, l \in 1 .. Len(Matching(q, n)) :
              k < l => Before(q, Matching(q, n)[k], Matching(q, n)[l])
<1> DEFINE m == Matching(q, n)
<1>1. m = [k \in 1 .. Cardinality(Rows(q, n)) |->
             CHOOSE i \in Rows(q, n) : Cardinality(UpTo(q, n, i)) = k]
  BY DEF Matching, Rows, UpTo
<1>2. Cardinality(Rows(q, n)) \in Nat
  BY RowsAreFinite
<1>3. \A k \in 1 .. Cardinality(Rows(q, n)) :
        m[k] \in Rows(q, n) /\ Cardinality(UpTo(q, n, m[k])) = k
  BY <1>1, PlacesAreTaken
<1> HIDE DEF m
<1>4. m \in Seq(Rows(q, n)) /\ Len(m) = Cardinality(Rows(q, n))
  BY <1>1, <1>2, <1>3
<1>5. ASSUME NEW k \in 1 .. Len(m), NEW l \in 1 .. Len(m), k < l PROVE Before(q, m[k], m[l])
  <2>1. m[k] \in Rows(q, n) /\ m[l] \in Rows(q, n) /\ m[k] \in 1 .. n /\ m[l] \in 1 .. n
    BY <1>3, <1>4, RowsAreFinite
  <2>2. Cardinality(UpTo(q, n, m[k])) = k /\ Cardinality(UpTo(q, n, m[l])) = l
    BY <1>3, <1>4
  <2>3. m[k] # m[l]
    BY <1>5, <2>2
  <2>4. ~ Before(q, m[l], m[k])
    <3>1. ASSUME Before(q, m[l], m[k]) PROVE FALSE
      <4>1. Cardinality(UpTo(q, n, m[l])) < Cardinality(UpTo(q, n, m[k]))
        BY <2>1, <3>1, PlacesAreOrdered
      <4>2. QED
        BY <1>2, <1>4, <1>5, <2>2, <4>1
    <3>2. QED
      BY <3>1
  <2>5. QED
    BY <2>1, <2>3, <2>4 DEF Before
<1>6. ASSUME NEW i \in Rows(q, n) PROVE \E k \in 1 .. Len(m) : m[k] = i
  <2> DEFINE k == Cardinality(UpTo(q, n, i))
  <2>1. k \in 1 .. Cardinality(Rows(q, n))
    BY RowsAreFinite
  <2>2. m[k] \in Rows(q, n) /\ Cardinality(UpTo(q, n, m[k])) = k
    BY <1>3, <2>1
  <2>3. i \in 1 .. n /\ m[k] \in 1 .. n
    BY <2>2, RowsAreFinite
  <2>4. m[k] = i
    <3>1. ~ Before(q, i, m[k]) /\ ~ Before(q, m[k], i)
      BY <1>2, <2>1, <2>2, PlacesAreOrdered
    <3>2. QED
      BY <2>3, <3>1 DEF Before
  <2>5. QED
    BY <1>4, <2>1, <2>4
<1>7. QED
  BY <1>4, <1>5, <1>6 DEF m

\* A page of the answer has rows of the database.
LEMMA AnswerIsPage ==
  ASSUME NEW q \in Query, NEW n \in Nat
  PROVE  Answer(q, n) \in Seq(1 .. n) /\ Len(Matching(q, n)) \in Nat
<1> DEFINE m == Matching(q, n)
           first == q.page * PageSize
           last == IF Len(m) < first + PageSize THEN Len(m) ELSE first + PageSize
<1>1. m \in Seq(1 .. n) /\ Len(m) \in Nat
  <2>1. m \in Seq(Rows(q, n)) /\ Rows(q, n) \subseteq 1 .. n
    BY AnswersInOrder, RowsAreFinite
  <2> HIDE DEF m
  <2>2. QED
    BY <2>1
<1>2. first \in Nat
  BY EntriesAssumption DEF Query
<1>3. PageSize \in Nat
  BY EntriesAssumption
<1>4. Answer(q, n) = SubSeq(m, first + 1, last)
  BY DEF Answer
<1> HIDE DEF m, first
<1>5. SubSeq(m, first + 1, last) \in Seq(1 .. n)
  BY <1>1, <1>2, <1>3
<1>6. QED
  BY <1>1, <1>4, <1>5 DEF m

-----------------------------------------------------------------------------
(***************************************************************************)
(* Type correctness.                                                       *)
(***************************************************************************)
Asked(r) == r \in [id : 1 .. asked, query : Query, served : BOOLEAN, asOf : 0 .. stored]

\* The length of the log, and what rows and answers may hold.
LEMMA LogHasLength == Len(Entries) \in Nat
BY EntriesAssumption

LEMMA InitTypes == TabInit => TabTypeOK
<1> SUFFICES ASSUME TabInit PROVE TabTypeOK
  OBVIOUS
<1>0. Len(Entries) \in Nat /\ MaxAsks \in Nat /\ 1 <= MaxAsks
  BY LogHasLength, EntriesAssumption
<1> USE DEF TabInit
<1>1. FirstQuery \in Query
  BY DEF FirstQuery, Query, ColumnFilter
<1>2. NoRows \in Grid
  BY DEF NoRows, Grid
<1>3. pushed \in Seq(1 .. Len(Entries))
  OBVIOUS
<1>4. asks \subseteq [id : 1 .. asked, query : Query, served : BOOLEAN, asOf : 0 .. stored]
  <2>1. [id |-> 1, query |-> FirstQuery, served |-> FALSE, asOf |-> 0]
          \in [id : 1 .. 1, query : Query, served : BOOLEAN, asOf : 0 .. 0]
    BY <1>1
  <2>2. QED
    BY <2>1
<1>5. /\ stored \in 0 .. logged /\ logged \in 0 .. Len(Entries)
      /\ asked \in 1 .. MaxAsks /\ applied \in 0 .. asked /\ heard \in 0 .. Len(Entries)
  <2>1. stored = 0 /\ logged = 0 /\ asked = 1 /\ applied = 0 /\ heard = 0
    OBVIOUS
  <2> HIDE DEF TabInit
  <2>2. QED
    BY <1>0, <2>1
<1>6. selected \in BOOLEAN /\ mishaps \subseteq {"lost", "late", "behind", "failed", "batched"}
  OBVIOUS
<1>7. query \in Query /\ grid \in Grid /\ next \in Grid
  BY <1>1, <1>2
<1> QED
  BY <1>3, <1>4, <1>5, <1>6, <1>7 DEF TabTypeOK

\* A request for rows is typed, however many there were.
LEMMA AskTypes ==
  ASSUME TabTypeOK, NEW q \in Query, Ask(q), stored' = stored, applied' = applied
  PROVE  /\ asked' \in 1 .. MaxAsks /\ applied' \in 0 .. asked'
         /\ \A r \in asks' : Asked(r)'
<1>1. /\ asked \in 1 .. MaxAsks /\ asked < MaxAsks /\ asked' = asked + 1
      /\ applied \in 0 .. asked /\ stored \in Nat
      /\ asks' = asks \cup {[id |-> asked + 1, query |-> q, served |-> FALSE, asOf |-> 0]}
  BY LogHasLength DEF Ask, TabTypeOK
<1>2. MaxAsks \in Nat
  BY EntriesAssumption
<1>3. asked' \in 1 .. MaxAsks /\ applied' \in 0 .. asked'
  BY <1>1, <1>2
<1>4. ASSUME NEW r \in asks PROVE Asked(r)'
  <2>1. r \in [id : 1 .. asked, query : Query, served : BOOLEAN, asOf : 0 .. stored]
    BY <1>4 DEF TabTypeOK
  <2>2. 1 .. asked \subseteq 1 .. asked'
    BY <1>1
  <2>3. QED
    BY <2>1, <2>2 DEF Asked
<1>5. ASSUME NEW r, r = [id |-> asked + 1, query |-> q, served |-> FALSE, asOf |-> 0]
      PROVE  Asked(r)'
  BY <1>1, <1>5 DEF Asked
<1>6. QED
  BY <1>1, <1>3, <1>4, <1>5

\* Every step keeps the types.
LEMMA NextTypes == ASSUME TabTypeOK, [TabNext]_tabVars PROVE TabTypeOK'
<1> USE LogHasLength DEF TabTypeOK
<1>1. CASE LogRow
  <2>1. /\ logged \in Nat /\ logged < Len(Entries) /\ logged' = logged + 1
        /\ UNCHANGED <<stored, query, selected, grid, next, asks, asked, applied, heard, mishaps>>
    BY <1>1 DEF LogRow, clickVars, shownVars, askVars, history
  <2>2. pushed' \in Seq(1 .. Len(Entries))
    <3>1. logged' \in 1 .. Len(Entries)
      BY <2>1
    <3>2. pushed' = pushed \/ pushed' = Append(pushed, logged')
      BY <1>1 DEF LogRow
    <3>3. pushed \in Seq(1 .. Len(Entries))
      OBVIOUS
    <3> HIDE DEF TabTypeOK
    <3>4. Append(pushed, logged') \in Seq(1 .. Len(Entries))
      BY <3>1, <3>3, AppendProperties
    <3>5. QED
      BY <3>2, <3>3, <3>4
  <2>3. stored' \in 0 .. logged' /\ logged' \in 0 .. Len(Entries)
    BY <2>1
  <2>4. QED
    BY <2>1, <2>2, <2>3
<1>2. CASE Store
  <2>1. /\ stored \in Nat /\ stored < logged /\ stored' = stored + 1
        /\ UNCHANGED <<logged, pushed, query, selected, grid, next, asks, asked, applied, heard,
                       mishaps>>
    BY <1>2 DEF Store, clickVars, shownVars, askVars, history
  <2>2. asks' \subseteq [id : 1 .. asked, query : Query, served : BOOLEAN, asOf : 0 .. stored']
    BY <2>1
  <2>3. stored' \in 0 .. logged'
    BY <2>1
  <2>4. QED
    BY <2>1, <2>2, <2>3
<1>3. CASE Disconnect
  BY <1>3 DEF Disconnect, clickVars, shownVars, askVars
<1>4. ASSUME NEW r \in asks, Serve(r) PROVE TabTypeOK'
  <2>1. /\ asks' = (asks \ {r}) \cup {[r EXCEPT !.served = TRUE, !.asOf = stored]}
        /\ UNCHANGED <<logged, stored, pushed, query, selected, grid, next, asked, applied, heard,
                       mishaps>>
    BY <1>4 DEF Serve, serverVars, clickVars, shownVars, history
  <2>2. [r EXCEPT !.served = TRUE, !.asOf = stored]
          \in [id : 1 .. asked, query : Query, served : BOOLEAN, asOf : 0 .. stored]
    <3>1. /\ r \in [id : 1 .. asked, query : Query, served : BOOLEAN, asOf : 0 .. stored]
          /\ stored \in 0 .. stored
      OBVIOUS
    <3> HIDE DEF TabTypeOK
    <3>2. QED
      BY <3>1
  <2>3. asks' \subseteq [id : 1 .. asked, query : Query, served : BOOLEAN, asOf : 0 .. stored]
    BY <2>1, <2>2
  <2>4. QED
    BY <2>1, <2>3
<1>5. ASSUME NEW r \in asks, Receive(r) PROVE TabTypeOK'
  <2>1. /\ asks' = asks \ {r}
        /\ next' = [above |-> <<>>, rows |-> Answer(r.query, r.asOf), below |-> <<>>,
                    total |-> Len(Matching(r.query, r.asOf)), asOf |-> r.asOf]
        /\ applied' \in {applied, r.id} /\ mishaps' \subseteq mishaps \cup Overtaken(r)
        /\ UNCHANGED <<logged, stored, pushed, query, selected, grid, asked, heard>>
    BY <1>5 DEF Receive, serverVars, clickVars, Repaired
  <2>2. r.query \in Query /\ r.asOf \in 0 .. Len(Entries) /\ r.asOf \in Nat /\ r.id \in 0 .. asked
    OBVIOUS
  <2>3. /\ Answer(r.query, r.asOf) \in Seq(1 .. r.asOf)
        /\ Len(Matching(r.query, r.asOf)) \in Nat
    BY <2>2, AnswerIsPage
  <2>4. Answer(r.query, r.asOf) \in Seq(1 .. Len(Entries))
    <3>1. 1 .. r.asOf \subseteq 1 .. Len(Entries)
      BY <2>2
    <3>2. QED
      BY <2>3, <3>1
  <2>5. next' \in Grid
    BY <2>1, <2>2, <2>3, <2>4 DEF Grid
  <2>6. mishaps' \subseteq {"lost", "late", "behind", "failed", "batched"}
    BY <2>1 DEF Overtaken
  <2>7. QED
    BY <2>1, <2>2, <2>5, <2>6
<1>6. ASSUME NEW r \in asks, AskFails(r) PROVE TabTypeOK'
  BY <1>6 DEF AskFails, serverVars, clickVars, shownVars
<1>7. CASE HandleMessage
  <2>1. /\ pushed # <<>> /\ pushed' = Tail(pushed) /\ heard' = Head(pushed)
        /\ next' \in {next, WithMessage(grid, Head(pushed))}
        /\ mishaps' \in {mishaps, mishaps \cup {"batched"}}
        /\ UNCHANGED <<logged, stored, query, selected, grid, asks, asked, applied>>
    BY <1>7 DEF HandleMessage, clickVars, askVars
  <2>2. pushed' \in Seq(1 .. Len(Entries)) /\ Head(pushed) \in 1 .. Len(Entries)
    BY <2>1
  <2>3. WithMessage(grid, Head(pushed)) \in Grid
    <3> DEFINE i == Head(pushed)
               more == [grid EXCEPT !.total = @ + 1]
    <3>1. more \in Grid
      <4>1. grid \in Grid
        OBVIOUS
      <4> HIDE DEF TabTypeOK
      <4>2. more = [above |-> grid.above, rows |-> grid.rows, below |-> grid.below,
                    total |-> grid.total + 1, asOf |-> grid.asOf]
        <5>1. Shape(grid)
          BY <4>1 DEF Grid, Shape
        <5>2. QED
          BY <5>1 DEF Shape
      <4>3. /\ grid.above \in Seq(1 .. Len(Entries)) /\ grid.rows \in Seq(1 .. Len(Entries))
            /\ grid.below \in Seq(1 .. Len(Entries)) /\ grid.total + 1 \in Nat
            /\ grid.asOf \in 0 .. Len(Entries)
        BY <4>1 DEF Grid
      <4> HIDE DEF more
      <4>4. QED
        BY <4>2, <4>3 DEF Grid
    <3>2. /\ Append(more.below, i) \in Seq(1 .. Len(Entries))
          /\ <<i>> \o more.above \in Seq(1 .. Len(Entries))
      <4>1. <<i>> \in Seq(1 .. Len(Entries))
        BY <2>2
      <4>2. more.above \in Seq(1 .. Len(Entries)) /\ more.below \in Seq(1 .. Len(Entries))
        BY <3>1 DEF Grid
      <4> HIDE DEF more, i
      <4>3. QED
        BY <2>2, <4>1, <4>2, ConcatProperties DEF i
    <3> HIDE DEF more, i
    <3>3. /\ [more EXCEPT !.below = Append(more.below, i)] \in Grid
          /\ [more EXCEPT !.above = <<i>> \o more.above] \in Grid
      BY <3>1, <3>2 DEF Grid
    <3>4. QED
      BY <3>3 DEF WithMessage, more, i
  <2>4. QED
    BY <2>1, <2>2, <2>3
<1>8. CASE Render
  BY <1>8 DEF Render, serverVars, clickVars, askVars, history
<1>9. ASSUME NEW q \in Query, Change(q) PROVE TabTypeOK'
  <2>1. /\ Ask(q) /\ query' = q
        /\ UNCHANGED <<logged, stored, pushed, selected, grid, next, applied, heard, mishaps>>
    BY <1>9 DEF Change, serverVars, shownVars, history
  <2>2. /\ asked' \in 1 .. MaxAsks /\ applied' \in 0 .. asked'
        /\ \A r \in asks' : Asked(r)'
    BY <2>1, AskTypes
  <2>3. QED
    BY <2>1, <2>2 DEF Asked
<1>10. CASE HandleChange
  <2>1. selected' \in BOOLEAN
    BY <1>10 DEF HandleChange
  <2>2. UNCHANGED <<logged, stored, pushed, query, grid, next, applied, heard, mishaps>>
    BY <1>10 DEF HandleChange, serverVars, shownVars, history
  <2>3. Ask(query) \/ UNCHANGED askVars
    BY <1>10 DEF HandleChange
  <2>4. /\ asked' \in 1 .. MaxAsks /\ applied' \in 0 .. asked'
        /\ \A r \in asks' : Asked(r)'
    <3>1. CASE Ask(query)
      BY <2>2, <3>1, AskTypes
    <3>2. CASE UNCHANGED askVars
      BY <2>2, <3>2 DEF askVars, Asked
    <3>3. QED
      BY <2>3, <3>1, <3>2
  <2>5. QED
    BY <2>1, <2>2, <2>4 DEF Asked
<1>11. CASE UNCHANGED tabVars
  BY <1>11 DEF tabVars
<1>12. ASSUME User PROVE HandleChange \/ \E q \in Query : Change(q)
  <2> USE EntriesAssumption DEF Query, ColumnFilter
  <2>1. ASSUME NEW p \in Pages PROVE [query EXCEPT !.page = p] \in Query
    BY <2>1
  <2>2. ASSUME NEW o \in {"asc", "desc"} PROVE [query EXCEPT !.sort = o] \in Query
    BY <2>2
  <2>3. ASSUME NEW v \in SourceChoices, NEW item \in BOOLEAN
        PROVE  [query EXCEPT !.column = [item |-> item, values |-> v], !.page = 0] \in Query
    BY <2>3
  <2>4. ASSUME NEW t \in TypeChoices PROVE [query EXCEPT !.types = t, !.page = 0] \in Query
    BY <2>4
  <2>5. ASSUME NEW l \in LevelChoices PROVE [query EXCEPT !.levels = l, !.page = 0] \in Query
    BY <2>5
  <2> HIDE DEF Query
  <2>6. QED
    BY <1>12, <2>1, <2>2, <2>3, <2>4, <2>5
       DEF User, HandlePaginationModelChange, HandleSortModelChange, HandleFilterModelChange,
           HandleTypesChange, HandleLevelsChange
<1>13. QED
  BY <1>1, <1>2, <1>3, <1>4, <1>5, <1>6, <1>7, <1>8, <1>9, <1>10, <1>11, <1>12
     DEF TabNext, Server, Page

\* The state of the tab has its types for every log and every choice of the user: no
\* answer has a row that the database did not have when it was read, no request is
\* sent beyond the bound.
THEOREM TabTypeCorrect == TabSpec => []TabTypeOK
BY InitTypes, NextTypes, PTL DEF TabSpec

=============================================================================
