--------------------------- MODULE DiskTabProofs ----------------------------
(***************************************************************************)
(* Proofs about DiskTab, for any disks, any reports of the runner, each of *)
(* the tabs and any bound on the events: the state has its types, the      *)
(* table tells the targets, and the list and the status catch up.          *)
(*                                                                         *)
(* A step of the tab renders a page that a handler has edited.  The first  *)
(* part says what a rendering does to a page, whatever the page is         *)
(* (RenderedPage): three calls of componentDidUpdate() are enough.  Then   *)
(* each of the promises is strengthened to an invariant: what is shown, or *)
(* is on its way as an answer or an event, or was lost with a mishap.      *)
(***************************************************************************)
EXTENDS DiskTab, SequenceTheorems, FiniteSetTheorems, TLAPS

(***************************************************************************)
(* Rows, and what a rendering makes of a page.                             *)
(***************************************************************************)
\* The disks of some rows, and each with its row.
LEMMA RowsOfDisks ==
  ASSUME NEW rows \in Rows
  PROVE  DOMAIN rows \subseteq Disks /\ rows \in [DOMAIN rows -> Row]
BY DEF Rows

LEMMA DisksWithRows ==
  /\ \A S \in SUBSET Disks : \A rows \in [S -> Row] : rows \in Rows
  /\ <<>> \in Rows /\ DOMAIN <<>> = {}
<1>1. \A S \in SUBSET Disks : \A rows \in [S -> Row] : rows \in Rows
  BY DEF Rows
<1>2. <<>> \in [{} -> Row] /\ DOMAIN <<>> = {}
  OBVIOUS
<1>3. QED
  BY <1>1, <1>2

\* A report is about a disk.
LEMMA ReportsOfScript ==
  ASSUME DiskTabAssumption, NEW n \in Reports, n # 0
  PROVE  Script[n] \in [device : Disks, state : RunStates, timed : BOOLEAN]
<1>1. Script \in Seq([device : Disks, state : RunStates, timed : BOOLEAN])
  BY DEF DiskTabAssumption
<1>2. n \in 1 .. Len(Script)
  BY DEF Reports
<1>3. QED
  BY <1>1, <1>2, ElementOfSeq

\* The rows with a report are the same, except for what the report says of its disk.
LEMMA WithReportRows ==
  ASSUME DiskTabAssumption, NEW rows \in Rows, NEW n \in Reports
  PROVE  /\ WithReport(rows, n) \in Rows /\ DOMAIN WithReport(rows, n) = DOMAIN rows
         /\ \A d \in DOMAIN rows :
              /\ WithReport(rows, n)[d].mounted = rows[d].mounted
              /\ WithReport(rows, n)[d].target = rows[d].target
              /\ WithReport(rows, n)[d].report \in {rows[d].report, n}
              /\ n # 0 /\ Script[n].timed /\ Script[n].device = d
                 => WithReport(rows, n)[d].report = n
<1>1. DOMAIN rows \subseteq Disks /\ rows \in [DOMAIN rows -> Row]
  BY RowsOfDisks
<1>2. CASE n # 0 /\ Script[n].timed /\ Script[n].device \in DOMAIN rows
  <2> DEFINE e == Script[n].device
             row == [rows[e] EXCEPT !.report = n]
  <2>1. WithReport(rows, n) = [rows EXCEPT ![e] = row]
    BY <1>2 DEF WithReport
  <2>2. /\ rows[e] \in Row /\ row \in Row
        /\ row.mounted = rows[e].mounted /\ row.target = rows[e].target /\ row.report = n
    <3>1. rows[e] \in Row
      BY <1>1, <1>2
    <3> HIDE DEF e
    <3>2. QED
      BY <3>1 DEF Row
  <2>3. e \in DOMAIN rows
    BY <1>2
  <2> HIDE DEF row
  <2>4. WithReport(rows, n) \in [DOMAIN rows -> Row]
    BY <1>1, <2>1, <2>2
  <2>5. \A d \in DOMAIN rows : WithReport(rows, n)[d] = IF d = e THEN row ELSE rows[d]
    BY <1>1, <2>1
  <2> HIDE DEF e
  <2>6. \A d \in DOMAIN rows :
              /\ WithReport(rows, n)[d].mounted = rows[d].mounted
              /\ WithReport(rows, n)[d].target = rows[d].target
              /\ WithReport(rows, n)[d].report \in {rows[d].report, n}
              /\ d = e => WithReport(rows, n)[d].report = n
    BY <2>2, <2>5
  <2>7. QED
    BY <1>1, <2>4, <2>6, DisksWithRows DEF e
<1>3. CASE ~ (n # 0 /\ Script[n].timed /\ Script[n].device \in DOMAIN rows)
  BY <1>3 DEF WithReport
<1>4. QED
  BY <1>2, <1>3

\* Correcting the flags changes nothing else.
LEMMA FlaggedRows ==
  ASSUME NEW p \in Page
  PROVE  /\ Flagged(p) \in Rows /\ DOMAIN Flagged(p) = DOMAIN p.rows
         /\ \A d \in DOMAIN p.rows :
              /\ Flagged(p)[d].mounted = p.rows[d].mounted
              /\ Flagged(p)[d].target = (d \in p.targets)
              /\ Flagged(p)[d].report = p.rows[d].report
<1>1. DOMAIN p.rows \subseteq Disks /\ p.rows \in [DOMAIN p.rows -> Row]
  BY RowsOfDisks DEF Page
<1>2. ASSUME NEW d \in DOMAIN p.rows
      PROVE  /\ [p.rows[d] EXCEPT !.target = (d \in p.targets)] \in Row
             /\ [p.rows[d] EXCEPT !.target = (d \in p.targets)].mounted = p.rows[d].mounted
             /\ [p.rows[d] EXCEPT !.target = (d \in p.targets)].target = (d \in p.targets)
             /\ [p.rows[d] EXCEPT !.target = (d \in p.targets)].report = p.rows[d].report
  <2>1. p.rows[d] \in Row
    BY <1>1
  <2>2. (d \in p.targets) \in BOOLEAN
    OBVIOUS
  <2> DEFINE flag == d \in p.targets
  <2> HIDE DEF flag
  <2>3. flag \in BOOLEAN
    BY <2>2 DEF flag
  <2>4. /\ [p.rows[d] EXCEPT !.target = flag] \in Row
        /\ [p.rows[d] EXCEPT !.target = flag].mounted = p.rows[d].mounted
        /\ [p.rows[d] EXCEPT !.target = flag].target = flag
        /\ [p.rows[d] EXCEPT !.target = flag].report = p.rows[d].report
    BY <2>1, <2>3 DEF Row
  <2>5. QED
    BY <2>4 DEF flag
<1>3. /\ DOMAIN Flagged(p) = DOMAIN p.rows /\ Flagged(p) \in [DOMAIN p.rows -> Row]
      /\ \A d \in DOMAIN p.rows : Flagged(p)[d] = [p.rows[d] EXCEPT !.target = (d \in p.targets)]
  BY <1>2 DEF Flagged, Shown
<1>4. QED
  BY <1>1, <1>2, <1>3, DisksWithRows

\* A list that is fetched has no targets and no progress.
LEMMA ListedRows ==
  ASSUME NEW m \in [Disks -> {"absent", "free", "mounted"}]
  PROVE  /\ Listed(m) \in Rows
         /\ \A d \in DOMAIN Listed(m) : ~ Listed(m)[d].target /\ Listed(m)[d].report = 0
<1>1. \A d \in Disks : [mounted |-> (m[d] = "mounted"), target |-> FALSE, report |-> 0] \in Row
  BY DEF Row, Reports, DiskTabAssumption
<1>2. QED
  BY <1>1, DisksWithRows DEF Listed

\* The flags in the table are those of the owner.
Marked(p) == \A d \in DOMAIN p.rows : p.rows[d].target = (d \in p.targets)

\* What a rendering leaves alone, and that nobody is asked to reset any more.
LEMMA DisksUpdateFields ==
  ASSUME DiskTabAssumption, NEW p \in Page
  PROVE  /\ DisksDidUpdate(p) \in Page
         /\ DisksDidUpdate(p).targets = p.targets /\ DisksDidUpdate(p).status = p.status
         /\ DisksDidUpdate(p).tasks = p.tasks /\ DisksDidUpdate(p).taskSeq = p.taskSeq
         /\ ~ DisksDidUpdate(p).resetting
         /\ DisksDidUpdate(p).loading = (p.loading \/ p.resetting)
         /\ \/ /\ p.resetting /\ ~ WrongFlags(p) /\ p.seq = p.status.seq
               /\ DisksDidUpdate(p).rows = <<>> /\ DisksDidUpdate(p).seq = p.status.seq
            \/ WrongFlags(p) /\ DisksDidUpdate(p).rows = Flagged(p) /\ DisksDidUpdate(p).seq = p.seq
            \/ /\ ~ WrongFlags(p) /\ p.seq # p.status.seq /\ DisksDidUpdate(p).seq = p.status.seq
               /\ DisksDidUpdate(p).rows = WithReport(p.rows, p.status.no)
            \/ /\ ~ WrongFlags(p) /\ p.seq = p.status.seq
               /\ DisksDidUpdate(p).rows = p.rows /\ DisksDidUpdate(p).seq = p.status.seq
<1> DEFINE q == IF p.resetting THEN Emptied(p) ELSE p
           r == DisksDidUpdate(p)
<1>1. /\ p.targets \in SUBSET Disks /\ p.resetting \in BOOLEAN /\ p.status \in Status
      /\ p.rows \in Rows /\ p.loading \in BOOLEAN /\ p.seq \in Reports /\ p.tasks \in Reports
      /\ p.taskSeq \in Reports /\ p.status.no \in Reports /\ p.status.seq \in Reports
  BY DEF Page, Status
<1>2. /\ q \in Page /\ ~ q.resetting /\ q.loading = (p.loading \/ p.resetting)
      /\ q.targets = p.targets /\ q.status = p.status /\ q.tasks = p.tasks
      /\ q.taskSeq = p.taskSeq /\ q.seq = p.seq
      /\ q.rows = IF p.resetting THEN <<>> ELSE p.rows
  <2>1. CASE p.resetting
    <3>1. q = [p EXCEPT !.rows = <<>>, !.loading = TRUE, !.resetting = FALSE]
      BY <2>1 DEF Emptied
    <3>2. QED
      BY <2>1, <3>1, DisksWithRows DEF Page
  <2>2. CASE ~ p.resetting
    <3>1. q = p
      BY <2>2
    <3>2. CASE p.loading = TRUE
      BY <2>2, <3>1, <3>2
    <3>3. CASE p.loading = FALSE
      BY <2>2, <3>1, <3>3
    <3>4. QED
      BY <1>1, <3>2, <3>3
  <2>3. QED
    BY <2>1, <2>2
<1> HIDE DEF q
<1>3. ASSUME NEW rows \in Rows, NEW s, s = [q EXCEPT !.rows = rows]
      PROVE  /\ s \in Page /\ ~ s.resetting /\ s.loading = (p.loading \/ p.resetting)
             /\ s.targets = p.targets /\ s.status = p.status /\ s.tasks = p.tasks
             /\ s.taskSeq = p.taskSeq /\ s.seq = p.seq /\ s.rows = rows
  BY <1>2, <1>3 DEF Page
<1>4. CASE WrongFlags(p)
  <2>1. r = [q EXCEPT !.rows = Flagged(p)]
    BY <1>4 DEF DisksDidUpdate, q
  <2>2. Flagged(p) \in Rows
    BY FlaggedRows
  <2>3. /\ r \in Page /\ ~ r.resetting /\ r.loading = (p.loading \/ p.resetting)
        /\ r.targets = p.targets /\ r.status = p.status /\ r.tasks = p.tasks
        /\ r.taskSeq = p.taskSeq /\ r.seq = p.seq /\ r.rows = Flagged(p)
    BY <1>3, <2>1, <2>2
  <2> HIDE DEF r
  <2>4. QED
    BY <1>4, <2>3 DEF r
<1>5. CASE ~ WrongFlags(p) /\ p.seq # p.status.seq
  <2>1. r = [q EXCEPT !.rows = WithReport(p.rows, p.status.no), !.seq = p.status.seq]
    BY <1>5 DEF DisksDidUpdate, q
  <2>2. WithReport(p.rows, p.status.no) \in Rows
    BY <1>1, WithReportRows
  <2>3. /\ r \in Page /\ ~ r.resetting /\ r.loading = (p.loading \/ p.resetting)
        /\ r.targets = p.targets /\ r.status = p.status /\ r.tasks = p.tasks
        /\ r.taskSeq = p.taskSeq /\ r.seq = p.status.seq /\ r.rows = WithReport(p.rows, p.status.no)
    <3> DEFINE rows == WithReport(p.rows, p.status.no)
               seq == p.status.seq
    <3> HIDE DEF rows, seq, r
    <3>1. r = [q EXCEPT !.rows = rows, !.seq = seq] /\ rows \in Rows /\ seq \in Reports
      BY <1>1, <2>1, <2>2 DEF rows, seq
    <3>2. /\ r \in Page /\ ~ r.resetting /\ r.loading = (p.loading \/ p.resetting)
          /\ r.targets = p.targets /\ r.status = p.status /\ r.tasks = p.tasks
          /\ r.taskSeq = p.taskSeq /\ r.seq = seq /\ r.rows = rows
      BY <1>2, <3>1 DEF Page
    <3>3. QED
      BY <3>2 DEF rows, seq
  <2> HIDE DEF r
  <2>4. QED
    BY <1>5, <2>3 DEF r
<1>6. CASE ~ WrongFlags(p) /\ p.seq = p.status.seq
  <2>1. r = q
    BY <1>6 DEF DisksDidUpdate, q
  <2>2. QED
    BY <1>2, <1>6, <2>1
<1>7. QED
  BY <1>4, <1>5, <1>6

\* A rendering leaves the flags right; it takes over the report unless it had to
\* correct them.
LEMMA DisksUpdateMarks ==
  ASSUME DiskTabAssumption, NEW p \in Page
  PROVE  /\ Marked(DisksDidUpdate(p))
         /\ Marked(p) => DisksDidUpdate(p).seq = p.status.seq
         /\ DisksDidUpdate(p).seq \in {p.seq, p.status.seq}
         /\ \/ p.resetting /\ DOMAIN DisksDidUpdate(p).rows = {}
            \/ DOMAIN DisksDidUpdate(p).rows = DOMAIN p.rows
         /\ \A d \in DOMAIN DisksDidUpdate(p).rows :
              /\ DisksDidUpdate(p).rows[d].mounted = p.rows[d].mounted
              /\ DisksDidUpdate(p).rows[d].report \in {p.rows[d].report, p.status.no}
              /\ /\ p.seq # p.status.seq /\ DisksDidUpdate(p).seq = p.status.seq
                 /\ p.status.no # 0 /\ Script[p.status.no].timed /\ Script[p.status.no].device = d
                 => DisksDidUpdate(p).rows[d].report = p.status.no
<1> DEFINE q == DisksDidUpdate(p)
<1>1. p.rows \in Rows /\ p.status.no \in Reports
  BY DEF Page, Status
<1>2. q.targets = p.targets
  BY DisksUpdateFields
<1>3. Marked(p) <=> ~ WrongFlags(p)
  BY DEF Marked, WrongFlags, Shown
<1>4. CASE p.resetting /\ ~ WrongFlags(p) /\ p.seq = p.status.seq
           /\ q.rows = <<>> /\ q.seq = p.status.seq
  <2>1. DOMAIN q.rows = {}
    BY <1>4, DisksWithRows
  <2>2. QED
    BY <1>4, <2>1 DEF Marked
<1>5. CASE WrongFlags(p) /\ q.rows = Flagged(p) /\ q.seq = p.seq
  <2>1. /\ DOMAIN q.rows = DOMAIN p.rows
        /\ \A d \in DOMAIN p.rows : /\ q.rows[d].mounted = p.rows[d].mounted
                                    /\ q.rows[d].target = (d \in p.targets)
                                    /\ q.rows[d].report = p.rows[d].report
    BY <1>5, FlaggedRows
  <2>2. Marked(q)
    BY <1>2, <2>1 DEF Marked
  <2> HIDE DEF q
  <2>3. QED
    BY <1>3, <1>5, <2>1, <2>2 DEF q
<1>6. CASE ~ WrongFlags(p) /\ p.seq # p.status.seq /\ q.seq = p.status.seq
           /\ q.rows = WithReport(p.rows, p.status.no)
  <2>1. /\ DOMAIN q.rows = DOMAIN p.rows
        /\ \A d \in DOMAIN p.rows :
             /\ q.rows[d].mounted = p.rows[d].mounted
             /\ q.rows[d].target = p.rows[d].target
             /\ q.rows[d].report \in {p.rows[d].report, p.status.no}
             /\ p.status.no # 0 /\ Script[p.status.no].timed /\ Script[p.status.no].device = d
                => q.rows[d].report = p.status.no
    BY <1>1, <1>6, WithReportRows
  <2>2. Marked(q)
    BY <1>2, <1>3, <1>6, <2>1 DEF Marked
  <2> HIDE DEF q
  <2>3. QED
    BY <1>6, <2>1, <2>2 DEF q
<1>7. CASE ~ WrongFlags(p) /\ p.seq = p.status.seq /\ q.rows = p.rows /\ q.seq = p.status.seq
  BY <1>2, <1>3, <1>7 DEF Marked
<1>8. QED
  BY DisksUpdateFields, <1>4, <1>5, <1>6, <1>7

\* RunnerProgress takes over a report with another number, too.
LEMMA ProgressFields ==
  ASSUME NEW p \in Page
  PROVE  /\ ProgressDidUpdate(p) \in Page
         /\ ProgressDidUpdate(p).targets = p.targets /\ ProgressDidUpdate(p).status = p.status
         /\ ProgressDidUpdate(p).rows = p.rows /\ ProgressDidUpdate(p).seq = p.seq
         /\ ProgressDidUpdate(p).loading = p.loading
         /\ ProgressDidUpdate(p).resetting = p.resetting
         /\ HasTasks => /\ ProgressDidUpdate(p).taskSeq = p.status.seq
                        /\ ProgressDidUpdate(p).tasks = IF p.taskSeq # p.status.seq THEN p.status.no
                                                        ELSE p.tasks
         /\ ~ HasTasks => /\ ProgressDidUpdate(p).taskSeq = p.taskSeq
                          /\ ProgressDidUpdate(p).tasks = p.tasks
<1>1. p.status.no \in Reports /\ p.status.seq \in Reports
  BY DEF Page, Status
<1>2. CASE HasTasks /\ p.taskSeq # p.status.seq
  <2> DEFINE no == p.status.no
             seq == p.status.seq
             q == ProgressDidUpdate(p)
  <2>1. q = [p EXCEPT !.taskSeq = seq, !.tasks = no]
    BY <1>2 DEF ProgressDidUpdate
  <2> HIDE DEF no, seq, q
  <2>2. /\ q \in Page
        /\ q.targets = p.targets /\ q.status = p.status /\ q.rows = p.rows /\ q.seq = p.seq
        /\ q.loading = p.loading /\ q.resetting = p.resetting /\ q.taskSeq = seq /\ q.tasks = no
    BY <1>1, <2>1 DEF no, seq, Page
  <2>3. QED
    BY <1>2, <2>2 DEF q, no, seq
<1>3. CASE ~ (HasTasks /\ p.taskSeq # p.status.seq)
  BY <1>3 DEF ProgressDidUpdate
<1>4. QED
  BY <1>2, <1>3

\* The state of the page after all renderings: the flags are right, both tables
\* have the last report, and the disks are the same, unless the list was reset.
IsRendered(p, q) ==
  /\ q \in Page
  /\ q.targets = p.targets /\ q.status = p.status /\ ~ q.resetting
  /\ q.loading = (p.loading \/ p.resetting)
  /\ Marked(q)
  /\ q.seq = p.status.seq
  /\ HasTasks => /\ q.taskSeq = p.status.seq
                 /\ q.tasks = IF p.taskSeq # p.status.seq THEN p.status.no ELSE p.tasks
  /\ ~ HasTasks => q.tasks = p.tasks
  /\ (p.resetting /\ DOMAIN q.rows = {}) \/ DOMAIN q.rows = DOMAIN p.rows
  /\ \A d \in DOMAIN q.rows :
       /\ q.rows[d].mounted = p.rows[d].mounted
       /\ q.rows[d].report \in {p.rows[d].report, p.status.no}
       /\ /\ p.seq # p.status.seq
          /\ p.status.no # 0 /\ Script[p.status.no].timed /\ Script[p.status.no].device = d
          => q.rows[d].report = p.status.no

\* It takes no more than three renderings: after them componentDidUpdate() has
\* nothing more to change.
LEMMA RenderedPage ==
  ASSUME DiskTabAssumption, NEW p \in Page
  PROVE  IsRendered(p, Rendered(p)) /\ DidUpdate(Rendered(p)) = Rendered(p)
<1> DEFINE p1 == DidUpdate(p)
           p2 == DidUpdate(p1)
           p3 == DidUpdate(p2)
<1>1. ASSUME NEW a \in Page
      PROVE  /\ DidUpdate(a) \in Page
             /\ DidUpdate(a).targets = a.targets /\ DidUpdate(a).status = a.status
             /\ ~ DidUpdate(a).resetting /\ DidUpdate(a).loading = (a.loading \/ a.resetting)
             /\ DidUpdate(a).rows = DisksDidUpdate(a).rows
             /\ DidUpdate(a).seq = DisksDidUpdate(a).seq
             /\ HasTasks => /\ DidUpdate(a).taskSeq = a.status.seq
                            /\ DidUpdate(a).tasks = IF a.taskSeq # a.status.seq THEN a.status.no
                                                    ELSE a.tasks
             /\ ~ HasTasks => DidUpdate(a).tasks = a.tasks
  <2> DEFINE b == DisksDidUpdate(a)
  <2>1. /\ b \in Page /\ b.targets = a.targets /\ b.status = a.status /\ b.tasks = a.tasks
        /\ b.taskSeq = a.taskSeq /\ ~ b.resetting /\ b.loading = (a.loading \/ a.resetting)
    BY DisksUpdateFields
  <2>2. DidUpdate(a) = ProgressDidUpdate(b)
    BY DEF DidUpdate
  <2> HIDE DEF b
  <2>3. QED
    BY <2>1, <2>2, ProgressFields DEF b
<1>2. ASSUME NEW a \in Page
      PROVE  /\ Marked(DidUpdate(a))
             /\ Marked(a) => DidUpdate(a).seq = a.status.seq
             /\ DidUpdate(a).seq \in {a.seq, a.status.seq}
             /\ \/ a.resetting /\ DOMAIN DidUpdate(a).rows = {}
                \/ DOMAIN DidUpdate(a).rows = DOMAIN a.rows
             /\ \A d \in DOMAIN DidUpdate(a).rows :
                  /\ DidUpdate(a).rows[d].mounted = a.rows[d].mounted
                  /\ DidUpdate(a).rows[d].report \in {a.rows[d].report, a.status.no}
                  /\ /\ a.seq # a.status.seq /\ DidUpdate(a).seq = a.status.seq
                     /\ a.status.no # 0 /\ Script[a.status.no].timed
                     /\ Script[a.status.no].device = d
                     => DidUpdate(a).rows[d].report = a.status.no
  <2> DEFINE b == DisksDidUpdate(a)
             c == DidUpdate(a)
  <2>1. c.rows = b.rows /\ c.seq = b.seq /\ c.targets = b.targets
    BY <1>1, DisksUpdateFields
  <2>2. Marked(b) => Marked(c)
    BY <2>1 DEF Marked
  <2> HIDE DEF b, c
  <2>3. QED
    BY <2>1, <2>2, DisksUpdateMarks DEF b, c
<1>3. p1 \in Page /\ p2 \in Page
  BY <1>1
<1>4. p3 = p2 /\ DidUpdate(p2) = p2
  <2> DEFINE b == DisksDidUpdate(p2)
  <2>1. Marked(p1) /\ Marked(p2) /\ p2.seq = p1.status.seq
    BY <1>2, <1>3
  <2>2. /\ p2.status = p1.status /\ ~ p2.resetting
        /\ HasTasks => p2.taskSeq = p2.status.seq
    BY <1>1, <1>3
  <2>3. b = p2
    BY <2>1, <2>2 DEF DisksDidUpdate, Marked, WrongFlags, Shown
  <2>4. ProgressDidUpdate(p2) = p2
    BY <2>2 DEF ProgressDidUpdate
  <2> HIDE DEF p2
  <2>5. QED
    BY <2>3, <2>4 DEF DidUpdate
<1>5. Rendered(p) = p2 /\ DidUpdate(p2) = p2
  BY <1>4 DEF Rendered
<1>6. /\ p2.targets = p.targets /\ p2.status = p.status /\ p1.status = p.status
      /\ ~ p2.resetting /\ ~ p1.resetting
      /\ Marked(p2) /\ p2.seq = p.status.seq /\ p1.seq \in {p.seq, p.status.seq}
  BY <1>1, <1>2, <1>3
<1>7. p2.loading = (p.loading \/ p.resetting)
  <2>1. p1.loading = (p.loading \/ p.resetting) /\ p2.loading = (p1.loading \/ p1.resetting)
    BY <1>1, <1>3
  <2>2. p1.loading \in BOOLEAN
    BY <1>3 DEF Page
  <2> HIDE DEF p1, p2
  <2>3. QED
    BY <1>6, <2>1, <2>2
<1>8. /\ HasTasks => /\ p2.taskSeq = p.status.seq
                     /\ p2.tasks = IF p.taskSeq # p.status.seq THEN p.status.no ELSE p.tasks
      /\ ~ HasTasks => p2.tasks = p.tasks
  <2>1. /\ HasTasks => /\ p1.taskSeq = p.status.seq
                       /\ p1.tasks = IF p.taskSeq # p.status.seq THEN p.status.no ELSE p.tasks
        /\ ~ HasTasks => p1.tasks = p.tasks
    BY <1>1
  <2>2. /\ HasTasks => /\ p2.taskSeq = p1.status.seq
                       /\ p2.tasks = IF p1.taskSeq # p1.status.seq THEN p1.status.no ELSE p1.tasks
        /\ ~ HasTasks => p2.tasks = p1.tasks
    BY <1>1, <1>3
  <2> HIDE DEF p1, p2
  <2>3. QED
    BY <1>6, <2>1, <2>2
<1>9. /\ (p.resetting /\ DOMAIN p2.rows = {}) \/ DOMAIN p2.rows = DOMAIN p.rows
      /\ DOMAIN p2.rows \subseteq DOMAIN p1.rows /\ DOMAIN p2.rows \subseteq DOMAIN p.rows
  <2>1. (p.resetting /\ DOMAIN p1.rows = {}) \/ DOMAIN p1.rows = DOMAIN p.rows
    BY <1>2
  <2>2. DOMAIN p2.rows = DOMAIN p1.rows
    BY <1>2, <1>3, <1>6
  <2> HIDE DEF p1, p2
  <2>3. QED
    BY <2>1, <2>2
<1>10. ASSUME NEW d \in DOMAIN p2.rows
       PROVE  /\ p2.rows[d].mounted = p.rows[d].mounted
              /\ p2.rows[d].report \in {p.rows[d].report, p.status.no}
              /\ /\ p.seq # p.status.seq
                 /\ p.status.no # 0 /\ Script[p.status.no].timed /\ Script[p.status.no].device = d
                 => p2.rows[d].report = p.status.no
  <2>1. d \in DOMAIN p1.rows /\ d \in DOMAIN p2.rows
    BY <1>9, <1>10
  <2>2. /\ p1.rows[d].mounted = p.rows[d].mounted
        /\ p1.rows[d].report \in {p.rows[d].report, p.status.no}
        /\ /\ p.seq # p.status.seq /\ p1.seq = p.status.seq
           /\ p.status.no # 0 /\ Script[p.status.no].timed /\ Script[p.status.no].device = d
           => p1.rows[d].report = p.status.no
    BY <1>2, <2>1
  <2>3. /\ p2.rows[d].mounted = p1.rows[d].mounted
        /\ p2.rows[d].report \in {p1.rows[d].report, p1.status.no}
        /\ /\ p1.seq # p1.status.seq /\ p2.seq = p1.status.seq
           /\ p1.status.no # 0 /\ Script[p1.status.no].timed /\ Script[p1.status.no].device = d
           => p2.rows[d].report = p1.status.no
    BY <1>2, <1>3, <2>1
  <2> HIDE DEF p1, p2
  <2>4. QED
    BY <1>6, <2>2, <2>3
<1>11. QED
  <2> HIDE DEF p1, p2, p3
  <2>1. QED
    BY <1>3, <1>5, <1>6, <1>7, <1>8, <1>9, <1>10 DEF IsRendered

-----------------------------------------------------------------------------
(***************************************************************************)
(* What the handlers edit.                                                 *)
(***************************************************************************)
\* The new list, without targets.
LEMMA ListEdit ==
  ASSUME NEW p \in Page, NEW rows \in Rows
  PROVE  LET q == WithList(p, rows)
         IN  /\ q \in Page
             /\ q.rows = rows /\ q.targets = {} /\ ~ q.loading
             /\ q.resetting = p.resetting /\ q.status = p.status /\ q.seq = p.seq
             /\ q.tasks = p.tasks /\ q.taskSeq = p.taskSeq
BY DEF WithList, Page

\* Another report for the owner.
LEMMA StatusEdit ==
  ASSUME NEW p \in Page, NEW no \in Reports, NEW seq \in Reports
  PROVE  LET q == [p EXCEPT !.status = [no |-> no, seq |-> seq]]
         IN  /\ q \in Page
             /\ q.status.no = no /\ q.status.seq = seq
             /\ q.rows = p.rows /\ q.targets = p.targets /\ q.loading = p.loading
             /\ q.resetting = p.resetting /\ q.seq = p.seq
             /\ q.tasks = p.tasks /\ q.taskSeq = p.taskSeq
BY DEF Page, Status

\* The tasks that were fetched.
LEMMA TasksEdit ==
  ASSUME NEW p \in Page, NEW no \in Reports
  PROVE  LET q == [p EXCEPT !.tasks = no]
         IN  /\ q \in Page
             /\ q.tasks = no
             /\ q.rows = p.rows /\ q.targets = p.targets /\ q.loading = p.loading
             /\ q.resetting = p.resetting /\ q.status = p.status /\ q.seq = p.seq
             /\ q.taskSeq = p.taskSeq
BY DEF Page

\* The list is emptied; the targets stay.
LEMMA EmptyEdit ==
  ASSUME NEW p \in Page
  PROVE  LET q == Emptied(p)
         IN  /\ q \in Page
             /\ DOMAIN q.rows = {} /\ q.loading /\ ~ q.resetting
             /\ q.targets = p.targets /\ q.status = p.status /\ q.seq = p.seq
             /\ q.tasks = p.tasks /\ q.taskSeq = p.taskSeq
BY DisksWithRows DEF Emptied, Page

\* Other targets.
LEMMA TargetsEdit ==
  ASSUME NEW p \in Page, NEW targets \in SUBSET Disks
  PROVE  LET q == [p EXCEPT !.targets = targets]
         IN  /\ q \in Page
             /\ q.targets = targets
             /\ q.rows = p.rows /\ q.loading = p.loading
             /\ q.resetting = p.resetting /\ q.status = p.status /\ q.seq = p.seq
             /\ q.tasks = p.tasks /\ q.taskSeq = p.taskSeq
BY DEF Page

\* The owner resets.
LEMMA ResetEdit ==
  ASSUME NEW p \in Page, NEW targets \in SUBSET Disks
  PROVE  LET q == [p EXCEPT !.resetting = TRUE, !.targets = targets]
         IN  /\ q \in Page
             /\ q.targets = targets /\ q.resetting
             /\ q.rows = p.rows /\ q.loading = p.loading
             /\ q.status = p.status /\ q.seq = p.seq
             /\ q.tasks = p.tasks /\ q.taskSeq = p.taskSeq
BY DEF Page

\* The loading ends without a list.
LEMMA LoadedEdit ==
  ASSUME NEW p \in Page
  PROVE  LET q == [p EXCEPT !.loading = FALSE]
         IN  /\ q \in Page
             /\ ~ q.loading
             /\ q.rows = p.rows /\ q.targets = p.targets
             /\ q.resetting = p.resetting /\ q.status = p.status /\ q.seq = p.seq
             /\ q.tasks = p.tasks /\ q.taskSeq = p.taskSeq
BY DEF Page

-----------------------------------------------------------------------------
(***************************************************************************)
(* Types.                                                                  *)
(***************************************************************************)
\* Requests are numbered as they are sent.
Numbered == \A r \in asks : r.id <= asked

DiskTypes == TypeOK /\ Numbered

\* What is asked for together.
AskKinds == {{"disks"}, {"status"}, {"operation"}, {"unmount"}, {"disks", "status"}}

\* A request that is sent: its number is the next one, and within the bound.
LEMMA AskForTypes ==
  ASSUME DiskTabAssumption, TypeOK, NEW before, before \subseteq asks,
         NEW kinds \in AskKinds,
         AskFor(kinds, before)
  PROVE  /\ asked \in Nat /\ asked' \in 3 .. 3 + MaxEvents /\ asked < asked'
         /\ asks' = before \cup {Request(asked', kind) : kind \in kinds}
         /\ asks' \subseteq Ask
         /\ \A kind \in kinds : Request(asked', kind).id = asked'
<1>1. /\ MaxEvents \in Nat /\ asked \in 3 .. 3 + MaxEvents /\ incidents \in Nat /\ emitted \in Nat
      /\ asks \subseteq Ask
  BY DEF TypeOK, DiskTabAssumption, Reports
<1>2. Cardinality(kinds) \in {1, 2}
  <2>1. \A x : Cardinality({x}) = 1
    BY FS_Singleton
  <2>2. Cardinality({"disks", "status"}) = 2
    <3>1. IsFiniteSet({"disks"}) /\ Cardinality({"disks"}) = 1 /\ "status" \notin {"disks"}
      BY FS_Singleton
    <3>2. Cardinality({"disks"} \cup {"status"}) = 1 + 1
      BY <3>1, FS_AddElement
    <3>3. {"disks"} \cup {"status"} = {"disks", "status"}
      OBVIOUS
    <3>4. QED
      BY <3>2, <3>3
  <2>3. QED
    BY <2>1, <2>2 DEF AskKinds
<1>3. /\ asked' = asked + Cardinality(kinds)
      /\ asked + incidents + emitted + Cardinality(kinds) <= 3 + MaxEvents
      /\ asks' = before \cup {Request(asked', kind) : kind \in kinds}
  BY DEF AskFor, Allowed
<1>4. asked' \in 3 .. 3 + MaxEvents /\ asked < asked'
  BY <1>1, <1>2, <1>3
<1>5. \A kind \in {"disks", "status", "operation", "unmount"} : Request(asked', kind) \in Ask
  <2>1. 0 \in Reports /\ <<>> \in Rows
    BY DisksWithRows DEF Reports, DiskTabAssumption
  <2>2. asked' \in 1 .. 3 + MaxEvents
    BY <1>1, <1>4
  <2>3. QED
    BY <2>1, <2>2 DEF Ask, Request
<1>6. asks' \subseteq Ask
  BY <1>1, <1>3, <1>5 DEF AskKinds
<1>7. QED
  BY <1>1, <1>3, <1>4, <1>6 DEF Request

\* Whatever happens, the page that is rendered has its type.
LEMMA RenderedTypes ==
  ASSUME DiskTabAssumption, NEW q \in Page, page' = Rendered(q)
  PROVE  page' \in Page
BY RenderedPage DEF IsRendered

LEMMA DiskInitTypes ==
  ASSUME DiskTabAssumption, Init
  PROVE  DiskTypes
<1>1. MaxEvents \in Nat /\ 0 \in Reports /\ <<>> \in Rows
  BY DisksWithRows DEF DiskTabAssumption, Reports
<1>2. FirstPage \in Page
  BY <1>1 DEF FirstPage, Page, Status
<1>3. asks \subseteq Ask
  <2>1. \A n \in 1 .. 3 : \A kind \in {"disks", "status", "tasks"} : Request(n, kind) \in Ask
    BY <1>1 DEF Request, Ask
  <2>2. QED
    BY <2>1 DEF Init
<1>4. machine \in [Disks -> {"absent", "free", "mounted"}]
  BY DEF Init, DiskTabAssumption
<1>5. Numbered
  BY DEF Init, Numbered, Request
<1>6. QED
  BY <1>1, <1>2, <1>3, <1>4, <1>5 DEF Init, TypeOK, DiskTypes

\* No step sends a request but with the next number.
LEMMA NumbersNext ==
  ASSUME DiskTabAssumption, DiskTypes, [Next]_vars
  PROVE  Numbered'
<1> USE DEF serverVars
<1>1. TypeOK /\ Numbered /\ asked \in Nat /\ \A r \in asks : r \in Ask /\ r.id \in Nat
  BY DEF DiskTypes, TypeOK, Ask
<1>2. ASSUME asks' \subseteq asks, asked' = asked PROVE Numbered'
  BY <1>1, <1>2 DEF Numbered
<1>3. ASSUME NEW before, before \subseteq asks,
             NEW kinds \in AskKinds,
             AskFor(kinds, before)
      PROVE  Numbered'
  <2>1. /\ asked \in Nat /\ asked' \in Nat /\ asked < asked'
        /\ asks' = before \cup {Request(asked', kind) : kind \in kinds}
        /\ \A kind \in kinds : Request(asked', kind).id = asked'
    <3>1. /\ asked' \in 3 .. 3 + MaxEvents /\ asked < asked'
          /\ asks' = before \cup {Request(asked', kind) : kind \in kinds}
          /\ \A kind \in kinds : Request(asked', kind).id = asked'
      BY <1>1, <1>3, AskForTypes
    <3>2. QED
      BY <1>1, <3>1
  <2>2. ASSUME NEW r \in asks' PROVE r.id <= asked'
    <3>1. CASE r \in before
      BY <1>1, <1>3, <2>1, <3>1 DEF Numbered
    <3>2. CASE r \notin before
      <4>1. r.id = asked'
        BY <2>1, <3>2
      <4>2. QED
        BY <2>1, <4>1
    <3>3. QED
      BY <3>1, <3>2
  <2>3. QED
    BY <2>2 DEF Numbered
<1>4. CASE ChangeMachine \/ Scan \/ Report \/ StoreReport \/ Disconnect
  BY <1>2, <1>4 DEF ChangeMachine, Scan, Report, StoreReport, Disconnect
<1>5. ASSUME NEW r \in asks, Serve(r) PROVE Numbered'
  <2>1. Served(r).id = r.id
    BY <1>1 DEF Served, Ask
  <2>2. asks' = (asks \ {r}) \cup {Served(r)} /\ asked' = asked
    BY <1>5 DEF Serve
  <2>3. QED
    BY <1>1, <2>1, <2>2 DEF Numbered
<1>6. ASSUME NEW r \in asks, ReceiveDisks(r) \/ ReceiveStatus(r) \/ ReceiveTasks(r) \/ AskFails(r)
      PROVE  Numbered'
  BY <1>2, <1>6 DEF ReceiveDisks, ReceiveStatus, ReceiveTasks, AskFails
<1>7. ASSUME NEW r \in asks, ReceiveOperation(r) \/ ReceiveUnmount(r) PROVE Numbered'
  <2>1. asks \ {r} \subseteq asks
    OBVIOUS
  <2>2. AskFor({"status"}, asks \ {r}) \/ AskFor({"disks"}, asks \ {r})
    BY <1>7 DEF ReceiveOperation, ReceiveUnmount
  <2>3. QED
    BY <1>3, <2>1, <2>2 DEF AskKinds
<1>8. CASE OnDiskUpdate
  BY <1>3, <1>8 DEF OnDiskUpdate, AskKinds
<1>9. CASE OnRunnerUpdate \/ OnRunnerUpdates \/ ToggleRow \/ ToggleAll
  BY <1>2, <1>9 DEF OnRunnerUpdate, OnRunnerUpdates, ToggleRow, ToggleAll, Select
<1>10. CASE Reset
  BY <1>3, <1>10 DEF Reset, Asked, AskKinds
<1>11. CASE OnAbort \/ RequestUnmountDisk \/ OnLoad \/ OnSave \/ OnWipe \/ DeleteImages
  <2>1. AskFor({"operation"}, asks) \/ AskFor({"unmount"}, asks)
    BY <1>11 DEF OnAbort, RequestUnmountDisk, OnLoad, OnSave, OnWipe, DeleteImages, Operate
  <2>2. QED
    BY <1>3, <2>1 DEF AskKinds
<1>12. CASE UNCHANGED vars
  BY <1>2, <1>12 DEF vars
<1>13. QED
  BY <1>4, <1>5, <1>6, <1>7, <1>8, <1>9, <1>10, <1>11, <1>12
     DEF Next, Server, Answers, Events, User

\* Every step of a tab with disks keeps the types.
LEMMA DiskNextTypes ==
  ASSUME DiskTabAssumption, DiskTypes, [Next]_vars
  PROVE  TypeOK'
<1> USE DEF serverVars
<1>0. /\ MaxEvents \in Nat /\ asked \in 3 .. 3 + MaxEvents /\ incidents \in 0 .. MaxEvents
      /\ emitted \in Nat /\ applied \in 0 .. asked /\ 0 \in Reports
  BY DEF DiskTypes, TypeOK, DiskTabAssumption, Reports
<1>1. /\ TypeOK /\ tab \in Tabs
      /\ machine \in [Disks -> {"absent", "free", "mounted"}]
      /\ announced \in [Disks -> {"absent", "free", "mounted"}]
      /\ emitted \in Reports /\ stored \in Reports /\ pushed \in Seq(Reports) /\ page \in Page
      /\ \A r \in asks : r \in Ask
      /\ mishaps \subseteq {"list", "failed", "status"}
  BY DEF DiskTypes, TypeOK
<1>2. Allowed(1) => incidents + 1 \in 0 .. MaxEvents
  BY <1>0 DEF Allowed
<1>3. ASSUME NEW r \in asks PROVE r.rows \in Rows /\ r.no \in Reports /\ r.id \in 0 .. asked
  BY <1>0, <1>1 DEF DiskTypes, Numbered, Ask
<1>4. CASE ChangeMachine
  <2>1. machine' \in [Disks -> {"absent", "free", "mounted"}] /\ incidents' \in 0 .. MaxEvents
    BY <1>1, <1>2, <1>4 DEF ChangeMachine
  <2>2. mishaps' \subseteq {"list", "failed", "status"}
    BY <1>1, <1>4 DEF ChangeMachine
  <2>3. QED
    BY <1>4, <2>1, <1>1, <2>2 DEF ChangeMachine, TypeOK
<1>5. CASE Scan
  <2>1. pushed' \in Seq(Reports)
    BY <1>0, <1>1, <1>5, AppendProperties DEF Scan
  <2>2. QED
    BY <1>1, <1>5, <2>1 DEF Scan, TypeOK
<1>6. CASE Report
  <2>1. emitted' \in Reports /\ pushed' = Append(pushed, emitted')
    BY <1>0, <1>1, <1>6 DEF Report, Reports
  <2>2. pushed' \in Seq(Reports)
    BY <1>1, <2>1, AppendProperties
  <2>3. QED
    BY <1>6, <2>1, <1>1, <2>2 DEF Report, TypeOK
<1>7. CASE StoreReport
  BY <1>1, <1>7 DEF StoreReport, TypeOK
<1>8. CASE Disconnect
  <2>1. pushed' \in Seq(Reports) /\ incidents' \in 0 .. MaxEvents
    BY <1>2, <1>8 DEF Disconnect
  <2>2. mishaps' \subseteq {"list", "failed", "status"}
    BY <1>1, <1>8 DEF Disconnect
  <2>3. QED
    BY <1>8, <2>1, <1>1, <2>2 DEF Disconnect, TypeOK
<1>9. ASSUME NEW r \in asks, Serve(r) PROVE TypeOK'
  <2>1. Served(r) \in Ask
    <3>1. Listed(machine) \in Rows
      BY <1>1, ListedRows
    <3>2. [r EXCEPT !.served = TRUE, !.rows = Listed(machine)] \in Ask
      BY <1>1, <3>1 DEF Ask
    <3>3. [r EXCEPT !.served = TRUE, !.no = stored] \in Ask
      BY <1>1 DEF Ask
    <3>4. QED
      BY <3>2, <3>3 DEF Served
  <2>2. asks' \subseteq Ask
    BY <1>1, <1>9, <2>1 DEF Serve
  <2>3. QED
    BY <1>9, <1>1, <2>2 DEF Serve, TypeOK
<1>10. ASSUME NEW r \in asks, ReceiveDisks(r) PROVE TypeOK'
  <2>1. WithList(page, r.rows) \in Page
    BY <1>1, <1>3, ListEdit
  <2>2. page' \in Page
    BY <1>10, <2>1, RenderedTypes DEF ReceiveDisks
  <2>3. asks' \subseteq Ask /\ mishaps' \subseteq {"list", "failed", "status"}
    BY <1>1, <1>10 DEF ReceiveDisks
  <2>4. applied' \in 0 .. asked'
    BY <1>0, <1>3, <1>10 DEF ReceiveDisks
  <2>5. QED
    BY <1>10, <2>2, <2>3, <1>1, <2>4 DEF ReceiveDisks, TypeOK
<1>11. ASSUME NEW r \in asks, ReceiveStatus(r) PROVE TypeOK'
  <2>1. [page EXCEPT !.status = [no |-> r.no, seq |-> 0]] \in Page
    BY <1>0, <1>1, <1>3, StatusEdit
  <2>2. page' \in Page
    BY <1>11, <2>1, RenderedTypes DEF ReceiveStatus
  <2>3. asks' \subseteq Ask /\ mishaps' \subseteq {"list", "failed", "status"}
    BY <1>1, <1>11 DEF ReceiveStatus
  <2>4. QED
    BY <1>11, <2>2, <1>1, <2>3 DEF ReceiveStatus, TypeOK
<1>12. ASSUME NEW r \in asks, ReceiveTasks(r) PROVE TypeOK'
  <2>1. [page EXCEPT !.tasks = r.no] \in Page
    BY <1>1, <1>3, TasksEdit
  <2>2. page' \in Page
    BY <1>12, <2>1, RenderedTypes DEF ReceiveTasks
  <2>3. asks' \subseteq Ask /\ mishaps' \subseteq {"list", "failed", "status"}
    BY <1>1, <1>12 DEF ReceiveTasks
  <2>4. QED
    BY <1>12, <2>2, <1>1, <2>3 DEF ReceiveTasks, TypeOK
<1>13. ASSUME NEW before, before \subseteq asks,
              NEW kinds \in AskKinds,
              AskFor(kinds, before), page' \in Page, pushed' \in Seq(Reports),
              UNCHANGED <<tab, serverVars, applied, mishaps>>
       PROVE  TypeOK'
  <2>1. asked' \in 3 .. 3 + MaxEvents /\ asked < asked' /\ asks' \subseteq Ask
    BY <1>1, <1>13, AskForTypes
  <2>2. applied' \in 0 .. asked'
    BY <1>0, <1>13, <2>1
  <2>3. QED
    BY <1>13, <2>1, <1>1, <2>2 DEF TypeOK
<1>14. ASSUME NEW r \in asks, ReceiveOperation(r) PROVE TypeOK'
  <2>1. asks \ {r} \subseteq asks
    OBVIOUS
  <2>2. page' \in Page /\ pushed' \in Seq(Reports)
    BY <1>1, <1>14 DEF ReceiveOperation
  <2>3. QED
    BY <1>13, <1>14, <2>1, <2>2 DEF ReceiveOperation, AskKinds
<1>15. Emptied(page) \in Page
  BY <1>1, EmptyEdit
<1>16. ASSUME NEW r \in asks, ReceiveUnmount(r) PROVE TypeOK'
  <2>1. asks \ {r} \subseteq asks
    OBVIOUS
  <2>2. page' \in Page /\ pushed' \in Seq(Reports)
    BY <1>1, <1>15, <1>16, RenderedTypes DEF ReceiveUnmount
  <2>3. QED
    BY <1>13, <1>16, <2>1, <2>2 DEF ReceiveUnmount, AskKinds
<1>17. ASSUME NEW r \in asks, AskFails(r) PROVE TypeOK'
  <2>1. page' \in Page
    BY <1>1, <1>17, LoadedEdit DEF AskFails
  <2>2. asks' \subseteq Ask /\ mishaps' \subseteq {"list", "failed", "status"}
    BY <1>1, <1>17 DEF AskFails
  <2>3. incidents' \in 0 .. MaxEvents
    BY <1>2, <1>17 DEF AskFails
  <2>4. QED
    BY <1>17, <2>1, <2>2, <1>1, <2>3 DEF AskFails, TypeOK
<1>18. CASE OnDiskUpdate
  <2>1. page' \in Page
    BY <1>15, <1>18, RenderedTypes DEF OnDiskUpdate
  <2>2. pushed' \in Seq(Reports)
    BY <1>1, <1>18 DEF OnDiskUpdate
  <2>3. QED
    BY <1>13, <1>18, <2>1, <2>2 DEF OnDiskUpdate, AskKinds
<1>19. ASSUME NEW n \in Reports PROVE Told(n) \in Page
  BY <1>1, <1>19, StatusEdit DEF Told
<1>20. CASE OnRunnerUpdate
  <2>1. Head(pushed) \in Reports /\ pushed' \in Seq(Reports)
    BY <1>1, <1>20 DEF OnRunnerUpdate
  <2>2. page' \in Page
    BY <1>19, <1>20, <2>1, RenderedTypes DEF OnRunnerUpdate
  <2>3. QED
    BY <1>20, <2>1, <1>1, <2>2 DEF OnRunnerUpdate, TypeOK
<1>21. CASE OnRunnerUpdates
  <2>1. /\ Len(pushed) \in Nat /\ Len(pushed) > 1
        /\ pushed' = Tail(Tail(pushed)) /\ page' = Rendered(Told(pushed[2]))
    BY <1>1, <1>21 DEF OnRunnerUpdates
  <2>2. pushed[2] \in Reports
    BY <1>1, <2>1
  <2>3. Tail(pushed) \in Seq(Reports) /\ Len(Tail(pushed)) = Len(pushed) - 1
    BY <1>1, <2>1
  <2>4. pushed' \in Seq(Reports)
    <3>1. Len(Tail(pushed)) # 0 /\ Len(<<>>) = 0
      BY <2>1, <2>3
    <3>2. Tail(pushed) # <<>>
      BY <3>1, Zenon
    <3>3. QED
      BY <2>1, <2>3, <3>2
  <2>5. page' \in Page
    BY <1>19, <2>1, <2>2, RenderedTypes
  <2>6. QED
    BY <1>21, <2>4, <1>1, <2>5 DEF OnRunnerUpdates, TypeOK
<1>22. ASSUME NEW targets \in SUBSET Disks, Select(targets) PROVE TypeOK'
  <2>1. page' \in Page
    BY <1>1, <1>22, TargetsEdit, RenderedTypes DEF Select
  <2>2. QED
    BY <1>22, <1>1, <2>1 DEF Select, TypeOK
<1>23. Selectable(page) \subseteq Disks /\ page.targets \subseteq Disks
  BY <1>1, RowsOfDisks DEF Selectable, Shown, Page
<1>24. CASE ToggleRow
  <2>1. PICK d \in Selectable(page) : Select(IF tab = "save" THEN Clicked(d) ELSE Toggled(page, d))
    BY <1>24 DEF ToggleRow
  <2>2. Clicked(d) \in SUBSET Disks /\ Toggled(page, d) \in SUBSET Disks
    BY <1>23 DEF Clicked, Toggled
  <2>3. QED
    BY <1>22, <2>1, <2>2
<1>25. CASE ToggleAll
  <2>1. Select(Selectable(page)) \/ Select({})
    BY <1>25 DEF ToggleAll
  <2>2. QED
    BY <1>22, <1>23, <2>1
<1>26. CASE Reset
  <2>1. Kept \in SUBSET Disks /\ Asked \in AskKinds
    BY <1>23 DEF Kept, Asked, AskKinds
  <2>2. page' \in Page /\ pushed' \in Seq(Reports)
    BY <1>1, <1>26, <2>1, ResetEdit, RenderedTypes DEF Reset
  <2>3. QED
    BY <1>13, <1>26, <2>1, <2>2 DEF Reset
<1>27. CASE OnAbort \/ RequestUnmountDisk \/ OnLoad \/ OnSave \/ OnWipe \/ DeleteImages
  <2>1. /\ AskFor({"operation"}, asks) \/ AskFor({"unmount"}, asks)
        /\ UNCHANGED <<tab, serverVars, pushed, page, applied, mishaps>>
    BY <1>27 DEF OnAbort, RequestUnmountDisk, OnLoad, OnSave, OnWipe, DeleteImages, Operate
  <2>2. page' \in Page /\ pushed' \in Seq(Reports)
    BY <1>1, <2>1
  <2>3. QED
    BY <1>13, <2>1, <2>2 DEF AskKinds
<1>28. CASE UNCHANGED vars
  BY <1>1, <1>28 DEF vars, TypeOK
<1>29. QED
  BY <1>4, <1>5, <1>6, <1>7, <1>8, <1>9, <1>10, <1>11, <1>12, <1>14, <1>16, <1>17, <1>18, <1>20,
     <1>21, <1>24, <1>25, <1>26, <1>27, <1>28 DEF Next, Server, Answers, Events, User

-----------------------------------------------------------------------------
(***************************************************************************)
(* Targets.                                                                *)
(***************************************************************************)
\* No target is a disk that is shown as mounted, and each is shown, unless the
\* list is loading or could not be loaded.
Sensible(p) ==
  /\ \A d \in DOMAIN p.rows : p.rows[d].mounted => d \notin p.targets
  /\ "failed" \notin mishaps /\ ~ p.loading => p.targets \subseteq DOMAIN p.rows

TargetsTold == Marked(page) /\ ~ page.resetting /\ Sensible(page)

\* Rendering keeps the targets sensible.
LEMMA RenderingTells ==
  ASSUME DiskTabAssumption, NEW q \in Page, page' = Rendered(q),
         \A d \in DOMAIN q.rows : q.rows[d].mounted => d \notin q.targets,
         "failed" \notin mishaps' /\ ~ q.loading /\ ~ q.resetting
           => q.targets \subseteq DOMAIN q.rows
  PROVE  TargetsTold'
<1>1. IsRendered(q, page')
  BY RenderedPage
<1>2. /\ page'.targets = q.targets /\ ~ page'.resetting
      /\ page'.loading = (q.loading \/ q.resetting)
      /\ Marked(page')
      /\ (q.resetting /\ DOMAIN page'.rows = {}) \/ DOMAIN page'.rows = DOMAIN q.rows
      /\ \A d \in DOMAIN page'.rows : page'.rows[d].mounted = q.rows[d].mounted
  BY <1>1 DEF IsRendered
<1>3. \A d \in DOMAIN page'.rows : page'.rows[d].mounted => d \notin page'.targets
  BY <1>2
<1>4. "failed" \notin mishaps' /\ ~ page'.loading => page'.targets \subseteq DOMAIN page'.rows
  <2>1. SUFFICES ASSUME "failed" \notin mishaps', ~ page'.loading
                 PROVE  page'.targets \subseteq DOMAIN page'.rows
    OBVIOUS
  <2>2. ~ q.loading /\ ~ q.resetting
    BY <1>2, <2>1
  <2>3. QED
    BY <1>2, <2>1, <2>2
<1>5. QED
  BY <1>2, <1>3, <1>4 DEF TargetsTold, Sensible, Marked

\* Every step that renders leaves them told.
LEMMA TargetsToldNext ==
  ASSUME DiskTabAssumption, DiskTypes, TargetsTold, [Next]_vars
  PROVE  TargetsTold'
<1> USE DEF serverVars
<1>0. /\ page \in Page /\ Marked(page) /\ ~ page.resetting
      /\ \A d \in DOMAIN page.rows : page.rows[d].mounted => d \notin page.targets
      /\ "failed" \notin mishaps /\ ~ page.loading => page.targets \subseteq DOMAIN page.rows
      /\ pushed \in Seq(Reports) /\ 0 \in Reports
      /\ \A r \in asks : r.rows \in Rows /\ r.no \in Reports
      /\ page.targets \subseteq Disks /\ DOMAIN page.rows \subseteq Disks
  <2>1. /\ page \in Page /\ pushed \in Seq(Reports) /\ \A r \in asks : r \in Ask
    BY DEF DiskTypes, TypeOK
  <2>2. page.targets \subseteq Disks /\ DOMAIN page.rows \subseteq Disks
    BY <2>1, RowsOfDisks DEF Page
  <2>3. QED
    BY <2>1, <2>2 DEF TargetsTold, Sensible, Ask, Reports, DiskTabAssumption
<1>1. ASSUME page' = page, mishaps \ {"status"} \subseteq mishaps' PROVE TargetsTold'
  BY <1>1 DEF TargetsTold, Sensible, Marked
<1>2. CASE ChangeMachine \/ Scan \/ Report \/ StoreReport \/ Disconnect
  BY <1>1, <1>2 DEF ChangeMachine, Scan, Report, StoreReport, Disconnect
<1>3. ASSUME NEW r \in asks, Serve(r) \/ ReceiveOperation(r) PROVE TargetsTold'
  BY <1>1, <1>3 DEF Serve, ReceiveOperation
<1>4. ASSUME NEW r \in asks, ReceiveDisks(r) PROVE TargetsTold'
  <2> DEFINE q == WithList(page, r.rows)
  <2>1. q \in Page /\ q.targets = {}
    BY <1>0, ListEdit
  <2>2. page' = Rendered(q)
    BY <1>4 DEF ReceiveDisks
  <2> HIDE DEF q
  <2>3. QED
    BY <2>1, <2>2, RenderingTells
<1>5. ASSUME NEW q \in Page, q.rows = page.rows, q.targets = page.targets, q.loading = page.loading,
             page' = Rendered(q), mishaps \ {"status"} \subseteq mishaps'
      PROVE  TargetsTold'
  BY <1>0, <1>5, RenderingTells
<1>6. ASSUME NEW r \in asks, ReceiveStatus(r) PROVE TargetsTold'
  <2> DEFINE q == [page EXCEPT !.status = [no |-> r.no, seq |-> 0]]
  <2>1. q \in Page /\ q.rows = page.rows /\ q.targets = page.targets /\ q.loading = page.loading
    BY <1>0 DEF Page, Status
  <2>2. page' = Rendered(q) /\ mishaps \subseteq mishaps'
    BY <1>6 DEF ReceiveStatus
  <2> HIDE DEF q
  <2>3. QED
    BY <1>5, <2>1, <2>2
<1>7. ASSUME NEW r \in asks, ReceiveTasks(r) PROVE TargetsTold'
  <2> DEFINE q == [page EXCEPT !.tasks = r.no]
  <2>1. q \in Page /\ q.rows = page.rows /\ q.targets = page.targets /\ q.loading = page.loading
    BY <1>0, TasksEdit
  <2>2. page' = Rendered(q) /\ mishaps \subseteq mishaps'
    BY <1>7 DEF ReceiveTasks
  <2> HIDE DEF q
  <2>3. QED
    BY <1>5, <2>1, <2>2
<1>8. ASSUME page' = Rendered(Emptied(page)) PROVE TargetsTold'
  <2> DEFINE q == Emptied(page)
  <2>1. q \in Page /\ DOMAIN q.rows = {} /\ q.loading
    BY <1>0, EmptyEdit
  <2>2. page' = Rendered(q)
    BY <1>8
  <2> HIDE DEF q
  <2>3. QED
    BY <2>1, <2>2, RenderingTells
<1>9. ASSUME NEW r \in asks, ReceiveUnmount(r) PROVE TargetsTold'
  BY <1>8, <1>9 DEF ReceiveUnmount
<1>10. ASSUME NEW r \in asks, AskFails(r) PROVE TargetsTold'
  <2>1. CASE r.kind = "disks"
    <3>1. page' = [page EXCEPT !.loading = FALSE] /\ "failed" \in mishaps'
      BY <1>10, <2>1 DEF AskFails
    <3>2. page'.rows = page.rows /\ page'.targets = page.targets /\ page'.resetting = page.resetting
      BY <1>0, <3>1, LoadedEdit
    <3>3. QED
      BY <1>0, <3>1, <3>2 DEF TargetsTold, Sensible, Marked
  <2>2. CASE r.kind # "disks"
    BY <1>1, <1>10, <2>2 DEF AskFails
  <2>3. QED
    BY <2>1, <2>2
<1>11. CASE OnDiskUpdate
  BY <1>8, <1>11 DEF OnDiskUpdate
<1>12. ASSUME NEW n \in Reports, page' = Rendered(Told(n)), mishaps' = mishaps \ {"status"}
       PROVE  TargetsTold'
  <2> DEFINE q == Told(n)
  <2>1. q \in Page /\ q.rows = page.rows /\ q.targets = page.targets /\ q.loading = page.loading
    BY <1>0 DEF Told, Page, Status
  <2>2. page' = Rendered(q) /\ mishaps \ {"status"} \subseteq mishaps'
    BY <1>12
  <2> HIDE DEF q
  <2>3. QED
    BY <1>5, <2>1, <2>2
<1>13. CASE OnRunnerUpdate
  <2>1. Head(pushed) \in Reports
    BY <1>0, <1>13 DEF OnRunnerUpdate
  <2>2. QED
    BY <1>12, <1>13, <2>1 DEF OnRunnerUpdate
<1>14. CASE OnRunnerUpdates
  <2>1. Len(pushed) \in Nat /\ Len(pushed) > 1
    BY <1>0, <1>14 DEF OnRunnerUpdates
  <2>2. pushed[2] \in Reports
    BY <1>0, <2>1
  <2>3. QED
    BY <1>12, <1>14, <2>2 DEF OnRunnerUpdates
<1>15. ASSUME NEW targets \in SUBSET Disks, Select(targets),
              \A d \in targets : d \in page.targets \/ d \in Selectable(page)
       PROVE  TargetsTold'
  <2> DEFINE q == [page EXCEPT !.targets = targets]
  <2>1. q \in Page /\ q.rows = page.rows /\ q.targets = targets /\ q.loading = page.loading
    BY <1>0 DEF Page
  <2>2. page' = Rendered(q) /\ mishaps' = mishaps
    BY <1>15 DEF Select
  <2>3. \A d \in Selectable(page) : d \in DOMAIN page.rows /\ ~ page.rows[d].mounted
    BY DEF Selectable, Shown
  <2> HIDE DEF q
  <2>4. \A d \in DOMAIN q.rows : q.rows[d].mounted => d \notin q.targets
    BY <1>0, <1>15, <2>1, <2>3
  <2>5. "failed" \notin mishaps' /\ ~ q.loading /\ ~ q.resetting
          => q.targets \subseteq DOMAIN q.rows
    BY <1>0, <1>15, <2>1, <2>2, <2>3
  <2>6. QED
    BY <2>1, <2>2, <2>4, <2>5, RenderingTells
<1>16. Selectable(page) \subseteq Disks
  BY <1>0 DEF Selectable, Shown
<1>17. CASE ToggleRow
  <2>1. PICK d \in Selectable(page) : Select(IF tab = "save" THEN Clicked(d) ELSE Toggled(page, d))
    BY <1>17 DEF ToggleRow
  <2>2. CASE tab = "save"
    <3>1. Clicked(d) \in SUBSET Disks /\ \A e \in Clicked(d) : e \in Selectable(page)
      BY <1>16 DEF Clicked
    <3>2. QED
      BY <1>15, <2>1, <2>2, <3>1
  <2>3. CASE tab # "save"
    <3>1. /\ Toggled(page, d) \in SUBSET Disks
          /\ \A e \in Toggled(page, d) : e \in page.targets \/ e \in Selectable(page)
      BY <1>0, <1>16 DEF Toggled
    <3>2. QED
      BY <1>15, <2>1, <2>3, <3>1
  <2>4. QED
    BY <2>2, <2>3
<1>18. CASE ToggleAll
  <2>1. Select(Selectable(page)) \/ Select({})
    BY <1>18 DEF ToggleAll
  <2>2. QED
    BY <1>15, <1>16, <2>1
<1>19. CASE Reset
  <2> DEFINE q == [page EXCEPT !.resetting = TRUE, !.targets = Kept]
  <2>1. Kept \subseteq page.targets /\ Kept \in SUBSET Disks
    BY <1>0 DEF Kept
  <2>2. q \in Page /\ q.rows = page.rows /\ q.targets = Kept /\ q.resetting
    BY <1>0, <2>1 DEF Page
  <2>3. page' = Rendered(q)
    BY <1>19 DEF Reset
  <2> HIDE DEF q
  <2>4. \A d \in DOMAIN q.rows : q.rows[d].mounted => d \notin q.targets
    BY <1>0, <2>1, <2>2
  <2>5. QED
    BY <2>2, <2>3, <2>4, RenderingTells
<1>20. CASE OnAbort \/ RequestUnmountDisk \/ OnLoad \/ OnSave \/ OnWipe \/ DeleteImages
  <2>1. UNCHANGED <<page, mishaps>>
    BY <1>20 DEF OnAbort, RequestUnmountDisk, OnLoad, OnSave, OnWipe, DeleteImages, Operate
  <2>2. QED
    BY <1>1, <2>1
<1>21. CASE UNCHANGED vars
  BY <1>1, <1>21 DEF vars
<1>22. QED
  BY <1>2, <1>3, <1>4, <1>6, <1>7, <1>9, <1>10, <1>11, <1>13, <1>14, <1>17, <1>18, <1>19, <1>20,
     <1>21 DEF Next, Server, Answers, Events, User

-----------------------------------------------------------------------------
(***************************************************************************)
(* The list of disks.                                                      *)
(***************************************************************************)
\* Rows of the same disks, mounted or not.
SameDisks(rows, other) ==
  DOMAIN rows = DOMAIN other /\ \A d \in DOMAIN rows : rows[d].mounted = other[d].mounted

IsList(r) == r.kind = "disks"

\* Requests for the list have numbers of their own, and none is answered twice.
ListNumbers ==
  /\ \A r, q \in asks : IsList(r) /\ IsList(q) /\ r.id = q.id => r = q
  /\ \A r \in asks : IsList(r) => r.id # applied

\* The request that was sent last, and is still to be answered.
LastList(r) ==
  /\ IsList(r) /\ applied < r.id
  /\ \A q \in asks : IsList(q) => q.id <= r.id

\* The list as it was announced last is on its way, or on the page.
ListComes ==
  \/ \E r \in asks : LastList(r) /\ (r.served => SameDisks(r.rows, Listed(machine)))
  \/ (\A r \in asks : IsList(r) => r.id < applied) /\ SameDisks(page.rows, Listed(machine))

ListWillCome ==
  machine = announced /\ "list" \notin mishaps /\ (\A k \in DOMAIN pushed : pushed[k] # 0)
    => ListComes

ListInv == ListNumbers /\ ListWillCome

\* Rendering does not change which disks are shown, unless it resets them.
LEMMA RenderingKeepsDisks ==
  ASSUME DiskTabAssumption, NEW q \in Page, ~ q.resetting, page' = Rendered(q)
  PROVE  SameDisks(page'.rows, q.rows)
<1>1. IsRendered(q, page')
  BY RenderedPage
<1>2. QED
  BY <1>1 DEF IsRendered, SameDisks

\* A new request for the list is the last one.
LEMMA ListAskedFor ==
  ASSUME DiskTabAssumption, DiskTypes, ListNumbers, NEW before, before \subseteq asks,
         NEW kinds \in AskKinds, AskFor(kinds, before), applied' = applied
  PROVE  ListNumbers' /\ ("disks" \in kinds => ListComes')
<1>1. /\ TypeOK /\ asked \in Nat /\ applied \in Nat /\ applied <= asked
      /\ \A r \in asks : r.id \in Nat /\ r.id <= asked
  BY DEF DiskTypes, TypeOK, Numbered, Ask
<1>2. /\ asked' \in Nat /\ asked < asked'
      /\ asks' = before \cup {Request(asked', kind) : kind \in kinds}
  <2>1. /\ asked' \in 3 .. 3 + MaxEvents /\ asked < asked'
        /\ asks' = before \cup {Request(asked', kind) : kind \in kinds}
    BY <1>1, AskForTypes
  <2>2. QED
    BY <1>1, <2>1
<1> DEFINE new == Request(asked', "disks")
<1>3. /\ new.id = asked' /\ new.kind = "disks" /\ ~ new.served
      /\ \A kind \in kinds : Request(asked', kind).kind = kind
  BY DEF Request
<1> HIDE DEF new
<1>4. ASSUME NEW r \in asks', IsList(r) PROVE r \in before \/ ("disks" \in kinds /\ r = new)
  BY <1>2, <1>3, <1>4 DEF IsList, new
<1>5. \A r \in before : r \in asks /\ r.id \in Nat /\ r.id < asked'
  BY <1>1, <1>2
<1>6. ListNumbers'
  <2>1. \A r, q \in asks' : IsList(r) /\ IsList(q) /\ r.id = q.id => r = q
    BY <1>3, <1>4, <1>5 DEF ListNumbers
  <2>2. \A r \in asks' : IsList(r) => r.id # applied'
    BY <1>1, <1>2, <1>3, <1>4, <1>5 DEF ListNumbers
  <2>3. QED
    BY <2>1, <2>2 DEF ListNumbers, IsList
<1>7. ASSUME "disks" \in kinds PROVE ListComes'
  <2>1. new \in asks'
    BY <1>2, <1>7 DEF new
  <2>2. applied' < new.id /\ \A q \in asks' : IsList(q) => q.id <= new.id
    BY <1>1, <1>2, <1>3, <1>4, <1>5
  <2>3. QED
    BY <1>3, <2>1, <2>2 DEF ListComes, LastList, IsList
<1>8. QED
  BY <1>6, <1>7

\* Steps that have nothing to do with the list.
LEMMA ListUndisturbed ==
  ASSUME ListInv, UNCHANGED <<machine, announced, applied>>,
         mishaps \ {"status"} \subseteq mishaps',
         {r \in asks' : IsList(r)} = {r \in asks : IsList(r)},
         SameDisks(page'.rows, page.rows),
         \/ "list" \in mishaps'
         \/ (\A k \in DOMAIN pushed' : pushed'[k] # 0) => \A k \in DOMAIN pushed : pushed[k] # 0
  PROVE  ListInv'
<1>1. \A r : r \in asks' /\ IsList(r) <=> r \in asks /\ IsList(r)
  OBVIOUS
<1>2. ListNumbers'
  BY <1>1 DEF ListInv, ListNumbers, IsList
<1>3. ListComes => ListComes'
  <2>1. \A rows : SameDisks(page.rows, rows) => SameDisks(page'.rows, rows)
    BY DEF SameDisks
  <2>2. ASSUME NEW r \in asks, LastList(r), r.served => SameDisks(r.rows, Listed(machine))
        PROVE  ListComes'
    <3>1. r \in asks' /\ LastList(r)'
      BY <1>1, <2>2 DEF LastList, IsList
    <3>2. r.served => SameDisks(r.rows, Listed(machine'))
      BY <2>2
    <3>3. QED
      BY <3>1, <3>2 DEF ListComes, LastList, SameDisks
  <2>3. ASSUME \A r \in asks : IsList(r) => r.id < applied, SameDisks(page.rows, Listed(machine))
        PROVE  ListComes'
    <3>1. \A r \in asks' : IsList(r) => r.id < applied'
      BY <1>1, <2>3
    <3>2. SameDisks(page'.rows, Listed(machine'))
      BY <2>1, <2>3
    <3>3. QED
      BY <3>1, <3>2 DEF ListComes, SameDisks, IsList
  <2>4. QED
    BY <2>2, <2>3 DEF ListComes
<1>4. ListWillCome'
  BY <1>3 DEF ListInv, ListWillCome
<1>5. QED
  BY <1>2, <1>4 DEF ListInv

\* Nor do other requests.
LEMMA OthersAskedFor ==
  ASSUME NEW kinds \in AskKinds, "disks" \notin kinds, NEW before,
         {r \in before : IsList(r)} = {r \in asks : IsList(r)}, AskFor(kinds, before)
  PROVE  {r \in asks' : IsList(r)} = {r \in asks : IsList(r)}
<1>1. asks' = before \cup {Request(asked', kind) : kind \in kinds}
  BY DEF AskFor
<1>2. \A kind \in kinds : ~ IsList(Request(asked', kind))
  BY DEF IsList, Request
<1>3. QED
  BY <1>1, <1>2

LEMMA SameDisksAreSame == \A rows : SameDisks(rows, rows)
BY DEF SameDisks

\* The events that are left after the first, or the first two, were taken.
LEMMA EventTaken ==
  ASSUME NEW S, NEW s \in Seq(S), s # <<>>
  PROVE  /\ Head(s) = s[1] /\ Len(s) \in Nat /\ Len(s) >= 1
         /\ Tail(s) \in Seq(S) /\ Len(Tail(s)) = Len(s) - 1 /\ DOMAIN Tail(s) = 1 .. Len(s) - 1
         /\ \A k \in 1 .. Len(s) - 1 : Tail(s)[k] = s[k + 1]
BY HeadTailProperties

LEMMA EventsTaken ==
  ASSUME NEW S, NEW s \in Seq(S), Len(s) > 1
  PROVE  /\ Tail(Tail(s)) \in Seq(S) /\ DOMAIN Tail(Tail(s)) = 1 .. Len(s) - 2
         /\ \A k \in 1 .. Len(s) - 2 : Tail(Tail(s))[k] = s[k + 2]
<1> DEFINE t == Tail(s)
<1>1. Len(s) \in Nat /\ Len(<<>>) = 0 /\ Len(s) # 0
  OBVIOUS
<1>2. s # <<>>
  BY <1>1, Zenon
<1>3. t \in Seq(S) /\ Len(t) = Len(s) - 1 /\ \A k \in 1 .. Len(s) - 1 : t[k] = s[k + 1]
  BY <1>2, EventTaken
<1> HIDE DEF t
<1>4. Len(t) # 0
  BY <1>1, <1>3
<1>5. t # <<>>
  BY <1>1, <1>4, Zenon
<1>6. /\ Tail(t) \in Seq(S) /\ DOMAIN Tail(t) = 1 .. Len(t) - 1
      /\ \A k \in 1 .. Len(t) - 1 : Tail(t)[k] = t[k + 1]
  BY <1>3, <1>5, EventTaken
<1>7. \A k \in 1 .. Len(s) - 2 : k \in 1 .. Len(t) - 1 /\ k + 1 \in 1 .. Len(s) - 1
  BY <1>1, <1>3
<1>8. QED
  BY <1>1, <1>3, <1>6, <1>7 DEF t

\* Every step keeps that the list is there, is on its way, or was lost with a mishap.
LEMMA ListInvNext ==
  ASSUME DiskTabAssumption, DiskTypes, TargetsTold, ListInv, [Next]_vars
  PROVE  ListInv'
<1> USE DEF serverVars
<1>0. /\ page \in Page /\ ~ page.resetting /\ pushed \in Seq(Reports) /\ 0 \in Reports
      /\ machine \in [Disks -> {"absent", "free", "mounted"}]
      /\ \A r \in asks : r \in Ask /\ r.rows \in Rows /\ r.no \in Reports /\ r.id \in Nat
      /\ applied \in Nat /\ ListNumbers /\ ListWillCome
  <2>1. page \in Page /\ pushed \in Seq(Reports) /\ (\A r \in asks : r \in Ask) /\ applied \in Nat
        /\ machine \in [Disks -> {"absent", "free", "mounted"}]
    BY DEF DiskTypes, TypeOK
  <2>2. QED
    BY <2>1 DEF TargetsTold, Ask, Reports, DiskTabAssumption, ListInv
<1>1. ASSUME UNCHANGED <<asks, applied>> PROVE ListNumbers'
  BY <1>0, <1>1 DEF ListNumbers, IsList
<1>2. ASSUME asks' \subseteq asks, UNCHANGED applied PROVE ListNumbers'
  BY <1>0, <1>2 DEF ListNumbers, IsList
<1>3. ASSUME UNCHANGED <<machine, announced, applied, page, asks>>,
             mishaps \ {"status"} \subseteq mishaps',
             \/ "list" \in mishaps'
             \/ (\A k \in DOMAIN pushed' : pushed'[k] # 0) => \A k \in DOMAIN pushed : pushed[k] # 0
      PROVE  ListInv'
  BY <1>3, ListUndisturbed, SameDisksAreSame
<1>4. CASE ChangeMachine
  <2>1. machine' = announced' => "list" \in mishaps'
    BY <1>4 DEF ChangeMachine
  <2>2. ListNumbers'
    BY <1>1, <1>4 DEF ChangeMachine
  <2>3. QED
    BY <2>1, <2>2 DEF ListInv, ListWillCome
<1>5. CASE Scan
  <2>1. pushed' = Append(pushed, 0)
    BY <1>5 DEF Scan
  <2>2. Len(pushed) + 1 \in DOMAIN pushed' /\ pushed'[Len(pushed) + 1] = 0
    BY <1>0, <2>1
  <2>3. ListNumbers'
    BY <1>1, <1>5 DEF Scan
  <2>4. QED
    BY <2>2, <2>3 DEF ListInv, ListWillCome
<1>6. CASE Report
  <2>1. pushed' = Append(pushed, emitted')
    BY <1>6 DEF Report
  <2>2. \A k \in DOMAIN pushed : k \in DOMAIN pushed' /\ pushed'[k] = pushed[k]
    BY <1>0, <2>1
  <2>3. QED
    BY <1>3, <1>6, <2>2 DEF Report
<1>7. CASE StoreReport
  BY <1>3, <1>7 DEF StoreReport
<1>8. CASE Disconnect
  <2>1. mishaps' = mishaps \cup {IF pushed[k] = 0 THEN "list" ELSE "status" : k \in DOMAIN pushed}
    BY <1>8 DEF Disconnect
  <2>2. "list" \in mishaps' \/ \A k \in DOMAIN pushed : pushed[k] # 0
    BY <2>1
  <2>3. QED
    BY <1>3, <1>8, <2>1, <2>2 DEF Disconnect
<1>9. ASSUME NEW r \in asks, Serve(r) PROVE ListInv'
  <2>0. PICK s : s = Served(r)
    OBVIOUS
  <2>1. /\ asks' = (asks \ {r}) \cup {s} /\ ~ r.served
        /\ UNCHANGED <<machine, announced, applied, page, pushed, mishaps>>
    BY <1>9, <2>0 DEF Serve
  <2>2. s.kind = r.kind /\ s.id = r.id /\ (IsList(r) => s.rows = Listed(machine))
    BY <1>0, <2>0 DEF Served, Ask, IsList
  <2>3. CASE ~ IsList(r)
    <3>1. {q \in asks' : IsList(q)} = {q \in asks : IsList(q)}
      BY <2>1, <2>2, <2>3 DEF IsList
    <3>2. SameDisks(page'.rows, page.rows)
      BY <2>1, SameDisksAreSame
    <3>3. QED
      BY <2>1, <3>1, <3>2, ListUndisturbed
  <2>4. CASE IsList(r)
    <3>1. ListNumbers'
      BY <1>0, <2>1, <2>2, <2>4 DEF ListNumbers, IsList
    <3>2. ASSUME ListComes PROVE ListComes'
      <4>1. CASE \A q \in asks : IsList(q) => q.id < applied
        BY <2>1, <2>2, <2>4, <3>2, <4>1 DEF ListComes, LastList, IsList, SameDisks
      <4>2. ASSUME NEW q \in asks, LastList(q), q.served => SameDisks(q.rows, Listed(machine))
            PROVE  ListComes'
        <5>1. CASE q = r
          <6>1. s \in asks' /\ IsList(s) /\ applied' < s.id
            BY <2>1, <2>2, <2>4, <4>2, <5>1 DEF LastList, IsList
          <6>2. \A p \in asks : IsList(p) => p.id <= s.id
            BY <2>2, <4>2, <5>1 DEF LastList
          <6>3. s.id <= s.id
            BY <1>0, <2>2
          <6>4. \A p \in asks' : IsList(p) => p.id <= s.id
            BY <2>1, <6>2, <6>3
          <6>5. SameDisks(s.rows, Listed(machine'))
            BY <2>1, <2>2, <2>4, SameDisksAreSame
          <6>6. s \in asks' /\ LastList(s)'
            BY <6>1, <6>4 DEF LastList, IsList
          <6>7. QED
            BY <6>5, <6>6 DEF ListComes, SameDisks
        <5>2. CASE q # r
          <6>1. q \in asks' /\ LastList(q)'
            BY <2>1, <2>2, <2>4, <4>2, <5>2 DEF LastList, IsList
          <6>2. q.served => SameDisks(q.rows, Listed(machine'))
            BY <2>1, <4>2
          <6>3. QED
            BY <6>1, <6>2 DEF ListComes, LastList, SameDisks
        <5>3. QED
          BY <5>1, <5>2
      <4>3. QED
        BY <3>2, <4>1, <4>2 DEF ListComes
    <3>3. ListWillCome'
      BY <1>0, <2>1, <3>2 DEF ListWillCome
    <3>4. QED
      BY <3>1, <3>3 DEF ListInv
  <2>5. QED
    BY <2>3, <2>4
<1>10. ASSUME NEW r \in asks, ReceiveDisks(r) PROVE ListInv'
  <2>1. /\ asks' = asks \ {r} /\ IsList(r) /\ r.served
        /\ page' = Rendered(WithList(page, r.rows))
        /\ applied' = (IF r.id < applied THEN applied ELSE r.id)
        /\ mishaps' = (IF r.id < applied THEN mishaps \cup {"list"} ELSE mishaps)
        /\ UNCHANGED <<machine, announced, pushed>>
    BY <1>10 DEF ReceiveDisks, IsList
  <2>2. r.id # applied /\ r.id \in Nat
    BY <1>0, <2>1 DEF ListNumbers
  <2>3. \A q \in asks' : q \in asks /\ q.id \in Nat /\ (IsList(q) => q.id # r.id)
    BY <1>0, <2>1 DEF ListNumbers
  <2>4. ListNumbers'
    BY <1>0, <2>1, <2>3 DEF ListNumbers, IsList
  <2>5. SUFFICES ASSUME ListComes, ~ r.id < applied PROVE ListComes'
    BY <1>0, <2>1, <2>4 DEF ListInv, ListWillCome
  <2>6. applied < r.id /\ applied' = r.id
    BY <1>0, <2>1, <2>2, <2>5
  <2>7. PICK q \in asks : LastList(q) /\ (q.served => SameDisks(q.rows, Listed(machine)))
    BY <2>1, <2>5 DEF ListComes
  <2>8. CASE q = r
    <3>1. \A p \in asks' : IsList(p) => p.id < applied'
      BY <1>0, <2>2, <2>3, <2>6, <2>7, <2>8 DEF LastList
    <3>2. SameDisks(page'.rows, r.rows)
      <4> DEFINE p == WithList(page, r.rows)
      <4>1. p \in Page /\ ~ p.resetting /\ p.rows = r.rows
        BY <1>0, ListEdit
      <4>2. page' = Rendered(p)
        BY <2>1
      <4> HIDE DEF p
      <4>3. QED
        BY <4>1, <4>2, RenderingKeepsDisks
    <3>3. SameDisks(page'.rows, Listed(machine'))
      BY <2>1, <2>7, <2>8, <3>2 DEF SameDisks
    <3>4. QED
      BY <3>1, <3>3 DEF ListComes, SameDisks, IsList
  <2>9. CASE q # r
    <3>1. q \in asks' /\ r.id <= q.id /\ r.id # q.id
      BY <2>1, <2>3, <2>7, <2>9 DEF LastList
    <3>2. LastList(q)'
      BY <1>0, <2>1, <2>2, <2>6, <2>7, <3>1 DEF LastList, IsList
    <3>3. q.served => SameDisks(q.rows, Listed(machine'))
      BY <2>1, <2>7
    <3>4. QED
      BY <3>1, <3>2, <3>3 DEF ListComes, LastList, SameDisks
  <2>10. QED
    BY <2>8, <2>9
<1>11. ASSUME NEW q \in Page, q.rows = page.rows, ~ q.resetting, page' = Rendered(q),
              {r \in asks' : IsList(r)} = {r \in asks : IsList(r)},
              mishaps \ {"status"} \subseteq mishaps',
              UNCHANGED <<machine, announced, applied>>,
              (\A k \in DOMAIN pushed' : pushed'[k] # 0) => \A k \in DOMAIN pushed : pushed[k] # 0
       PROVE  ListInv'
  <2>1. SameDisks(page'.rows, page.rows)
    BY <1>11, RenderingKeepsDisks
  <2>2. QED
    BY <1>11, <2>1, ListUndisturbed
<1>12. ASSUME NEW r \in asks, ReceiveStatus(r) PROVE ListInv'
  <2> DEFINE q == [page EXCEPT !.status = [no |-> r.no, seq |-> 0]]
  <2>1. q \in Page /\ q.rows = page.rows /\ ~ q.resetting
    BY <1>0 DEF Page, Status
  <2>2. /\ page' = Rendered(q) /\ mishaps \subseteq mishaps'
        /\ UNCHANGED <<machine, announced, applied, pushed>>
        /\ asks' = asks \ {r} /\ ~ IsList(r)
    BY <1>12 DEF ReceiveStatus, IsList
  <2> HIDE DEF q
  <2>3. {p \in asks' : IsList(p)} = {p \in asks : IsList(p)}
    BY <2>2
  <2>4. QED
    BY <1>11, <2>1, <2>2, <2>3
<1>13. ASSUME NEW r \in asks, ReceiveTasks(r) PROVE ListInv'
  <2> DEFINE q == [page EXCEPT !.tasks = r.no]
  <2>1. q \in Page /\ q.rows = page.rows /\ ~ q.resetting
    BY <1>0 DEF Page
  <2>2. /\ page' = Rendered(q) /\ mishaps \subseteq mishaps'
        /\ UNCHANGED <<machine, announced, applied, pushed>>
        /\ asks' = asks \ {r} /\ ~ IsList(r)
    BY <1>13 DEF ReceiveTasks, IsList
  <2> HIDE DEF q
  <2>3. {p \in asks' : IsList(p)} = {p \in asks : IsList(p)}
    BY <2>2
  <2>4. QED
    BY <1>11, <2>1, <2>2, <2>3
<1>14. ASSUME NEW kinds \in AskKinds, "disks" \notin kinds, NEW before,
              {r \in before : IsList(r)} = {r \in asks : IsList(r)}, AskFor(kinds, before),
              UNCHANGED <<machine, announced, applied, page, pushed, mishaps>>
       PROVE  ListInv'
  <2>1. {r \in asks' : IsList(r)} = {r \in asks : IsList(r)}
    BY <1>14, OthersAskedFor
  <2>2. SameDisks(page'.rows, page.rows)
    BY <1>14, SameDisksAreSame
  <2>3. QED
    BY <1>14, <2>1, <2>2, ListUndisturbed
<1>15. ASSUME NEW r \in asks, ReceiveOperation(r) PROVE ListInv'
  <2>1. {q \in asks \ {r} : IsList(q)} = {q \in asks : IsList(q)}
    BY <1>15 DEF ReceiveOperation, IsList
  <2>2. {"status"} \in AskKinds /\ "disks" \notin {"status"}
    BY DEF AskKinds
  <2>3. QED
    BY <1>14, <1>15, <2>1, <2>2 DEF ReceiveOperation
<1>16. ASSUME NEW before, before \subseteq asks, NEW kinds \in AskKinds, "disks" \in kinds,
              AskFor(kinds, before), applied' = applied
       PROVE  ListInv'
  <2>1. ListNumbers' /\ ListComes'
    BY <1>0, <1>16, ListAskedFor
  <2>2. QED
    BY <2>1 DEF ListInv, ListWillCome
<1>17. ASSUME NEW r \in asks, ReceiveUnmount(r) PROVE ListInv'
  <2>1. {"disks"} \in AskKinds /\ "disks" \in {"disks"} /\ asks \ {r} \subseteq asks
    BY DEF AskKinds
  <2>2. QED
    BY <1>16, <1>17, <2>1 DEF ReceiveUnmount
<1>18. ASSUME NEW r \in asks, AskFails(r) PROVE ListInv'
  <2>1. CASE IsList(r)
    <3>1. "list" \in mishaps' /\ asks' \subseteq asks /\ applied' = applied
      BY <1>18, <2>1 DEF AskFails, IsList
    <3>2. QED
      BY <1>2, <3>1 DEF ListInv, ListWillCome
  <2>2. CASE ~ IsList(r)
    <3>1. /\ asks' = asks \ {r} /\ page' = page /\ mishaps \subseteq mishaps'
          /\ UNCHANGED <<machine, announced, applied, pushed>>
      BY <1>18, <2>2 DEF AskFails, IsList
    <3>2. {q \in asks' : IsList(q)} = {q \in asks : IsList(q)} /\ SameDisks(page'.rows, page.rows)
      BY <2>2, <3>1, SameDisksAreSame
    <3>3. QED
      BY <3>1, <3>2, ListUndisturbed
  <2>3. QED
    BY <2>1, <2>2
<1>19. CASE OnDiskUpdate
  <2>1. {"disks"} \in AskKinds /\ "disks" \in {"disks"} /\ asks \subseteq asks
    BY DEF AskKinds
  <2>2. QED
    BY <1>16, <1>19, <2>1 DEF OnDiskUpdate
<1>20. ASSUME NEW n \in Reports, page' = Rendered(Told(n)),
              (\A k \in DOMAIN pushed' : pushed'[k] # 0) => \A k \in DOMAIN pushed : pushed[k] # 0,
              mishaps' = mishaps \ {"status"}, UNCHANGED <<machine, announced, applied, asks>>
       PROVE  ListInv'
  <2> DEFINE q == Told(n)
  <2>1. q \in Page /\ q.rows = page.rows /\ ~ q.resetting
    BY <1>0 DEF Told, Page, Status
  <2>2. page' = Rendered(q) /\ {p \in asks' : IsList(p)} = {p \in asks : IsList(p)}
    BY <1>20
  <2> HIDE DEF q
  <2>3. QED
    BY <1>11, <1>20, <2>1, <2>2
<1>21. CASE OnRunnerUpdate
  <2>1. /\ pushed # <<>> /\ pushed' = Tail(pushed) /\ Head(pushed) # 0
    BY <1>21 DEF OnRunnerUpdate
  <2>2. /\ Head(pushed) = pushed[1] /\ Len(pushed) \in Nat /\ Len(pushed) >= 1
        /\ DOMAIN pushed' = 1 .. Len(pushed) - 1
        /\ \A k \in 1 .. Len(pushed) - 1 : pushed'[k] = pushed[k + 1]
    BY <1>0, <2>1, EventTaken
  <2>3. Head(pushed) \in Reports
    BY <1>0, <2>1
  <2>4. ASSUME \A k \in DOMAIN pushed' : pushed'[k] # 0, NEW k \in DOMAIN pushed PROVE pushed[k] # 0
    <3>1. CASE k = 1
      BY <2>1, <2>2, <3>1
    <3>2. CASE k # 1
      <4>1. k \in 1 .. Len(pushed)
        BY <1>0
      <4>2. k - 1 \in 1 .. Len(pushed) - 1 /\ k - 1 + 1 = k
        BY <2>2, <3>2, <4>1
      <4>3. pushed'[k - 1] = pushed[k] /\ k - 1 \in DOMAIN pushed'
        BY <2>2, <4>2
      <4>4. QED
        BY <2>4, <4>3
    <3>3. QED
      BY <3>1, <3>2
  <2>5. QED
    BY <1>20, <1>21, <2>3, <2>4 DEF OnRunnerUpdate
<1>22. CASE OnRunnerUpdates
  <2>1. /\ Len(pushed) \in Nat /\ Len(pushed) > 1 /\ 0 \notin {pushed[1], pushed[2]}
        /\ pushed' = Tail(Tail(pushed)) /\ page' = Rendered(Told(pushed[2]))
    BY <1>0, <1>22 DEF OnRunnerUpdates
  <2>2. pushed[2] \in Reports
    BY <1>0, <2>1
  <2>3. /\ DOMAIN pushed' = 1 .. Len(pushed) - 2
        /\ \A k \in 1 .. Len(pushed) - 2 : pushed'[k] = pushed[k + 2]
    BY <1>0, <2>1, EventsTaken
  <2>4. ASSUME \A k \in DOMAIN pushed' : pushed'[k] # 0, NEW k \in DOMAIN pushed PROVE pushed[k] # 0
    <3>1. CASE k \in {1, 2}
      BY <2>1, <3>1
    <3>2. CASE k \notin {1, 2}
      <4>1. k \in 1 .. Len(pushed)
        BY <1>0
      <4>2. k - 2 \in 1 .. Len(pushed) - 2 /\ k - 2 + 2 = k
        BY <2>1, <3>2, <4>1, SMTT(30)
      <4>3. pushed'[k - 2] = pushed[k] /\ k - 2 \in DOMAIN pushed'
        BY <2>3, <4>2
      <4>4. QED
        BY <2>4, <4>3
    <3>3. QED
      BY <3>1, <3>2
  <2>5. QED
    BY <1>20, <1>22, <2>1, <2>2, <2>4 DEF OnRunnerUpdates
<1>23. ASSUME NEW targets \in SUBSET Disks, Select(targets) PROVE ListInv'
  <2> DEFINE q == [page EXCEPT !.targets = targets]
  <2>1. q \in Page /\ q.rows = page.rows /\ ~ q.resetting
    BY <1>0 DEF Page
  <2>2. page' = Rendered(q) /\ UNCHANGED <<machine, announced, applied, asks, mishaps, pushed>>
    BY <1>23 DEF Select
  <2> HIDE DEF q
  <2>3. QED
    BY <1>11, <2>1, <2>2
<1>24. CASE ToggleRow \/ ToggleAll
  <2>1. PICK targets \in SUBSET Disks : Select(targets)
    <3>1. Selectable(page) \subseteq Disks /\ page.targets \subseteq Disks
      BY <1>0, RowsOfDisks DEF Selectable, Shown, Page
    <3>2. /\ Selectable(page) \in SUBSET Disks /\ {} \in SUBSET Disks
          /\ \A d \in Selectable(page) :
               Clicked(d) \in SUBSET Disks /\ Toggled(page, d) \in SUBSET Disks
      BY <3>1 DEF Clicked, Toggled
    <3>3. CASE ToggleRow
      BY <3>2, <3>3 DEF ToggleRow
    <3>4. CASE ToggleAll
      BY <3>2, <3>4 DEF ToggleAll
    <3>5. QED
      BY <1>24, <3>3, <3>4
  <2>2. QED
    BY <1>23, <2>1
<1>25. CASE Reset
  <2>1. Asked \in AskKinds /\ "disks" \in Asked /\ asks \subseteq asks
    BY DEF Asked, AskKinds
  <2>2. QED
    BY <1>16, <1>25, <2>1 DEF Reset
<1>26. CASE OnAbort \/ RequestUnmountDisk \/ OnLoad \/ OnSave \/ OnWipe \/ DeleteImages
  <2>1. /\ AskFor({"operation"}, asks) \/ AskFor({"unmount"}, asks)
        /\ UNCHANGED <<machine, announced, applied, page, pushed, mishaps>>
    BY <1>26 DEF OnAbort, RequestUnmountDisk, OnLoad, OnSave, OnWipe, DeleteImages, Operate
  <2>2. /\ {"operation"} \in AskKinds /\ "disks" \notin {"operation"}
        /\ {"unmount"} \in AskKinds /\ "disks" \notin {"unmount"}
    BY DEF AskKinds
  <2>3. QED
    BY <1>14, <2>1, <2>2
<1>27. CASE UNCHANGED vars
  BY <1>3, <1>27 DEF vars
<1>28. QED
  BY <1>4, <1>5, <1>6, <1>7, <1>8, <1>9, <1>10, <1>12, <1>13, <1>15, <1>17, <1>18, <1>19, <1>21,
     <1>22, <1>24, <1>25, <1>26, <1>27 DEF Next, Server, Answers, Events, User

-----------------------------------------------------------------------------
(***************************************************************************)
(* The reports of the runner.                                              *)
(***************************************************************************)
\* Nobody knows of a report that was not sent.
ReportsKnown ==
  /\ stored <= emitted /\ page.status.no <= emitted /\ page.status.seq <= emitted
  /\ page.tasks <= emitted
  /\ \A r \in asks : r.no <= emitted /\ \A d \in DOMAIN r.rows : r.rows[d].report = 0

\* The reports on their way are later than the one shown, and in order.
EventsInOrder ==
  /\ \A k \in DOMAIN pushed : pushed[k] <= emitted /\ (pushed[k] # 0 => page.status.seq < pushed[k])
  /\ \A j, k \in DOMAIN pushed : j < k /\ pushed[j] # 0 /\ pushed[k] # 0 => pushed[j] < pushed[k]

\* Both tables have looked at the report of the owner.
TablesAgree == page.seq = page.status.seq /\ (HasTasks => page.taskSeq = page.status.seq)

NothingPushed == \A k \in DOMAIN pushed : pushed[k] = 0

\* The report that was sent last is what the page shows.
HasReport ==
  /\ page.status.no = emitted
  /\ HasTasks => page.tasks = emitted
  /\ emitted # 0 /\ Script[emitted].timed /\ Script[emitted].device \in DOMAIN page.rows
     => page.rows[Script[emitted].device].report \in {0, emitted}

\* It is on its way, whatever went wrong before, or it is shown unless something
\* went wrong.
StatusWillCome ==
  IF NothingPushed THEN "status" \notin mishaps => HasReport
  ELSE \E k \in DOMAIN pushed : pushed[k] = emitted

StatusInv == ReportsKnown /\ EventsInOrder /\ TablesAgree /\ StatusWillCome

\* The types of what the reports are compared with.
LEMMA ReportsAreNumbers ==
  ASSUME DiskTabAssumption, DiskTypes
  PROVE  /\ Reports \subseteq Nat /\ 0 \in Reports /\ emitted \in Reports /\ emitted \in Nat
         /\ stored \in Reports /\ page \in Page
         /\ page.status.no \in Nat /\ page.status.seq \in Nat /\ page.tasks \in Nat
         /\ pushed \in Seq(Reports) /\ Len(pushed) \in Nat /\ DOMAIN pushed = 1 .. Len(pushed)
         /\ \A k \in DOMAIN pushed : pushed[k] \in Reports /\ pushed[k] \in Nat
         /\ \A r \in asks : r \in Ask /\ r.rows \in Rows /\ r.no \in Reports /\ r.no \in Nat
<1>1. /\ Reports \subseteq Nat /\ 0 \in Reports
  BY DEF Reports, DiskTabAssumption
<1>2. /\ emitted \in Reports /\ stored \in Reports /\ page \in Page /\ pushed \in Seq(Reports)
      /\ \A r \in asks : r \in Ask
  BY DEF DiskTypes, TypeOK
<1>3. page.status.no \in Reports /\ page.status.seq \in Reports /\ page.tasks \in Reports
  BY <1>2 DEF Page, Status
<1>4. Len(pushed) \in Nat /\ DOMAIN pushed = 1 .. Len(pushed)
  BY <1>2
<1>5. \A k \in DOMAIN pushed : pushed[k] \in Reports
  BY <1>2
<1>6. \A r \in asks : r.rows \in Rows /\ r.no \in Reports
  BY <1>2 DEF Ask
<1>7. QED
  BY <1>1, <1>2, <1>3, <1>4, <1>5, <1>6

\* Steps that show no other report, and take none from the events.
LEMMA StatusKept ==
  ASSUME DiskTabAssumption, DiskTypes, StatusInv,
         tab' = tab, emitted' = emitted, stored' <= emitted, mishaps \subseteq mishaps',
         page'.status = page.status, page'.tasks = page.tasks, page'.seq = page.status.seq,
         HasTasks => page'.taskSeq = page.status.seq,
         \A d \in DOMAIN page'.rows :
           \/ page'.rows[d].report \in {0, page.status.no}
           \/ d \in DOMAIN page.rows /\ page'.rows[d].report = page.rows[d].report,
         \A r \in asks' : r.no <= emitted /\ \A d \in DOMAIN r.rows : r.rows[d].report = 0,
         EventsInOrder', NothingPushed <=> NothingPushed',
         ~ NothingPushed /\ (\E k \in DOMAIN pushed : pushed[k] = emitted)
           => \E k \in DOMAIN pushed' : pushed'[k] = emitted
  PROVE  StatusInv'
<1>1. ReportsKnown'
  BY DEF StatusInv, ReportsKnown
<1>2. TablesAgree'
  BY DEF StatusInv, TablesAgree, HasTasks
<1>3. ASSUME HasReport PROVE HasReport'
  <2>1. page'.status.no = emitted' /\ (HasTasks' => page'.tasks = emitted')
    BY <1>3 DEF HasReport, HasTasks
  <2>2. ASSUME emitted # 0, Script[emitted].timed, Script[emitted].device \in DOMAIN page'.rows
        PROVE  page'.rows[Script[emitted].device].report \in {0, emitted}
    BY <1>3, <2>2 DEF HasReport
  <2>3. QED
    BY <2>1, <2>2 DEF HasReport
<1>4. StatusWillCome'
  <2>1. CASE NothingPushed
    <3>1. "status" \notin mishaps => HasReport
      BY <2>1 DEF StatusInv, StatusWillCome
    <3>2. "status" \notin mishaps' => HasReport'
      BY <1>3, <3>1
    <3>3. QED
      BY <2>1, <3>2 DEF StatusWillCome
  <2>2. CASE ~ NothingPushed
    <3>1. \E k \in DOMAIN pushed : pushed[k] = emitted
      BY <2>2 DEF StatusInv, StatusWillCome
    <3>2. QED
      BY <2>2, <3>1 DEF StatusWillCome
  <2>3. QED
    BY <2>1, <2>2
<1>5. QED
  BY <1>1, <1>2, <1>4 DEF StatusInv

\* A report is shown: the n-th event on the way, and the one before it is not.
LEMMA StatusTold ==
  ASSUME DiskTabAssumption, DiskTypes, StatusInv, NEW n \in {1, 2}, n <= Len(pushed),
         \A k \in 1 .. n : pushed[k] # 0,
         page' = Rendered(Told(pushed[n])),
         DOMAIN pushed' = 1 .. Len(pushed) - n,
         \A k \in 1 .. Len(pushed) - n : pushed'[k] = pushed[k + n],
         UNCHANGED <<tab, emitted, stored, asks>>
  PROVE  StatusInv'
<1> DEFINE no == pushed[n]
<1>0. PICK q : q = Told(no)
  OBVIOUS
<1>1. /\ emitted \in Nat /\ no \in Nat /\ no \in Reports /\ no # 0 /\ no <= emitted
      /\ page.status.seq \in Nat /\ page.status.seq < no
      /\ n \in DOMAIN pushed /\ n \in Nat /\ Len(pushed) \in Nat
      /\ DOMAIN pushed = 1 .. Len(pushed)
      /\ \A k \in DOMAIN pushed : pushed[k] \in Nat
  <2>1. n \in Nat /\ n \in 1 .. n /\ n \in 1 .. Len(pushed)
    BY ReportsAreNumbers
  <2>2. QED
    BY <2>1, ReportsAreNumbers DEF StatusInv, EventsInOrder
<1>2. /\ q \in Page /\ q.status.no = no /\ q.status.seq = no /\ q.rows = page.rows
      /\ q.seq = page.status.seq /\ (HasTasks => q.taskSeq = page.status.seq)
      /\ q.tasks = page.tasks /\ page.tasks <= emitted /\ page.tasks \in Nat
  BY <1>0, <1>1, ReportsAreNumbers, StatusEdit DEF Told, StatusInv, TablesAgree, ReportsKnown
<1>3. IsRendered(q, page')
  BY <1>0, <1>2, RenderedPage
<1> HIDE DEF no
<1>4. /\ page'.status.no = no /\ page'.status.seq = no /\ page'.seq = no
      /\ HasTasks => page'.taskSeq = no /\ page'.tasks = no
      /\ ~ HasTasks => page'.tasks = page.tasks
      /\ \A d \in DOMAIN page'.rows :
           Script[no].timed /\ Script[no].device = d => page'.rows[d].report = no
  BY <1>1, <1>2, <1>3 DEF IsRendered
<1>5. ReportsKnown'
  BY <1>1, <1>2, <1>4 DEF StatusInv, ReportsKnown
<1>6. \A k \in DOMAIN pushed' : k + n \in DOMAIN pushed /\ pushed'[k] = pushed[k + n] /\ n < k + n
  BY <1>1
<1>7. EventsInOrder'
  <2>1. ASSUME NEW k \in DOMAIN pushed'
        PROVE  pushed'[k] <= emitted /\ (pushed'[k] # 0 => no < pushed'[k])
    <3>1. pushed[k + n] <= emitted
      BY <1>6 DEF StatusInv, EventsInOrder
    <3>2. pushed[k + n] # 0 => pushed[n] < pushed[k + n]
      BY <1>1, <1>6 DEF StatusInv, EventsInOrder, no
    <3>3. QED
      BY <1>6, <3>1, <3>2 DEF no
  <2>2. ASSUME NEW j \in DOMAIN pushed', NEW k \in DOMAIN pushed', j < k,
               pushed'[j] # 0, pushed'[k] # 0
        PROVE  pushed'[j] < pushed'[k]
    <3>1. j + n < k + n
      BY <1>1, <2>2
    <3>2. QED
      BY <1>6, <2>2, <3>1 DEF StatusInv, EventsInOrder
  <2>3. QED
    BY <1>4, <2>1, <2>2 DEF EventsInOrder
<1>8. TablesAgree'
  BY <1>4 DEF TablesAgree, HasTasks
<1>9. StatusWillCome'
  <2>1. SUFFICES IF NothingPushed' THEN HasReport'
                 ELSE \E k \in DOMAIN pushed' : pushed'[k] = emitted'
    BY DEF StatusWillCome
  <2>2. ~ NothingPushed
    BY <1>1 DEF NothingPushed, no
  <2>3. PICK last \in DOMAIN pushed : pushed[last] = emitted
    BY <2>2 DEF StatusInv, StatusWillCome
  <2>4. emitted # 0 /\ last \in Nat
    BY <1>1
  <2>5. \A k \in DOMAIN pushed : last < k => pushed[k] = 0
    BY <1>1, <2>3, <2>4 DEF StatusInv, EventsInOrder
  <2>6. CASE last <= n
    <3>1. no = emitted
      <4>1. n = last \/ last < n
        BY <1>1, <2>4, <2>6
      <4>2. ~ last < n
        BY <1>1, <2>5 DEF no
      <4>3. QED
        BY <2>3, <4>1, <4>2 DEF no
    <3>2. HasReport'
      BY <1>4, <3>1 DEF HasReport, HasTasks
    <3>3. NothingPushed'
      <4>1. \A k \in DOMAIN pushed' : last < k + n
        BY <1>1, <2>4, <2>6
      <4>2. QED
        BY <1>6, <2>5, <4>1 DEF NothingPushed
    <3>4. QED
      BY <3>2, <3>3
  <2>7. CASE n < last
    <3>1. last - n \in DOMAIN pushed' /\ (last - n) + n = last
      BY <1>1, <2>3, <2>4, <2>7
    <3>2. pushed'[last - n] = emitted'
      BY <1>6, <2>3, <3>1
    <3>3. ~ NothingPushed'
      BY <2>4, <3>1, <3>2 DEF NothingPushed
    <3>4. QED
      BY <3>1, <3>2, <3>3
  <2>8. last <= n \/ n < last
    BY <1>1, <2>4
  <2>9. QED
    BY <2>6, <2>7, <2>8
<1>10. QED
  BY <1>5, <1>7, <1>8, <1>9 DEF StatusInv

\* Every step keeps that the report is there, is on its way, or was lost with a
\* mishap.
LEMMA StatusInvNext ==
  ASSUME DiskTabAssumption, DiskTypes, TargetsTold, StatusInv, [Next]_vars
  PROVE  StatusInv'
<1> USE DEF serverVars
<1> DEFINE Quiet(rs) == \A r \in rs : /\ r.no <= emitted
                                      /\ \A d \in DOMAIN r.rows : r.rows[d].report = 0
           Calm(rows) == \A d \in DOMAIN rows :
                           \/ rows[d].report \in {0, page.status.no}
                           \/ d \in DOMAIN page.rows /\ rows[d].report = page.rows[d].report
<1>0. /\ Reports \subseteq Nat /\ 0 \in Reports /\ emitted \in Nat /\ stored \in Reports
      /\ page \in Page /\ ~ page.resetting
      /\ stored <= emitted /\ page.seq = page.status.seq
      /\ HasTasks => page.taskSeq = page.status.seq
      /\ page.status.no \in Nat /\ page.status.seq \in Nat /\ page.tasks \in Nat
      /\ pushed \in Seq(Reports) /\ Len(pushed) \in Nat /\ DOMAIN pushed = 1 .. Len(pushed)
      /\ \A k \in DOMAIN pushed : pushed[k] \in Reports /\ pushed[k] \in Nat
      /\ \A r \in asks : r \in Ask /\ r.rows \in Rows /\ r.no \in Reports /\ r.no \in Nat
      /\ ReportsKnown /\ EventsInOrder /\ TablesAgree /\ StatusWillCome
  BY ReportsAreNumbers DEF StatusInv, ReportsKnown, TablesAgree, TargetsTold
<1>1. Quiet(asks)
  BY <1>0 DEF ReportsKnown
<1>2. ASSUME NEW kinds \in AskKinds, NEW before, before \subseteq asks, AskFor(kinds, before)
      PROVE  Quiet(asks')
  <2>1. asks' = before \cup {Request(asked', kind) : kind \in kinds}
    BY <1>2 DEF AskFor
  <2>2. ASSUME NEW r \in asks'
        PROVE  r.no <= emitted /\ \A d \in DOMAIN r.rows : r.rows[d].report = 0
    <3>1. CASE r \in before
      BY <1>1, <1>2, <3>1
    <3>2. CASE r \notin before
      <4>1. PICK kind \in kinds : r = Request(asked', kind)
        BY <2>1, <2>2, <3>2
      <4>2. r.no = 0 /\ r.rows = <<>> /\ DOMAIN r.rows = {}
        BY <4>1, DisksWithRows DEF Request
      <4>3. QED
        BY <1>0, <4>2
    <3>3. QED
      BY <3>1, <3>2
  <2>3. QED
    BY <2>2
<1> HIDE DEF Quiet
<1>3. ASSUME UNCHANGED <<page, pushed, emitted>>, tab' = tab PROVE
        /\ EventsInOrder' /\ (NothingPushed <=> NothingPushed') /\ Calm(page'.rows)
  BY <1>0, <1>3 DEF EventsInOrder, NothingPushed
<1>4. ASSUME UNCHANGED <<pushed, emitted>>, page'.status = page.status
      PROVE  EventsInOrder' /\ (NothingPushed <=> NothingPushed')
  BY <1>0, <1>4 DEF EventsInOrder, NothingPushed
\* nothing but requests, the disks and what is stored
<1>5. ASSUME UNCHANGED <<tab, page, pushed, emitted>>, stored' <= emitted,
             mishaps \subseteq mishaps', Quiet(asks')
      PROVE  StatusInv'
  <2>1. /\ EventsInOrder' /\ (NothingPushed <=> NothingPushed') /\ Calm(page'.rows)
    BY <1>3, <1>5
  <2>2. QED
    BY <1>0, <1>5, <2>1, StatusKept DEF Quiet, Calm
\* renderings that show the same report
<1>6. ASSUME NEW q \in Page, q.status = page.status, q.tasks = page.tasks, q.seq = page.seq,
             q.taskSeq = page.taskSeq, Calm(q.rows), page' = Rendered(q)
      PROVE  /\ page'.status = page.status /\ page'.tasks = page.tasks
             /\ page'.seq = page.status.seq /\ (HasTasks => page'.taskSeq = page.status.seq)
             /\ Calm(page'.rows)
  <2>1. IsRendered(q, page')
    BY <1>6, RenderedPage
  <2>2. /\ page'.status = page.status /\ page'.tasks = page.tasks
        /\ page'.seq = page.status.seq /\ (HasTasks => page'.taskSeq = page.status.seq)
    BY <1>0, <1>6, <2>1 DEF IsRendered
  <2>3. ASSUME NEW d \in DOMAIN page'.rows
        PROVE  \/ page'.rows[d].report \in {0, page.status.no}
               \/ d \in DOMAIN page.rows /\ page'.rows[d].report = page.rows[d].report
    <3>1. d \in DOMAIN q.rows /\ page'.rows[d].report \in {q.rows[d].report, page.status.no}
      BY <1>6, <2>1 DEF IsRendered
    <3>2. QED
      BY <1>6, <3>1
  <2>4. QED
    BY <2>2, <2>3
<1>7. ASSUME NEW q \in Page, q.status = page.status, q.tasks = page.tasks, q.seq = page.seq,
             q.taskSeq = page.taskSeq, Calm(q.rows), page' = Rendered(q),
             UNCHANGED <<tab, emitted, stored, pushed>>, mishaps \subseteq mishaps', Quiet(asks')
      PROVE  StatusInv'
  <2>1. /\ page'.status = page.status /\ page'.tasks = page.tasks
        /\ page'.seq = page.status.seq /\ (HasTasks => page'.taskSeq = page.status.seq)
        /\ Calm(page'.rows)
    BY <1>6, <1>7
  <2>2. EventsInOrder' /\ (NothingPushed <=> NothingPushed')
    BY <1>4, <1>7, <2>1
  <2>3. QED
    BY <1>0, <1>7, <2>1, <2>2, StatusKept DEF Quiet, Calm
<1>8. CASE ChangeMachine
  BY <1>0, <1>1, <1>5, <1>8 DEF ChangeMachine
<1>9. CASE StoreReport
  BY <1>0, <1>1, <1>5, <1>9 DEF StoreReport
<1>10. ASSUME NEW r \in asks, Serve(r) PROVE StatusInv'
  <2>1. PICK s : s = Served(r)
    OBVIOUS
  <2>2. /\ asks' = (asks \ {r}) \cup {s}
        /\ UNCHANGED <<tab, page, pushed, emitted, stored, mishaps>>
    BY <1>10, <2>1 DEF Serve
  <2>3. machine \in [Disks -> {"absent", "free", "mounted"}]
    BY DEF DiskTypes, TypeOK
  <2>4. \/ s.no = r.no /\ s.rows = Listed(machine)
        \/ s.no = stored /\ s.rows = r.rows
    BY <1>0, <2>1 DEF Served, Ask
  <2>5. s.no <= emitted /\ \A d \in DOMAIN s.rows : s.rows[d].report = 0
    BY <1>0, <1>1, <2>3, <2>4, ListedRows, SMTT(30) DEF Quiet
  <2>6. Quiet(asks')
    BY <1>1, <2>2, <2>5 DEF Quiet
  <2>7. QED
    BY <1>0, <1>5, <2>2, <2>6
<1>11. CASE Scan
  <2>1. /\ pushed' = Append(pushed, 0) /\ asks' = asks
        /\ UNCHANGED <<tab, page, emitted, stored, mishaps>>
    BY <1>11 DEF Scan
  <2>2. /\ DOMAIN pushed' = 1 .. Len(pushed) + 1 /\ pushed'[Len(pushed) + 1] = 0
        /\ \A k \in DOMAIN pushed : k \in DOMAIN pushed' /\ pushed'[k] = pushed[k]
        /\ \A k \in DOMAIN pushed' : k \in DOMAIN pushed \/ pushed'[k] = 0
    BY <1>0, <2>1
  <2>3. EventsInOrder'
    BY <1>0, <2>1, <2>2, SMTT(30) DEF EventsInOrder
  <2>4. NothingPushed <=> NothingPushed'
    BY <2>2 DEF NothingPushed
  <2>5. Calm(page'.rows)
    BY <2>1
  <2>6. QED
    BY <1>0, <1>1, <2>1, <2>2, <2>3, <2>4, <2>5, StatusKept DEF Quiet, Calm
<1>12. CASE Report
  <2>1. /\ emitted' = emitted + 1 /\ pushed' = Append(pushed, emitted + 1) /\ asks' = asks
        /\ UNCHANGED <<tab, page, stored, mishaps>>
    BY <1>12 DEF Report
  <2>2. /\ DOMAIN pushed' = 1 .. Len(pushed) + 1 /\ pushed'[Len(pushed) + 1] = emitted'
        /\ \A k \in DOMAIN pushed' : k \in DOMAIN pushed \/ k = Len(pushed) + 1
        /\ \A k \in DOMAIN pushed : pushed'[k] = pushed[k]
    BY <1>0, <2>1
  <2>3. \A n \in Nat : n <= emitted => n < emitted' /\ n <= emitted'
    BY <1>0, <2>1
  <2>4. ReportsKnown'
    BY <1>0, <2>1, <2>3 DEF ReportsKnown, Reports
  <2>5. EventsInOrder'
    <3>1. ASSUME NEW k \in DOMAIN pushed'
          PROVE  pushed'[k] <= emitted' /\ (pushed'[k] # 0 => page'.status.seq < pushed'[k])
      <4>1. CASE k \in DOMAIN pushed
        BY <1>0, <2>1, <2>2, <2>3, <4>1 DEF EventsInOrder
      <4>2. CASE k = Len(pushed) + 1
        BY <1>0, <2>1, <2>2, <2>3, <4>2 DEF ReportsKnown
      <4>3. QED
        BY <2>2, <4>1, <4>2
    <3>2. ASSUME NEW j \in DOMAIN pushed', NEW k \in DOMAIN pushed', j < k,
                 pushed'[j] # 0, pushed'[k] # 0
          PROVE  pushed'[j] < pushed'[k]
      <4>1. j \in DOMAIN pushed
        BY <1>0, <2>2, <3>2
      <4>2. CASE k \in DOMAIN pushed
        BY <2>2, <3>2, <4>1, <4>2, <1>0 DEF EventsInOrder
      <4>3. CASE k = Len(pushed) + 1
        BY <1>0, <2>2, <2>3, <4>1, <4>3 DEF EventsInOrder
      <4>4. QED
        BY <2>2, <4>2, <4>3
    <3>3. QED
      BY <3>1, <3>2 DEF EventsInOrder
  <2>6. TablesAgree'
    BY <1>0, <2>1 DEF TablesAgree, HasTasks
  <2>7. Len(pushed) + 1 \in DOMAIN pushed' /\ emitted' # 0
    BY <1>0, <2>1, <2>2
  <2>8. StatusWillCome'
    BY <2>2, <2>7 DEF StatusWillCome, NothingPushed
  <2>9. QED
    BY <2>4, <2>5, <2>6, <2>8 DEF StatusInv
<1>13. CASE Disconnect
  <2>1. /\ pushed' = <<>> /\ UNCHANGED <<tab, page, emitted, stored, asks>>
        /\ mishaps' = mishaps \cup {IF pushed[k] = 0 THEN "list" ELSE "status" :
                                      k \in DOMAIN pushed}
    BY <1>13 DEF Disconnect
  <2>2. NothingPushed' /\ EventsInOrder'
    BY <2>1 DEF NothingPushed, EventsInOrder
  <2>3. "status" \notin mishaps' => NothingPushed /\ "status" \notin mishaps
    BY <2>1 DEF NothingPushed
  <2>4. ReportsKnown' /\ TablesAgree' /\ (HasReport => HasReport')
    BY <1>0, <2>1 DEF ReportsKnown, TablesAgree, HasReport, HasTasks
  <2>5. StatusWillCome'
    BY <1>0, <2>2, <2>3, <2>4 DEF StatusWillCome
  <2>6. QED
    BY <2>2, <2>4, <2>5 DEF StatusInv
<1>14. ASSUME NEW r \in asks, ReceiveDisks(r) PROVE StatusInv'
  <2> DEFINE q == WithList(page, r.rows)
  <2>1. /\ q \in Page /\ q.status = page.status /\ q.tasks = page.tasks /\ q.seq = page.seq
        /\ q.taskSeq = page.taskSeq /\ q.rows = r.rows
    BY <1>0, ListEdit
  <2>2. /\ page' = Rendered(q) /\ mishaps \subseteq mishaps' /\ asks' \subseteq asks
        /\ UNCHANGED <<tab, emitted, stored, pushed>>
    BY <1>14 DEF ReceiveDisks
  <2>3. Calm(q.rows) /\ Quiet(asks')
    BY <1>1, <2>1, <2>2 DEF Quiet
  <2> HIDE DEF q, Calm
  <2>4. QED
    BY <1>7, <2>1, <2>2, <2>3
<1>15. ASSUME NEW r \in asks, ReceiveStatus(r) PROVE StatusInv'
  <2>1. PICK q : q = [page EXCEPT !.status = [no |-> r.no, seq |-> 0]]
    OBVIOUS
  <2>2. /\ q \in Page /\ q.status.no = r.no /\ q.status.seq = 0 /\ q.tasks = page.tasks
        /\ q.seq = page.status.seq /\ (HasTasks => q.taskSeq = page.status.seq)
        /\ q.rows = page.rows
    BY <1>0, <2>1, StatusEdit
  <2>3. /\ page' = Rendered(q) /\ asks' \subseteq asks
        /\ UNCHANGED <<tab, emitted, stored, pushed>>
        /\ mishaps' = IF Unnoticed(r) THEN mishaps \cup {"status"} ELSE mishaps
    BY <1>15, <2>1 DEF ReceiveStatus
  <2>4. IsRendered(q, page')
    BY <2>2, <2>3, RenderedPage
  <2>5. /\ page'.status.no = r.no /\ page'.status.seq = 0 /\ page'.seq = 0
        /\ HasTasks => /\ page'.taskSeq = 0
                       /\ page'.tasks = IF page.status.seq # 0 THEN r.no ELSE page.tasks
        /\ ~ HasTasks => page'.tasks = page.tasks
        /\ \A d \in DOMAIN page'.rows : /\ d \in DOMAIN page.rows
                                        /\ page'.rows[d].report \in {page.rows[d].report, r.no}
    BY <2>2, <2>4 DEF IsRendered
  <2>6. r.no <= emitted /\ page.tasks <= emitted
    BY <1>0 DEF ReportsKnown
  <2>7. ReportsKnown'
    BY <1>0, <1>1, <2>3, <2>5, <2>6 DEF ReportsKnown, Quiet
  <2>8. EventsInOrder'
    BY <1>0, <2>3, <2>5 DEF EventsInOrder
  <2>9. TablesAgree'
    BY <2>3, <2>5 DEF TablesAgree, HasTasks
  <2>10. ASSUME ~ Unnoticed(r), HasReport PROVE HasReport'
    <3>1. r.no = emitted
      BY <1>0, <2>6, <2>10 DEF Unnoticed, HasReport
    <3>2. HasTasks => page'.tasks = emitted
      BY <2>5, <2>10, <3>1 DEF HasReport
    <3>3. ASSUME emitted # 0, Script[emitted].timed, Script[emitted].device \in DOMAIN page'.rows
          PROVE  page'.rows[Script[emitted].device].report \in {0, emitted}
      BY <2>5, <2>10, <3>1, <3>3 DEF HasReport
    <3>4. QED
      BY <2>3, <2>5, <3>1, <3>2, <3>3 DEF HasReport, HasTasks
  <2>11. NothingPushed <=> NothingPushed'
    BY <2>3 DEF NothingPushed
  <2>12. StatusWillCome'
    <3>1. CASE NothingPushed
      <4>1. "status" \notin mishaps' => "status" \notin mishaps /\ ~ Unnoticed(r)
        BY <2>3
      <4>2. "status" \notin mishaps => HasReport
        BY <1>0, <3>1 DEF StatusWillCome
      <4>3. QED
        BY <2>10, <2>11, <3>1, <4>1, <4>2 DEF StatusWillCome
    <3>2. CASE ~ NothingPushed
      <4>1. \E k \in DOMAIN pushed : pushed[k] = emitted
        BY <1>0, <3>2 DEF StatusWillCome
      <4>2. QED
        BY <2>3, <2>11, <3>2, <4>1 DEF StatusWillCome
    <3>3. QED
      BY <3>1, <3>2
  <2>13. QED
    BY <2>7, <2>8, <2>9, <2>12 DEF StatusInv
<1>16. ASSUME NEW r \in asks, ReceiveTasks(r) PROVE StatusInv'
  <2>1. PICK q : q = [page EXCEPT !.tasks = r.no]
    OBVIOUS
  <2>2. /\ q \in Page /\ q.status = page.status /\ q.tasks = r.no
        /\ q.seq = page.status.seq /\ (HasTasks => q.taskSeq = page.status.seq)
        /\ q.rows = page.rows
    BY <1>0, <2>1, TasksEdit
  <2>3. /\ page' = Rendered(q) /\ asks' \subseteq asks
        /\ UNCHANGED <<tab, emitted, stored, pushed>>
        /\ mishaps' = IF r.no < page.tasks THEN mishaps \cup {"status"} ELSE mishaps
    BY <1>16, <2>1 DEF ReceiveTasks
  <2>4. IsRendered(q, page')
    BY <2>2, <2>3, RenderedPage
  <2>5. /\ page'.status = page.status /\ page'.seq = page.status.seq /\ page'.tasks = r.no
        /\ HasTasks => page'.taskSeq = page.status.seq
        /\ \A d \in DOMAIN page'.rows :
             /\ d \in DOMAIN page.rows
             /\ page'.rows[d].report \in {page.rows[d].report, page.status.no}
    BY <2>2, <2>4 DEF IsRendered
  <2>6. r.no <= emitted
    BY <1>0 DEF ReportsKnown
  <2>7. ReportsKnown'
    BY <1>0, <1>1, <2>3, <2>5, <2>6 DEF ReportsKnown, Quiet
  <2>8. EventsInOrder' /\ (NothingPushed <=> NothingPushed')
    BY <1>4, <2>3, <2>5
  <2>9. TablesAgree'
    BY <2>3, <2>5 DEF TablesAgree, HasTasks
  <2>10. ASSUME ~ r.no < page.tasks, HasReport PROVE HasReport'
    <3>1. HasTasks => page'.tasks = emitted
      BY <1>0, <2>5, <2>6, <2>10 DEF HasReport
    <3>2. ASSUME emitted # 0, Script[emitted].timed, Script[emitted].device \in DOMAIN page'.rows
          PROVE  page'.rows[Script[emitted].device].report \in {0, emitted}
      BY <2>5, <2>10, <3>2 DEF HasReport
    <3>3. QED
      BY <2>3, <2>5, <2>10, <3>1, <3>2 DEF HasReport, HasTasks
  <2>11. StatusWillCome'
    <3>1. CASE NothingPushed
      <4>1. "status" \notin mishaps' => "status" \notin mishaps /\ ~ r.no < page.tasks
        BY <2>3
      <4>2. "status" \notin mishaps => HasReport
        BY <1>0, <3>1 DEF StatusWillCome
      <4>3. QED
        BY <2>10, <2>8, <3>1, <4>1, <4>2 DEF StatusWillCome
    <3>2. CASE ~ NothingPushed
      <4>1. \E k \in DOMAIN pushed : pushed[k] = emitted
        BY <1>0, <3>2 DEF StatusWillCome
      <4>2. QED
        BY <2>3, <2>8, <3>2, <4>1 DEF StatusWillCome
    <3>3. QED
      BY <3>1, <3>2
  <2>12. QED
    BY <2>7, <2>8, <2>9, <2>11 DEF StatusInv
<1>17. ASSUME NEW kinds \in AskKinds, NEW before, before \subseteq asks, AskFor(kinds, before),
              UNCHANGED <<tab, page, pushed, emitted, stored, mishaps>>
       PROVE  StatusInv'
  <2>1. Quiet(asks')
    BY <1>2, <1>17
  <2>2. QED
    BY <1>0, <1>5, <1>17, <2>1
<1>18. ASSUME NEW r \in asks, ReceiveOperation(r) PROVE StatusInv'
  <2>1. {"status"} \in AskKinds /\ asks \ {r} \subseteq asks
    BY DEF AskKinds
  <2>2. QED
    BY <1>17, <1>18, <2>1 DEF ReceiveOperation
<1>19. PICK e : e = Emptied(page)
  OBVIOUS
<1>20. /\ e \in Page /\ e.status = page.status /\ e.tasks = page.tasks /\ e.seq = page.seq
       /\ e.taskSeq = page.taskSeq /\ Calm(e.rows)
  BY <1>0, <1>19, EmptyEdit
<1>21. ASSUME NEW r \in asks, ReceiveUnmount(r) PROVE StatusInv'
  <2>1. {"disks"} \in AskKinds /\ asks \ {r} \subseteq asks
    BY DEF AskKinds
  <2>2. /\ page' = Rendered(e) /\ UNCHANGED <<tab, emitted, stored, pushed, mishaps>>
        /\ AskFor({"disks"}, asks \ {r})
    BY <1>19, <1>21 DEF ReceiveUnmount
  <2>3. Quiet(asks')
    BY <1>2, <2>1, <2>2
  <2> HIDE DEF Calm
  <2>4. QED
    BY <1>7, <1>20, <2>2, <2>3
<1>22. ASSUME NEW r \in asks, AskFails(r) PROVE StatusInv'
  <2>1. /\ asks' \subseteq asks /\ mishaps \subseteq mishaps'
        /\ UNCHANGED <<tab, emitted, stored, pushed>>
    BY <1>22 DEF AskFails
  <2>2. Quiet(asks')
    BY <1>1, <2>1 DEF Quiet
  <2>3. /\ page'.status = page.status /\ page'.tasks = page.tasks /\ page'.seq = page.seq
        /\ page'.taskSeq = page.taskSeq /\ page'.rows = page.rows
    <3>1. page' = [page EXCEPT !.loading = FALSE] \/ page' = page
      BY <1>22 DEF AskFails
    <3>2. QED
      BY <1>0, <3>1, LoadedEdit
  <2>4. EventsInOrder' /\ (NothingPushed <=> NothingPushed')
    BY <1>4, <2>1, <2>3
  <2>5. Calm(page'.rows)
    BY <2>3
  <2>6. QED
    BY <1>0, <2>1, <2>2, <2>3, <2>4, <2>5, StatusKept DEF Quiet, Calm
<1>23. CASE OnDiskUpdate
  <2>1. /\ pushed # <<>> /\ Head(pushed) = 0 /\ pushed' = Tail(pushed) /\ AskFor({"disks"}, asks)
        /\ page' = Rendered(e) /\ UNCHANGED <<tab, emitted, stored, mishaps>>
    BY <1>19, <1>23 DEF OnDiskUpdate
  <2>2. /\ pushed[1] = 0 /\ Len(pushed) >= 1 /\ DOMAIN pushed' = 1 .. Len(pushed) - 1
        /\ \A k \in 1 .. Len(pushed) - 1 : pushed'[k] = pushed[k + 1]
    BY <1>0, <2>1, EventTaken
  <2>3. {"disks"} \in AskKinds /\ asks \subseteq asks
    BY DEF AskKinds
  <2>4. Quiet(asks')
    BY <1>2, <2>1, <2>3
  <2>5. /\ page'.status = page.status /\ page'.tasks = page.tasks
        /\ page'.seq = page.status.seq /\ (HasTasks => page'.taskSeq = page.status.seq)
        /\ Calm(page'.rows)
    <3> HIDE DEF Calm
    <3>1. QED
      BY <1>6, <1>20, <2>1
  <2>6. /\ \A k \in DOMAIN pushed' : k + 1 \in DOMAIN pushed /\ pushed'[k] = pushed[k + 1]
        /\ \A j, k \in DOMAIN pushed' : j < k => j + 1 < k + 1
    BY <1>0, <2>2
  <2>7. EventsInOrder'
    BY <1>0, <2>1, <2>5, <2>6 DEF EventsInOrder
  <2>8. ASSUME NEW k \in DOMAIN pushed, pushed[k] # 0
        PROVE  \E j \in DOMAIN pushed' : pushed'[j] = pushed[k]
    <3>1. k - 1 \in DOMAIN pushed' /\ k - 1 + 1 = k
      BY <1>0, <2>2, <2>8
    <3>2. pushed'[k - 1] = pushed[k]
      BY <2>6, <3>1
    <3>3. QED
      BY <3>1, <3>2
  <2>9. NothingPushed <=> NothingPushed'
    BY <2>6, <2>8 DEF NothingPushed
  <2>10. ~ NothingPushed => emitted # 0
    BY <1>0 DEF NothingPushed, EventsInOrder
  <2>11. ~ NothingPushed /\ (\E k \in DOMAIN pushed : pushed[k] = emitted)
           => \E k \in DOMAIN pushed' : pushed'[k] = emitted
    BY <2>8, <2>10
  <2>12. QED
    BY <1>0, <2>1, <2>4, <2>5, <2>7, <2>9, <2>11, StatusKept DEF Quiet, Calm
<1>24. CASE OnRunnerUpdate
  <2>1. /\ pushed # <<>> /\ Head(pushed) # 0 /\ pushed' = Tail(pushed)
        /\ page' = Rendered(Told(Head(pushed)))
        /\ UNCHANGED <<tab, emitted, stored, asks>>
    BY <1>24 DEF OnRunnerUpdate
  <2>2. /\ Head(pushed) = pushed[1] /\ 1 <= Len(pushed) /\ DOMAIN pushed' = 1 .. Len(pushed) - 1
        /\ \A k \in 1 .. Len(pushed) - 1 : pushed'[k] = pushed[k + 1]
    BY <1>0, <2>1, EventTaken
  <2>3. \A k \in 1 .. 1 : pushed[k] # 0
    BY <2>1, <2>2
  <2>4. 1 \in {1, 2} /\ page' = Rendered(Told(pushed[1]))
    BY <2>1, <2>2
  <2>5. QED
    BY <2>1, <2>2, <2>3, <2>4, StatusTold
<1>25. CASE OnRunnerUpdates
  <2>1. /\ Len(pushed) > 1 /\ 0 \notin {pushed[1], pushed[2]} /\ pushed' = Tail(Tail(pushed))
        /\ page' = Rendered(Told(pushed[2]))
        /\ UNCHANGED <<tab, emitted, stored, asks>>
    BY <1>25 DEF OnRunnerUpdates
  <2>2. /\ 2 <= Len(pushed) /\ DOMAIN pushed' = 1 .. Len(pushed) - 2
        /\ \A k \in 1 .. Len(pushed) - 2 : pushed'[k] = pushed[k + 2]
    BY <1>0, <2>1, EventsTaken
  <2>3. \A k \in 1 .. 2 : pushed[k] # 0
    <3>1. \A k \in 1 .. 2 : k = 1 \/ k = 2
      OBVIOUS
    <3>2. QED
      BY <2>1, <3>1
  <2>4. QED
    BY <2>1, <2>2, <2>3, StatusTold
<1>26. ASSUME NEW targets \in SUBSET Disks, Select(targets) PROVE StatusInv'
  <2>1. PICK q : q = [page EXCEPT !.targets = targets]
    OBVIOUS
  <2>2. /\ q \in Page /\ q.status = page.status /\ q.tasks = page.tasks /\ q.seq = page.seq
        /\ q.taskSeq = page.taskSeq /\ q.rows = page.rows
    BY <1>0, <2>1, TargetsEdit
  <2>3. Calm(q.rows)
    BY <2>2
  <2>4. page' = Rendered(q) /\ UNCHANGED <<tab, emitted, stored, pushed, asks, mishaps>>
    BY <1>26, <2>1 DEF Select
  <2>5. Quiet(asks')
    BY <1>1, <2>4 DEF Quiet
  <2> HIDE DEF Calm
  <2>6. QED
    BY <1>7, <2>2, <2>3, <2>4, <2>5
<1>27. CASE ToggleRow \/ ToggleAll
  <2>1. PICK targets \in SUBSET Disks : Select(targets)
    <3>1. Selectable(page) \subseteq Disks /\ page.targets \subseteq Disks
      BY <1>0, RowsOfDisks DEF Selectable, Shown, Page
    <3>2. /\ Selectable(page) \in SUBSET Disks /\ {} \in SUBSET Disks
          /\ \A d \in Selectable(page) :
               Clicked(d) \in SUBSET Disks /\ Toggled(page, d) \in SUBSET Disks
      BY <3>1 DEF Clicked, Toggled
    <3>3. CASE ToggleRow
      BY <3>2, <3>3 DEF ToggleRow
    <3>4. CASE ToggleAll
      BY <3>2, <3>4 DEF ToggleAll
    <3>5. QED
      BY <1>27, <3>3, <3>4
  <2>2. QED
    BY <1>26, <2>1
<1>28. CASE Reset
  <2>1. PICK q : q = [page EXCEPT !.resetting = TRUE, !.targets = Kept]
    OBVIOUS
  <2>2. Kept \in SUBSET Disks
    BY <1>0, RowsOfDisks DEF Kept, Page
  <2>3. /\ q \in Page /\ q.status = page.status /\ q.tasks = page.tasks /\ q.seq = page.seq
        /\ q.taskSeq = page.taskSeq /\ q.rows = page.rows
    BY <1>0, <2>1, <2>2, ResetEdit
  <2>4. Calm(q.rows)
    BY <2>3
  <2>5. /\ page' = Rendered(q) /\ AskFor(Asked, asks)
        /\ UNCHANGED <<tab, emitted, stored, pushed, mishaps>>
    BY <1>28, <2>1 DEF Reset
  <2>6. Asked \in AskKinds /\ asks \subseteq asks
    BY DEF Asked, AskKinds
  <2>7. Quiet(asks')
    BY <1>2, <2>5, <2>6
  <2> HIDE DEF Calm
  <2>8. QED
    BY <1>7, <2>3, <2>4, <2>5, <2>7
<1>29. CASE OnAbort \/ RequestUnmountDisk \/ OnLoad \/ OnSave \/ OnWipe \/ DeleteImages
  <2>1. /\ AskFor({"operation"}, asks) \/ AskFor({"unmount"}, asks)
        /\ UNCHANGED <<tab, page, pushed, emitted, stored, mishaps>>
    BY <1>29 DEF OnAbort, RequestUnmountDisk, OnLoad, OnSave, OnWipe, DeleteImages, Operate
  <2>2. {"operation"} \in AskKinds /\ {"unmount"} \in AskKinds /\ asks \subseteq asks
    BY DEF AskKinds
  <2>3. QED
    BY <1>17, <2>1, <2>2
<1>30. CASE UNCHANGED vars
  BY <1>0, <1>1, <1>5, <1>30 DEF vars
<1>31. QED
  BY <1>8, <1>9, <1>10, <1>11, <1>12, <1>13, <1>14, <1>15, <1>16, <1>18, <1>21, <1>22, <1>23, <1>24,
     <1>25, <1>27, <1>28, <1>29, <1>30 DEF Next, Server, Answers, Events, User

-----------------------------------------------------------------------------
(***************************************************************************)
(* The theorems.                                                           *)
(***************************************************************************)
\* At first nothing is shown, and everything is asked for.
LEMMA DiskTabStarts ==
  ASSUME DiskTabAssumption, Init
  PROVE  TargetsTold /\ ListInv /\ StatusInv
<1>1. /\ pushed = <<>> /\ DOMAIN pushed = {} /\ applied = 0 /\ emitted = 0 /\ stored = 0
      /\ asks \subseteq {Request(1, "disks"), Request(2, "status"), Request(3, "tasks")}
      /\ Request(1, "disks") \in asks
      /\ page = FirstPage /\ DOMAIN page.rows = {}
  BY DisksWithRows DEF Init, FirstPage
<1>2. TargetsTold
  BY <1>1 DEF TargetsTold, Marked, Sensible, FirstPage
<1>3. \A r \in asks : /\ IsList(r) => r = Request(1, "disks")
                      /\ r.no = 0 /\ r.rows = <<>> /\ DOMAIN r.rows = {}
  BY <1>1, DisksWithRows DEF IsList, Request
<1>4. ListNumbers
  <2>1. Request(1, "disks").id # applied
    BY <1>1 DEF Request
  <2>2. QED
    BY <1>3, <2>1 DEF ListNumbers
<1>5. ListComes
  <2>1. PICK r \in asks : r = Request(1, "disks")
    BY <1>1
  <2>2. IsList(r) /\ r.id = 1 /\ ~ r.served
    BY <2>1 DEF IsList, Request
  <2>3. LastList(r)
    BY <1>1, <1>3, <2>1, <2>2 DEF LastList
  <2>4. QED
    BY <2>2, <2>3 DEF ListComes
<1>6. ReportsKnown /\ EventsInOrder /\ TablesAgree /\ HasReport
  BY <1>1, <1>3 DEF ReportsKnown, EventsInOrder, TablesAgree, HasReport, FirstPage
<1>7. NothingPushed
  BY <1>1 DEF NothingPushed
<1>8. QED
  BY <1>2, <1>4, <1>5, <1>6, <1>7 DEF ListInv, ListWillCome, StatusInv, StatusWillCome

\* All parts are needed together: the list and the reports that are rendered are
\* typed, and a rendering that is not of a reset keeps the rows.
DiskTabInv == DiskTypes /\ TargetsTold /\ ListInv /\ StatusInv

LEMMA DiskTabInvHolds == Spec => []DiskTabInv
<1>1. Init => DiskTabInv
  BY DiskTabAssumption, DiskInitTypes, DiskTabStarts DEF DiskTabInv
<1>2. DiskTabInv /\ [Next]_vars => DiskTabInv'
  <2>1. SUFFICES ASSUME DiskTabInv, [Next]_vars PROVE DiskTabInv'
    OBVIOUS
  <2>2. DiskTypes'
    BY DiskTabAssumption, <2>1, NumbersNext, DiskNextTypes DEF DiskTabInv, DiskTypes
  <2>3. TargetsTold'
    BY DiskTabAssumption, <2>1, TargetsToldNext DEF DiskTabInv
  <2>4. ListInv'
    BY DiskTabAssumption, <2>1, ListInvNext DEF DiskTabInv
  <2>5. StatusInv'
    BY DiskTabAssumption, <2>1, StatusInvNext DEF DiskTabInv
  <2>6. QED
    BY <2>2, <2>3, <2>4, <2>5 DEF DiskTabInv
<1>3. QED
  BY <1>1, <1>2, PTL DEF Spec

\* A tab with disks never leaves its types: a page is rendered from answers and
\* events that are typed, and no more requests are sent than the bound allows.
THEOREM TypeCorrect == Spec => []TypeOK
<1>1. DiskTabInv => TypeOK
  BY DEF DiskTabInv, DiskTypes
<1>2. QED
  BY <1>1, DiskTabInvHolds, PTL

\* However lists, reports and clicks follow each other, the table marks exactly
\* the targets of its owner, and none that is mounted (Disks.tsx:156-178).
THEOREM TargetsShown == Spec => []TableTellsTargets
<1>1. ASSUME DiskTabInv PROVE TableTellsTargets
  <2>1. /\ Marked(page) /\ ~ page.resetting
        /\ \A d \in DOMAIN page.rows : page.rows[d].mounted => d \notin page.targets
        /\ "failed" \notin mishaps /\ ~ page.loading => page.targets \subseteq DOMAIN page.rows
    BY <1>1 DEF DiskTabInv, TargetsTold, Sensible
  <2>2. Selected(page) = page.targets \cap Shown(page)
    BY <2>1 DEF Selected, Shown, Marked
  <2>3. page.targets \cap Shown(page) \subseteq Selectable(page)
    BY <2>1 DEF Selectable, Shown
  <2>4. QED
    BY <2>1, <2>2, <2>3 DEF TableTellsTargets, Shown
<1>2. QED
  BY <1>1, DiskTabInvHolds, PTL

\* Once every announcement was heard and every list answered, the table shows the
\* disks as they are (Disks.tsx:133-136).
THEOREM ListShown == Spec => []ListCatchesUp
<1>1. ASSUME DiskTabInv PROVE ListCatchesUp
  <2>1. SUFFICES ASSUME machine = announced, "list" \notin mishaps,
                        \A r \in asks : r.kind # "disks",
                        \A k \in DOMAIN pushed : pushed[k] # 0
                 PROVE  /\ Shown(page) = DOMAIN Listed(machine)
                        /\ \A d \in Shown(page) :
                             page.rows[d].mounted = Listed(machine)[d].mounted
    BY DEF ListCatchesUp
  <2>2. ListComes
    BY <1>1, <2>1 DEF DiskTabInv, ListInv, ListWillCome
  <2>3. \A r \in asks : ~ LastList(r)
    BY <2>1 DEF LastList, IsList
  <2>4. SameDisks(page.rows, Listed(machine))
    BY <2>2, <2>3 DEF ListComes
  <2>5. QED
    BY <2>4 DEF SameDisks, Shown
<1>2. QED
  BY <1>1, DiskTabInvHolds, PTL

\* Once every report was heard, both tables tell of the last one
\* (RunnerProgress.tsx:46-64, Disks.tsx:180-215).
THEOREM StatusShown == Spec => []StatusCatchesUp
<1>1. ASSUME DiskTabInv PROVE StatusCatchesUp
  <2>1. SUFFICES ASSUME "status" \notin mishaps, \A k \in DOMAIN pushed : pushed[k] = 0
                 PROVE  HasReport
    BY DEF StatusCatchesUp, HasReport, Shown
  <2>2. QED
    BY <1>1, <2>1 DEF DiskTabInv, StatusInv, StatusWillCome, NothingPushed
<1>2. QED
  BY <1>1, DiskTabInvHolds, PTL

=============================================================================
