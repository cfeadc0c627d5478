-------------------------- MODULE MultiWipeProofs --------------------------
(***************************************************************************)
(* Proofs about MultiWipe, for any number of disks of any size, any chunk  *)
(* and any pipe: a wipe that is called a success is one, no disk is left   *)
(* without a verdict, and stopping ends the writing.                       *)
(*                                                                         *)
(* IInv says how much a wiper has written (Sizes, Zeros), what the         *)
(* reporter knows of the disk it reports about (Noted), that a disk which  *)
(* was reported as wiped is (Confirmed), which disks have a final verdict  *)
(* (Rounds), and where the threads are when the program starts, is stopped *)
(* and ends (Phases, Stops, Exits).                                        *)
(***************************************************************************)
EXTENDS MultiWipe, SequenceTheorems, WellFoundedInduction, TLAPS

\* A wiper does not write beyond the end of its disk.
Sizes == \A d \in Disks : wiper[d] = "count" => nWritten[d] + size[d] <= Sectors[d]

\* What is counted is zero, and so is the write that is to be counted.
Zeros ==
  ~ShortWrites =>
    \A d \in Disks : /\ wiper[d] # "count" => zeroed[d] = nWritten[d]
                     /\ wiper[d] = "count" => zeroed[d] = nWritten[d] + size[d]

\* The reporter has read no more than was counted.
Noted == reporter = "report" => noted <= nWritten[turn]

\* A disk that was reported as wiped is wiped to its end and its wiper stops.
Wiped(d)  == ~running[d] /\ nWritten[d] = Sectors[d]
InReports == \A i \in 1 .. Len(pipe) : pipe[i].progress = 100 => Wiped(pipe[i].disk)
InTask    == \A d \in Disks : seen[d] = 100 => Wiped(d)
Confirmed == InReports /\ InTask /\ (progress = 100 => \A d \in Disks : Wiped(d))

\* A round that met no running wiper leaves a final verdict on each of its disks,
\* and the reporter ends after such a round.
Judged(d) == SeenAfter(Len(pipe))[d] \in {100, 999}
InRound   == reporter \in {"count", "report"} /\ ~anyRunning => \A d \in 1 .. turn - 1 : Judged(d)
AtEnd     == reporter = "done" /\ progress < 100 => \A d \in Disks : Judged(d)
Rounds    == InRound /\ AtEnd

\* The main thread starts the reporter, with the first disk, and the wipers in turn.
Phases ==
  /\ main \in {"boot", "launch"} => reporter = "unborn"
  /\ main \in {"watch", "join", "done"} => reporter # "unborn"
  /\ reporter = "unborn" => turn = 1
  /\ \A d \in Disks : d > launched => wiper[d] = "unborn"

\* Before the signal is handled nobody is stopped by it; those who were stay so.
Stops ==
  /\ signal # "handled" => told = {} /\ \A d \in Disks : late[d] = 0
  /\ \A d \in told : ~running[d] /\ late[d] = 0

\* The program ends after its threads.
Exits ==
  exit # "none" =>
    /\ main \in {"done", "died"} /\ reporter \in {"unborn", "done"}
    /\ \A d \in Disks : wiper[d] \in {"unborn", "closed"}
    /\ exit = "good" => main = "done"

IInv ==
  /\ TypeOK /\ Sizes /\ Zeros /\ Noted /\ Confirmed /\ Rounds /\ Phases /\ Stops /\ Exits

-----------------------------------------------------------------------------
(***************************************************************************)
(* The last verdict on a disk among the first reports of a pipe.           *)
(***************************************************************************)
Reports == [disk : Disks, progress : {99, 100, 999}]

LastVerdict(p, s, k, d) ==
  LET mine == {i \in 1 .. k : p[i].disk = d}
  IN  IF mine = {} THEN s[d] ELSE p[CHOOSE i \in mine : \A j \in mine : j <= i].progress

\* The reports of the disk among them: there is none, or the last is report i.
NoReport(p, k, d)      == \A j \in 1 .. k : p[j].disk # d
LastReport(p, k, d, i) ==
  i \in 1 .. k /\ p[i].disk = d /\ \A j \in 1 .. k : p[j].disk = d => j <= i

Less == OpToRel(<, Nat)

\* A set of places that is not empty has a last one.
LEMMA Greatest ==
  ASSUME NEW k \in Nat, NEW S \in SUBSET (1 .. k), S # {}
  PROVE  \E i \in S : \A j \in S : j <= i
<1> DEFINE T == {k - i : i \in S}
<1>1. \A i \in S : k - i \in Nat /\ i \in Nat
  OBVIOUS
<1>2. T \subseteq Nat /\ T # {}
  BY <1>1
<1>3. IsWellFoundedOn(Less, Nat)
  BY NatLessThanWellFounded DEF Less
<1>4. PICK x \in T : \A y \in T : ~ (<<y, x>> \in Less)
  BY <1>2, <1>3, WFMin
<1>5. PICK i \in S : x = k - i
  OBVIOUS
<1>6. ASSUME NEW j \in S PROVE j <= i
  <2>1. k - j \in T /\ k - j \in Nat /\ x \in Nat
    BY <1>1, <1>5
  <2>2. ~ (<<k - j, x>> \in Less)
    BY <1>4, <2>1
  <2>3. ~ (k - j < x)
    BY <2>1, <2>2 DEF Less, OpToRel
  <2>4. QED
    BY <1>1, <1>5, <2>3
<1>7. QED
  BY <1>6

\* Without a report the verdict stays what it was.
LEMMA NoVerdict ==
  ASSUME NEW p, NEW s, NEW k, NEW d, NoReport(p, k, d)
  PROVE  LastVerdict(p, s, k, d) = s[d]
BY DEF LastVerdict, NoReport

\* A report after which there is none of the disk is the verdict.
LEMMA VerdictAt ==
  ASSUME NEW p, NEW s, NEW k \in Nat, NEW d, NEW i, LastReport(p, k, d, i)
  PROVE  LastVerdict(p, s, k, d) = p[i].progress
<1> DEFINE mine == {j \in 1 .. k : p[j].disk = d}
           c == CHOOSE m \in mine : \A j \in mine : j <= m
<1>1. i \in mine /\ \A j \in mine : j <= i
  BY DEF LastReport
<1>2. c \in mine /\ \A j \in mine : j <= c
  BY <1>1
<1>3. c = i
  BY <1>1, <1>2
<1>4. LastVerdict(p, s, k, d) = p[c].progress
  BY <1>1 DEF LastVerdict
<1>5. QED
  BY <1>3, <1>4

\* There is such a report, or none at all.
LEMMA VerdictFrom ==
  ASSUME NEW p, NEW k \in Nat, NEW d
  PROVE  NoReport(p, k, d) \/ \E i : LastReport(p, k, d, i)
<1> DEFINE mine == {j \in 1 .. k : p[j].disk = d}
<1>1. mine # {} => \E i \in mine : \A j \in mine : j <= i
  BY Greatest
<1>2. QED
  BY <1>1 DEF NoReport, LastReport

\* One more report is the verdict on its disk and on no other.
LEMMA VerdictOfMore ==
  ASSUME NEW p \in Seq(Reports), NEW s, NEW r \in Reports, NEW d \in Disks
  PROVE  LastVerdict(Append(p, r), s, Len(p) + 1, d) =
           IF r.disk = d THEN r.progress ELSE LastVerdict(p, s, Len(p), d)
<1> DEFINE q == Append(p, r)
           n == Len(p)
<1>1. /\ n \in Nat /\ \A i \in 1 .. n : q[i] = p[i]
      /\ q[n + 1] = r
  BY LenProperties, AppendProperties
<1> HIDE DEF q, n
<1>2. CASE r.disk = d
  <2>1. LastReport(q, n + 1, d, n + 1)
    BY <1>1, <1>2 DEF LastReport
  <2>2. LastVerdict(q, s, n + 1, d) = q[n + 1].progress
    BY <1>1, <2>1, VerdictAt
  <2>3. QED
    BY <1>1, <1>2, <2>2 DEF q, n
<1>3. CASE r.disk # d
  <2>1. CASE NoReport(p, n, d)
    <3>1. NoReport(q, n + 1, d)
      BY <1>1, <1>3, <2>1 DEF NoReport
    <3>2. LastVerdict(q, s, n + 1, d) = s[d] /\ LastVerdict(p, s, n, d) = s[d]
      BY <2>1, <3>1, NoVerdict
    <3>3. QED
      BY <1>3, <3>2 DEF q, n
  <2>2. ASSUME NEW i, LastReport(p, n, d, i)
        PROVE  LastVerdict(q, s, n + 1, d) = LastVerdict(p, s, n, d)
    <3>1. LastReport(q, n + 1, d, i) /\ q[i] = p[i]
      BY <1>1, <1>3, <2>2 DEF LastReport
    <3>2. LastVerdict(q, s, n + 1, d) = q[i].progress /\ LastVerdict(p, s, n, d) = p[i].progress
      BY <1>1, <2>2, <3>1, VerdictAt
    <3>3. QED
      BY <3>1, <3>2
  <2>3. QED
    BY <1>1, <1>3, <2>1, <2>2, VerdictFrom DEF q, n
<1>4. QED
  BY <1>2, <1>3

\* What is taken from the front of the pipe into the verdicts changes none of them.
LEMMA VerdictOfRest ==
  ASSUME NEW p \in Seq(Reports), NEW s, NEW t, NEW k \in 0 .. Len(p), NEW d \in Disks,
         t[d] = LastVerdict(p, s, k, d)
  PROVE  LastVerdict(SubSeq(p, k + 1, Len(p)), t, Len(p) - k, d) = LastVerdict(p, s, Len(p), d)
<1> DEFINE q == SubSeq(p, k + 1, Len(p))
           n == Len(p)
<1>1. n \in Nat /\ k \in Nat /\ n - k \in Nat /\ k <= n /\ \A i \in 1 .. n - k : q[i] = p[k + i]
  <2>1. \A i \in k + 1 .. n : p[i] \in Reports
    BY LenProperties, ElementOfSeq
  <2>2. \A i \in 1 .. n - (k + 1) + 1 : q[i] = p[(k + 1) + i - 1]
    BY <2>1, LenProperties, SubSeqProperties
  <2>3. QED
    BY <2>2, LenProperties
<1> HIDE DEF q, n
<1>2. CASE NoReport(q, n - k, d)
  <2>1. LastVerdict(q, t, n - k, d) = LastVerdict(p, s, k, d)
    BY <1>2, NoVerdict
  <2>2. \A i \in 1 .. n : p[i].disk = d => i \in 1 .. k
    <3>1. \A i \in k + 1 .. n : i - k \in 1 .. n - k /\ q[i - k] = p[i]
      BY <1>1
    <3>2. QED
      BY <1>1, <1>2, <3>1 DEF NoReport
  <2>3. CASE NoReport(p, k, d)
    <3>1. NoReport(p, n, d)
      BY <2>2, <2>3 DEF NoReport
    <3>2. LastVerdict(p, s, n, d) = s[d] /\ LastVerdict(p, s, k, d) = s[d]
      BY <2>3, <3>1, NoVerdict
    <3>3. QED
      BY <2>1, <3>2 DEF q, n
  <2>4. ASSUME NEW i, LastReport(p, k, d, i)
        PROVE  LastVerdict(p, s, n, d) = LastVerdict(p, s, k, d)
    <3>1. LastReport(p, n, d, i)
      BY <1>1, <2>2, <2>4 DEF LastReport
    <3>2. LastVerdict(p, s, n, d) = p[i].progress /\ LastVerdict(p, s, k, d) = p[i].progress
      BY <1>1, <2>4, <3>1, VerdictAt
    <3>3. QED
      BY <3>2
  <2>5. QED
    BY <1>1, <2>1, <2>3, <2>4, VerdictFrom DEF q, n
<1>3. ASSUME NEW i, LastReport(q, n - k, d, i)
      PROVE  LastVerdict(q, t, n - k, d) = LastVerdict(p, s, n, d)
  <2>1. k + i \in 1 .. n /\ p[k + i] = q[i] /\ q[i].disk = d
    BY <1>1, <1>3 DEF LastReport
  <2>2. \A j \in 1 .. n : p[j].disk = d => j <= k + i
    <3> SUFFICES ASSUME NEW j \in 1 .. n, p[j].disk = d PROVE j <= k + i
      OBVIOUS
    <3>1. i \in Nat /\ \A m \in 1 .. n - k : q[m].disk = d => m <= i
      BY <1>3 DEF LastReport
    <3>2. CASE k < j
      <4>1. j - k \in 1 .. n - k /\ k + (j - k) = j
        BY <1>1, <3>2
      <4>2. q[j - k] = p[k + (j - k)]
        BY <1>1, <4>1
      <4>3. j - k <= i
        BY <3>1, <4>1, <4>2
      <4>4. QED
        BY <1>1, <3>1, <4>3
    <3>3. QED
      BY <1>1, <3>1, <3>2
  <2>3. LastReport(p, n, d, k + i)
    BY <2>1, <2>2 DEF LastReport
  <2>4. LastVerdict(q, t, n - k, d) = q[i].progress
    BY <1>1, <1>3, VerdictAt
  <2>5. LastVerdict(p, s, n, d) = p[k + i].progress
    BY <1>1, <2>3, VerdictAt
  <2>6. QED
    BY <2>1, <2>4, <2>5
<1>4. QED
  BY <1>1, <1>2, <1>3, VerdictFrom DEF q, n

-----------------------------------------------------------------------------
\* What the assumptions say of the disks.
LEMMA DisksAreSome ==
  /\ N \in Nat \ {0} /\ Disks = 1 .. N /\ 1 \in Disks
  /\ \A d \in Disks : Sectors[d] \in Nat \ {0}
BY SectorsAssumption, LenProperties, ElementOfSeq, EmptySeq DEF N, Disks

\* The program starts: the initial states satisfy IInv.
LEMMA InitIInv == Init => IInv
<1> SUFFICES ASSUME Init PROVE IInv
  OBVIOUS
<1>1. N \in Nat \ {0} /\ \A d \in Disks : Sectors[d] \in Nat
  BY DisksAreSome
<1>2. pipe \in Seq(Reports) /\ Len(pipe) = 0
  BY EmptySeq DEF Init
<1>3. TypeOK
  <2>1. /\ nWritten \in [Disks -> Nat] /\ zeroed \in [Disks -> Nat] /\ size \in [Disks -> 0 .. Chunk]
        /\ late \in [Disks -> 0 .. 2] /\ \A d \in Disks : nWritten[d] <= Sectors[d]
    BY <1>1, ChunkAssumption DEF Init
  <2>2. launched \in 0 .. N /\ listed \in 0 .. N /\ turn \in 1 .. N
    BY <1>1 DEF Init
  <2>3. QED
    BY <1>2, <2>1, <2>2 DEF Init, TypeOK, Reports
<1>4. Sizes /\ Zeros /\ Noted /\ Phases /\ Stops /\ Exits
  BY DEF Init, Sizes, Zeros, Noted, Phases, Stops, Exits
<1>5. Confirmed /\ Rounds
  BY <1>2 DEF Init, Confirmed, InReports, InTask, Rounds, InRound, AtEnd
<1>6. QED
  BY <1>3, <1>4, <1>5 DEF IInv

\* The verdicts of the task are on reports that it took from the pipe.
LEMMA SeenIsVerdict ==
  ASSUME NEW k, NEW d \in Disks
  PROVE  SeenAfter(k)[d] = LastVerdict(pipe, seen, k, d)
BY DEF SeenAfter, LastVerdict

\* What is in the pipe is a report.
LEMMA PipedReports ==
  ASSUME TypeOK
  PROVE  /\ pipe \in Seq(Reports) /\ Len(pipe) \in Nat
         /\ \A i \in 1 .. Len(pipe) : pipe[i].disk \in Disks /\ pipe[i].progress \in {99, 100, 999}
<1>1. pipe \in Seq(Reports)
  BY DEF TypeOK, Reports
<1>2. Len(pipe) \in Nat /\ \A i \in 1 .. Len(pipe) : pipe[i] \in Reports
  BY <1>1, LenProperties, ElementOfSeq
<1>3. QED
  BY <1>1, <1>2 DEF Reports

\* Where pipe and verdicts stay, the disks that were judged stay so.
LEMMA JudgedStays ==
  ASSUME UNCHANGED <<pipe, seen>>, NEW d \in Disks
  PROVE  Judged(d)' <=> Judged(d)
BY DEF Judged, SeenAfter

-----------------------------------------------------------------------------
\* While no wiper takes a sector back or starts again, the verdicts stay true.
LEMMA VerdictsStay ==
  ASSUME IInv, UNCHANGED <<reporterVars, taskVars, pipe>>,
         \A d \in Disks : /\ nWritten[d] <= nWritten'[d] /\ nWritten'[d] <= Sectors[d]
                          /\ nWritten'[d] \in Nat /\ (running'[d] => running[d])
  PROVE  Noted' /\ Confirmed' /\ Rounds'
<1> USE DEF reporterVars, taskVars
<1>1. \A d \in Disks : nWritten[d] \in Nat /\ Sectors[d] \in Nat
  BY DisksAreSome DEF IInv, TypeOK
<1>2. Noted'
  <2>1. noted \in Nat /\ turn \in Disks
    BY DisksAreSome DEF IInv, TypeOK
  <2>2. reporter = "report" => noted <= nWritten'[turn]
    BY <1>1, <2>1 DEF IInv, Noted
  <2>3. QED
    BY <2>2 DEF Noted
<1>3. \A d \in Disks : Wiped(d) => Wiped(d)'
  BY <1>1 DEF Wiped
<1>4. Confirmed'
  <2>1. \A i \in 1 .. Len(pipe) : pipe[i].disk \in Disks
    BY PipedReports DEF IInv
  <2>2. InReports'
    BY <1>3, <2>1 DEF IInv, Confirmed, InReports
  <2>3. InTask' /\ (progress = 100 => \A d \in Disks : Wiped(d)')
    BY <1>3 DEF IInv, Confirmed, InTask
  <2>4. QED
    BY <2>2, <2>3 DEF Confirmed
<1>5. Rounds'
  <2>1. \A d \in Disks : Judged(d)' <=> Judged(d)
    BY JudgedStays
  <2>2. \A d \in 1 .. turn - 1 : d \in Disks
    BY DisksAreSome DEF IInv, TypeOK
  <2>3. QED
    BY <2>1, <2>2 DEF IInv, Rounds, InRound, AtEnd
<1>6. QED
  BY <1>2, <1>4, <1>5

-----------------------------------------------------------------------------
\* A wiper looks whether it goes on.
LEMMA TestKeeps ==
  ASSUME IInv, NEW d \in Disks, Test(d)
  PROVE  IInv'
<1> USE DEF others, mainVars, reporterVars, taskVars
<1>1. UNCHANGED <<nWritten, running, size, zeroed, others>> /\ wiper[d] = "test"
  BY DEF Test
<1>2. /\ wiper'[d] \in {"write", "closed"} /\ \A x \in Disks : x # d => wiper'[x] = wiper[x]
      /\ wiper' \in [Disks -> {"unborn", "test", "write", "count", "closed"}]
  <2>1. \/ wiper' = [wiper EXCEPT ![d] = "write"]
        \/ wiper' = [wiper EXCEPT ![d] = "closed"]
    BY DEF Test
  <2>2. wiper \in [Disks -> {"unborn", "test", "write", "count", "closed"}]
    BY DEF IInv, TypeOK
  <2>3. QED
    BY <2>1, <2>2
<1>3. /\ late' \in [Disks -> 0 .. 2]
      /\ \A x \in Disks : late'[x] # late[x] => running[x] /\ signal = "handled"
  <2>1. /\ late \in [Disks -> 0 .. 2]
        /\ late[d] < 2 => late[d] + 1 \in 0 .. 2
    <3>1. late \in [Disks -> 0 .. 2]
      BY DEF IInv, TypeOK
    <3>2. QED
      BY <3>1
  <2>2. CASE running[d]
    <3>1. late' = [late EXCEPT ![d] = IF signal = "handled" /\ late[d] < 2 THEN late[d] + 1 ELSE late[d]]
      BY <2>2 DEF Test
    <3>2. QED
      BY <2>1, <2>2, <3>1
  <2>3. CASE ~running[d]
    BY <2>1, <2>3 DEF Test
  <2>4. QED
    BY <2>2, <2>3
<1>4. TypeOK'
  BY <1>1, <1>2, <1>3 DEF IInv, TypeOK
<1>5. Sizes' /\ Zeros'
  BY <1>1, <1>2 DEF IInv, Sizes, Zeros
<1>6. Noted' /\ Confirmed' /\ Rounds'
  <2>1. \A x \in Disks : /\ nWritten[x] <= nWritten'[x] /\ nWritten'[x] <= Sectors[x]
                         /\ nWritten'[x] \in Nat /\ (running'[x] => running[x])
    BY <1>1 DEF IInv, TypeOK
  <2>2. QED
    BY <1>1, <2>1, VerdictsStay
<1>7. Stops'
  BY <1>1, <1>3 DEF IInv, Stops, TypeOK
<1>8. Phases' /\ Exits'
  BY <1>1, <1>2 DEF IInv, Phases, Exits
<1>9. QED
  BY <1>4, <1>5, <1>6, <1>7, <1>8 DEF IInv

\* What is left to write of a disk fits.
LEMMA WriteSizeFits ==
  ASSUME TypeOK, NEW d \in Disks
  PROVE  WriteSize(d) \in 0 .. Chunk /\ nWritten[d] + WriteSize(d) <= Sectors[d] /\ nWritten[d] \in Nat
<1>1. nWritten[d] \in Nat /\ Sectors[d] \in Nat /\ nWritten[d] <= Sectors[d] /\ Chunk \in Nat
  BY DisksAreSome, ChunkAssumption DEF TypeOK
<1>2. QED
  BY <1>1 DEF WriteSize, Smaller

\* It writes a chunk, or what remains.
LEMMA WriteKeeps ==
  ASSUME IInv, NEW d \in Disks, Write(d)
  PROVE  IInv'
<1> USE DEF others, mainVars, reporterVars, taskVars
<1> DEFINE w == WriteSize(d)
<1>1. /\ UNCHANGED <<nWritten, late, others>> /\ wiper[d] = "write"
      /\ size' = [size EXCEPT ![d] = w] /\ wiper' = [wiper EXCEPT ![d] = "count"]
      /\ running' = [running EXCEPT ![d] = running[d] /\ w = Chunk]
  BY DEF Write
<1>2. PICK n \in 0 .. w : zeroed' = [zeroed EXCEPT ![d] = zeroed[d] + n] /\ (~ShortWrites => n = w)
  <2>1. w \in 0 .. w
    BY WriteSizeFits DEF IInv
  <2>2. PICK n \in IF ShortWrites THEN 0 .. w ELSE {w} : zeroed' = [zeroed EXCEPT ![d] = zeroed[d] + n]
    BY DEF Write
  <2>3. n \in 0 .. w /\ (~ShortWrites => n = w)
    BY <2>1, <2>2
  <2>4. QED
    BY <2>2, <2>3
<1>3. w \in 0 .. Chunk /\ nWritten[d] + w <= Sectors[d] /\ n \in Nat /\ nWritten[d] \in Nat
  BY <1>2, WriteSizeFits DEF IInv
<1> HIDE DEF w
<1>4. /\ wiper'[d] = "count" /\ size'[d] = w /\ zeroed'[d] = zeroed[d] + n
      /\ \A x \in Disks : x # d =>
           wiper'[x] = wiper[x] /\ size'[x] = size[x] /\ zeroed'[x] = zeroed[x]
  BY <1>1, <1>2 DEF IInv, TypeOK
<1>5. running' \in [Disks -> BOOLEAN] /\ \A x \in Disks : running'[x] => running[x]
  BY <1>1 DEF IInv, TypeOK
<1>6. TypeOK'
  <2>1. size' \in [Disks -> 0 .. Chunk] /\ zeroed' \in [Disks -> Nat]
    BY <1>1, <1>2, <1>3 DEF IInv, TypeOK
  <2>2. wiper' \in [Disks -> {"unborn", "test", "write", "count", "closed"}]
    BY <1>1 DEF IInv, TypeOK
  <2>3. QED
    BY <1>1, <1>5, <2>1, <2>2 DEF IInv, TypeOK
<1>7. Sizes'
  BY <1>1, <1>3, <1>4 DEF IInv, Sizes
<1>8. Zeros'
  <2> SUFFICES ASSUME ~ShortWrites, NEW x \in Disks
               PROVE  /\ wiper'[x] # "count" => zeroed'[x] = nWritten[x]
                      /\ wiper'[x] = "count" => zeroed'[x] = nWritten[x] + size'[x]
    BY <1>1 DEF Zeros
  <2>1. zeroed[d] = nWritten[d] /\ n = w
    BY <1>1, <1>2 DEF IInv, Zeros
  <2>2. CASE x = d
    BY <1>4, <2>1, <2>2
  <2>3. CASE x # d
    BY <1>4, <2>3 DEF IInv, Zeros
  <2>4. QED
    BY <2>2, <2>3
<1>9. Noted' /\ Confirmed' /\ Rounds'
  <2>1. \A x \in Disks : /\ nWritten[x] <= nWritten'[x] /\ nWritten'[x] <= Sectors[x]
                         /\ nWritten'[x] \in Nat /\ (running'[x] => running[x])
    BY <1>1, <1>5 DEF IInv, TypeOK
  <2>2. QED
    BY <1>1, <2>1, VerdictsStay
<1>10. Stops'
  BY <1>1, <1>5 DEF IInv, Stops, TypeOK
<1>11. Phases' /\ Exits'
  BY <1>1, <1>4 DEF IInv, Phases, Exits
<1>12. QED
  BY <1>6, <1>7, <1>8, <1>9, <1>10, <1>11 DEF IInv

\* The write fails.
LEMMA WriteRaisesKeeps ==
  ASSUME IInv, NEW d \in Disks, WriteRaises(d)
  PROVE  IInv'
<1> USE DEF others, mainVars, reporterVars, taskVars
<1>1. /\ UNCHANGED <<nWritten, size, zeroed, late, others>> /\ wiper[d] = "write"
      /\ wiper' = [wiper EXCEPT ![d] = "test"] /\ running' = [running EXCEPT ![d] = FALSE]
  BY DEF WriteRaises
<1>2. wiper'[d] = "test" /\ \A x \in Disks : x # d => wiper'[x] = wiper[x]
  BY <1>1 DEF IInv, TypeOK
<1>3. running' \in [Disks -> BOOLEAN] /\ \A x \in Disks : running'[x] => running[x]
  BY <1>1 DEF IInv, TypeOK
<1>4. TypeOK'
  BY <1>1, <1>3 DEF IInv, TypeOK
<1>5. Sizes' /\ Zeros'
  BY <1>1, <1>2 DEF IInv, Sizes, Zeros
<1>6. Noted' /\ Confirmed' /\ Rounds'
  <2>1. \A x \in Disks : /\ nWritten[x] <= nWritten'[x] /\ nWritten'[x] <= Sectors[x]
                         /\ nWritten'[x] \in Nat /\ (running'[x] => running[x])
    BY <1>1, <1>3 DEF IInv, TypeOK
  <2>2. QED
    BY <1>1, <2>1, VerdictsStay
<1>7. Stops'
  BY <1>1, <1>3 DEF IInv, Stops, TypeOK
<1>8. Phases' /\ Exits'
  BY <1>1, <1>2 DEF IInv, Phases, Exits
<1>9. QED
  BY <1>4, <1>5, <1>6, <1>7, <1>8 DEF IInv

\* It counts what it wrote.
LEMMA CountKeeps ==
  ASSUME IInv, NEW d \in Disks, Count(d)
  PROVE  IInv'
<1> USE DEF others, mainVars, reporterVars, taskVars
<1>1. /\ UNCHANGED <<running, size, zeroed, late, others>> /\ wiper[d] = "count"
      /\ wiper' = [wiper EXCEPT ![d] = "test"]
      /\ nWritten' = [nWritten EXCEPT ![d] = nWritten[d] + size[d]]
  BY DEF Count
<1>2. nWritten[d] \in Nat /\ size[d] \in Nat /\ nWritten[d] + size[d] <= Sectors[d]
  BY <1>1, ChunkAssumption DEF IInv, TypeOK, Sizes
<1>3. /\ wiper'[d] = "test" /\ nWritten'[d] = nWritten[d] + size[d]
      /\ \A x \in Disks : x # d => wiper'[x] = wiper[x] /\ nWritten'[x] = nWritten[x]
  BY <1>1 DEF IInv, TypeOK
<1>4. \A x \in Disks : /\ nWritten[x] <= nWritten'[x] /\ nWritten'[x] <= Sectors[x]
                       /\ nWritten'[x] \in Nat
  <2> SUFFICES ASSUME NEW x \in Disks
               PROVE  /\ nWritten[x] <= nWritten'[x] /\ nWritten'[x] <= Sectors[x]
                      /\ nWritten'[x] \in Nat
    OBVIOUS
  <2>1. nWritten[x] \in Nat /\ nWritten[x] <= Sectors[x]
    BY DEF IInv, TypeOK
  <2>2. CASE x = d
    BY <1>2, <1>3, <2>2
  <2>3. CASE x # d
    BY <1>3, <2>1, <2>3
  <2>4. QED
    BY <2>2, <2>3
<1>5. TypeOK'
  <2>1. nWritten' \in [Disks -> Nat] /\ wiper' \in [Disks -> {"unborn", "test", "write", "count", "closed"}]
    BY <1>1, <1>2 DEF IInv, TypeOK
  <2>2. QED
    BY <1>1, <1>4, <2>1 DEF IInv, TypeOK
<1>6. Sizes' /\ Zeros'
  BY <1>1, <1>3 DEF IInv, Sizes, Zeros
<1>7. Noted' /\ Confirmed' /\ Rounds'
  BY <1>1, <1>4, VerdictsStay
<1>8. Stops'
  BY <1>1 DEF IInv, Stops
<1>9. Phases' /\ Exits'
  BY <1>1, <1>3 DEF IInv, Phases, Exits
<1>10. QED
  BY <1>5, <1>6, <1>7, <1>8, <1>9 DEF IInv

-----------------------------------------------------------------------------
\* The main thread goes on to another phase, or dies: Boot, BootFails, LaunchRaises,
\* Watch, Join.
LEMMA PhaseKeeps ==
  ASSUME IInv, main \notin {"done", "died"}, wiping' \in BOOLEAN,
         main' \in {"launch", "watch", "join", "done", "died"},
         main' = "launch" => main = "boot",
         main' \in {"watch", "join", "done"} => reporter # "unborn",
         UNCHANGED <<launched, listed, wiperVars, reporterVars, taskVars, pipe, exit, signal, told>>
  PROVE  IInv'
<1> USE DEF wiperVars, reporterVars, taskVars
<1>1. TypeOK'
  BY DEF IInv, TypeOK
<1>2. Sizes' /\ Zeros'
  BY DEF IInv, Sizes, Zeros
<1>3. Noted' /\ Confirmed' /\ Rounds'
  <2>1. \A x \in Disks : /\ nWritten[x] <= nWritten'[x] /\ nWritten'[x] <= Sectors[x]
                         /\ nWritten'[x] \in Nat /\ (running'[x] => running[x])
    BY DEF IInv, TypeOK
  <2>2. QED
    BY <2>1, VerdictsStay
<1>4. Phases' /\ Stops' /\ Exits'
  BY DEF IInv, Phases, Stops, Exits
<1>5. QED
  BY <1>1, <1>2, <1>3, <1>4 DEF IInv

\* The next wiper is started.
LEMMA LaunchKeeps ==
  ASSUME IInv, Launch
  PROVE  IInv'
<1> USE DEF reporterVars, taskVars
<1> DEFINE d == launched + 1
<1>1. /\ UNCHANGED <<nWritten, running, size, zeroed, late, main, listed, wiping,
                     reporterVars, taskVars, pipe, exit, signal, told>>
      /\ main = "launch" /\ launched' = launched + 1
      /\ wiper' = [wiper EXCEPT ![d] = "test"]
  BY DEF Launch
<1>2. d \in Disks /\ launched + 1 \in 0 .. N
  BY DisksAreSome DEF Launch, IInv, TypeOK
<1> HIDE DEF d
<1>3. /\ wiper' \in [Disks -> {"unborn", "test", "write", "count", "closed"}]
      /\ wiper'[d] = "test" /\ \A x \in Disks : x # d => wiper'[x] = wiper[x]
  <2>1. wiper \in [Disks -> {"unborn", "test", "write", "count", "closed"}]
    BY DEF IInv, TypeOK
  <2>2. QED
    BY <1>1, <1>2, <2>1
<1>4. wiper[d] = "unborn"
  BY <1>2 DEF d, IInv, TypeOK, Phases
<1>5. TypeOK'
  BY <1>1, <1>2, <1>3, SMTT(30) DEF IInv, TypeOK
<1>6. Sizes' /\ Zeros'
  BY <1>1, <1>3, <1>4 DEF IInv, Sizes, Zeros
<1>7. Noted' /\ Confirmed' /\ Rounds'
  <2>1. \A x \in Disks : /\ nWritten[x] <= nWritten'[x] /\ nWritten'[x] <= Sectors[x]
                         /\ nWritten'[x] \in Nat /\ (running'[x] => running[x])
    BY <1>1 DEF IInv, TypeOK
  <2>2. QED
    BY <1>1, <2>1, VerdictsStay
<1>8. Phases'
  <2>1. launched \in Nat /\ \A x \in Disks : x \in Nat
    BY DisksAreSome DEF IInv, TypeOK
  <2>2. \A x \in Disks : x > launched + 1 => x > launched /\ x # d
    BY <2>1 DEF d
  <2>3. QED
    BY <1>1, <1>3, <2>2 DEF IInv, Phases
<1>9. Stops' /\ Exits'
  BY <1>1 DEF IInv, Stops, Exits
<1>10. QED
  BY <1>5, <1>6, <1>7, <1>8, <1>9 DEF IInv

\* And put into the list.
LEMMA ListKeeps ==
  ASSUME IInv, List
  PROVE  IInv'
<1> USE DEF wiperVars, reporterVars, taskVars
<1>1. /\ UNCHANGED <<launched, main, wiping, wiperVars, reporterVars, taskVars, pipe, exit, signal, told>>
      /\ listed' = launched
  BY DEF List
<1>2. TypeOK'
  BY <1>1 DEF IInv, TypeOK
<1>3. Sizes' /\ Zeros'
  BY <1>1 DEF IInv, Sizes, Zeros
<1>4. Noted' /\ Confirmed' /\ Rounds'
  <2>1. \A x \in Disks : /\ nWritten[x] <= nWritten'[x] /\ nWritten'[x] <= Sectors[x]
                         /\ nWritten'[x] \in Nat /\ (running'[x] => running[x])
    BY <1>1 DEF IInv, TypeOK
  <2>2. QED
    BY <1>1, <2>1, VerdictsStay
<1>5. Phases' /\ Stops' /\ Exits'
  BY <1>1 DEF IInv, Phases, Stops, Exits
<1>6. QED
  BY <1>2, <1>3, <1>4, <1>5 DEF IInv

\* The reporter is started; it has the first disk before it.
LEMMA StartReporterKeeps ==
  ASSUME IInv, StartReporter
  PROVE  IInv'
<1> USE DEF wiperVars, taskVars
<1>1. /\ UNCHANGED <<launched, listed, wiping, wiperVars, turn, noted, anyRunning, taskVars,
                     pipe, exit, signal, told>>
      /\ main = "launch" /\ main' = "watch" /\ reporter' = "count"
  BY DEF StartReporter
<1>2. TypeOK'
  BY <1>1 DEF IInv, TypeOK
<1>3. Sizes' /\ Zeros' /\ Noted'
  BY <1>1 DEF IInv, Sizes, Zeros, Noted
<1>4. Confirmed'
  BY <1>1 DEF IInv, Confirmed, InReports, InTask, Wiped
<1>5. exit = "none"
  BY <1>1 DEF IInv, Exits
<1>6. Rounds'
  <2>1. turn' = 1
    BY <1>1 DEF IInv, Phases
  <2>2. 1 .. turn' - 1 = {}
    BY <2>1
  <2>3. QED
    BY <1>1, <2>2 DEF Rounds, InRound, AtEnd
<1>7. Phases' /\ Stops' /\ Exits'
  BY <1>1, <1>5 DEF IInv, Phases, Stops, Exits
<1>8. QED
  BY <1>2, <1>3, <1>4, <1>6, <1>7 DEF IInv

\* The program ends.
LEMMA ExitKeeps ==
  ASSUME IInv, Exit
  PROVE  IInv'
<1> USE DEF wiperVars, mainVars, reporterVars, taskVars
<1>1. /\ UNCHANGED <<wiperVars, mainVars, reporterVars, taskVars, pipe, signal, told>>
      /\ main \in {"done", "died"} /\ reporter \in {"unborn", "done"}
      /\ \A d \in Disks : wiper[d] \in {"unborn", "closed"}
      /\ exit' \in {"good", "bad"} /\ (exit' = "good" => main = "done")
  BY DEF Exit
<1>2. TypeOK'
  BY <1>1 DEF IInv, TypeOK
<1>3. Sizes' /\ Zeros'
  BY <1>1 DEF IInv, Sizes, Zeros
<1>4. Noted' /\ Confirmed' /\ Rounds'
  <2>1. \A x \in Disks : /\ nWritten[x] <= nWritten'[x] /\ nWritten'[x] <= Sectors[x]
                         /\ nWritten'[x] \in Nat /\ (running'[x] => running[x])
    BY <1>1 DEF IInv, TypeOK
  <2>2. QED
    BY <1>1, <2>1, VerdictsStay
<1>5. Phases' /\ Stops' /\ Exits'
  BY <1>1 DEF IInv, Phases, Stops, Exits
<1>6. QED
  BY <1>2, <1>3, <1>4, <1>5 DEF IInv

\* The signal stops the wipers in the list, which have not begun a write after it.
LEMMA HandleStopSignalKeeps ==
  ASSUME IInv, HandleStopSignal
  PROVE  IInv'
<1> USE DEF reporterVars, taskVars
<1>1. /\ UNCHANGED <<nWritten, wiper, size, zeroed, late, main, launched, listed, reporterVars,
                     taskVars, pipe, exit>>
      /\ signal = "sent" /\ signal' = "handled" /\ wiping' = FALSE /\ told' = 1 .. listed
      /\ running' = [d \in Disks |-> running[d] /\ d > listed]
  BY DEF HandleStopSignal
<1>2. 1 .. listed \subseteq Disks /\ \A d \in 1 .. listed : ~(d > listed)
  BY DisksAreSome DEF IInv, TypeOK
<1>3. running' \in [Disks -> BOOLEAN] /\ \A d \in Disks : running'[d] => running[d] /\ d > listed
  BY <1>1
<1>4. TypeOK'
  <2>1. told' \subseteq Disks
    BY <1>1, <1>2
  <2>2. running' \in [Disks -> BOOLEAN]
    BY <1>3
  <2>3. /\ nWritten' \in [Disks -> Nat] /\ zeroed' \in [Disks -> Nat]
        /\ size' \in [Disks -> 0 .. Chunk] /\ \A d \in Disks : nWritten'[d] <= Sectors[d]
    BY <1>1 DEF IInv, TypeOK
  <2>4. /\ wiper' \in [Disks -> {"unborn", "test", "write", "count", "closed"}]
        /\ main' \in {"boot", "launch", "watch", "join", "done", "died"}
        /\ launched' \in 0 .. N /\ listed' \in 0 .. N
    BY <1>1 DEF IInv, TypeOK
  <2>5. /\ wiping' \in BOOLEAN /\ anyRunning' \in BOOLEAN
        /\ reporter' \in {"unborn", "count", "report", "done"}
        /\ turn' \in 1 .. N /\ noted' \in Nat
    <3>1. wiping' \in BOOLEAN
      BY <1>1
    <3>2. anyRunning \in BOOLEAN /\ anyRunning' = anyRunning
      BY <1>1 DEF IInv, TypeOK
    <3>3. /\ reporter' \in {"unborn", "count", "report", "done"}
          /\ turn' \in 1 .. N /\ noted' \in Nat
      BY <1>1 DEF IInv, TypeOK
    <3>4. QED
      BY <3>1, <3>2, <3>3
  <2>6. /\ pipe' \in Seq([disk : Disks, progress : {99, 100, 999}])
        /\ exit' \in {"none", "good", "bad"} /\ signal' \in {"none", "sent", "handled"}
        /\ seen' \in [Disks -> {0, 99, 100, 999}]
        /\ progress' \in {0, 99, 100, 999} /\ late' \in [Disks -> 0 .. 2]
    BY <1>1 DEF IInv, TypeOK
  <2>7. QED
    BY <2>1, <2>2, <2>3, <2>4, <2>5, <2>6 DEF TypeOK
<1>5. Sizes' /\ Zeros'
  BY <1>1 DEF IInv, Sizes, Zeros
<1>6. Noted' /\ Confirmed' /\ Rounds'
  <2>1. \A x \in Disks : /\ nWritten[x] <= nWritten'[x] /\ nWritten'[x] <= Sectors[x]
                         /\ nWritten'[x] \in Nat /\ (running'[x] => running[x])
    BY <1>1, <1>3 DEF IInv, TypeOK
  <2>2. QED
    BY <1>1, <2>1, VerdictsStay
<1>7. Stops'
  BY <1>1, <1>2, <1>3 DEF IInv, Stops
<1>8. Phases' /\ Exits'
  BY <1>1 DEF IInv, Phases, Exits
<1>9. QED
  BY <1>4, <1>5, <1>6, <1>7, <1>8 DEF IInv

\* The runner sends the signal.
LEMMA SendStopKeeps ==
  ASSUME IInv, SendStop
  PROVE  IInv'
<1> USE DEF wiperVars, mainVars, reporterVars, taskVars
<1>1. /\ UNCHANGED <<wiperVars, mainVars, reporterVars, taskVars, pipe, exit, told>>
      /\ signal = "none" /\ signal' = "sent"
  BY DEF SendStop
<1>2. TypeOK'
  BY <1>1 DEF IInv, TypeOK
<1>3. Sizes' /\ Zeros'
  BY <1>1 DEF IInv, Sizes, Zeros
<1>4. Noted' /\ Confirmed' /\ Rounds'
  <2>1. \A x \in Disks : /\ nWritten[x] <= nWritten'[x] /\ nWritten'[x] <= Sectors[x]
                         /\ nWritten'[x] \in Nat /\ (running'[x] => running[x])
    BY <1>1 DEF IInv, TypeOK
  <2>2. QED
    BY <1>1, <2>1, VerdictsStay
<1>5. Phases' /\ Stops' /\ Exits'
  BY <1>1 DEF IInv, Phases, Stops, Exits
<1>6. QED
  BY <1>2, <1>3, <1>4, <1>5 DEF IInv

-----------------------------------------------------------------------------
\* The reporter reads the count of a disk.
LEMMA ReadCountKeeps ==
  ASSUME IInv, ReadCount
  PROVE  IInv'
<1> USE DEF wiperVars, mainVars, taskVars
<1>1. /\ UNCHANGED <<turn, anyRunning, wiperVars, mainVars, taskVars, pipe, exit, signal, told>>
      /\ reporter = "count" /\ reporter' = "report" /\ noted' = nWritten[turn]
  BY DEF ReadCount
<1>2. turn \in Disks /\ nWritten[turn] \in Nat
  BY DisksAreSome DEF IInv, TypeOK
<1>3. TypeOK'
  BY <1>1, <1>2, SMTT(30) DEF IInv, TypeOK
<1>4. Sizes' /\ Zeros'
  BY <1>1 DEF IInv, Sizes, Zeros
<1>5. Noted'
  BY <1>1, <1>2 DEF Noted
<1>6. Confirmed'
  BY <1>1 DEF IInv, Confirmed, InReports, InTask, Wiped
<1>7. Rounds'
  <2>1. \A d \in Disks : Judged(d)' <=> Judged(d)
    BY <1>1, JudgedStays
  <2>2. \A d \in 1 .. turn - 1 : d \in Disks
    BY DisksAreSome DEF IInv, TypeOK
  <2>3. QED
    BY <1>1, <2>1, <2>2 DEF IInv, Rounds, InRound, AtEnd
<1>8. Phases' /\ Stops' /\ Exits'
  BY <1>1 DEF IInv, Phases, Stops, Exits
<1>9. QED
  BY <1>3, <1>4, <1>5, <1>6, <1>7, <1>8 DEF IInv

\* The report is a verdict on its disk only when that has stopped, and it calls a
\* disk wiped only when it is.
LEMMA VerdictIsTrue ==
  ASSUME IInv, reporter = "report"
  PROVE  /\ Verdict(turn) \in {99, 100, 999} /\ turn \in Disks
         /\ ~running[turn] => Verdict(turn) \in {100, 999}
         /\ Verdict(turn) = 100 => Wiped(turn)
<1>1. turn \in Disks /\ noted <= nWritten[turn] /\ nWritten[turn] <= Sectors[turn]
      /\ noted \in Nat /\ nWritten[turn] \in Nat /\ Sectors[turn] \in Nat
  BY DisksAreSome DEF IInv, TypeOK, Noted
<1>2. QED
  BY <1>1 DEF Verdict, Wiped

\* It puts its report into the pipe, and goes to the next disk.
LEMMA ReportKeeps ==
  ASSUME IInv, Report
  PROVE  IInv'
<1> USE DEF wiperVars, mainVars, taskVars
<1> DEFINE r == [disk |-> turn, progress |-> Verdict(turn)]
           someRunning == (turn > 1 /\ anyRunning) \/ running[turn]
<1>1. /\ UNCHANGED <<noted, wiperVars, mainVars, taskVars, exit, signal, told>>
      /\ reporter = "report" /\ pipe' = Append(pipe, r) /\ anyRunning' = someRunning
      /\ \/ turn < N /\ turn' = turn + 1 /\ reporter' = "count"
         \/ ~(turn < N) /\ turn' = 1 /\ reporter' = IF someRunning THEN "count" ELSE "done"
  BY DEF Report
<1>2. /\ turn \in 1 .. N /\ N \in Nat /\ Disks = 1 .. N
      /\ r \in Reports /\ r.disk = turn /\ r.progress = Verdict(turn)
  <2>1. turn \in 1 .. N /\ N \in Nat /\ Disks = 1 .. N
    BY DisksAreSome DEF IInv, TypeOK
  <2>2. Verdict(turn) \in {99, 100, 999} /\ turn \in Disks
    BY <1>1, VerdictIsTrue
  <2>3. QED
    BY <2>1, <2>2 DEF Reports
<1>3. pipe \in Seq(Reports) /\ Len(pipe) \in Nat
  BY PipedReports DEF IInv
<1>4. /\ pipe' \in Seq(Reports) /\ Len(pipe') = Len(pipe) + 1
      /\ \A i \in 1 .. Len(pipe) : pipe'[i] = pipe[i]
      /\ pipe'[Len(pipe) + 1] = r
  BY <1>1, <1>2, <1>3, AppendProperties
<1>5. \A d \in Disks : Judged(d)' <=> IF turn = d THEN Verdict(turn) \in {100, 999} ELSE Judged(d)
  <2> SUFFICES ASSUME NEW d \in Disks
               PROVE  Judged(d)' <=> IF turn = d THEN Verdict(turn) \in {100, 999} ELSE Judged(d)
    OBVIOUS
  <2>1. Judged(d)' <=> LastVerdict(pipe', seen, Len(pipe) + 1, d) \in {100, 999}
    <3>1. seen' = seen /\ Len(pipe') = Len(pipe) + 1
      BY <1>1, <1>4
    <3>2. Judged(d)' <=> LastVerdict(pipe', seen', Len(pipe'), d) \in {100, 999}
      BY DEF Judged, SeenAfter, LastVerdict
    <3>3. QED
      BY <3>1, <3>2
  <2>2. Judged(d) <=> LastVerdict(pipe, seen, Len(pipe), d) \in {100, 999}
    BY SeenIsVerdict DEF Judged
  <2>3. LastVerdict(pipe', seen, Len(pipe) + 1, d) =
          IF turn = d THEN Verdict(turn) ELSE LastVerdict(pipe, seen, Len(pipe), d)
    BY <1>1, <1>2, <1>3, VerdictOfMore
  <2>4. QED
    BY <2>1, <2>2, <2>3
<1> HIDE DEF r
<1>6. TypeOK'
  <2>1. anyRunning' \in BOOLEAN /\ turn' \in 1 .. N /\ reporter' \in {"unborn", "count", "report", "done"}
    BY <1>1, <1>2
  <2>2. QED
    BY <1>1, <1>4, <2>1 DEF IInv, TypeOK, Reports
<1>7. Sizes' /\ Zeros' /\ Noted'
  BY <1>1 DEF IInv, Sizes, Zeros, Noted
<1>8. Confirmed'
  <2>1. InReports'
    <3> SUFFICES ASSUME NEW i \in 1 .. Len(pipe'), pipe'[i].progress = 100
                 PROVE  Wiped(pipe'[i].disk)
      BY <1>1 DEF InReports, Wiped
    <3>1. CASE i \in 1 .. Len(pipe)
      BY <1>4, <3>1 DEF IInv, Confirmed, InReports
    <3>2. CASE i = Len(pipe) + 1
      BY <1>1, <1>2, <1>4, <3>2, VerdictIsTrue
    <3>3. QED
      BY <1>3, <1>4, <3>1, <3>2
  <2>2. InTask' /\ (progress' = 100 => \A d \in Disks : Wiped(d)')
    BY <1>1 DEF IInv, Confirmed, InTask, Wiped
  <2>3. QED
    BY <2>1, <2>2 DEF Confirmed
<1>9. ASSUME ~someRunning, NEW d \in 1 .. turn
      PROVE  Judged(d)'
  <2>1. d \in Disks
    BY <1>2
  <2>2. CASE d = turn
    BY <1>1, <1>5, <1>9, <2>1, <2>2, VerdictIsTrue
  <2>3. CASE d # turn
    <3>1. d \in 1 .. turn - 1 /\ ~anyRunning
      BY <1>2, <1>9, <2>3
    <3>2. Judged(d)
      BY <1>1, <3>1 DEF IInv, Rounds, InRound
    <3>3. QED
      BY <1>5, <2>1, <2>3, <3>2
  <2>4. QED
    BY <2>2, <2>3
<1>10. Rounds'
  <2>1. InRound'
    <3> SUFFICES ASSUME ~someRunning, NEW d \in 1 .. turn' - 1
                 PROVE  Judged(d)'
      BY <1>1 DEF InRound
    <3>1. d \in 1 .. turn
      BY <1>1, <1>2
    <3>2. QED
      BY <1>9, <3>1
  <2>2. AtEnd'
    <3> SUFFICES ASSUME reporter' = "done", NEW d \in Disks
                 PROVE  Judged(d)'
      BY DEF AtEnd
    <3>1. ~someRunning /\ d \in 1 .. turn
      BY <1>1, <1>2
    <3>2. QED
      BY <1>9, <3>1
  <2>3. QED
    BY <2>1, <2>2 DEF Rounds
<1>11. Phases' /\ Stops' /\ Exits'
  BY <1>1 DEF IInv, Phases, Stops, Exits
<1>12. QED
  BY <1>6, <1>7, <1>8, <1>10, <1>11 DEF IInv

\* Nobody reads the report any more.
LEMMA ReportRaisesKeeps ==
  ASSUME IInv, ReportRaises
  PROVE  IInv'
<1> USE DEF wiperVars, mainVars, taskVars
<1>1. /\ UNCHANGED <<turn, noted, anyRunning, wiperVars, mainVars, taskVars, pipe, exit, signal, told>>
      /\ reporter = "report" /\ reporter' = "done" /\ progress \in {100, 999}
  BY DEF ReportRaises, IInv, TypeOK
<1>2. TypeOK'
  BY <1>1 DEF IInv, TypeOK
<1>3. Sizes' /\ Zeros' /\ Noted'
  BY <1>1 DEF IInv, Sizes, Zeros, Noted
<1>4. Confirmed'
  BY <1>1 DEF IInv, Confirmed, InReports, InTask, Wiped
<1>5. Rounds'
  BY <1>1 DEF Rounds, InRound, AtEnd
<1>6. Phases' /\ Stops' /\ Exits'
  BY <1>1 DEF IInv, Phases, Stops, Exits
<1>7. QED
  BY <1>2, <1>3, <1>4, <1>5, <1>6 DEF IInv

-----------------------------------------------------------------------------
\* A verdict that the task takes is one that it had or one of the pipe.
LEMMA TakenVerdict ==
  ASSUME IInv, NEW k \in 0 .. Len(pipe), NEW d \in Disks
  PROVE  \/ SeenAfter(k)[d] = seen[d] /\ \A i \in 1 .. k : pipe[i].disk # d
         \/ \E i \in 1 .. Len(pipe) : pipe[i].disk = d /\ SeenAfter(k)[d] = pipe[i].progress
<1>1. k \in Nat /\ \A i \in 1 .. k : i \in 1 .. Len(pipe)
  BY PipedReports DEF IInv
<1>2. ASSUME NEW i, LastReport(pipe, k, d, i)
      PROVE  i \in 1 .. Len(pipe) /\ pipe[i].disk = d /\ SeenAfter(k)[d] = pipe[i].progress
  <2>1. i \in 1 .. k /\ pipe[i].disk = d
    BY <1>2 DEF LastReport
  <2>2. LastVerdict(pipe, seen, k, d) = pipe[i].progress
    BY <1>1, <1>2, VerdictAt
  <2>3. QED
    BY <1>1, <2>1, <2>2, SeenIsVerdict
<1>3. CASE NoReport(pipe, k, d)
  BY <1>3, NoVerdict, SeenIsVerdict DEF NoReport
<1>4. QED
  BY <1>1, <1>2, <1>3, VerdictFrom

\* Once the program has exited well, a poll finds a verdict on some disk.
LEMMA ReportsAreFound ==
  ASSUME IInv, exit = "good", progress < 100, NEW k \in 0 .. Len(pipe), pipe # <<>> => k > 0
  PROVE  \E d \in Disks : SeenAfter(k)[d] # 0
<1>1. \A d \in Disks : Judged(d)
  BY DEF IInv, Exits, Phases, Rounds, AtEnd
<1>2. CASE pipe = <<>>
  <2>1. Len(pipe) = 0 /\ k = 0
    BY <1>2, EmptySeq
  <2>2. SeenAfter(k)[1] \in {100, 999}
    BY <1>1, <2>1, DisksAreSome DEF Judged
  <2>3. QED
    BY <2>2, DisksAreSome
<1>3. CASE pipe # <<>>
  <2> DEFINE d == pipe[1].disk
  <2>1. k \in Nat /\ 1 \in 1 .. k /\ 1 \in 1 .. Len(pipe)
    BY <1>3, PipedReports DEF IInv
  <2>2. d \in Disks /\ \A i \in 1 .. Len(pipe) : pipe[i].progress \in {99, 100, 999}
    BY <2>1, PipedReports DEF IInv
  <2>3. SeenAfter(k)[d] \in {99, 100, 999}
    BY <2>1, <2>2, TakenVerdict
  <2>4. QED
    BY <2>2, <2>3
<1>4. QED
  BY <1>2, <1>3

\* The task takes reports from the pipe, and judges by them.
LEMMA PollKeeps ==
  ASSUME IInv, Poll
  PROVE  IInv'
<1> USE DEF wiperVars, mainVars, reporterVars
<1>1. UNCHANGED <<wiperVars, mainVars, reporterVars, exit, signal, told>> /\ progress < 100
      /\ progress' = Aggregate(seen')
  BY DEF Poll
<1>2. PICK k \in 0 .. Len(pipe) : /\ exit # "none" /\ pipe # <<>> => k > 0
                                  /\ seen' = SeenAfter(k) /\ pipe' = SubSeq(pipe, k + 1, Len(pipe))
  BY DEF Poll
<1>3. /\ pipe \in Seq(Reports) /\ Len(pipe) \in Nat /\ k \in Nat /\ k <= Len(pipe)
      /\ \A i \in 1 .. Len(pipe) : pipe[i] \in Reports
  BY <1>2, PipedReports, ElementOfSeq DEF IInv
<1>4. /\ pipe' \in Seq(Reports) /\ Len(pipe') = Len(pipe) - k
      /\ \A i \in 1 .. Len(pipe') : k + i \in 1 .. Len(pipe) /\ pipe'[i] = pipe[k + i]
  <2>1. \A i \in k + 1 .. Len(pipe) : pipe[i] \in Reports
    BY <1>3
  <2>2. /\ pipe' \in Seq(Reports)
        /\ Len(pipe') = IF k + 1 <= Len(pipe) THEN Len(pipe) - (k + 1) + 1 ELSE 0
        /\ \A i \in 1 .. Len(pipe) - (k + 1) + 1 : pipe'[i] = pipe[(k + 1) + i - 1]
    BY <1>2, <1>3, <2>1, SubSeqProperties
  <2>3. Len(pipe') = Len(pipe) - k
    BY <1>3, <2>2
  <2>4. QED
    BY <1>3, <2>2, <2>3
<1>5. \A d \in Disks : \/ seen'[d] = seen[d]
                       \/ \E i \in 1 .. Len(pipe) : pipe[i].disk = d /\ seen'[d] = pipe[i].progress
  BY <1>2, TakenVerdict
<1>6. \A d \in Disks : seen'[d] = 100 => Wiped(d)
  BY <1>5 DEF IInv, Confirmed, InReports, InTask
<1>7. seen' \in [Disks -> {0, 99, 100, 999}]
  <2>1. \A d \in Disks : seen'[d] \in {0, 99, 100, 999}
    <3>1. \A i \in 1 .. Len(pipe) : pipe[i].progress \in {99, 100, 999}
      BY PipedReports DEF IInv
    <3>2. \A d \in Disks : seen[d] \in {0, 99, 100, 999}
      BY DEF IInv, TypeOK
    <3>3. QED
      BY <1>5, <3>1, <3>2
  <2>2. seen' = [d \in Disks |-> seen'[d]]
    BY <1>2 DEF SeenAfter
  <2>3. QED
    BY <2>1, <2>2
<1>8. \A d \in Disks : Judged(d)' <=> Judged(d)
  <2> SUFFICES ASSUME NEW d \in Disks PROVE Judged(d)' <=> Judged(d)
    OBVIOUS
  <2>1. Judged(d)' <=> LastVerdict(pipe', seen', Len(pipe) - k, d) \in {100, 999}
    BY <1>4 DEF Judged, SeenAfter, LastVerdict
  <2>2. Judged(d) <=> LastVerdict(pipe, seen, Len(pipe), d) \in {100, 999}
    BY SeenIsVerdict DEF Judged
  <2>3. seen'[d] = LastVerdict(pipe, seen, k, d)
    BY <1>2, SeenIsVerdict
  <2>4. LastVerdict(pipe', seen', Len(pipe) - k, d) = LastVerdict(pipe, seen, Len(pipe), d)
    BY <1>2, <1>3, <2>3, VerdictOfRest
  <2>5. QED
    BY <2>1, <2>2, <2>4
<1>9. progress' \in {0, 99, 100, 999} /\ (progress' = 100 => \A d \in Disks : seen'[d] = 100)
  <2>1. exit \in {"none", "good", "bad"}
    BY DEF IInv, TypeOK
  <2>2. CASE \A d \in Disks : seen'[d] = 0
    <3>1. exit # "good"
      BY <1>1, <1>2, <2>2, ReportsAreFound
    <3>2. QED
      BY <1>1, <2>1, <2>2, <3>1 DEF Aggregate
  <2>3. CASE ~ \A d \in Disks : seen'[d] = 0
    BY <1>1, <2>3 DEF Aggregate
  <2>4. QED
    BY <2>2, <2>3
<1>10. TypeOK'
  BY <1>1, <1>4, <1>7, <1>9 DEF IInv, TypeOK, Reports
<1>11. Sizes' /\ Zeros' /\ Noted'
  BY <1>1 DEF IInv, Sizes, Zeros, Noted
<1>12. Confirmed'
  <2>1. InReports'
    <3>1. \A i \in 1 .. Len(pipe) : pipe[i].progress = 100 => Wiped(pipe[i].disk)
      BY DEF IInv, Confirmed, InReports
    <3>2. \A i \in 1 .. Len(pipe') : pipe'[i].progress = 100 => Wiped(pipe'[i].disk)
      BY <1>4, <3>1
    <3>3. QED
      BY <1>1, <3>2 DEF InReports, Wiped
  <2>2. InTask' /\ (progress' = 100 => \A d \in Disks : Wiped(d)')
    BY <1>1, <1>6, <1>9 DEF InTask, Wiped
  <2>3. QED
    BY <2>1, <2>2 DEF Confirmed
<1>13. Rounds'
  <2>1. \A d \in 1 .. turn - 1 : d \in Disks
    BY DisksAreSome DEF IInv, TypeOK
  <2>2. QED
    BY <1>1, <1>8, <2>1 DEF IInv, Rounds, InRound, AtEnd
<1>14. Phases' /\ Stops' /\ Exits'
  BY <1>1 DEF IInv, Phases, Stops, Exits
<1>15. QED
  BY <1>10, <1>11, <1>12, <1>13, <1>14 DEF IInv

-----------------------------------------------------------------------------
\* IInv is inductive.
LEMMA NextKeeps == IInv /\ [Next]_vars => IInv'
<1> SUFFICES ASSUME IInv, [Next]_vars PROVE IInv'
  OBVIOUS
<1>1. ASSUME NEW d \in Disks, Wipe(d) PROVE IInv'
  BY <1>1, TestKeeps, WriteKeeps, WriteRaisesKeeps, CountKeeps DEF Wipe
<1>2. CASE Boot \/ BootFails \/ LaunchRaises \/ Watch \/ Join
  <2>1. /\ UNCHANGED <<launched, listed, wiperVars, reporterVars, taskVars, pipe, exit, signal, told>>
        /\ main \notin {"done", "died"} /\ main' \in {"launch", "watch", "join", "done", "died"}
        /\ main' = "launch" => main = "boot"
        /\ main' \in {"watch", "join", "done"} => main \in {"watch", "join"}
        /\ wiping' \in {wiping, FALSE}
    BY <1>2 DEF Boot, BootFails, LaunchRaises, Watch, Join
  <2>2. wiping' \in BOOLEAN
    <3>1. wiping \in BOOLEAN
      BY DEF IInv, TypeOK
    <3>2. CASE wiping' = wiping
      BY <3>1, <3>2
    <3>3. CASE wiping' = FALSE
      BY <3>3
    <3>4. QED
      BY <2>1, <3>2, <3>3
  <2>3. main \in {"watch", "join"} => reporter # "unborn"
    BY DEF IInv, Phases
  <2>4. main' \in {"watch", "join", "done"} => reporter # "unborn"
    BY <2>1, <2>3
  <2>5. QED
    BY <2>1, <2>2, <2>4, PhaseKeeps
<1>3. CASE Launch \/ List \/ StartReporter \/ Exit
  BY <1>3, LaunchKeeps, ListKeeps, StartReporterKeeps, ExitKeeps
<1>4. CASE Reporting \/ ReportRaises
  BY <1>4, ReadCountKeeps, ReportKeeps, ReportRaisesKeeps DEF Reporting
<1>5. CASE HandleStopSignal \/ SendStop \/ Poll
  BY <1>5, HandleStopSignalKeeps, SendStopKeeps, PollKeeps
<1>6. CASE UNCHANGED vars
  <2> USE <1>6 DEF vars, wiperVars, mainVars, reporterVars, taskVars
  <2>1. TypeOK' /\ Sizes' /\ Zeros' /\ Phases' /\ Stops' /\ Exits'
    BY DEF IInv, TypeOK, Sizes, Zeros, Phases, Stops, Exits
  <2>2. \A x \in Disks : /\ nWritten[x] <= nWritten'[x] /\ nWritten'[x] <= Sectors[x]
                         /\ nWritten'[x] \in Nat /\ (running'[x] => running[x])
    BY DEF IInv, TypeOK
  <2>3. Noted' /\ Confirmed' /\ Rounds'
    BY <2>2, VerdictsStay
  <2>4. QED
    BY <2>1, <2>3 DEF IInv
<1>7. QED
  BY <1>1, <1>2, <1>3, <1>4, <1>5, <1>6 DEF Next, Main

\* IInv holds in every state of every behaviour.
THEOREM Invariance == Spec => []IInv
<1>1. Init => IInv
  BY InitIInv
<1>2. IInv /\ [Next]_vars => IInv'
  BY NextKeeps
<1>3. QED
  BY <1>1, <1>2, PTL DEF Spec

\* The state has its types: no wiper counts beyond the end of its disk, and the
\* reporter has a disk to report about.
THEOREM TypeCorrect == Spec => []TypeOK
<1>1. IInv => TypeOK
  BY DEF IInv
<1>2. QED
  BY <1>1, Invariance, PTL

\* When no write is short: whatever is stopped or fails, disks that are called wiped
\* are zero to the last sector and nobody writes to them; and the reporter leaves no
\* disk without a verdict.
THEOREM Verdicts == ASSUME ~ShortWrites PROVE Spec => []VerdictsAreTrue
<1>1. IInv => SuccessIsTrue
  <2> SUFFICES ASSUME IInv, progress = 100, NEW d \in Disks
               PROVE  zeroed[d] = Sectors[d] /\ ~running[d] /\ nWritten[d] = Sectors[d]
    BY DEF SuccessIsTrue
  <2>1. ~running[d] /\ nWritten[d] = Sectors[d]
    BY DEF IInv, Confirmed, Wiped
  <2>2. wiper[d] # "count" => zeroed[d] = Sectors[d]
    BY <2>1 DEF IInv, Zeros
  <2>3. wiper[d] = "count" => zeroed[d] = Sectors[d]
    <3>1. size[d] \in Nat /\ Sectors[d] \in Nat
      BY DisksAreSome, ChunkAssumption DEF IInv, TypeOK
    <3>2. wiper[d] = "count" => Sectors[d] + size[d] <= Sectors[d] /\ zeroed[d] = Sectors[d] + size[d]
      BY <2>1 DEF IInv, Sizes, Zeros
    <3>3. QED
      BY <3>1, <3>2
  <2>4. QED
    BY <2>1, <2>2, <2>3
<1>2. IInv => EveryDiskJudged
  BY DEF IInv, Rounds, AtEnd, Judged, EveryDiskJudged
<1>3. IInv => VerdictsAreTrue
  BY <1>1, <1>2 DEF VerdictsAreTrue
<1>4. QED
  BY <1>3, Invariance, PTL

\* Whether or not writes are short, no wiper that the signal handler found in the
\* list begins another write.
THEOREM Stopping == Spec => []ListedStop
<1>1. IInv => ListedStop
  BY DEF IInv, Stops, ListedStop
<1>2. QED
  BY <1>1, Invariance, PTL

=============================================================================
