------------------------------ MODULE TabProofs -----------------------------
(***************************************************************************)
(* Proofs about TriageTab, for any components: the table of the triage has *)
(* the list that the server published last.                                *)
(***************************************************************************)
EXTENDS TriageTab, SequenceTheorems, FiniteSetTheorems, TLAPS

\* What the bounds and the sound card are.
LEMMA TriageBounds ==
  /\ MaxEditions \in Nat /\ MaxClicks \in Nat /\ Sound \in Rows
  /\ "Overall" \in Rows /\ Components \subseteq Rows
BY ComponentsAssumption DEF Rows

\* A list that is published has a verdict on each row.
LEMMA ListsHaveRows ==
  ASSUME NEW v \in [Components -> BOOLEAN]
  PROVE  ListOf(v) \in [Rows -> BOOLEAN]
<1>1. ASSUME NEW c \in Rows
      PROVE  (IF c = "Overall" THEN \A d \in Components : v[d] ELSE v[c]) \in BOOLEAN
  BY <1>1 DEF Rows
<1>2. QED
  BY <1>1 DEF ListOf

\* The tab for the triage begins within its types.
LEMMA TriageInitTypes ==
  ASSUME Init
  PROVE  TypeOK
<1>1. MaxEditions \in Nat /\ MaxClicks \in Nat
  BY TriageBounds
<1>2. Nothing \in Lists
  BY <1>1 DEF Nothing, Lists
<1>3. Closed \in CpuState
  BY DEF Closed, CpuState
<1>4. asks \subseteq [id : 1 .. asked, served : BOOLEAN, list : Lists]
  <2>1. [id |-> 1, served |-> FALSE, list |-> Nothing]
          \in [id : 1 .. 1, served : BOOLEAN, list : Lists]
    BY <1>2
  <2>2. QED
    BY <2>1 DEF Init
<1>5. pushed \in Seq(Lists)
  BY DEF Init
<1>6. /\ asked = 1 /\ applied = 0 /\ heard = 0 /\ clicks = 0 /\ opens = 0
      /\ list = Nothing /\ model = Nothing /\ table = <<>> /\ next = <<>>
      /\ benchmark = "none" /\ cpu = Closed
  BY DEF Init
<1>7. playing \in BOOLEAN /\ due \in BOOLEAN /\ crashed \in BOOLEAN /\ played \in BOOLEAN
      /\ spoiled \in BOOLEAN
  BY DEF Init
<1>8. QED
  BY <1>1, <1>2, <1>3, <1>4, <1>5, <1>6, <1>7 DEF TypeOK

\* The CPU rating stays within its type when it is rendered.
LEMMA RenderCpuTypes ==
  ASSUME NEW c \in CpuState, crashed \in BOOLEAN, RenderCpu(c)
  PROVE  cpu' \in CpuState /\ crashed' \in BOOLEAN
<1>1. Closed \in CpuState
  BY DEF Closed, CpuState
<1>2. /\ [c EXCEPT !.dirty = FALSE] \in CpuState
      /\ [c EXCEPT !.dirty = FALSE, !.own = @ + 1] \in CpuState
  <2>1. c.own + 1 \in Nat
    BY DEF CpuState
  <2>2. QED
    BY <2>1 DEF CpuState
<1>3. cpu' \in {Closed, [c EXCEPT !.dirty = FALSE], [c EXCEPT !.dirty = FALSE, !.own = @ + 1]}
  BY DEF RenderCpu
<1>4. cpu' \in CpuState
  BY <1>1, <1>2, <1>3
<1>5. crashed' = TRUE \/ crashed' = crashed
  BY DEF RenderCpu
<1>6. QED
  BY <1>4, <1>5

\* The verdicts that the table may have.
Verdicts == [Rows -> BOOLEAN] \cup {<<>>}

\* Neither an update nor the music leads to other verdicts.
LEMMA PatchedTypes ==
  ASSUME NEW rows \in Verdicts, NEW update \in Verdicts
  PROVE  Patched(rows, update) \in Verdicts
<1>1. CASE rows = <<>>
  <2>1. DOMAIN rows = {}
    BY <1>1
  <2>2. Patched(rows, update) = <<>>
    BY <2>1 DEF Patched
  <2>3. QED
    BY <2>2 DEF Verdicts
<1>2. CASE rows \in [Rows -> BOOLEAN]
  <2>1. DOMAIN update \subseteq Rows /\ \A c \in DOMAIN update : update[c] \in BOOLEAN
    <3>1. CASE update = <<>>
      BY <3>1
    <3>2. CASE update \in [Rows -> BOOLEAN]
      BY <3>2
    <3>3. QED
      BY <3>1, <3>2 DEF Verdicts
  <2>2. \A c \in Rows : (IF c \in DOMAIN update THEN update[c] ELSE rows[c]) \in BOOLEAN
    BY <1>2, <2>1
  <2>3. QED
    BY <1>2, <2>2 DEF Patched, Verdicts
<1>3. QED
  BY <1>1, <1>2 DEF Verdicts

LEMMA MusicPlayedTypes ==
  ASSUME NEW rows \in Verdicts
  PROVE  MusicPlayed(rows) \in Verdicts
<1>1. CASE rows = <<>>
  <2>1. DOMAIN rows = {}
    BY <1>1
  <2>2. MusicPlayed(rows) = <<>>
    BY <2>1 DEF MusicPlayed
  <2>3. QED
    BY <2>2 DEF Verdicts
<1>2. CASE rows \in [Rows -> BOOLEAN]
  <2>1. \A c \in Rows : (IF c = Sound THEN TRUE ELSE rows[c]) \in BOOLEAN
    BY <1>2
  <2>2. QED
    BY <1>2, <2>1 DEF MusicPlayed, Verdicts
<1>3. QED
  BY <1>1, <1>2 DEF Verdicts

\* A new list is published: it is the next edition and on its way to the page.
LEMMA PublishTypes ==
  ASSUME TypeOK, NEW v \in [Components -> BOOLEAN], Publish(v)
  PROVE  /\ list' \in Lists /\ list'.no = list.no + 1 /\ list'.rows \in [Rows -> BOOLEAN]
         /\ pushed' \in Seq(Lists) /\ pushed' = Append(pushed, list')
         /\ model' = model /\ model = list
<1>1. list.no \in 0 .. MaxEditions /\ list.no < MaxEditions /\ MaxEditions \in Nat
  BY TriageBounds DEF TypeOK, Lists, Publish
<1>2. /\ list' = [no |-> list.no + 1, rows |-> ListOf(v)]
      /\ pushed' = Append(pushed, list') /\ model' = model /\ model = list
  BY DEF Publish
<1>3. list' \in Lists /\ list'.no = list.no + 1 /\ list'.rows \in [Rows -> BOOLEAN]
  BY <1>1, <1>2, ListsHaveRows DEF Lists
<1>4. pushed \in Seq(Lists)
  BY DEF TypeOK
<1>5. pushed' \in Seq(Lists)
  BY <1>2, <1>3, <1>4, AppendProperties
<1>6. QED
  BY <1>2, <1>3, <1>5

\* What changes the verdicts publishes a list.
LEMMA ChangesPublish ==
  /\ Improve => \E v \in [Components -> BOOLEAN] : Publish(v)
  /\ \A c \in Components : Worsen(c) => \E v \in [Components -> BOOLEAN] : Publish(v)
<1>1. AllPass \in [Components -> BOOLEAN]
  BY DEF AllPass
<1>2. ASSUME NEW c \in Components
      PROVE  [AllPass EXCEPT ![c] = FALSE] \in [Components -> BOOLEAN]
  BY <1>1
<1>3. QED
  BY <1>1, <1>2 DEF Improve, Worsen

TriageAsk == [id : 1 .. asked, served : BOOLEAN, list : Lists]

\* The rating of the CPU after an answer, or when the accordion is turned.
LEMMA CpuTypes ==
  ASSUME TypeOK, Cpu \/ Expand \/ Collapse
  PROVE  cpu' \in CpuState /\ benchmark' \in {"none", "ready", "bad"}
<1>0. /\ cpu \in CpuState /\ benchmark \in {"none", "ready", "bad"}
      /\ cpu.own \in Nat /\ cpu.strays \in Nat /\ cpu.rating \in BOOLEAN
  BY DEF TypeOK, CpuState
<1>1. \A a \in CpuAnswers :
        /\ a.benchmark \in {"ready", "bad"} /\ a.info \in {"known", "failed", "undefined"}
        /\ Text(a.info) \in {"text", "undefined"} /\ Told(a.info) \in BOOLEAN
  <2>1. \A a \in CpuAnswers :
          a.benchmark \in {"ready", "bad"} /\ a.info \in {"known", "failed", "undefined"}
    BY <1>0 DEF CpuAnswers
  <2>2. ASSUME NEW info \in {"known", "failed", "undefined"}
        PROVE  Text(info) \in {"text", "undefined"} /\ Told(info) \in BOOLEAN
    BY <1>0 DEF Text, Told
  <2>3. QED
    BY <2>1, <2>2
<1>2. CASE ReceiveCpuInfo
  <2>1. PICK a \in CpuAnswers :
          /\ benchmark' = a.benchmark
          /\ cpu' = [cpu EXCEPT !.own = @ - 1, !.info = Text(a.info), !.loading = FALSE,
                                !.dirty = TRUE, !.rating = Told(a.info)]
    BY <1>2 DEF ReceiveCpuInfo
  <2> DEFINE info == Text(a.info)
             told == Told(a.info)
  <2>2. info \in {"text", "undefined"} /\ told \in BOOLEAN /\ cpu.own - 1 \in Nat
    BY <1>0, <1>1, <1>2 DEF ReceiveCpuInfo
  <2> HIDE DEF info, told
  <2>3. [cpu EXCEPT !.own = @ - 1, !.info = info, !.loading = FALSE,
                    !.dirty = TRUE, !.rating = told] \in CpuState
    BY <1>0, <2>2 DEF CpuState
  <2>4. QED
    BY <1>1, <2>1, <2>3 DEF info, told
<1>3. CASE CpuInfoFails
  <2>1. /\ benchmark' = benchmark /\ cpu.own - 1 \in Nat
        /\ cpu' = [cpu EXCEPT !.own = @ - 1, !.info = "text", !.loading = FALSE, !.dirty = TRUE]
    BY <1>0, <1>3 DEF CpuInfoFails
  <2>2. QED
    BY <1>0, <2>1 DEF CpuState
<1>4. CASE ReceiveStray
  <2>1. PICK a \in CpuAnswers :
          /\ benchmark' = a.benchmark
          /\ cpu' = [cpu EXCEPT !.strays = @ - 1, !.rating = Told(a.info),
                                !.dirty = (@ \/ a.info = "known" \/ cpu.rating # Told(a.info))]
    BY <1>4 DEF ReceiveStray
  <2> DEFINE told == Told(a.info)
             dirty == cpu.dirty \/ a.info = "known" \/ cpu.rating # Told(a.info)
  <2>2. told \in BOOLEAN /\ dirty \in BOOLEAN /\ cpu.strays - 1 \in Nat
    <3>1. told \in BOOLEAN
      BY <1>1
    <3>2. dirty \in BOOLEAN
      OBVIOUS
    <3>3. cpu.strays - 1 \in Nat
      BY <1>0, <1>4 DEF ReceiveStray
    <3>4. QED
      BY <3>1, <3>2, <3>3
  <2>3. cpu' = [cpu EXCEPT !.strays = @ - 1, !.rating = told, !.dirty = dirty]
    BY <2>1
  <2> HIDE DEF told, dirty
  <2>4. [cpu EXCEPT !.strays = @ - 1, !.rating = told, !.dirty = dirty] \in CpuState
    BY <1>0, <2>2 DEF CpuState
  <2>5. QED
    BY <1>1, <2>1, <2>3, <2>4
<1>5. CASE Expand
  BY <1>0, <1>5 DEF Expand, CpuState
<1>6. CASE Collapse
  <2>1. /\ benchmark' = benchmark /\ cpu.strays + cpu.own \in Nat
        /\ cpu' = [cpu EXCEPT !.open = FALSE, !.strays = @ + cpu.own, !.own = 0, !.dirty = FALSE]
    BY <1>0, <1>6 DEF Collapse
  <2>2. QED
    BY <1>0, <2>1 DEF CpuState
<1>7. QED
  BY <1>2, <1>3, <1>4, <1>5, <1>6 DEF Cpu

\* A request keeps its type when more were sent.
LEMMA AsksStayTyped ==
  ASSUME TypeOK, asked' = asked + 1
  PROVE  asks \subseteq [id : 1 .. asked', served : BOOLEAN, list : Lists]
<1>1. asked \in Nat /\ 1 .. asked \subseteq 1 .. asked + 1
  BY DEF TypeOK
<1>2. asks \subseteq [id : 1 .. asked, served : BOOLEAN, list : Lists]
  BY DEF TypeOK
<1>3. QED
  BY <1>1, <1>2

\* Every step of the tab for the triage keeps the types.
LEMMA TriageNextTypes ==
  ASSUME TypeOK, [Next]_vars
  PROVE  TypeOK'
<1> USE DEF serverVars, tableVars, askVars, playVars, cpuVars, history
<1>0. /\ MaxEditions \in Nat /\ MaxClicks \in Nat
      /\ asked \in 1 .. 1 + MaxClicks /\ clicks \in 0 .. MaxClicks /\ opens \in 0 .. MaxClicks
      /\ applied \in 0 .. asked /\ heard \in 0 .. MaxEditions
  BY TriageBounds DEF TypeOK
<1>00. /\ list \in Lists /\ model \in Lists /\ pushed \in Seq(Lists)
       /\ table \in Verdicts /\ next \in Verdicts
       /\ \A r \in asks : r \in TriageAsk
       /\ benchmark \in {"none", "ready", "bad"} /\ cpu \in CpuState
  BY DEF TypeOK, Verdicts, TriageAsk
<1>01. playing \in BOOLEAN /\ due \in BOOLEAN /\ crashed \in BOOLEAN /\ played \in BOOLEAN
       /\ spoiled \in BOOLEAN
  BY DEF TypeOK
<1>02. ASSUME NEW v \in [Components -> BOOLEAN], Publish(v), due' \in BOOLEAN,
             UNCHANGED <<table, next, asks, asked, playing, clicks, benchmark, cpu, opens, crashed,
                         applied, heard, played, spoiled>>
       PROVE  TypeOK'
  <2>1. list' \in Lists /\ pushed' \in Seq(Lists) /\ model' = model
    BY <1>02, PublishTypes
  <2>2. QED
    BY <1>02, <2>1 DEF TypeOK
<1>1. CASE InitialTriage
  BY <1>01, <1>02, <1>1 DEF InitialTriage
<1>2. CASE StoreModel
  BY <1>2 DEF StoreModel, TypeOK
<1>3. CASE DetectChange
  BY <1>01, <1>02, <1>3, ChangesPublish DEF DetectChange
<1>4. CASE ServeMusic
  <2>1. CASE Improve
    BY <1>02, <1>4, <2>1, ChangesPublish DEF ServeMusic
  <2>2. CASE UNCHANGED <<list, model, pushed>>
    BY <1>4, <2>2 DEF ServeMusic, TypeOK
  <2>3. QED
    BY <1>4, <2>1, <2>2 DEF ServeMusic
<1>5. CASE Disconnect
  <2>1. pushed' \in Seq(Lists) /\ spoiled' \in BOOLEAN
    BY <1>5 DEF Disconnect
  <2>2. heard' = pushed[Len(pushed)].no /\ pushed # <<>>
    BY <1>5 DEF Disconnect
  <2>3. heard' \in 0 .. MaxEditions
    <3>1. Len(pushed) \in 1 .. Len(pushed)
      BY <1>00, <2>2, EmptySeq
    <3>2. pushed[Len(pushed)] \in Lists
      BY <1>00, <3>1, ElementOfSeq
    <3>3. QED
      BY <2>2, <3>2 DEF Lists
  <2>4. QED
    BY <1>5, <2>1, <2>3 DEF Disconnect, TypeOK
<1>6. ASSUME NEW r \in asks, Serve(r) PROVE TypeOK'
  <2>1. [r EXCEPT !.served = TRUE, !.list = model] \in TriageAsk
    BY <1>00 DEF TriageAsk
  <2>2. asks' \subseteq TriageAsk
    BY <1>00, <1>6, <2>1 DEF Serve
  <2>3. QED
    BY <1>6, <2>2 DEF Serve, TypeOK, TriageAsk
<1>7. CASE Refresh
  <2>1. asked <= MaxClicks /\ asked' = asked + 1
    BY <1>0, <1>7 DEF Refresh, MayClick
  <2>2. asked' \in 1 .. 1 + MaxClicks /\ applied \in 0 .. asked'
    BY <1>0, <2>1
  <2>3. asks' \subseteq [id : 1 .. asked', served : BOOLEAN, list : Lists]
    <3>1. Nothing \in Lists
      BY <1>0 DEF Nothing, Lists
    <3>2. [id |-> asked', served |-> FALSE, list |-> Nothing]
            \in [id : 1 .. asked', served : BOOLEAN, list : Lists]
      BY <2>1, <1>0, <3>1
    <3>3. asks' = asks \cup {[id |-> asked', served |-> FALSE, list |-> Nothing]}
      BY <1>7 DEF Refresh
    <3>4. asks \subseteq [id : 1 .. asked', served : BOOLEAN, list : Lists]
      BY <2>1, AsksStayTyped
    <3>5. QED
      BY <3>2, <3>3, <3>4
  <2>4. cpu' \in CpuState /\ crashed' \in BOOLEAN
    BY <1>00, <1>01, <1>7, RenderCpuTypes DEF Refresh
  <2>5. /\ table' = <<>> /\ next' = <<>>
        /\ UNCHANGED <<list, model, pushed, playing, due, clicks, benchmark, opens, applied, heard,
                       played, spoiled>>
    BY <1>7 DEF Refresh
  <2>6. QED
    BY <2>2, <2>3, <2>4, <2>5 DEF TypeOK
<1>8. CASE TogglePlay
  <2>1. clicks' \in 0 .. MaxClicks
    BY <1>0, <1>8 DEF TogglePlay, Click, MayClick
  <2>2. table' \in Verdicts /\ next' \in Verdicts
    BY <1>00, <1>8, MusicPlayedTypes DEF TogglePlay
  <2>3. cpu' \in CpuState /\ crashed' \in BOOLEAN
    BY <1>00, <1>01, <1>8, RenderCpuTypes DEF TogglePlay
  <2>4. playing' \in BOOLEAN /\ due' \in BOOLEAN /\ played' \in BOOLEAN /\ spoiled' \in BOOLEAN
    BY <1>8 DEF TogglePlay
  <2>5. UNCHANGED <<list, model, pushed, asks, asked, benchmark, opens, applied, heard>>
    BY <1>8 DEF TogglePlay
  <2>6. QED
    BY <2>1, <2>2, <2>3, <2>4, <2>5 DEF TypeOK, Verdicts
<1>9. CASE SetFontSize
  <2>1. clicks' \in 0 .. MaxClicks
    BY <1>0, <1>9 DEF SetFontSize, Click, MayClick
  <2>2. cpu' \in CpuState /\ crashed' \in BOOLEAN
    BY <1>00, <1>01, <1>9, RenderCpuTypes DEF SetFontSize
  <2>3. QED
    BY <1>9, <2>1, <2>2 DEF SetFontSize, TypeOK
<1>10. CASE Cpu \/ Expand \/ Collapse
  <2>1. cpu' \in CpuState /\ benchmark' \in {"none", "ready", "bad"}
    BY <1>10, CpuTypes
  <2>2. /\ UNCHANGED <<list, model, pushed, table, next, asks, asked, playing, due, clicks, crashed,
                       applied, heard, played, spoiled>>
        /\ opens' \in 0 .. MaxClicks
    <3>1. CASE Cpu
      BY <1>0, <3>1 DEF Cpu, ReceiveCpuInfo, CpuInfoFails, ReceiveStray
    <3>2. CASE Expand
      BY <1>0, <3>2 DEF Expand, MayClick
    <3>3. CASE Collapse
      BY <1>0, <3>3 DEF Collapse
    <3>4. QED
      BY <1>10, <3>1, <3>2, <3>3
  <2>3. QED
    BY <2>1, <2>2 DEF TypeOK
<1>11. CASE OnTriageUpdate
  <2>1. /\ pushed # <<>> /\ pushed' = Tail(pushed) /\ heard' = Head(pushed).no
        /\ next' = Patched(table, Head(pushed).rows) /\ spoiled' \in BOOLEAN
    BY <1>11 DEF OnTriageUpdate
  <2>2. pushed' \in Seq(Lists) /\ Head(pushed) \in Lists
    BY <1>00, <2>1
  <2>3. heard' \in 0 .. MaxEditions /\ Head(pushed).rows \in Verdicts
    BY <2>1, <2>2 DEF Lists, Verdicts
  <2>4. next' \in Verdicts
    BY <1>00, <2>1, <2>3, PatchedTypes
  <2>5. UNCHANGED <<list, model, table, asks, asked, playing, due, clicks, benchmark, cpu, opens,
                    crashed, applied, played>>
    BY <1>11 DEF OnTriageUpdate
  <2>6. QED
    BY <2>1, <2>2, <2>3, <2>4, <2>5 DEF TypeOK, Verdicts
<1>12. ASSUME NEW r \in asks, Receive(r) PROVE TypeOK'
  <2>1. /\ asks' = asks \ {r} /\ next' = r.list.rows
        /\ applied' \in {applied, r.id} /\ spoiled' \in BOOLEAN /\ played' \in BOOLEAN
        /\ UNCHANGED <<list, model, pushed, table, asked, playing, due, clicks, benchmark, cpu,
                       opens, crashed, heard>>
    BY <1>12 DEF Receive
  <2>2. r.id \in 1 .. asked /\ r.list.rows \in Verdicts
    BY <1>00 DEF TriageAsk, Lists, Verdicts
  <2>3. applied' \in 0 .. asked
    BY <1>0, <2>1, <2>2
  <2>4. QED
    BY <2>1, <2>2, <2>3 DEF TypeOK, Verdicts
<1>13. ASSUME NEW r \in asks, AskFails(r) PROVE TypeOK'
  <2>1. asks' \subseteq asks /\ spoiled' \in BOOLEAN
    BY <1>13 DEF AskFails
  <2>2. QED
    BY <1>13, <2>1 DEF AskFails, TypeOK
<1>14. CASE Render
  <2>1. cpu' \in CpuState /\ crashed' \in BOOLEAN
    BY <1>00, <1>01, <1>14, RenderCpuTypes DEF Render
  <2>2. QED
    BY <1>14, <2>1 DEF Render, TypeOK
<1>15. CASE UNCHANGED vars
  BY <1>15 DEF vars, TypeOK
<1>16. QED
  BY <1>1, <1>2, <1>3, <1>4, <1>5, <1>6, <1>7, <1>8, <1>9, <1>10, <1>11, <1>12, <1>13, <1>14, <1>15
     DEF Next, Server, User, Page

\* The state of the tab for the triage has its types for any components, however
\* answers, updates and clicks interleave: no row but of a component is shown, and
\* no request of CpuInfo is answered that was not sent.
THEOREM TriageTypeCorrect == Spec => []TypeOK
<1>1. Init => TypeOK
  BY TriageInitTypes
<1>2. TypeOK /\ [Next]_vars => TypeOK'
  BY TriageNextTypes
<1>3. QED
  BY <1>1, <1>2, PTL DEF Spec

\* A list that the server published: it is the last one, or an earlier one.
OfServer(l, last) == l.no <= last.no /\ (l.no = last.no => l = last)

\* Whatever is stored or on its way was published.
Editions ==
  /\ list.no = 0 => list = Nothing
  /\ list.no # 0 => list.rows \in [Rows -> BOOLEAN]
  /\ OfServer(model, list) /\ heard <= list.no
  /\ \A r \in asks : r.served => OfServer(r.list, list)
  /\ \A k \in 1 .. Len(pushed) : OfServer(pushed[k], list) /\ pushed[k].no # 0

\* The page was told of the last list or missed it, or is about to be told.
WillHear == IF pushed = <<>> THEN heard = list.no ELSE pushed[Len(pushed)] = list

\* The last answer has arrived, or is on its way.
WillAnswer == spoiled \/ applied = asked \/ \E r \in asks : r.id = asked

\* The rows of the server, the one of the sound perhaps ahead.
RowsOfServer ==
  /\ DOMAIN next = DOMAIN list.rows
  /\ \A c \in DOMAIN next : next[c] = list.rows[c] \/ (c = Sound /\ played /\ next[c])

\* With the last answer and the last update, the table has these rows.
HasCaughtUp == ~ spoiled /\ applied = asked /\ heard = list.no => RowsOfServer

TableInv == TypeOK /\ Editions /\ WillHear /\ WillAnswer /\ HasCaughtUp

\* A new list: it is on its way to the page, and nothing else changes there.
NewList ==
  /\ list'.no = list.no + 1 /\ list'.rows \in [Rows -> BOOLEAN]
  /\ pushed' = Append(pushed, list') /\ model' = model /\ model = list
  /\ UNCHANGED <<next, asks, asked, applied, heard, played, spoiled>>

\* Steps that do not matter to the list: what is published may become the model.
Still ==
  /\ model' \in {model, list}
  /\ UNCHANGED <<list, pushed, next, asks, asked, applied, heard, played, spoiled>>

\* The steps, by what they do about the list.
LEMMA StepsOfTriage ==
  ASSUME TypeOK, [Next]_vars
  PROVE  \/ NewList \/ Still
         \/ Disconnect \/ Refresh \/ TogglePlay \/ OnTriageUpdate
         \/ \E r \in asks : Serve(r) \/ Receive(r) \/ AskFails(r)
<1> USE DEF serverVars, tableVars, askVars, playVars, cpuVars, history
<1>1. ASSUME NEW v \in [Components -> BOOLEAN], Publish(v),
             UNCHANGED <<next, asks, asked, applied, heard, played, spoiled>>
      PROVE  NewList
  <2>1. /\ list'.no = list.no + 1 /\ list'.rows \in [Rows -> BOOLEAN]
        /\ pushed' = Append(pushed, list') /\ model' = model /\ model = list
    BY <1>1, PublishTypes
  <2>2. QED
    BY <1>1, <2>1 DEF NewList
<1>2. ASSUME Improve \/ \E c \in Components : Worsen(c),
             UNCHANGED <<next, asks, asked, applied, heard, played, spoiled>>
      PROVE  NewList
  BY <1>1, <1>2, ChangesPublish
<1>3. CASE InitialTriage
  BY <1>1, <1>3 DEF InitialTriage
<1>4. CASE DetectChange
  BY <1>2, <1>4 DEF DetectChange
<1>5. CASE ServeMusic
  <2>1. CASE Improve
    BY <1>2, <1>5, <2>1 DEF ServeMusic
  <2>2. CASE UNCHANGED <<list, model, pushed>>
    BY <1>5, <2>2 DEF ServeMusic, Still
  <2>3. QED
    BY <1>5, <2>1, <2>2 DEF ServeMusic
<1>6. CASE StoreModel
  BY <1>6 DEF StoreModel, Still
<1>7. CASE SetFontSize \/ Render
  BY <1>7 DEF SetFontSize, Render, Still
<1>8. CASE Cpu
  BY <1>8 DEF Cpu, ReceiveCpuInfo, CpuInfoFails, ReceiveStray, Still
<1>9. CASE Expand \/ Collapse
  BY <1>9 DEF Expand, Collapse, Still
<1>10. CASE UNCHANGED vars
  BY <1>10 DEF vars, Still
<1>11. QED
  BY <1>3, <1>4, <1>5, <1>6, <1>7, <1>8, <1>9, <1>10
     DEF Next, Server, User, Page

\* What is on its way after an update was taken.
LEMMA UpdateTaken ==
  ASSUME pushed \in Seq(Lists), OnTriageUpdate
  PROVE  /\ pushed # <<>> /\ Len(pushed) \in Nat \ {0} /\ Head(pushed) = pushed[1]
         /\ pushed' \in Seq(Lists) /\ Len(pushed') = Len(pushed) - 1
         /\ \A k \in 1 .. Len(pushed') : pushed'[k] = pushed[k + 1]
<1>1. pushed # <<>> /\ pushed' = Tail(pushed)
  BY DEF OnTriageUpdate
<1>2. QED
  BY <1>1, HeadTailProperties

\* An edition counts the lists, and only counts up.
LEMMA NumbersOfLists ==
  ASSUME TypeOK
  PROVE  /\ list.no \in Nat /\ model.no \in Nat /\ heard \in Nat
         /\ \A r \in asks : r.list.no \in Nat
         /\ Len(pushed) \in Nat /\ \A k \in 1 .. Len(pushed) : pushed[k].no \in Nat
<1>1. list \in Lists /\ model \in Lists /\ pushed \in Seq(Lists)
      /\ heard \in 0 .. MaxEditions
      /\ asks \subseteq [id : 1 .. asked, served : BOOLEAN, list : Lists]
  BY DEF TypeOK
<1>2. \A l \in Lists : l.no \in Nat
  BY DEF Lists
<1>3. QED
  BY <1>1, <1>2

\* Every step keeps that what is stored or on its way was published.
LEMMA EditionsNext ==
  ASSUME TypeOK, Editions, [Next]_vars
  PROVE  Editions'
<1> USE DEF serverVars, tableVars, askVars, playVars, cpuVars, history
<1>0. /\ list.no = 0 => list = Nothing
      /\ list.no # 0 => list.rows \in [Rows -> BOOLEAN]
      /\ OfServer(model, list) /\ heard <= list.no
      /\ \A r \in asks : r.served => OfServer(r.list, list)
      /\ \A k \in 1 .. Len(pushed) : OfServer(pushed[k], list) /\ pushed[k].no # 0
  BY DEF Editions
<1>t. pushed \in Seq(Lists)
  BY DEF TypeOK
<1>s. /\ list.no \in Nat /\ model.no \in Nat /\ heard \in Nat
      /\ \A r \in asks : r.list.no \in Nat
      /\ Len(pushed) \in Nat /\ \A k \in 1 .. Len(pushed) : pushed[k].no \in Nat
  BY NumbersOfLists
<1>1. CASE NewList
  <2>1. /\ list'.no = list.no + 1 /\ list'.rows \in [Rows -> BOOLEAN]
        /\ model' = model /\ asks' = asks /\ heard' = heard
    BY <1>1 DEF NewList
  <2>2. \A l : l.no \in Nat /\ OfServer(l, list) => OfServer(l, list')
    BY <1>s, <2>1 DEF OfServer
  <2>3. \A k \in 1 .. Len(pushed') : OfServer(pushed'[k], list') /\ pushed'[k].no # 0
    <3>1. /\ Len(pushed') = Len(pushed) + 1 /\ pushed'[Len(pushed) + 1] = list'
          /\ \A k \in 1 .. Len(pushed) : pushed'[k] = pushed[k]
      BY <1>1, <1>t DEF NewList
    <3>2. TAKE k \in 1 .. Len(pushed')
    <3>3. CASE k = Len(pushed) + 1
      <4>1. pushed'[k] = list' /\ list'.no # 0
        BY <1>s, <2>1, <3>1, <3>3
      <4>2. OfServer(list', list')
        BY <1>s, <2>1 DEF OfServer
      <4>3. QED
        BY <4>1, <4>2 DEF OfServer
    <3>4. CASE k \in 1 .. Len(pushed)
      <4>1. /\ pushed'[k] = pushed[k] /\ pushed[k].no \in Nat /\ pushed[k].no # 0
            /\ OfServer(pushed[k], list)
        BY <1>0, <1>s, <3>1, <3>4
      <4>2. QED
        BY <1>s, <2>1, <4>1 DEF OfServer
    <3>5. QED
      BY <1>s, <3>1, <3>3, <3>4
  <2>4. OfServer(model', list') /\ \A r \in asks' : r.served => OfServer(r.list, list')
    BY <1>0, <1>s, <2>1 DEF OfServer
  <2>5. heard' <= list'.no /\ list'.no # 0
    BY <1>0, <1>s, <2>1
  <2>6. QED
    BY <2>1, <2>3, <2>4, <2>5 DEF Editions, OfServer
<1>2. ASSUME UNCHANGED list, OfServer(model', list), heard' <= list.no,
             \A r \in asks' : r.served => OfServer(r.list, list),
             \A k \in 1 .. Len(pushed') : OfServer(pushed'[k], list) /\ pushed'[k].no # 0
      PROVE  Editions'
  BY <1>0, <1>2 DEF Editions, OfServer
<1>3. OfServer(list, list)
  BY <1>s DEF OfServer
<1>4. CASE Still
  BY <1>0, <1>2, <1>3, <1>4 DEF Still
<1>5. CASE Disconnect
  <2>1. UNCHANGED <<list, model, asks>> /\ Len(pushed') = 0 /\ heard' = pushed[Len(pushed)].no
    BY <1>5 DEF Disconnect
  <2>2. Len(pushed) \in 1 .. Len(pushed)
    BY <1>t, <1>5, EmptySeq DEF Disconnect
  <2>3. heard' <= list.no
    BY <1>0, <2>1, <2>2 DEF OfServer
  <2>4. QED
    BY <1>0, <1>2, <2>1, <2>3
<1>6. CASE Refresh
  <2>1. /\ UNCHANGED <<list, model, pushed, heard>>
        /\ asks' = asks \cup {[id |-> asked', served |-> FALSE, list |-> Nothing]}
    BY <1>6 DEF Refresh
  <2>2. \A r \in asks' : r \in asks \/ ~ r.served
    BY <2>1
  <2>3. QED
    BY <1>0, <1>2, <2>1, <2>2
<1>7. CASE TogglePlay
  BY <1>0, <1>2, <1>7 DEF TogglePlay
<1>8. CASE OnTriageUpdate
  <2>1. UNCHANGED <<list, model, asks>> /\ heard' = Head(pushed).no
    BY <1>8 DEF OnTriageUpdate
  <2>2. /\ Len(pushed) \in Nat \ {0} /\ Head(pushed) = pushed[1] /\ Len(pushed') = Len(pushed) - 1
        /\ \A k \in 1 .. Len(pushed') : pushed'[k] = pushed[k + 1]
    BY <1>t, <1>8, UpdateTaken
  <2>3. OfServer(Head(pushed), list)
    BY <1>0, <2>2
  <2>4. \A k \in 1 .. Len(pushed') : OfServer(pushed'[k], list) /\ pushed'[k].no # 0
    <3>1. TAKE k \in 1 .. Len(pushed')
    <3>2. k + 1 \in 1 .. Len(pushed) /\ pushed'[k] = pushed[k + 1]
      BY <2>2
    <3>3. QED
      BY <1>0, <3>2
  <2>5. QED
    BY <1>0, <1>2, <2>1, <2>3, <2>4 DEF OfServer
<1>9. ASSUME NEW r \in asks, Serve(r) PROVE Editions'
  <2>1. /\ UNCHANGED <<list, model, pushed, heard>>
        /\ asks' = (asks \ {r}) \cup {[r EXCEPT !.served = TRUE, !.list = model]}
    BY <1>9 DEF Serve
  <2>2. [r EXCEPT !.served = TRUE, !.list = model].list = model
    BY DEF TypeOK
  <2>3. \A q \in asks' : q \in asks \/ q.list = model
    BY <2>1, <2>2
  <2>4. QED
    BY <1>0, <1>2, <2>1, <2>3
<1>10. ASSUME NEW r \in asks, Receive(r) \/ AskFails(r) PROVE Editions'
  <2>1. UNCHANGED <<list, model, pushed, heard>> /\ asks' \subseteq asks
    BY <1>10 DEF Receive, AskFails
  <2>2. QED
    BY <1>0, <1>2, <2>1
<1>11. QED
  BY StepsOfTriage, <1>1, <1>4, <1>5, <1>6, <1>7, <1>8, <1>9, <1>10

\* No step takes or loses an update without its being known.
LEMMA WillHearNext ==
  ASSUME TypeOK, WillHear, [Next]_vars
  PROVE  WillHear'
<1> USE DEF serverVars, tableVars, askVars, playVars, cpuVars, history
<1>t. pushed \in Seq(Lists)
  BY DEF TypeOK
<1>1. CASE NewList
  <2>1. pushed' = Append(pushed, list')
    BY <1>1 DEF NewList
  <2>2. /\ pushed' # <<>> /\ Len(pushed') = Len(pushed) + 1
        /\ pushed'[Len(pushed) + 1] = list'
    BY <1>t, <2>1
  <2>3. QED
    BY <2>2 DEF WillHear
<1>2. ASSUME UNCHANGED <<list, pushed, heard>> PROVE WillHear'
  BY <1>2 DEF WillHear
<1>3. CASE Still
  BY <1>2, <1>3 DEF Still
<1>4. CASE Disconnect
  <2>1. UNCHANGED list /\ pushed' = <<>> /\ heard' = pushed[Len(pushed)].no /\ pushed # <<>>
    BY <1>4 DEF Disconnect
  <2>2. QED
    BY <2>1 DEF WillHear
<1>5. CASE Refresh
  BY <1>2, <1>5 DEF Refresh
<1>6. CASE TogglePlay
  BY <1>2, <1>6 DEF TogglePlay
<1>7. CASE OnTriageUpdate
  <2>1. UNCHANGED list /\ heard' = Head(pushed).no
    BY <1>7 DEF OnTriageUpdate
  <2>2. /\ pushed # <<>> /\ Len(pushed) \in Nat \ {0} /\ Head(pushed) = pushed[1]
        /\ pushed' \in Seq(Lists) /\ Len(pushed') = Len(pushed) - 1
        /\ \A k \in 1 .. Len(pushed') : pushed'[k] = pushed[k + 1]
    BY <1>t, <1>7, UpdateTaken
  <2>3. SUFFICES IF pushed' = <<>> THEN heard' = list'.no ELSE pushed'[Len(pushed')] = list'
    BY DEF WillHear
  <2>4. pushed[Len(pushed)] = list
    BY <2>1, <2>2 DEF WillHear
  <2>5. CASE pushed' = <<>>
    <3>1. Len(pushed) = 1
      BY <2>2, <2>5
    <3>2. QED
      BY <2>1, <2>2, <2>4, <2>5, <3>1
  <2>6. CASE pushed' # <<>>
    <3>1. Len(pushed') \in 1 .. Len(pushed') /\ Len(pushed') + 1 = Len(pushed)
      BY <2>2, <2>6, EmptySeq
    <3>2. QED
      BY <2>1, <2>2, <2>4, <2>6, <3>1
  <2>7. QED
    BY <2>5, <2>6
<1>8. ASSUME NEW r \in asks, Serve(r) \/ Receive(r) \/ AskFails(r) PROVE WillHear'
  BY <1>2, <1>8 DEF Serve, Receive, AskFails
<1>9. QED
  BY StepsOfTriage, <1>1, <1>3, <1>4, <1>5, <1>6, <1>7, <1>8

\* No step loses the last answer without being known for it.
LEMMA WillAnswerNext ==
  ASSUME TypeOK, WillAnswer, [Next]_vars
  PROVE  WillAnswer'
<1> USE DEF serverVars, tableVars, askVars, playVars, cpuVars, history
<1>1. ASSUME UNCHANGED <<asks, asked, applied>>, spoiled => spoiled' PROVE WillAnswer'
  BY <1>1 DEF WillAnswer
<1>2. CASE NewList \/ Still
  BY <1>1, <1>2 DEF NewList, Still
<1>3. CASE Disconnect \/ TogglePlay \/ OnTriageUpdate
  BY <1>1, <1>3 DEF Disconnect, TogglePlay, OnTriageUpdate
<1>4. CASE Refresh
  <2>1. [id |-> asked', served |-> FALSE, list |-> Nothing] \in asks'
    BY <1>4 DEF Refresh
  <2>2. QED
    BY <2>1 DEF WillAnswer
<1>5. ASSUME NEW r \in asks, Serve(r) PROVE WillAnswer'
  <2>1. [r EXCEPT !.served = TRUE, !.list = model].id = r.id
    BY DEF TypeOK
  <2>2. /\ UNCHANGED <<asked, applied, spoiled>>
        /\ asks' = (asks \ {r}) \cup {[r EXCEPT !.served = TRUE, !.list = model]}
    BY <1>5 DEF Serve
  <2>3. \A q \in asks : \E p \in asks' : p.id = q.id
    BY <2>1, <2>2
  <2>4. QED
    BY <2>2, <2>3 DEF WillAnswer
<1>6. ASSUME NEW r \in asks, Receive(r) PROVE WillAnswer'
  <2>1. /\ asks' = asks \ {r} /\ asked' = asked
        /\ spoiled' <=> (spoiled /\ r.id # asked) \/ Overtaken(r)
        /\ applied' = IF r.id < applied THEN applied ELSE r.id
    BY <1>6 DEF Receive, Repaired
  <2>2. spoiled' \/ applied' = r.id
    BY <2>1 DEF Overtaken
  <2>3. applied \in 0 .. asked /\ r.id \in 1 .. asked /\ asked \in Nat
    BY DEF TypeOK
  <2>4. CASE r.id = asked
    BY <2>1, <2>2, <2>4 DEF WillAnswer
  <2>5. CASE r.id # asked
    <3>1. CASE applied = asked
      <4>1. applied' = asked'
        BY <2>1, <2>3, <2>5, <3>1
      <4>2. QED
        BY <4>1 DEF WillAnswer
    <3>2. CASE \E q \in asks : q.id = asked
      BY <2>1, <2>5, <3>2 DEF WillAnswer
    <3>3. QED
      BY <2>1, <3>1, <3>2 DEF WillAnswer
  <2>6. QED
    BY <2>4, <2>5
<1>7. ASSUME NEW r \in asks, AskFails(r) PROVE WillAnswer'
  BY <1>7 DEF AskFails, WillAnswer
<1>8. QED
  BY StepsOfTriage, <1>2, <1>3, <1>4, <1>5, <1>6, <1>7

\* Nor does a step change the rows of the page, once they have caught up, to others.
LEMMA HasCaughtUpNext ==
  ASSUME TableInv, [Next]_vars
  PROVE  HasCaughtUp'
<1> USE DEF serverVars, tableVars, askVars, playVars, cpuVars, history
<1>0. /\ TypeOK /\ Editions
      /\ applied \in 0 .. asked /\ asked \in Nat /\ heard \in Nat /\ list.no \in Nat
  BY NumbersOfLists DEF TableInv, TypeOK
<1>h. ~ spoiled /\ applied = asked /\ heard = list.no => RowsOfServer
  BY DEF TableInv, HasCaughtUp
<1>1. ASSUME UNCHANGED <<list, next, asked, applied, heard, played>>, spoiled => spoiled'
      PROVE  HasCaughtUp'
  BY <1>h, <1>1 DEF HasCaughtUp, RowsOfServer
<1>2. CASE NewList
  <2>1. heard' = heard /\ list'.no = list.no + 1 /\ heard <= list.no
    BY <1>0, <1>2 DEF NewList, Editions
  <2>2. QED
    BY <1>0, <2>1 DEF HasCaughtUp
<1>3. CASE Still
  BY <1>1, <1>3 DEF Still
<1>4. CASE Disconnect
  BY <1>4 DEF Disconnect, HasCaughtUp
<1>5. CASE Refresh
  <2>1. asked' = asked + 1 /\ applied' = applied
    BY <1>5 DEF Refresh
  <2>2. QED
    BY <1>0, <2>1 DEF HasCaughtUp
<1>6. CASE TogglePlay
  <2>1. /\ next' = MusicPlayed(table) /\ played' = TRUE
        /\ UNCHANGED <<list, asked, applied, heard>> /\ (spoiled' <=> spoiled \/ table # next)
    BY <1>6 DEF TogglePlay
  <2>2. SUFFICES ASSUME ~ spoiled', applied' = asked', heard' = list'.no
                 PROVE  RowsOfServer'
    BY DEF HasCaughtUp
  <2>3. table = next /\ RowsOfServer
    BY <1>h, <2>1, <2>2
  <2>4. /\ DOMAIN next' = DOMAIN next
        /\ \A c \in DOMAIN next : next'[c] = IF c = Sound THEN TRUE ELSE next[c]
    BY <2>1, <2>3 DEF MusicPlayed
  <2>5. ASSUME NEW c \in DOMAIN next
        PROVE  next'[c] = list.rows[c] \/ (c = Sound /\ next'[c])
    BY <2>3, <2>4 DEF RowsOfServer
  <2>6. QED
    BY <2>1, <2>3, <2>4, <2>5 DEF RowsOfServer
<1>7. CASE OnTriageUpdate
  <2>1. /\ next' = Patched(table, Head(pushed).rows) /\ heard' = Head(pushed).no
        /\ UNCHANGED <<list, asked, applied, played>>
        /\ (spoiled' <=> spoiled \/ ~ DOMAIN Head(pushed).rows \subseteq DOMAIN table)
    BY <1>7 DEF OnTriageUpdate
  <2>2. SUFFICES ASSUME ~ spoiled', heard' = list'.no
                 PROVE  RowsOfServer'
    BY DEF HasCaughtUp
  <2>3. pushed \in Seq(Lists) /\ table \in Verdicts
    BY <1>0 DEF TypeOK, Verdicts
  <2>4. Len(pushed) \in Nat \ {0} /\ Head(pushed) = pushed[1]
    BY <1>7, <2>3, UpdateTaken
  <2>5. OfServer(Head(pushed), list) /\ Head(pushed).no # 0
    BY <1>0, <2>4 DEF Editions
  <2>6. Head(pushed) = list /\ list.no # 0
    BY <2>1, <2>2, <2>5 DEF OfServer
  <2>7. list.rows \in [Rows -> BOOLEAN] /\ Rows \subseteq DOMAIN table
    BY <1>0, <2>1, <2>2, <2>6 DEF Editions
  <2>8. DOMAIN table = Rows
    <3>1. "Overall" \in DOMAIN table
      BY <2>7, TriageBounds
    <3>2. table # <<>>
      BY <3>1
    <3>3. QED
      BY <2>3, <3>2 DEF Verdicts
  <2>9. next' = [c \in Rows |-> list.rows[c]]
    BY <2>1, <2>6, <2>7, <2>8 DEF Patched
  <2>10. QED
    BY <2>1, <2>7, <2>9 DEF RowsOfServer
<1>8. ASSUME NEW r \in asks, Serve(r) PROVE HasCaughtUp'
  BY <1>1, <1>8 DEF Serve
<1>9. ASSUME NEW r \in asks, Receive(r) PROVE HasCaughtUp'
  <2>1. /\ next' = r.list.rows /\ r.served
        /\ UNCHANGED <<list, heard>> /\ (Overtaken(r) => spoiled')
    BY <1>9 DEF Receive
  <2>2. SUFFICES ASSUME ~ spoiled', heard' = list'.no
                 PROVE  RowsOfServer'
    BY DEF HasCaughtUp
  <2>3. OfServer(r.list, list) /\ r.list.no \in Nat
    BY <1>0, <2>1, NumbersOfLists DEF Editions
  <2>4. ~ r.list.no < list.no
    BY <2>1, <2>2 DEF Overtaken
  <2>5. r.list = list
    BY <1>0, <2>3, <2>4 DEF OfServer
  <2>6. QED
    BY <2>1, <2>5 DEF RowsOfServer
<1>10. ASSUME NEW r \in asks, AskFails(r) PROVE HasCaughtUp'
  BY <1>10 DEF AskFails, HasCaughtUp
<1>11. QED
  BY <1>0, StepsOfTriage, <1>2, <1>3, <1>4, <1>5, <1>6, <1>7, <1>8, <1>9, <1>10

\* What TableInv means when nothing is on its way.
LEMMA QuietTable ==
  ASSUME TableInv
  PROVE  TableCatchesUp
<1>1. SUFFICES ASSUME Quiet, ~ spoiled PROVE RowsOfServer
  BY DEF TableCatchesUp, RowsOfServer
<1>2. asks = {} /\ pushed = <<>>
  BY <1>1 DEF Quiet
<1>3. heard = list.no
  BY <1>1, <1>2 DEF TableInv, WillHear
<1>4. applied = asked
  BY <1>1, <1>2 DEF TableInv, WillAnswer
<1>5. QED
  BY <1>1, <1>3, <1>4 DEF TableInv, HasCaughtUp

\* When nothing is on its way and nothing went wrong on it, the table of the
\* triage shows the list that the server published last (Triage.tsx:139-147
\* and 204-219), whatever the components and the order of answers and updates.
THEOREM VerdictsShown == Spec => []TableCatchesUp
<1>1. Init => TableInv
  <2>1. SUFFICES ASSUME Init PROVE TableInv
    OBVIOUS
  <2>2. TypeOK
    BY <2>1, TriageInitTypes
  <2>3. /\ list = Nothing /\ model = Nothing /\ pushed = <<>> /\ heard = 0 /\ applied = 0
        /\ asks = {[id |-> 1, served |-> FALSE, list |-> Nothing]} /\ asked = 1
        /\ Nothing.no = 0
    BY <2>1 DEF Init, Nothing
  <2>4. Editions
    BY <2>3 DEF Editions, OfServer
  <2>5. WillHear /\ WillAnswer /\ HasCaughtUp
    BY <2>3 DEF WillHear, WillAnswer, HasCaughtUp
  <2>6. QED
    BY <2>2, <2>4, <2>5 DEF TableInv
<1>2. TableInv /\ [Next]_vars => TableInv'
  <2>1. SUFFICES ASSUME TableInv, [Next]_vars PROVE TableInv'
    OBVIOUS
  <2>2. TypeOK /\ Editions /\ WillHear /\ WillAnswer
    BY <2>1 DEF TableInv
  <2>3. TypeOK'
    BY <2>1, <2>2, TriageNextTypes
  <2>4. Editions'
    BY <2>1, <2>2, EditionsNext
  <2>5. WillHear' /\ WillAnswer'
    BY <2>1, <2>2, WillHearNext, WillAnswerNext
  <2>6. HasCaughtUp'
    BY <2>1, HasCaughtUpNext
  <2>7. QED
    BY <2>3, <2>4, <2>5, <2>6 DEF TableInv
<1>3. QED
  BY <1>1, <1>2, QuietTable, PTL DEF Spec

=============================================================================
