----------------------------- MODULE TriageTab ------------------------------
(***************************************************************************)
(* src/fend/src/components/commands/triage: the tab with the verdicts on   *)
(* the components of the computer, its button for a test of the sound, and *)
(* the CPU rating below an accordion; with what the server does about them *)
(* (api/server.py, Computer.update_decision).                              *)
(*                                                                         *)
(* The server publishes a list of verdicts: GET /dispatch/triage answers   *)
(* with it and the websocket pushes it.  The page fetches the list and     *)
(* patches the rows it has from what is pushed.                            *)
(*                                                                         *)
(* React: what a click sets is rendered at once; what an answer or a push  *)
(* sets is rendered later.  table is this.state.triageResult as rendered   *)
(* last, next what it will be.  Each rendering of Triage renders the       *)
(* accordion again, and each rendering of CpuInfo sends a request.         *)
(*                                                                         *)
(* Left out: the texts; reboot, power off and the test of optical drives,  *)
(* which only post a request; and two publications at a time by two        *)
(* threads.                                                                *)
(***************************************************************************)
EXTENDS Naturals, Sequences

CONSTANTS
  Components,   \* the components that are triaged
  Sound,        \* the one that the music is a test of
  MaxEditions,  \* bound: lists that are published
  MaxClicks     \* bound: what the user does

ASSUME ComponentsAssumption ==
  /\ Sound \in Components /\ "Overall" \notin Components
  /\ MaxEditions \in Nat /\ MaxClicks \in Nat

VARIABLES
  list,         \* the list of verdicts published last; empty at first
  model,        \* _triage.model, what is answered
  pushed,       \* lists on their way to the page
  table, next,  \* this.state.triageResult, rendered and still to be rendered
  asks,         \* fetches of the list, answered or not
  asked,        \* their number
  playing,      \* state.play of the button for the music
  due,          \* the music was requested
  clicks,       \* clicks on it and on the size of the font
  opens,        \* openings of the accordion
  benchmark,    \* server: "none", "ready" or "bad"
  cpu,          \* the accordion and CpuInfo, see CpuState
  crashed,      \* a rendering raised: React took the page down
  applied, heard, played, spoiled   \* history: see the properties

serverVars == <<list, model>>
tableVars  == <<table, next>>
askVars    == <<asks, asked>>
playVars   == <<playing, due, clicks>>
history    == <<applied, heard, played, spoiled>>
cpuVars    == <<benchmark, cpu, opens>>
vars == <<serverVars, pushed, tableVars, askVars, playVars, cpuVars, crashed, history>>

Rows == Components \cup {"Overall"}

\* A list of verdicts, with the number of its edition.
Lists == [no : 0 .. MaxEditions, rows : [Rows -> BOOLEAN] \cup {<<>>}]
Nothing == [no |-> 0, rows |-> <<>>]

\* open: the accordion; own: requests of the CpuInfo shown; strays: requests
\* of one that is gone; dirty: it has to be rendered again; rating: known to
\* CpuRating.
CpuState == [open : BOOLEAN, loading : BOOLEAN, dirty : BOOLEAN, own : Nat, strays : Nat,
             info : {"text", "undefined"}, rating : BOOLEAN]
Closed == [open |-> FALSE, loading |-> TRUE, dirty |-> FALSE, own |-> 0, strays |-> 0,
           info |-> "text", rating |-> FALSE]

Init ==
  /\ list = Nothing /\ model = Nothing
  /\ pushed = <<>> /\ table = <<>> /\ next = <<>>
  /\ asks = {[id |-> 1, served |-> FALSE, list |-> Nothing]} /\ asked = 1
  /\ playing = FALSE /\ due = FALSE /\ clicks = 0 /\ opens = 0
  /\ benchmark = "none" /\ cpu = Closed /\ crashed = FALSE
  /\ applied = 0 /\ heard = 0 /\ played = FALSE /\ spoiled = FALSE

(***************************************************************************)
(* The server.  A new list is published when the overall verdict changes,  *)
(* first to the websocket, then to the model.  (A change of one component  *)
(* that does not change the overall verdict is not published.)             *)
(***************************************************************************)
\* mutant: the list without the overall verdict
ListComponents(v) == [c \in Components |-> v[c]]

ListOf(v) == [c \in Rows |-> IF c = "Overall" THEN \A d \in Components : v[d] ELSE v[c]]

Publish(v) ==
  /\ list.no < MaxEditions /\ model = list
  /\ list' = [no |-> list.no + 1, rows |-> ListOf(v)]
  /\ pushed' = Append(pushed, list')
  /\ UNCHANGED model

StoreModel ==
  /\ model # list
  /\ model' = list
  /\ UNCHANGED <<list, pushed, tableVars, askVars, playVars, cpuVars, crashed, history>>

InitialTriage ==
  /\ list = Nothing
  /\ \E v \in [Components -> BOOLEAN] : Publish(v)
  /\ UNCHANGED <<tableVars, askVars, playVars, cpuVars, crashed, history>>

AllPass == [c \in Components |-> TRUE]

\* update_decision(): the last component that failed passes, or the first fails.
Improve == list # Nothing /\ ~ list.rows["Overall"] /\ Publish(AllPass)
Worsen(c) == list # Nothing /\ list.rows["Overall"] /\ Publish([AllPass EXCEPT ![c] = FALSE])

\* update_triage(), every other second
DetectChange ==
  /\ Improve \/ \E c \in Components : Worsen(c)
  /\ UNCHANGED <<tableVars, askVars, playVars, cpuVars, crashed, history>>

\* GET /dispatch/music is the test of the sound.
ServeMusic ==
  /\ due /\ due' = FALSE
  /\ Improve \/ UNCHANGED <<serverVars, pushed>>
  /\ UNCHANGED <<tableVars, askVars, playing, clicks, cpuVars, crashed, history>>

Serve(r) ==
  /\ r \in asks /\ ~ r.served
  /\ asks' = (asks \ {r}) \cup {[r EXCEPT !.served = TRUE, !.list = model]}
  /\ UNCHANGED <<serverVars, pushed, tableVars, asked, playVars, cpuVars, crashed, history>>

Disconnect ==
  /\ pushed # <<>>
  /\ pushed' = <<>> /\ heard' = pushed[Len(pushed)].no /\ spoiled' = TRUE
  /\ UNCHANGED <<serverVars, tableVars, askVars, playVars, cpuVars, crashed,
                 applied, played>>
-----------------------------------------------------------------------------
(***************************************************************************)
(* Rendering.  CpuInfo has an effect without dependencies: every rendering *)
(* of it is followed by a request.  A rendering of it without data raises, *)
(* and nothing catches that.                                               *)
(***************************************************************************)
\* mutant: a request is also sent when the accordion is closed
RenderCpuClosed(c) ==
  /\ cpu' = [c EXCEPT !.dirty = FALSE, !.own = IF c.dirty \/ c.open THEN @ + 1 ELSE @]
  /\ UNCHANGED crashed

RenderCpu(c) ==
  IF ~ c.open THEN /\ cpu' = [c EXCEPT !.dirty = FALSE] /\ UNCHANGED crashed
  ELSE IF ~ c.loading /\ c.info = "undefined" THEN crashed' = TRUE /\ cpu' = Closed
  ELSE /\ cpu' = [c EXCEPT !.dirty = FALSE, !.own = @ + 1] /\ UNCHANGED crashed

Render ==
  /\ ~ crashed /\ (table # next \/ cpu.dirty)
  /\ table' = next /\ RenderCpu(cpu)
  /\ UNCHANGED <<serverVars, pushed, next, askVars, playVars, benchmark, opens, history>>

\* The bound: one more click is allowed.  The list is asked for once without.
MayClick == ~ crashed /\ asked + clicks + opens <= MaxClicks

(***************************************************************************)
(* fetchTriage(): the rows go at once, the answer brings new ones.         *)
(***************************************************************************)
Refresh ==
  /\ MayClick
  /\ table' = <<>> /\ next' = <<>>
  /\ asked' = asked + 1
  /\ asks' = asks \cup {[id |-> asked', served |-> FALSE, list |-> Nothing]}
  /\ RenderCpu(cpu)
  /\ UNCHANGED <<serverVars, pushed, playVars, benchmark, opens, history>>

\* An answer may be older than what the page was told since, or would have been.
Overtaken(r) == r.id < applied \/ r.list.no < heard

\* The answer to the last fetch repairs what went wrong before.
Repaired(r) == r.id = asked

Receive(r) ==
  /\ ~ crashed /\ r \in asks /\ r.served
  /\ asks' = asks \ {r}
  /\ next' = r.list.rows
  /\ applied' = IF r.id < applied THEN applied ELSE r.id
  /\ spoiled' = ((spoiled /\ ~ Repaired(r)) \/ Overtaken(r))
  /\ played' = FALSE
  /\ UNCHANGED <<serverVars, pushed, table, asked, playVars, cpuVars, crashed, heard>>

\* Nobody handles a request that fails: the table stays empty.
AskFails(r) ==
  /\ ~ crashed /\ r \in asks
  /\ asks' = asks \ {r} /\ spoiled' = TRUE
  /\ UNCHANGED <<serverVars, pushed, tableVars, asked, playVars, cpuVars, crashed,
                 applied, heard, played>>

(***************************************************************************)
(* onTriageUpdate() patches the rows of this.state, and adds none.         *)
(***************************************************************************)
\* mutant: the overall verdict is not a component
PatchedComponents(rows, update) ==
  [c \in DOMAIN rows |-> IF c \in DOMAIN update /\ c # "Overall" THEN update[c] ELSE rows[c]]

Patched(rows, update) ==
  [c \in DOMAIN rows |-> IF c \in DOMAIN update THEN update[c] ELSE rows[c]]

OnTriageUpdate ==
  /\ ~ crashed /\ pushed # <<>>
  /\ pushed' = Tail(pushed) /\ heard' = Head(pushed).no
  /\ next' = Patched(table, Head(pushed).rows)
  /\ spoiled' = (spoiled \/ ~ DOMAIN Head(pushed).rows \subseteq DOMAIN table)
  /\ UNCHANGED <<serverVars, table, askVars, playVars, cpuVars, crashed,
                 applied, played>>

(***************************************************************************)
(* The buttons.                                                            *)
(***************************************************************************)
Click == MayClick /\ clicks' = clicks + 1

\* onMusicPlay() shows the sound as tested, before it is.
MusicPlayed(rows) == [c \in DOMAIN rows |-> IF c = Sound THEN TRUE ELSE rows[c]]

\* PressPlay.togglePlay() of the music; the player asks for it when it starts.
TogglePlay ==
  /\ Click
  /\ table' = MusicPlayed(table) /\ next' = MusicPlayed(table)
  /\ playing' = ~ playing
  /\ due' = (due \/ playing')
  /\ played' = TRUE /\ spoiled' = (spoiled \/ table # next)
  /\ RenderCpu(cpu)
  /\ UNCHANGED <<serverVars, pushed, askVars, benchmark, opens, applied, heard>>

\* setFontSize() renders the tab again.
SetFontSize ==
  /\ Click
  /\ RenderCpu(cpu)
  /\ UNCHANGED <<serverVars, pushed, tableVars, askVars, playing, due, benchmark, opens, history>>

(***************************************************************************)
(* The accordion unmounts CpuInfo when it is closed, with its requests     *)
(* still on their way.                                                     *)
(***************************************************************************)
Expand ==
  /\ MayClick /\ ~ cpu.open
  /\ opens' = opens + 1
  /\ cpu' = [cpu EXCEPT !.open = TRUE, !.loading = TRUE, !.info = "text", !.own = 1]
  /\ UNCHANGED <<serverVars, pushed, tableVars, askVars, playVars, benchmark, crashed, history>>

Collapse ==
  /\ ~ crashed /\ cpu.open
  /\ cpu' = [cpu EXCEPT !.open = FALSE, !.strays = @ + cpu.own, !.own = 0, !.dirty = FALSE]
  /\ UNCHANGED <<serverVars, pushed, tableVars, askVars, playVars, benchmark, opens, crashed,
                 history>>

(***************************************************************************)
(* GET /dispatch/cpu_info: the first request runs the benchmark, the       *)
(* others wait for it.  One that fails leaves no data behind: it is        *)
(* answered with an error page that is not JSON, or with 503 and a JSON    *)
(* document that has no cpu_info, as are all requests after it.            *)
(***************************************************************************)
CpuAnswers ==
  CASE benchmark = "none"  -> {[benchmark |-> "ready", info |-> "known"],
                               [benchmark |-> "bad", info |-> "failed"],
                               [benchmark |-> "bad", info |-> "undefined"]}
    [] benchmark = "ready" -> {[benchmark |-> "ready", info |-> "known"]}
    [] benchmark = "bad"   -> {[benchmark |-> "bad", info |-> "undefined"]}

Text(info) == IF info = "undefined" THEN info ELSE "text"

\* What CpuRating is told, by CpuInfo or by one that is gone.
Told(info) == IF info = "failed" THEN cpu.rating ELSE info = "known"

ReceiveCpuInfo ==
  /\ ~ crashed /\ cpu.own > 0
  /\ \E a \in CpuAnswers :
       /\ benchmark' = a.benchmark
       /\ cpu' = [cpu EXCEPT !.own = @ - 1, !.info = Text(a.info), !.loading = FALSE,
                             !.dirty = TRUE, !.rating = Told(a.info)]
  /\ UNCHANGED <<serverVars, pushed, tableVars, askVars, playVars, opens, crashed, history>>

\* The network may fail, too.
CpuInfoFails ==
  /\ ~ crashed /\ cpu.own > 0
  /\ cpu' = [cpu EXCEPT !.own = @ - 1, !.info = "text", !.loading = FALSE, !.dirty = TRUE]
  /\ UNCHANGED <<serverVars, pushed, tableVars, askVars, playVars, benchmark, opens, crashed,
                 history>>

ReceiveStray ==
  /\ ~ crashed /\ cpu.strays > 0
  /\ \E a \in CpuAnswers :
       /\ benchmark' = a.benchmark
       /\ cpu' = [cpu EXCEPT !.strays = @ - 1, !.rating = Told(a.info),
                             !.dirty = (@ \/ a.info = "known" \/ cpu.rating # Told(a.info))]
  /\ UNCHANGED <<serverVars, pushed, tableVars, askVars, playVars, opens, crashed, history>>
-----------------------------------------------------------------------------
Server ==
  \/ InitialTriage \/ StoreModel \/ DetectChange \/ ServeMusic \/ Disconnect
  \/ \E r \in asks : Serve(r)
User == Refresh \/ TogglePlay \/ SetFontSize \/ Expand \/ Collapse
Cpu == ReceiveCpuInfo \/ CpuInfoFails \/ ReceiveStray
Page == OnTriageUpdate \/ \E r \in asks : Receive(r) \/ AskFails(r)

Next == Server \/ User \/ Cpu \/ Page \/ Render

\* Answers arrive and are rendered.  Nothing else is owed.
Fairness == WF_vars(ReceiveCpuInfo) /\ WF_vars(ReceiveStray) /\ WF_vars(Render)

Spec == Init /\ [][Next]_vars /\ Fairness
-----------------------------------------------------------------------------
(***************************************************************************)
(* Type correctness.                                                       *)
(***************************************************************************)
TypeOK ==
  /\ list \in Lists /\ model \in Lists /\ pushed \in Seq(Lists)
  /\ {table, next} \subseteq [Rows -> BOOLEAN] \cup {<<>>}
  /\ asked \in 1 .. 1 + MaxClicks /\ applied \in 0 .. asked /\ heard \in 0 .. MaxEditions
  /\ asks \subseteq [id : 1 .. asked, served : BOOLEAN, list : Lists]
  /\ playing \in BOOLEAN /\ due \in BOOLEAN /\ clicks \in 0 .. MaxClicks
  /\ opens \in 0 .. MaxClicks
  /\ benchmark \in {"none", "ready", "bad"} /\ cpu \in CpuState /\ crashed \in BOOLEAN
  /\ played \in BOOLEAN /\ spoiled \in BOOLEAN

Quiet == asks = {} /\ pushed = <<>> /\ ~ crashed

\* When nothing is on its way, the table has the list that the server published
\* last (Triage.tsx:139-147 and 204-219), unless a list was lost or came late, a
\* request failed, an update arrived while the table did not have the rows for
\* it, or the button was pressed before an update was rendered.  The answer to a
\* new fetch repairs all of these, if it is not itself older than a list that was
\* pushed.  The row of the sound may be ahead, if the music was played since.
TableCatchesUp ==
  Quiet /\ ~ spoiled =>
    /\ DOMAIN next = DOMAIN list.rows
    /\ \A c \in DOMAIN next :
         next[c] = list.rows[c] \/ (c = Sound /\ played /\ next[c])

\* Requests for the CPU rating follow one another as long as the accordion is
\* open (Triage.tsx:50-61); if it stays closed they come to an end.
RequestsEnd ==
  <>[](~ cpu.open) => <>[](cpu.own = 0 /\ cpu.strays = 0 /\ ~ cpu.dirty)

=============================================================================
