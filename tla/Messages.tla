------------------------------ MODULE Messages ------------------------------
(***************************************************************************)
(* src/fend/src/components/Messages.tsx, the tab that shows the log, with  *)
(* the selection of tabs in Commands.tsx.                                  *)
(*                                                                         *)
(* The page asks the server for one page of rows at a time.  A message is  *)
(* logged and also pushed over the websocket; the page puts it on top of   *)
(* (or below) the rows it has, if it shows the first page unfiltered.      *)
(* Rows get into the database a while after they were logged (LogStore),   *)
(* pushed messages arrive in order or not at all, answers in any order.    *)
(*                                                                         *)
(* React: a state set by a click is rendered before anything else happens, *)
(* one set by an answer or by a message some time later.  this.state is    *)
(* what was rendered last.                                                 *)
(*                                                                         *)
(* Left out: pruning of the database, the text of rows, the size of a      *)
(* page, where the choices of the Source filter come from, and the dialog  *)
(* with the data of a row.                                                 *)
(*                                                                         *)
(* TabInit, TabNext and the like have names of their own, so that one can  *)
(* speak of the log and of the tab together.                               *)
(***************************************************************************)
EXTENDS Naturals, Sequences, FiniteSets

CONSTANTS
  Entries,      \* the rows that will be logged: records type, level, source
  PageSize,     \* rows of a page
  TypeChoices, LevelChoices, SourceChoices,  \* what the user may filter by
  Pages,        \* the pages that the user may turn to
  MaxAsks       \* bound: requests of one session

Types   == {"MESSAGE", "ERROR", "LOG"}
Levels  == {"none", "INFO", "WARNING"}

ASSUME EntriesAssumption ==
  /\ Entries \in Seq([type : Types, level : Levels, source : STRING])
  /\ PageSize \in Nat \ {0} /\ MaxAsks \in Nat \ {0} /\ Pages \subseteq Nat
  /\ TypeChoices \subseteq SUBSET Types
  /\ LevelChoices \subseteq SUBSET Levels
  /\ SourceChoices \subseteq SUBSET STRING

VARIABLES
  logged,       \* server: rows logged so far
  stored,       \* server: rows in the database
  pushed,       \* messages on their way to the page
  query,        \* state: page, sort order, filters; rendered at once
  grid,         \* this.state: entries and total, as rendered last
  next,         \* the same, with what is still to be rendered
  selected,     \* property: is the tab in front
  asks,         \* requests that were sent, answered or not
  asked,        \* number of requests so far
  applied,      \* history: the latest request whose answer was shown
  heard,        \* history: the latest message that arrived or was lost
  mishaps       \* history: what went wrong and is not repaired, see the properties

tabVars == <<logged, stored, pushed, query, grid, next, selected, asks, asked,
             applied, heard, mishaps>>
serverVars == <<logged, stored, pushed>>
clickVars  == <<query, selected>>
askVars    == <<asks, asked>>
shownVars  == <<grid, next>>
history    == <<applied, heard, mishaps>>

IsMessage(i) == Entries[i].type \in {"MESSAGE", "ERROR"}

\* The rows of the grid: messages put above, rows of the database, messages
\* put below; and the count of rows that the pager shows.  asOf is a history:
\* how much was in the database when the rows were read.
Grid == [above : Seq(1 .. Len(Entries)), rows : Seq(1 .. Len(Entries)),
         below : Seq(1 .. Len(Entries)), total : Nat, asOf : 0 .. Len(Entries)]
NoRows == [above |-> <<>>, rows |-> <<>>, below |-> <<>>, total |-> 0, asOf |-> 0]

\* The column filter has an item as soon as its panel is open, with no value yet.
ColumnFilter == [item : BOOLEAN, values : SUBSET STRING]
Query == [page : Nat, sort : {"asc", "desc"}, types : SUBSET Types,
          levels : SUBSET Levels, column : ColumnFilter]
FirstQuery == [page |-> 0, sort |-> "desc", types |-> {}, levels |-> {},
               column |-> [item |-> FALSE, values |-> {}]]

(***************************************************************************)
(* What /logs answers to q when n rows are in the database.                *)
(***************************************************************************)
Passes(i, q) ==
  /\ q.types # {} => Entries[i].type \in q.types
  /\ q.levels # {} => Entries[i].level \in q.levels
  /\ q.column.values # {} => Entries[i].source \in q.column.values

\* The rows that pass, in the order of the answer: each at the place that the
\* number of those before it gives.
Matching(q, n) ==
  LET rows     == {i \in 1 .. n : Passes(i, q)}
      upTo(i)  == {j \in rows : IF q.sort = "asc" THEN j <= i ELSE i <= j}
  IN  [k \in 1 .. Cardinality(rows) |-> CHOOSE i \in rows : Cardinality(upTo(i)) = k]

Answer(q, n) ==
  LET all   == Matching(q, n)
      first == q.page * PageSize
      last  == first + PageSize
  IN  SubSeq(all, first + 1, IF Len(all) < last THEN Len(all) ELSE last)

TabInit ==
  /\ logged = 0 /\ stored = 0 /\ pushed = <<>>
  /\ query = FirstQuery /\ selected = FALSE
  /\ grid = NoRows /\ next = NoRows
  /\ asks = {[id |-> 1, query |-> FirstQuery, served |-> FALSE, asOf |-> 0]} /\ asked = 1
  /\ applied = 0 /\ heard = 0 /\ mishaps = {}

(***************************************************************************)
(* The server.                                                             *)
(***************************************************************************)
LogRow ==
  /\ logged < Len(Entries)
  /\ logged' = logged + 1
  /\ pushed' = IF IsMessage(logged') THEN Append(pushed, logged') ELSE pushed
  /\ UNCHANGED <<stored, clickVars, shownVars, askVars, history>>

Store ==
  /\ stored < logged
  /\ stored' = stored + 1
  /\ UNCHANGED <<logged, pushed, clickVars, shownVars, askVars, history>>

\* The code reads the count and then the rows, and a row may be stored in between;
\* here both are of one moment.
Serve(r) ==
  /\ r \in asks /\ ~ r.served
  /\ asks' = (asks \ {r}) \cup {[r EXCEPT !.served = TRUE, !.asOf = stored]}
  /\ UNCHANGED <<serverVars, clickVars, shownVars, asked, history>>

\* The websocket reconnects by itself; what was emitted in between is gone.
Disconnect ==
  /\ pushed # <<>>
  /\ pushed' = <<>> /\ heard' = pushed[Len(pushed)] /\ mishaps' = mishaps \cup {"lost"}
  /\ UNCHANGED <<logged, stored, clickVars, shownVars, askVars, applied>>

(***************************************************************************)
(* fetchMessages(), called with the state as it is then, and its answer.   *)
(***************************************************************************)
\* mutant: a request is not counted
AskUncounted(q) ==
  /\ asked < MaxAsks
  /\ asks' = asks \cup {[id |-> asked + 1, query |-> q, served |-> FALSE, asOf |-> 0]}
  /\ asked' = asked

\* mutant: the question is put before the state is set
AskFirst(q) ==
  /\ asked < MaxAsks
  /\ asks' = asks \cup {[id |-> asked + 1, query |-> query, served |-> FALSE, asOf |-> 0]}
  /\ asked' = asked + 1

Ask(q) ==
  /\ asked < MaxAsks
  /\ asks' = asks \cup {[id |-> asked + 1, query |-> q, served |-> FALSE, asOf |-> 0]}
  /\ asked' = asked + 1

\* An answer may have been overtaken by a later one, or may not have the
\* messages that arrived or were lost while it was on its way.
Overtaken(r) == (IF r.id < applied THEN {"late"} ELSE {})
                \cup (IF r.asOf < heard THEN {"behind"} ELSE {})

\* The answer to the last question repairs what went wrong before.
Repaired(r) == IF r.id = asked THEN {} ELSE mishaps

Receive(r) ==
  /\ r \in asks /\ r.served
  /\ asks' = asks \ {r}
  /\ next' = [above |-> <<>>, rows |-> Answer(r.query, r.asOf), below |-> <<>>,
              total |-> Len(Matching(r.query, r.asOf)), asOf |-> r.asOf]
  /\ applied' = IF r.id < applied THEN applied ELSE r.id
  /\ mishaps' = Repaired(r) \cup Overtaken(r)
  /\ UNCHANGED <<serverVars, clickVars, grid, asked, heard>>

\* Nobody handles a request that fails.
AskFails(r) ==
  /\ r \in asks
  /\ asks' = asks \ {r} /\ mishaps' = mishaps \cup {"failed"}
  /\ UNCHANGED <<serverVars, clickVars, shownVars, asked, applied, heard>>

(***************************************************************************)
(* handleMessage()                                                         *)
(***************************************************************************)
Unfiltered(q) == ~ q.column.item /\ q.types = {} /\ q.levels = {}

\* mutant: the message takes the place of those that came before it
WithLast(g, i) ==
  [g EXCEPT !.total = @ + 1, !.above = IF query.sort = "asc" THEN @ ELSE <<i>>,
            !.below = IF query.sort = "asc" THEN <<i>> ELSE @]

\* The grid with message i in the place for it.
WithMessage(g, i) ==
  LET more == [g EXCEPT !.total = @ + 1]
  IN  IF query.sort = "asc" THEN [more EXCEPT !.below = Append(@, i)]
                            ELSE [more EXCEPT !.above = <<i>> \o @]

HandleMessage ==
  /\ pushed # <<>>
  /\ pushed' = Tail(pushed) /\ heard' = Head(pushed)
  /\ IF query.page = 0 /\ Unfiltered(query)
     THEN /\ next' = WithMessage(grid, Head(pushed))
          /\ mishaps' = IF grid = next THEN mishaps ELSE mishaps \cup {"batched"}
     ELSE UNCHANGED <<next, mishaps>>
  /\ UNCHANGED <<logged, stored, clickVars, grid, askVars, applied>>

Render ==
  /\ grid # next
  /\ grid' = next
  /\ UNCHANGED <<serverVars, clickVars, next, askVars, history>>

(***************************************************************************)
(* The user.  Each handler sets the state and asks once it is rendered.    *)
(***************************************************************************)
Change(q) ==
  /\ q # query
  /\ query' = q /\ Ask(q)
  /\ UNCHANGED <<serverVars, selected, shownVars, history>>

HandlePaginationModelChange == \E p \in Pages : Change([query EXCEPT !.page = p])
HandleSortModelChange == \E s \in {"asc", "desc"} : Change([query EXCEPT !.sort = s])
HandleFilterModelChange ==
  \E v \in SourceChoices, item \in BOOLEAN :
    /\ v # {} => item
    /\ Change([query EXCEPT !.column = [item |-> item, values |-> v], !.page = 0])
HandleTypesChange ==
  \E t \in TypeChoices : Change([query EXCEPT !.types = t, !.page = 0])
HandleLevelsChange ==
  \E l \in LevelChoices : Change([query EXCEPT !.levels = l, !.page = 0])

\* Commands.handleChange(), and componentDidUpdate() of the tab that comes
\* to the front
HandleChange ==
  /\ selected' = ~ selected
  /\ IF selected' THEN Ask(query) ELSE UNCHANGED askVars
  /\ UNCHANGED <<serverVars, query, shownVars, history>>
-----------------------------------------------------------------------------
Server == LogRow \/ Store \/ Disconnect \/ \E r \in asks : Serve(r)
User ==
  \/ HandlePaginationModelChange \/ HandleSortModelChange \/ HandleFilterModelChange
  \/ HandleTypesChange \/ HandleLevelsChange \/ HandleChange
Page ==
  \/ HandleMessage \/ Render
  \/ \E r \in asks : Receive(r) \/ AskFails(r)

TabNext == Server \/ User \/ Page

TabSpec == TabInit /\ [][TabNext]_tabVars
-----------------------------------------------------------------------------
(***************************************************************************)
(* Type correctness.                                                       *)
(***************************************************************************)
TabTypeOK ==
  /\ stored \in 0 .. logged /\ logged \in 0 .. Len(Entries)
  /\ pushed \in Seq(1 .. Len(Entries))
  /\ query \in Query /\ selected \in BOOLEAN
  /\ grid \in Grid /\ next \in Grid
  /\ asked \in 1 .. MaxAsks /\ applied \in 0 .. asked /\ heard \in 0 .. Len(Entries)
  /\ asks \subseteq [id : 1 .. asked, query : Query, served : BOOLEAN, asOf : 0 .. stored]
  /\ mishaps \subseteq {"lost", "late", "behind", "failed", "batched"}

\* When no answer is awaited, the rows are an answer to the question that the
\* controls show (Messages.tsx:116), unless a request failed, an answer was
\* overtaken by the answer to a later question, or a message was put on the page
\* that an answer was about to replace.  The answer to a new question repairs
\* all of these.
RowsAnswerQuestion ==
  asks = {} /\ mishaps \cap {"late", "failed", "batched"} = {} =>
    \E n \in 0 .. stored : next.rows = Answer(query, n)

Live(i) ==
  \/ \E k \in DOMAIN next.above : next.above[k] = i
  \/ \E k \in DOMAIN next.below : next.below[k] = i

\* On the first page, unfiltered, no message is missing once nothing is on its
\* way any more: it was put on the page, or it was in the database when the
\* rows were read.  That is so unless an answer came late, an answer did not
\* know of messages that had arrived (they were not in the database yet), two
\* updates arrived before one rendering, or one was lost (Messages.tsx:161), and
\* there is no answer since to a new question that knows of them all.
NothingMissing ==
  asks = {} /\ pushed = <<>> /\ mishaps = {} /\ query.page = 0 /\ Unfiltered(query) =>
    \A i \in 1 .. logged : IsMessage(i) => i <= next.asOf \/ Live(i)

=============================================================================
