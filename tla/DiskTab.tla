------------------------------ MODULE DiskTab -------------------------------
(***************************************************************************)
(* A tab of the web page that works on disks: the table of disks           *)
(* (parts/Disks.tsx in parts/Mui5Table.tsx), the table of the tasks of a   *)
(* run (parts/RunnerProgress.tsx), and the component that owns them, which *)
(* is one of LoadDiskImage, SaveDiskImage, WipeDisk, DiskImageManagement.  *)
(*                                                                         *)
(* The owner keeps which disks are the targets and what the runner of the  *)
(* server reported last; the table keeps its own list of disks, with a     *)
(* flag and the progress of each.  Disks.componentDidUpdate() brings the   *)
(* table in line with the owner.  The list is asked for, and asked for     *)
(* again when the server announces that the disks changed.  Reports come   *)
(* by the websocket with a number, or as the answer to a request, without. *)
(*                                                                         *)
(* React: handlers set their state whatever it was before, or are clicks,  *)
(* which are rendered at once.  A handler and the renderings after it are  *)
(* one step here; OnRunnerUpdates has two reports that are rendered        *)
(* together.                                                               *)
(*                                                                         *)
(* Left out: the forms of the tabs (source, type of image, type of wipe,   *)
(* image files: any of them may be filled in), the details of a disk, the  *)
(* numbers of a report, the text of an error.                              *)
(***************************************************************************)
EXTENDS Naturals, Sequences, FiniteSets

CONSTANTS
  Disks,        \* names of devices
  Machines,     \* the states that the disks may be in at first
  Script,       \* reports of the runner: records device, state, timed
  Tabs,         \* the tabs that may be the owner
  MaxEvents     \* bound: more requests, reports, changes of the disks, failures

RunStates == {"Initial", "Waiting", "Prepare", "Preflight", "Running", "Success", "Failed"}

ASSUME DiskTabAssumption ==
  /\ Machines \subseteq [Disks -> {"absent", "free", "mounted"}]
  /\ Script \in Seq([device : Disks, state : RunStates, timed : BOOLEAN])
  /\ Tabs \subseteq {"load", "save", "wipe", "sync"}
  /\ MaxEvents \in Nat

VARIABLES
  tab,          \* the owner
  machine,      \* the disks of the computer: "absent", "free" or "mounted"
  announced,    \* server: what the last announcement said of them
  incidents,    \* changes of the disks and failures so far
  emitted,      \* server: reports that were pushed
  stored,       \* server: the report that a request is answered with
  pushed,       \* events on their way: 0 is "disks", n the n-th report
  page,         \* the state of the components, see Page
  asks,         \* requests on their way
  asked,        \* number of requests so far
  applied,      \* history: the latest list that was shown
  mishaps       \* history: what went wrong and is not repaired, see the properties

serverVars == <<machine, announced, incidents, emitted, stored>>
vars == <<tab, serverVars, pushed, page, asks, asked, applied, mishaps>>

Reports == 0 .. Len(Script)
Row  == [mounted : BOOLEAN, target : BOOLEAN, report : Reports]
Rows == UNION {[S -> Row] : S \in SUBSET Disks}

\* A report as the owner knows it; a report that was asked for has no number,
\* which is 0 here.
Status == [no : Reports, seq : Reports]

\* targets, resetting and status are of the owner; rows, loading and seq are of
\* the table of disks; tasks (the report they are from) and taskSeq of the other.
Page == [targets : SUBSET Disks, resetting : BOOLEAN, status : Status,
         rows : Rows, loading : BOOLEAN, seq : Reports,
         tasks : Reports, taskSeq : Reports]

\* A request, and the answer once it is served.
Ask == [id : 1 .. 3 + MaxEvents, kind : {"disks", "status", "tasks", "operation", "unmount"},
        served : BOOLEAN, rows : Rows, no : Reports]
Request(id, kind) == [id |-> id, kind |-> kind, served |-> FALSE, rows |-> <<>>, no |-> 0]

FirstPage == [targets |-> {}, resetting |-> FALSE, status |-> [no |-> 0, seq |-> 0],
              rows |-> <<>>, loading |-> TRUE, seq |-> 0, tasks |-> 0, taskSeq |-> 0]

\* The tab for wiping does not show the tasks.
HasTasks == tab # "wipe"

Init ==
  /\ tab \in Tabs
  /\ machine \in Machines /\ announced = machine
  /\ incidents = 0 /\ emitted = 0 /\ stored = 0 /\ pushed = <<>>
  /\ page = FirstPage
  /\ asks = {Request(1, "disks"), Request(2, "status")}
            \cup (IF HasTasks THEN {Request(3, "tasks")} ELSE {})
  /\ asked = 3
  /\ applied = 0 /\ mishaps = {}

\* The bound: n more events are allowed.
Allowed(n) == asked + incidents + emitted + n <= 3 + MaxEvents

(***************************************************************************)
(* The server.  The list that is asked for is looked up there and then; it *)
(* is announced when it is not the one announced last.                     *)
(***************************************************************************)
Listed(m) == [d \in {e \in Disks : m[e] # "absent"} |->
                [mounted |-> (m[d] = "mounted"), target |-> FALSE, report |-> 0]]

\* A change that is undone before it is announced is never announced, but a
\* request may have seen it.
ChangeMachine ==
  /\ Allowed(1) /\ incidents' = incidents + 1
  /\ \E d \in Disks : \E s \in {"absent", "free", "mounted"} \ {machine[d]} :
       machine' = [machine EXCEPT ![d] = s]
  /\ mishaps' = IF machine' = announced THEN mishaps \cup {"list"} ELSE mishaps
  /\ UNCHANGED <<tab, announced, emitted, stored, pushed, page, asks, asked, applied>>

Scan ==
  /\ machine # announced
  /\ announced' = machine /\ pushed' = Append(pushed, 0)
  /\ UNCHANGED <<tab, machine, incidents, emitted, stored, page, asks, asked, applied, mishaps>>

Report ==
  /\ emitted < Len(Script) /\ Allowed(1) /\ stored = emitted
  /\ emitted' = emitted + 1 /\ pushed' = Append(pushed, emitted')
  /\ UNCHANGED <<tab, machine, announced, incidents, stored, page, asks, asked, applied, mishaps>>

StoreReport ==
  /\ stored # emitted
  /\ stored' = emitted
  /\ UNCHANGED <<tab, machine, announced, incidents, emitted, pushed, page, asks, asked, applied,
                 mishaps>>

Served(r) == IF r.kind = "disks" THEN [r EXCEPT !.served = TRUE, !.rows = Listed(machine)]
                                 ELSE [r EXCEPT !.served = TRUE, !.no = stored]

\* When the others are served makes no difference.
Serve(r) ==
  /\ r \in asks /\ ~ r.served /\ r.kind \in {"disks", "status", "tasks"}
  /\ asks' = (asks \ {r}) \cup {Served(r)}
  /\ UNCHANGED <<tab, serverVars, pushed, page, asked, applied, mishaps>>

Disconnect ==
  /\ pushed # <<>> /\ Allowed(1) /\ incidents' = incidents + 1
  /\ pushed' = <<>>
  /\ mishaps' = mishaps \cup {IF pushed[k] = 0 THEN "list" ELSE "status" : k \in DOMAIN pushed}
  /\ UNCHANGED <<tab, machine, announced, emitted, stored, page, asks, asked, applied>>
-----------------------------------------------------------------------------
(***************************************************************************)
(* What is rendered.                                                       *)
(***************************************************************************)
\* Mui5Table: a row for each disk of the list; its checkbox is enabled unless
\* the disk is mounted.
Shown(p) == DOMAIN p.rows
Selectable(p) == {d \in Shown(p) : ~ p.rows[d].mounted}
Selected(p) == {d \in Shown(p) : p.rows[d].target}

IsProcessRunning(state) == state \in {"Waiting", "Prepare", "Preflight", "Running"}
StateOf(n) == IF n = 0 THEN "Initial" ELSE Script[n].state
Abortable(p) == IsProcessRunning(StateOf(p.status.no))

MaxSelected == IF tab = "save" THEN 1 ELSE 100

\* The disks that the request for an operation names: the first selected one for
\* an image, all of them for the others.  (DeleteImageUrl: to sync, if images
\* are selected, and to delete them.)
ImagingUrl(p)     == IF p.targets = {} THEN {} ELSE {CHOOSE d \in p.targets : TRUE}
RestoringUrl(p)   == p.targets
WipeUrl(p)        == p.targets
DeleteImageUrl(p) == p.targets

(***************************************************************************)
(* Disks.componentDidUpdate() and RunnerProgress.componentDidUpdate(),     *)
(* called after each rendering.  The first either corrects the flags of    *)
(* the targets or takes over a report that has another number, and is then *)
(* called again.  While the owner resets, the list is emptied first; the   *)
(* rows are back if anything else has to be done.                          *)
(***************************************************************************)
\* The row of the disk takes its estimate, time and progress from the report.
WithReport(rows, n) ==
  IF n # 0 /\ Script[n].timed /\ Script[n].device \in DOMAIN rows
  THEN [rows EXCEPT ![Script[n].device].report = n]
  ELSE rows

WrongFlags(p) == \E d \in Shown(p) : p.rows[d].target # (d \in p.targets)
Flagged(p) == [d \in Shown(p) |-> [p.rows[d] EXCEPT !.target = (d \in p.targets)]]

\* Disks.onReset()
Emptied(p) == [p EXCEPT !.rows = <<>>, !.loading = TRUE, !.resetting = FALSE]

DisksDidUpdate(p) ==
  LET q == IF p.resetting THEN Emptied(p) ELSE p
  IN  IF WrongFlags(p) THEN [q EXCEPT !.rows = Flagged(p)]
      ELSE IF p.seq # p.status.seq
      THEN [q EXCEPT !.rows = WithReport(p.rows, p.status.no), !.seq = p.status.seq]
      ELSE q

\* mutant: the tasks of the first report are kept
ProgressOnce(p) ==
  IF HasTasks /\ p.taskSeq # p.status.seq /\ p.tasks = 0
  THEN [p EXCEPT !.taskSeq = p.status.seq, !.tasks = p.status.no]
  ELSE p

ProgressDidUpdate(p) ==
  IF HasTasks /\ p.taskSeq # p.status.seq
  THEN [p EXCEPT !.taskSeq = p.status.seq, !.tasks = p.status.no]
  ELSE p

\* It takes three renderings at most.
DidUpdate(p) == ProgressDidUpdate(DisksDidUpdate(p))
Rendered(p) == DidUpdate(DidUpdate(DidUpdate(p)))
-----------------------------------------------------------------------------
(***************************************************************************)
(* Answers and events.                                                     *)
(***************************************************************************)
AskFor(kinds, before) ==
  /\ Allowed(Cardinality(kinds))
  /\ asked' = asked + Cardinality(kinds)
  /\ asks' = before \cup {Request(asked', kind) : kind \in kinds}

\* mutant: the targets are kept
WithListOnly(p, rows) == [p EXCEPT !.rows = rows, !.loading = FALSE]

\* The new list has no targets.
WithList(p, rows) == [p EXCEPT !.rows = rows, !.targets = {}, !.loading = FALSE]

ReceiveDisks(r) ==
  /\ r \in asks /\ r.kind = "disks" /\ r.served
  /\ asks' = asks \ {r}
  /\ page' = Rendered(WithList(page, r.rows))
  /\ applied' = IF r.id < applied THEN applied ELSE r.id
  /\ mishaps' = IF r.id < applied THEN mishaps \cup {"list"} ELSE mishaps
  /\ UNCHANGED <<tab, serverVars, pushed, asked>>

\* An answer is late when a later report was shown already; and a report without
\* a number is not noticed after another one without.
Unnoticed(r) ==
  \/ r.no < page.status.no
  \/ page.status.seq = 0 /\ (page.status.no # r.no \/ (HasTasks /\ page.tasks # r.no))

\* onRunnerUpdate() with the answer of fetchSyncStatus() and the like
ReceiveStatus(r) ==
  /\ r \in asks /\ r.kind = "status" /\ r.served
  /\ asks' = asks \ {r}
  /\ page' = Rendered([page EXCEPT !.status = [no |-> r.no, seq |-> 0]])
  /\ mishaps' = IF Unnoticed(r) THEN mishaps \cup {"status"} ELSE mishaps
  /\ UNCHANGED <<tab, serverVars, pushed, asked, applied>>

\* fetchTasks(), which RunnerProgress calls when it is mounted
ReceiveTasks(r) ==
  /\ r \in asks /\ r.kind = "tasks" /\ r.served
  /\ asks' = asks \ {r}
  /\ page' = Rendered([page EXCEPT !.tasks = r.no])
  /\ mishaps' = IF r.no < page.tasks THEN mishaps \cup {"status"} ELSE mishaps
  /\ UNCHANGED <<tab, serverVars, pushed, asked, applied>>

\* After an operation was requested, or its end, the status is asked for.
ReceiveOperation(r) ==
  /\ r \in asks /\ r.kind = "operation"
  /\ AskFor({"status"}, asks \ {r})
  /\ UNCHANGED <<tab, serverVars, pushed, page, applied, mishaps>>

ReceiveUnmount(r) ==
  /\ r \in asks /\ r.kind = "unmount"
  /\ AskFor({"disks"}, asks \ {r})
  /\ page' = Rendered(Emptied(page))
  /\ UNCHANGED <<tab, serverVars, pushed, applied, mishaps>>

\* A request for the list that fails ends the loading, the others have no effect.
AskFails(r) ==
  /\ r \in asks /\ Allowed(1) /\ incidents' = incidents + 1
  /\ asks' = asks \ {r}
  /\ page' = IF r.kind = "disks" THEN [page EXCEPT !.loading = FALSE] ELSE page
  /\ mishaps' = mishaps \cup (IF r.kind = "disks" THEN {"list", "failed"} ELSE {"status"})
  /\ UNCHANGED <<tab, machine, announced, emitted, stored, pushed, asked, applied>>

\* mutant: the announcement is ignored while the list is loading
OnDiskUpdateIdle ==
  /\ pushed # <<>> /\ Head(pushed) = 0
  /\ pushed' = Tail(pushed)
  /\ IF page.loading THEN UNCHANGED <<asks, asked, page>>
     ELSE AskFor({"disks"}, asks) /\ page' = Rendered(Emptied(page))
  /\ UNCHANGED <<tab, serverVars, applied, mishaps>>

OnDiskUpdate ==
  /\ pushed # <<>> /\ Head(pushed) = 0
  /\ pushed' = Tail(pushed)
  /\ AskFor({"disks"}, asks)
  /\ page' = Rendered(Emptied(page))
  /\ UNCHANGED <<tab, serverVars, applied, mishaps>>

\* mutant: the number is one too high
ToldNext(n) == [page EXCEPT !.status = [no |-> n, seq |-> n + 1]]

Told(n) == [page EXCEPT !.status = [no |-> n, seq |-> n]]

\* A report that arrives repairs what went wrong with those before it.
OnRunnerUpdate ==
  /\ pushed # <<>> /\ Head(pushed) # 0
  /\ pushed' = Tail(pushed) /\ mishaps' = mishaps \ {"status"}
  /\ page' = Rendered(Told(Head(pushed)))
  /\ UNCHANGED <<tab, serverVars, asks, asked, applied>>

\* Of two reports that are rendered together the first is not seen.
OnRunnerUpdates ==
  /\ Len(pushed) > 1 /\ 0 \notin {pushed[1], pushed[2]}
  /\ pushed' = Tail(Tail(pushed)) /\ mishaps' = mishaps \ {"status"}
  /\ page' = Rendered(Told(pushed[2]))
  /\ UNCHANGED <<tab, serverVars, asks, asked, applied>>

(***************************************************************************)
(* The user.                                                               *)
(***************************************************************************)
\* diskSelectionChanged() with the disk that was clicked
Clicked(d) == {d}
Toggled(p, d) == IF d \in p.targets THEN p.targets \ {d} ELSE p.targets \cup {d}

Select(targets) ==
  /\ page' = Rendered([page EXCEPT !.targets = targets])
  /\ UNCHANGED <<tab, serverVars, pushed, asks, asked, applied, mishaps>>

ToggleRow ==
  \E d \in Selectable(page) : Select(IF tab = "save" THEN Clicked(d) ELSE Toggled(page, d))

\* The header: all disks that can be, if not as many are as can be.
TotalSelectables(p) ==
  LET n == Cardinality(Selectable(p)) IN IF n < MaxSelected THEN n ELSE MaxSelected

ToggleAll ==
  LET n   == TotalSelectables(page)
      all == n > 0 /\ Cardinality(Selected(page)) # n
  IN  Select(IF all THEN Selectable(page) ELSE {})

\* onReset() of the owner, and what follows from it in the table; there is no
\* button for it when image files are managed.
Asked == IF tab = "save" THEN {"disks", "status"} ELSE {"disks"}
Kept == IF tab = "wipe" THEN page.targets ELSE {}

Reset ==
  /\ tab # "sync"
  /\ AskFor(Asked, asks)
  /\ page' = Rendered([page EXCEPT !.resetting = TRUE, !.targets = Kept])
  /\ UNCHANGED <<tab, serverVars, pushed, applied, mishaps>>

Operate(url) ==
  /\ url # {}
  /\ AskFor({"operation"}, asks)
  /\ UNCHANGED <<tab, serverVars, pushed, page, applied, mishaps>>

OnLoad == tab = "load" /\ Operate(RestoringUrl(page))
OnSave == tab = "save" /\ Operate(ImagingUrl(page))
OnWipe == tab = "wipe" /\ Operate(WipeUrl(page))
DeleteImages == tab = "sync" /\ Operate(DeleteImageUrl(page))

OnAbort ==
  /\ Abortable(page)
  /\ AskFor({"operation"}, asks)
  /\ UNCHANGED <<tab, serverVars, pushed, page, applied, mishaps>>

RequestUnmountDisk ==
  /\ Shown(page) # {}
  /\ AskFor({"unmount"}, asks)
  /\ UNCHANGED <<tab, serverVars, pushed, page, applied, mishaps>>
-----------------------------------------------------------------------------
Server ==
  \/ ChangeMachine \/ Scan \/ Report \/ StoreReport \/ Disconnect
  \/ \E r \in asks : Serve(r)
Answers ==
  \E r \in asks : \/ ReceiveDisks(r) \/ ReceiveStatus(r) \/ ReceiveTasks(r)
                  \/ ReceiveOperation(r) \/ ReceiveUnmount(r) \/ AskFails(r)
Events == OnDiskUpdate \/ OnRunnerUpdate \/ OnRunnerUpdates
User ==
  \/ ToggleRow \/ ToggleAll \/ Reset \/ OnAbort \/ RequestUnmountDisk
  \/ OnLoad \/ OnSave \/ OnWipe \/ DeleteImages

Next == Server \/ Answers \/ Events \/ User

Spec == Init /\ [][Next]_vars
-----------------------------------------------------------------------------
(***************************************************************************)
(* Type correctness.                                                       *)
(***************************************************************************)
TypeOK ==
  /\ tab \in Tabs
  /\ {machine, announced} \subseteq [Disks -> {"absent", "free", "mounted"}]
  /\ incidents \in 0 .. MaxEvents
  /\ emitted \in Reports /\ stored \in Reports /\ pushed \in Seq(Reports)
  /\ page \in Page
  /\ asks \subseteq Ask /\ asked \in 3 .. 3 + MaxEvents /\ applied \in 0 .. asked
  /\ mishaps \subseteq {"list", "failed", "status"}

\* Once it is rendered the table marks the targets that the owner has
\* (Disks.tsx:156-178), and none of them is a disk that it shows as mounted.  A
\* target that it does not show is there only while the list is loading
\* (onReset() of the table keeps the targets of the owner), or when it could not
\* be loaded.
TableTellsTargets ==
  /\ Selected(page) = page.targets \cap Shown(page)
  /\ page.targets \cap Shown(page) \subseteq Selectable(page)
  /\ "failed" \notin mishaps /\ ~ page.loading => page.targets \subseteq Shown(page)
  /\ ~ page.resetting

\* When the server has announced how the disks are and nothing is on its way, the
\* table shows them like that (Disks.tsx:133-136), unless an announcement was
\* lost, a request failed, an answer was overtaken, or a change was undone before
\* the server noticed.
ListCatchesUp ==
  /\ machine = announced /\ "list" \notin mishaps
  /\ \A r \in asks : r.kind # "disks"
  /\ \A k \in DOMAIN pushed : pushed[k] # 0
  => /\ Shown(page) = DOMAIN Listed(machine)
     /\ \A d \in Shown(page) : page.rows[d].mounted = Listed(machine)[d].mounted

\* When no report and no answer is on its way, both tables tell of the report
\* that the server sent last: the tasks are from it, and no older report about
\* its disk is in the row of the disk (RunnerProgress.tsx:46-64,
\* Disks.tsx:180-215).  Excepted are a report that was lost, a request that
\* failed, an answer that came after a later report, and an answer that is not
\* noticed because it has no number, like the one before, until the next report
\* arrives, which repairs all of these.
StatusCatchesUp ==
  /\ stored = emitted /\ "status" \notin mishaps
  /\ \A r \in asks : r.kind \notin {"status", "tasks"}
  /\ \A k \in DOMAIN pushed : pushed[k] = 0
  => /\ page.status.no = emitted
     /\ HasTasks => page.tasks = emitted
     /\ emitted # 0 /\ Script[emitted].device \in Shown(page) /\ Script[emitted].timed
        => page.rows[Script[emitted].device].report \in {0, emitted}

=============================================================================
