# A TLA+ model of WCE Triage

WCE Triage inspects a refurbished computer and loads, saves, wipes and copies
its disks.  This directory holds TLA+ specifications of the program, TLC
configurations that check them on small instances, and proofs that TLAPS checks
for every instance.  All line numbers refer to the files under
`src/wce_triage/`, unless another path is given; `*.tsx` are those under
`src/fend/src/components/`.

## 1. The system

A web page (`src/fend`) talks to one server process (`api/`), which keeps the
state of the machine and starts one child process per disk operation (`ops/`).
A child runs a plan of tasks, each of which drives external tools, and prints
one JSON line per report on stdout.  Threads of the server read those lines and
push them to the page over a websocket.  Copying an image to many disks and
wiping many disks use helper programs with threads of their own (`bin/`).

| component | code | state it keeps | operations | talks to |
|---|---|---|---|---|
| Runner engine | `ops/runner.py`, `ops/tasks.py`, `ops/json_ui.py` | state of the run, index of the task; per task: progress, started, done, end time, subprocess | prepare, preflight, run, SIGINT handler; per task setup, poll, teardown | external tools; the server, through reports on stdout and SIGINT |
| Runner plans | `ops/*_runner.py`, `ops/bless.py`, `ops/factors.py` | none once built | `prepare()` of each operation | builds the plan of the engine |
| Image sync | `ops/sync_image_runner.py`, `ops/sync_image_tasks.py` | per target: progress, exit status | poll, parse a report | process driver |
| Partclone tasks | `ops/partclone_tasks.py` | parsed progress | poll | partclone, pigz |
| Process driver | `bin/process_driver.py` | per child: return code, buffers; queue of events; flag that a stop was asked for | start, read, wait, emit, stop | rsync processes; its parent, as NDJSON |
| Multi-disk wipe | `bin/multiwipe.py` | per disk: bytes written, running flag | write, report | its parent, as text |
| Fan-out copy | `bin/fanout_copy.py` | pool of buffers, queue per writer | read, write, stop | child processes |
| Server process runner | `api/internal/*.py` | queue of commands, current job, kill count, two reader threads | queue, dispatch, stop, read | runner processes, server |
| Triage server | `api/server.py`, `api/models.py`, `api/emitter.py`, `api/routers/` | runners by name, models with their last document, sequence number, emitter queue | routes, update, emit | page, process runner, disk portal |
| Log store | `lib/log_store.py` | queue of rows, database, wake and stop events | log, drain, prune, close, query | every thread of the server |
| Pipe reader | `lib/pipereader.py` | partial line | readline | tasks, process driver |
| Disk portal | `components/disk.py` | known disks | detect | server, runners |
| Partition plan | `ops/pplan.py` | none | sizes of partitions | plans |
| Component detection | `components/*.py` | none | parse tool output | server |
| Catalog, configuration | `lib/disk_images.py`, `lib/grub.py`, `lib/netplan.py`, ... | files | read, rewrite | server, tasks |
| Message tab | `Messages.tsx`, `Commands.tsx` | the question on the controls, the rows, which tab is in front | ask, receive rows or a message, sort, filter, turn the page | log store, through routes and the websocket |
| Triage tab | `commands/triage/*` | the table of verdicts, the music button, the CPU rating | fetch, receive an update, play, open the accordion | triage server |
| Disk tabs | `parts/Disks.tsx`, `parts/Mui5Table.tsx`, `parts/RunnerProgress.tsx`, `commands/{load,save,wipe,diskimage}` | targets and last status (owner), rows and flags (table), tasks | fetch, select, reset, start and stop an operation, unmount | triage server, runners |
| Image tree | `commands/diskimage/DiskImageTreeView.tsx`, `DiskImageManagement.tsx` | images, categories, expansion, selection, dialogs | list, select, rename, delete | `api/routers/dispatch.py` |
| Rest of the web page | `src/fend` | settings, lists of choices | render | server |
| Installation, builder | `setup/`, `src/builder` | none | install packages | - |

### What is hard, and what makes each part correct

*Runner engine.*  SIGINT is delivered between any two bytecodes; a task can fail
in setup, in poll, by its exit code or by an exception, and the report about a
task can raise too.  Correct: teardown tasks get their turn, a success is
earned, a failure or a stop reaches the final report, no two tools work on the
disk at once, every run ends.

*Process driver, image sync.*  Per child, three threads (stdout, stderr, exit)
post events to one queue; the parent aggregates them.  Correct: every child's
exit is reported once, after its output; a failed copy makes the task fail; the
task finishes when the driver does; a driver that is asked to stop exits.

*Multi-disk wipe.*  Each wiper publishes a running flag and a byte count that
the reporter reads without a lock.  Correct: a disk is reported as wiped if and
only if all of it was, and the program ends after its last wiper.

*Server process runner.*  The stop request, the dispatch loop and the readers
share the current process and a kill count.  Correct: a stop reaches the job
the user meant, and one job's stop never reaches the next.

*Triage server.*  Runners are created on first use by whichever request comes
first; messages get a sequence number and then enter a queue.  Correct: one
runner per name, the page sees messages in order.

*Log store.*  Writers and `close()` race with the writer thread.  Correct: rows
are stored in the order they were accepted, and those accepted before `close()`
are in the database when it returns.

*Fan-out copy.*  A pool of buffers is shared by one reader and many writers.
Correct: every surviving writer gets every block in order, a dead writer stalls
nobody, success means every byte was written.

*Disk portal.*  A new scan is merged into the old list.  Correct: identity of
known disks is kept, removed disks are dropped.

*The tabs of the web page.*  Two answers overtake each other.  The websocket
pushes news that the answer on its way does not have yet, and pushes nothing
again that was lost.  What a promise or a socket callback sets is rendered later,
so that a handler may compute the next state from one that is out of date.
Targets, selection and progress are kept twice, by an owner and by its table or
tree.  Correct: when nothing is on its way, the page shows what the server has,
answers the question that its controls show, and names to the server what it
shows as selected.

## 2. Plan

The order follows the harm a defect does: first the engine that decides
whether a disk operation succeeded, then the helpers whose results it trusts,
then the server around it, then the page on which the user reads and decides.

| | module | abstract specification | state |
|---|---|---|---|
| 1 | `Runner`, `RunnerProofs` | `RunContract` | checked and proved |
| 2 | `LogStore`, `LogProofs` | `EventLog` | checked and proved |
| 3 | `MultiWipe`, `MultiWipeProofs` | - | checked and proved |
| 4 | `ProcessDriver`, `ProcessDriverProofs` | `DriverStream` | checked and proved |
| 5 | `RsyncTask`, on `DriverStream`; `ImageCopy`, the two with the driver; `ProcessDriverProofs` | `RsyncTask` | checked and proved |
| 6 | `ProcessRunner`, `ProcessRunnerProofs` | - | checked and proved |
| 7 | `Messages`, `LogProofs` | - | checked and proved |
| 8 | `TriageTab`, `TabProofs` | - | checked and proved |
| 9 | `DiskTab`, `DiskTabProofs` | - | checked and proved |
| 10 | `ImageTree`, `ImageTreeProofs` | - | checked and proved |

The next ones in this order would be models of the fan-out copy (reader, writers,
pool of buffers, children that die) and of two scans of the disks at a time, with
the proofs of what they promise.

## 3. The modules and the code

`PROJECT.json` maps each definition to the lines it stands for.  Here is how to
read the state.

**`Runner`** (`ops/runner.py`, the base classes of `ops/tasks.py`,
`_describe_task` of `ops/json_ui.py`).  `state` and `step` are `Runner.state` and
`task_step` (from 1); `progress`, `isStarted`, `isDone`, `hasEnd`, `killed` are
the fields of each task; `proc` is its subprocess.  `pc` is the position in
`run()` and `_run_task()`, cut wherever SIGINT or the exit of a subprocess makes
a difference: the top of the loop, the test of the state, setup, the report after
it, a poll, the verdict, and the two statements that end the run.  `Interrupt` is
`kill_handler`, enabled at each of them.  `Setup(outcome)` takes one of the ways
the `setup()` of the task's class may go (`SetupOf`); an exception at any point
is `Raised`, the `except` block.  The progress is 0, 99 (anything from 1 to 99),
100 or 999, which are the values the loop tells apart.  A report describes every
task, and raises if one of them is `Undescribable`; in `_run_task` that is one
more exception, in `run()` it ends the run (`crashed`).  `PolledProgress` is the
polling of the base classes and of those that add to it: `task_install_grub` gives
up on a process that takes too long and leaves it running (`TimesOut`), the
reports of a wipe overwrite what its process would say (`ReportsDecide`), and
`task_sync_partitions` waits for device files after its exit (`Awaits`).  The
tasks that take their progress from the events of a driver are in `RsyncTask`,
and what a wipe reports is in `MultiWipe`; the partclone tasks are not modelled.

**`RunContract`** is what a user of a run may expect: tasks in order, only
teardown tasks after a fault or a stop, an outcome that fits.  `Contract` in
`Runner` maps `turn` to `step`, `ran` to the history `attempted`, and the outcome
to the last report.

**`LogStore`** (`lib/log_store.py`).  `queue`, `stop` and `db` are `_queue`,
`_stop` and the table; `writer` is the position in `_writer_loop`, `batch` the
local list of `_drain`.  Every statement on shared data is a step of its own, in
particular `_stop.is_set()` and `_queue.empty()`, and the test and the set in
`close()`.  `pages` is sqlite's `page_count`: it grows with the table and never
shrinks, because nothing runs VACUUM.  **`EventLog`** is the reader's view: the
table is a stretch of what was logged.

**`MultiWipe`** (`bin/multiwipe.py`, `task_multiwipe`).  `nWritten` and
`running` are the attributes that wipers and reporter share; `size` and `noted`
are locals between two accesses.  `main`, `launched` and `listed` follow the
main thread, which starts a wiper and appends it to the list one statement
later; `told` is what the signal handler found there, and nobody tells the others
to stop.  `pipe` is its standard error, `seen` and `progress` belong to the task
that reads it.  Its end is not that of the program, which may go on for as long
as there is a wiper.

**`ProcessDriver`** (`bin/process_driver.py`). Per command `reader`, `waiter`
and the way it ended, `code`; `left`, `retcode` and `termReq` are
`_DriverState`, `important`, `latest` and `pending` the emitter's two buffers.
`handler` is the signal handler inside of the main thread: `locked` between the
acquisition of the lock and its release, `stuck` when a second one waits for
the first (`NestedSignal`). The other threads go on then. Joins with a time
limit may end with their thread still running.

**`DriverStream`** is the promise of the driver to its parent, and the driver
as `RsyncTask` sees it.  `ProcessDriver` implements it with the same `phase`,
`out` and `exit`.

**`RsyncTask`** (`task_image_rsync`) is composed with `DriverStream` by
INSTANCE, sharing `out` and `exit`.  A poll is two steps, because the return code
is asked for before the pipe is read and is used after it.

**`ImageCopy`** is the task with the driver that it starts: the variables of both,
of which they share `out`, `exit` and the history `phase`.  A step is one of the
driver (`Copying`) or one of the task (`Tasking`); the task is the parent that
reads the pipe.  Here what the task says can be compared with what the commands
did, and it is shown that the two do what `RsyncTask` says of any driver.

**`ProcessRunner`** (`get_runner()` of `api/server.py`, the routes of
`api/routers/dispatch.py`, `api/internal/process_runner.py`).  A runner has the
name of the request that made it, so that two runners of one kind can exist.
`process` is `self.process`: unset before the first job, `None` between jobs.
`stopper` walks through `stop_runner()` and `terminate()` one read of
`self.process` at a time.  A job is `tidy` (its child prints JSON), `noisy` (not
only JSON), `broken` (an argument is `None`) or `missing` (Popen raises).

**The modules of the page and React.**  A click is rendered before anything else
happens.  What a promise or a socket callback sets is rendered some time later,
together with what else was set until then.  Where a handler reads `this.state` to
compute the next one, the model keeps both, the state rendered last and the
state to come, and `Render` is an action of its own (`Messages`, `TriageTab`).
Where handlers set their state whatever it was before, a handler, the renderings
and the effects that follow are one step (`DiskTab`, `ImageTree`).  An answer is
made in one step, when the server reads its state, and arrives in another, in any
order; a request may fail; a push may be lost.  The `mishaps` (`spoiled`,
`unseen`) of these modules are histories of what the properties make an exception
of, and each is set in the one action where it happens.  They are not for ever:
the answer to the last question, fetch or list, or the next report that is pushed,
clears what it repairs (`Repaired`, `FetchSources`, `OnRunnerUpdate`), so that the
properties say that the page recovers.

**`Messages`** (`Messages.tsx`, `Commands.tsx`).  `query` is what the controls
show (page, order, filters), `grid` and `next` are the rows and their count, as
rendered last and as they will be.  The rows are in three parts, the messages
put above, those of the database and those put below; `asOf` is the length of
the log when the latter were read.  `Entries` is what will be logged, `logged` and
`stored` how much of it was, and is in the database: the lag is the writer's of
`LogStore`.  `HandleMessage` is the
callback of the socket, `Receive` the `then` of the fetch; the other handlers
have the names they have in the code.

**`TriageTab`** (`commands/triage/*`; `Computer.update_decision`,
`overall_changed` and the routes of `api/`).  A list of verdicts has an edition
number that only the model knows, `list` is the one published last, `model` the
one a fetch is answered with; `pushed` are those on the websocket.  `Improve` and
`Worsen` are changes of the overall verdict, after which the list is published.
`update_decision()` also changes a component in place while the overall verdict
stays (`components/computer.py:110-167`); this is not published, and left out here:
the table is compared with the list published last, not with what the server
would answer if it published.  `table` and
`next` are `this.state.triageResult`.  `cpu` is the accordion with `CpuInfo`,
whose effect runs after each rendering; `own` and `strays` are its requests that
have not been answered yet, of the component on the screen and of one that is
gone.  `crashed` is a rendering that raised.

**`DiskTab`** (`parts/Disks.tsx`, `parts/Mui5Table.tsx`,
`parts/RunnerProgress.tsx` and their four owners).  `tab` says which owner it is:
they differ in the choice of targets, in what an operation leaves behind and in
whether there is a table of tasks.  `page` is the state of the three components,
and `Rendered` applies the `componentDidUpdate()` of both tables until there is
nothing left to correct.  `machine` are the disks, `announced` what the
server told of them.  The reports of the runner are a constant, `Script`; a
report that was pushed has a sequence number, one that was asked for has none.

**`ImageTree`** (`DiskImageTreeView.tsx`, `DiskImageManagement.tsx`; the routes
for images of `api/routers/dispatch.py` and `lib/disk_images.py`).  `images` are
the files of the server.  `Listing` is the list made of them, with one image per
filename, the one in the directory that comes last (`Order`), and only of names
that end like those of images (`ImageNames`); renaming and deleting look there.
`DiskImages` is what the page gets: this list, or `listFile`, one that was
generated beforehand and is served as it is.  `tree` is the state of the component; `rename` has
both the state of the dialog and the text in its field, which are not the same
thing; `chosen` and `command` are the owner's.  The effects that depend on
`command` or on the selection are part of the step that changes them.

The `MC` modules give the constants their values and hold nothing else.
Definitions with the comment "mutant" are altered copies of the definition they
precede, used to see that a property notices the alteration.

## 4. The runs

One run answers one question.  A passing run checks a module's type invariant
(that of `ImageCopy` is proved only),
its safety properties and its liveness; the runs whose names end in what goes
wrong (section 6) exhibit a disagreement between the code and its own comments.

| run | instance | distinct states | shows |
|---|---|---|---|
| `runner` | six plans of 3 or 4 tasks, every kind of setup and of polling among them | 35 120 | `EndIsTrue`: a success is earned, a failure or stop reported, teardown attempted; `StartsInOrder`: one tool at a time, no new work after a fault; `AnnouncedAfterExit`; `Termination`; refinement of `RunContract` |
| `log_store` | 2 loggers with 3 rows, the `close()` at exit, room for 2 pages | 122 505 | `RowsKept`: conserved in order, the newest one stays; `CloseFlushes`, `CloseReturns`, `EventuallyStored`; refinement of `EventLog` |
| `multi_wipe` | disks of 2 and 3 sectors, chunks of 2, pipe of 2 reports | 278 835 | `VerdictsAreTrue`: a success is true and every disk is judged; `TaskEnds`; `ProgramEnds`: the program ends too, whatever the task concluded, the stop missed and the pipe holds |
| `process_driver` | 1 command with 2 lines whose threads may raise, or 2 silent ones; 2 signals; pipe of 1 | 449 995 | `DriverStream`; `ParentLearnsAll`: delivery at close, first failure is the return code; `StopIsAnswered`: a driver that is to stop exits, but for a signal in the handler of another (`StopEnds`), and even then tells of every exit (`ExitsAreTold`) |
| `image_copy` | 2 disks, on one of which threads may raise; 1 signal; pipe of 2 events | 1 616 405 | `VerdictIsTrue`: the task is over after its driver, a success is a copy that succeeded, a failure one that failed, and without either all disks have the image; refinement of `RsyncTask` |
| `process_runner` | 2 jobs in 3 mixes of kinds, 2 stops, pipe of 1 line | 549 680 | `OneJobPerRunner`, `ReportsReachModel`, `StopsObeyed`: a stop is not lost, no level of escalation is skipped; `EveryJobRuns` |
| `messages` | 3 rows, 2 of them messages, pages of 2, 3 requests | 2 243 004 | `RowsAnswerQuestion`: the rows answer the question on the controls; `NothingMissing`: no message is missing on the first page; the answer to the next question repairs what went wrong |
| `triage_tab` | 2 components, 2 editions of the list, 2 clicks (fetch again, play, change the font, open the accordion) | 285 478 | `TableCatchesUp`: the table gets to the list that the server published last, again after the next fetch if an update was lost; `RequestsEnd`: the requests for the rating end when the accordion stays closed |
| `disk_tab` | the 4 tabs, 2 disks, 2 reports, 3 more events | 1 208 700 | `TableTellsTargets`: flags of the table and targets of the owner agree; `ListCatchesUp`; `StatusCatchesUp`, again after the next report |
| `image_tree` | 2 images in 2 categories, of which the catalog has one and the other hides its images; with or without a list made beforehand; 6 requests or other events | 1 371 072 | `TreeCatchesUp`: the tree comes back and has the images that the server lists; `OwnerKnowsSelection`: what is sent for syncing is what is checked |

**Why these bounds are enough.**

- *Runner*: a task interacts with others only through the state of the run and
  through the report, which looks at all tasks; plans of four tasks have a
  teardown task before, between and after others, an optional task that skips
  itself with and without a successor, and every kind of setup; two more have a
  task that times out, one whose reports decide, and one that waits after its
  exit, each with a task behind it that must not start too early.  The theorems of
  section 5 then hold for all plans.
- *LogStore*: three rows of two loggers let a batch hold several rows and a row
  arrive at every step of the writer, on either side of `close()`.  Nothing but
  `atexit` calls `close()`, so the run has one closer; the theorems of section 5
  allow for any number.  With `Threshold = 2` pruning happens within three rows.
- *MultiWipe*: a size that is a multiple of the chunk ends a wipe with an empty
  write, one that is not ends with a short one; two disks suffice for "one
  failed, one running" and for a signal between the two starts.
- *ProcessDriver*: two commands are needed for one failure to end another.  The
  race of lines with exits and with the end of the emitter needs one command
  only, and so do threads that raise, as raising is local to a command.  Two
  signals are needed for one that falls into the handler of the other.
- *ImageCopy*: two disks give every order of two verdicts, and one failure that
  ends another copy; a pipe of two events lets a poll read both of them or the
  first.  A line is never a verdict: here the commands are silent.
- *Messages*: three requests give two answers in the wrong order and one more
  question after them; with two messages and pages of two a page runs over, and
  a message is pushed on either side of an answer.
- *TriageTab*: a second edition is needed for an update that overtakes an answer
  or another update, a second fetch for two answers in the wrong order; with two
  clicks each pair meets, such as the music and a fetch that is under way.
- *DiskTab*: two disks tell "the target" from "another one"; with two reports one
  is overtaken by the other, and three more events let a disk go and come back
  between two lists, or an operation start on a list that is being replaced.  A
  failure and a lost push count as events.
- *ImageTree*: two images of different categories are enough for one that takes
  the name of the other, hides it and gives it free again, and for a selection
  that confuses them.  All names of the run end like those of images; what a
  rename to another name does is covered by the theorems.  Six events allow for
  the two first requests, a command to rename, the list after it, and a second
  round or a failure.
- *ProcessRunner*: two requests race for the runner, two stops for the process
  and its counter.  A noisy child prints three lines into a pipe of one, so that
  it blocks when its reader has died.

**Fairness.**  The threads of the program and the loop of the runner make
progress (weak fairness of their steps): the scheduler of the operating system
runs every thread that can run.  Nothing else is assumed to happen, except
where a property needs the outside world, and then it says so:

- in `Runner`, external tools end some day (`ProcessExits`), because a run
  waits for them without a limit, and what a task still waits for after the exit
  of its process is found by a poll in the end (strong fairness of `Settle`, which
  is one alternative of a poll): a pipe whose writer is gone holds finitely many
  reports, and the kernel makes the device files; SIGINT is never owed;
- in `LogStore`, loggers and the call of `close()` are never owed, a `close()`
  that has begun goes on;
- in `MultiWipe`, a poll reads something in the end if the pipe is not empty,
  as `select()` returns at once on a pipe with data; a write ends; a report that
  nobody can read any more raises, because the runner ends some time after its
  task (`Termination` of `Runner`), and its end of the pipe with it;
- in `ProcessDriver`, the parent reads, and the threads of the program go on, also
  those beside a main thread that is stuck; commands need not end, even when they
  were told to, and no thread is owed an exception;
- in `ImageCopy` no liveness is checked;
- in `ProcessRunner`, a child whose pipe has room prints its lines and ends;
- in `TriageTab`, an answer to a request for the CPU rating arrives, if only as an
  error, and what was set is rendered; clicks, fetches of the list and pushes are
  not owed;
- in `Messages`, `DiskTab` and `ImageTree` no liveness is checked: that the page
  catches up is stated of the moments when nothing is on its way.

Deadlock is checked in `Runner`, where `Ended` is the only way to stop.  In the
others the program may rest (an idle runner, a closed log, a finished driver, a
page at which nobody looks), so deadlock is not an error there, and the liveness
properties take its place where there are some.

**Bounds of the models.**  `MaxRows`, `MaxReports`, `MaxOut`, `MaxLines`,
`MaxSignals`, `PipeSize`, and for a session at the page `MaxAsks`, `MaxEditions`,
`MaxClicks`, `MaxEvents` and the lengths of `Entries` and `Script` bound
what would be unbounded; `Pages` and the `...Choices` of `Messages` are what the
user may choose.  `PipeSize`,
`MaxReports` and `MaxOut` stand for the capacity of a pipe, at which a writer
blocks as it does in the program.  `late` in `MultiWipe` counts to 2.

## 5. What is proved

TLAPS checks these for every value of the constants that satisfies the named
assumptions. Every invariant that a passing run checks is among them, and so are
`StartsInOrder` and the four refinements (`KeepsContract`, `KeepsEventLog`,
`ImplementsStream`, `ImplementsTask`). The assumptions say what type a constant
has and that a bound is a number; what else a theorem needs is named with it.

**`RunnerProofs`**, from `PlansAssumption` (plans are sequences of tasks)
alone: type correctness (`TypeCorrect`), `EndIsTrue` (`EndMeansWhatItSays`)
with its parts `SuccessIsEarned`, `FailureIsReported`, `TeardownAttempted` and
`OnlySkippingCrashes`, `AnnouncedAfterExit`, the action property
`StartsInOrder` (`OrderOfStarts`) with its parts `NoOverlap` (`OneProcess`) and
`NoNewWorkAfterFault`, and that `Runner` implements `RunContract`.
`AnnouncedAfterExit` (`ExitBeforeAnnouncement`) says that a task is announced as
over only after its process, for every class of task but two, which it names: one
that timed out, and a wipe, whose reports decide. The
properties are not inductive: that a success is earned, for instance, needs to
be known long before there is a success. `IInv` adds where the main thread can
be in which state (`Control`), that a run still in state `Running` has run all
tasks before the current one (`Turns`), that the state is `Failed` exactly for
a fault or a stop (`Blame`, with the one window of the last assignment), what a
task looks like before, in and after its turn (`TaskFacts`), and what a crash
leaves behind (`Crashed`). One lemma per action; exceptions share a lemma
(`RaisedStep`), as they share the code. The refinement uses `IInv` and maps
every step to a step of the contract or to a stutter. Of `Termination`, what
needs no fairness is proved: `PositionsBounded` and `Forward` (the action
property `OnlyForward`, defined in the proof module) say that the main thread
has a bounded number of positions and that each of its steps, except for a look
at a process that still runs, takes it to a later one, while a stop or an exit
never takes it back.

**`LogProofs`**, about `LogStore` from `MaxRowsAssumption` and
`ThresholdAssumption`: type correctness, `RowsKept` (`RowsStayKept`) with its
parts `Conserved` and `NewestStays`, `CloseFlushes`, and that `LogStore`
implements `EventLog`. `Conserved` is almost inductive by itself;
`CloseFlushes` is not: its proof rests on the order of the writer's two reads
(`CloseInv`: a writer that has seen `stop` and then an empty queue has stored
whatever was promised to anyone who got past the test before), and on the batch
being empty there (`BatchInv`). `NewestStays` needs that pruning never finds a
single row (`PruneInv`).

And about `Messages`, from `EntriesAssumption`, for any log, size of a page,
choice of filters and number of requests: type correctness (`TabTypeCorrect`).
`RowsAnswer` proves `RowsAnswerQuestion`: by `Inv` the latest request is on its
way, or failed, or was answered, and in the last case its answer is on the page
(`LatestIsKnown`, `LatestIsShown`); this needs the numbers of requests to be
ordered like the requests (`AsksAreNumbered`). `NoMessageIsMissing` proves
`NothingMissing`: by `MessageInv` the messages logged after the last one that was
heard, or lost, are on the websocket in their order, whatever went wrong
(`OnTheirWay`), and the earlier ones are on the page or were in the database when
the rows were read (`OnThePage`), unless something has gone wrong since. So the
answer to the next question repairs the page. `AnswersInOrder` is
about the query itself: `Matching` returns exactly the rows that pass, each
once, in the order asked for. The rank of a row, the number of rows up to it,
maps the rows one to one to the places of the answer.

**`MultiWipeProofs`**, from `SectorsAssumption` and `ChunkAssumption`: type
correctness; `Verdicts` proves `VerdictsAreTrue` for raw writes that are not
short (`~ShortWrites`, a hypothesis of the theorem: with short writes the
property is false, see section 6); `Stopping` proves `ListedStop`, defined in
the module and not part of a run: after the signal no wiper begins a write that
was in the list when the signal was handled. One that was not is neither stopped
nor promised to be. A report is read long after it was written, and written from
values that were read before, so `IInv` says what is zero when a wiper counts
(`Sizes`, `Zeros`), that what the reporter noted is no more than was counted
(`Noted`), that a disk reported as wiped, in the pipe or in the task, is wiped
and its wiper will not write again (`Confirmed`), that a round in which nobody
was running leaves a final verdict on each disk that it passed (`Rounds`), and
where the threads may be when the program starts, is stopped and ends (`Phases`,
`Stops`, `Exits`). A verdict is the last report about a disk in a pipe of any
length; that there is a last one (`Greatest`) follows from the order of the
numbers being well founded.

**`ProcessDriverProofs`**, from `BoundsAssumption`, for any finite set of
commands, any lines and any signals: type correctness, `ParentLearns`
(`ParentLearnsAll`) and that the driver implements `DriverStream`
(`Refinement`). An event is queued by a waiter and told by the emitter. `IInv`
says that threads begin together (`Born`), that a start is ahead of all else of
its command in the queue, or was told (`Order`), that the exit of a reaped
command is queued or told and never both (`Exits`), with its true code
(`Truth`), that the last line of an output is the latest, the pending or the one
shown (`LastLine`), what `join` and the closing of the emitter owe (`Ends`), and
that without a signal nothing is terminated before a failure (`Blame`). In the
refinement, a step that tells an event, or ends the driver, is a step of the
stream; all others are stutters.

The same module holds the proofs about the other end of the stream, `RsyncTask`,
as `Task!...`: from no assumption, for any number of disks and any stream that
`DriverStream` allows, type correctness (`RsyncTypeCorrect`) and
`VerdictHasReason` with its parts `NotBeforeDriver`, `NoFalseFailure`,
`SuccessHasReason`. Progress is set from events sent long before; the invariant
`TaskInv` says what an event in the pipe still proves about its disk
(`Truthful`), what a progress proves (`Justified`), and what an exit code says
about all disks (`ExitMeans`). That `poll()` keeps no process that copies to an
unknown disk rests on `Known`: all disks are copied to, or none starts.

And it holds those about the two together, `ImageCopy`: type correctness
(`CopyTypeCorrect`), that they implement `RsyncTask` (`CopyImplementsTask`), and
`VerdictTrue` (`VerdictIsTrue`). `CopyInv` joins `TaskInv` with the `IInv` of the
driver, which holds as long as nobody else writes to its pipe, and with `Asked`:
the return code is 0 until the driver was asked to stop, or asked itself. What
the task concludes from an event is then followed back: the event was in the
pipe, so it was told (`Truthful`); it was told, so its command was reaped
(`ToldReaped`) and had that code (`TrueTold`, `WaiterCode`). That all disks have
the image where nothing failed rests on the exit code: a driver that was not
asked to stop has waited for all commands (`AllGood`), unless it died before it
started one, and then the task has no event to conclude anything from.

**`ProcessRunnerProofs`**, from `MixesAssumption`, `BoundsAssumption` (finitely
many requests to stop) and `NamesAssumption`: type correctness, `OneJob`
(`OneJobPerRunner`), `ReportsReach` (`ReportsReachModel`) and `Stopping`
(`StopsObeyed`). A request, its runner, its child and its reader are four
processes; `IInv` says where a job is between them: routed to a runner that
exists or is about to start (`Routed`), in its queue once and not begun
(`InLine`), in its runner's hand, with the process that the runner keeps
(`Held`), alive or read only while its runner waits for it (`Running`), with
each line shown or in the pipe unless its reader died (`Piped`). Of a stop it
says what runner the request aims at (`Aimed`), and that a runner's count is at
most the number of requests that found a job there (`Counts`), from which it
follows that no job is signalled harder than it was asked to stop.

**`TabProofs`**, about `TriageTab` from `ComponentsAssumption`: type correctness
(`TriageTypeCorrect`) and `VerdictsShown` (`TableCatchesUp`). `TableInv` says
that whatever is stored, answered or pushed was published (`Editions`), that the
page was told of the last list or is about to be (`WillHear`), that the last
request is answered or on its way (`WillAnswer`), and that after both the table
has the rows of the server, that of the sound perhaps ahead (`HasCaughtUp`). What
the page will hear is known whatever went wrong before, which is why the answer
to the last fetch repairs it.

**`DiskTabProofs`**, from `DiskTabAssumption`, for any disks, machines, script
of reports and tab: type correctness, `TargetsShown` (`TableTellsTargets`),
`ListShown` (`ListCatchesUp`) and `StatusShown` (`StatusCatchesUp`). A step of
the tab is a handler followed by renderings, each with its calls of
`componentDidUpdate()`, until nothing changes. The lemma `RenderedPage` says of
any page what they make of it, and that after the three of the model there is
nothing more to change; the proofs of the invariants rest on it. The table marks
what its owner has as targets, none of them mounted, and no reset is left half
done (`TargetsTold`). For the list, the request that was sent last will bring
the disks as they are, or has brought them (`ListInv`). For the status, nobody
knows of a report that was not sent, the events on their way are in order and
later than what is shown, both tables have looked at the same report, and the
last one is on its way, whatever went wrong before, or it is shown (`StatusInv`).

**`ImageTreeProofs`**, from `ImageTreeAssumption`, for any names, categories,
images, order of the directories and list made beforehand. `TypeCorrect` (the
numbers of requests stay in their range because every action that sends one
tests `Room`, the bound of the model); `SelectionIsKnown` proves
`OwnerKnowsSelection` (owner and tree are set by the same effect, and until the
list is asked for again only names of the first list are selected);
`TreeIsCurrent` proves `TreeCatchesUp`, where the images are those that the
server lists, with `TreeInv`, which says at each moment what brings the tree
back (`Awaited`: while a list is loading, its request is on its way) and which
request brings the last list, or was the last to do so (`LastList`).

**Only model-checked.**

- Liveness (`Termination`, `EventuallyStored`, `CloseReturns`, `TaskEnds`,
  `ProgramEnds`, `StopIsAnswered`, `EveryJobRuns`, `RequestsEnd`): fairness and
  ENABLED are out of this prover's reach.
- `VerdictsAreTrue` is neither proved nor checked for short writes, for which it
  does not hold.
- The two properties that the code violates (section 6) are what the runs with a
  counterexample show.

## 6. Where the code and its comments disagree

### Shown by a run

- `runner_silent_setup`: a `setup()` that fails by setting its progress to 999
  (`ops/tasks.py:97`, 655, 742) never enters the loop that notices failures, and
  the run ends as a success; `ops/tasks.py:1816` says it would fail the run.
- `multi_wipe_race`: a wiper clears `running` before it counts its last write,
  and the reporter reads the two in the same order, so that a wiped disk may be
  reported as failed, and its task fails (`bin/multiwipe.py:69`, 115).

### Seen while modelling: the programs and the server

The models have these steps, but no run is devoted to them.

- The size cap of the log compares with `page_count`, which never falls, so that
  once the threshold was reached every batch deletes a fifth of the rows, however
  few there are (`lib/log_store.py:186` against 193 and 38).
- The signal handler of the driver takes a lock that is not reentrant; a second
  signal inside of it blocks the main thread for ever, and the driver does not
  exit (`bin/process_driver.py:192`, 280; `NestedSignal`).  `StopEnds` makes this
  one exception, and `ExitsAreTold` says what still works.
- `task_install_grub` times out: an estimate above 99 is taken for 999
  (`ops/tasks.py:368`, 1436), the failure is announced, and the process is left
  running while the teardown tasks have their turn.  The comment at 1434 speaks of
  twice the estimate, the code of ten times.
- `op_task_wipe_disk` takes its progress from the reports of the program.  When all
  disks are reported, or one is reported as failed, the task is over with the
  program running; it may still write to the other disks (`ops/tasks.py:2096`)
  while the task after it, a teardown task if a disk has failed, has its turn.
- A SIGINT during the launch of the wipers stops those that are in the list; the
  others wipe their disks to the end (`bin/multiwipe.py:22`, 207-219).
- Of the reports of one poll the last one counts, so that the failure of one copy
  is overwritten by the success of another and the task succeeds
  (`ops/sync_image_tasks.py:502` against 382).
- Two first requests of a kind make a runner each, and two commands of the kind
  run at once (`api/server.py:275` against `api/internal/load_command.py:21`).
- A SIGINT between the test and the assignment at the end of `run()` is
  overwritten with `Success` (`ops/runner.py:152`; `Promote`).
- A task that skips itself (`_noop`, `ops/tasks.py:151`) has no end time, and
  the next report subtracts `None` from a time (`ops/json_ui.py:28`); the
  exception fails that task, and the report after it ends the runner, with the
  later tasks, teardown or not, without a turn (`OnlySkippingCrashes`, a part of `EndIsTrue`).
- A teardown task that runs in a failed run is polled like any other, so its
  process gets SIGINT in its first poll (`ops/tasks.py:315`).
- After a task has raised, its process is left running, and the run goes on
  (`ops/runner.py:137`); `AnnouncedAfterExit` and `NoOverlap`, a part of
  `StartsInOrder`, make an exception of it.
- The count that a raw write returns is not looked at (`bin/multiwipe.py:72`):
  with `ShortWrites = TRUE` in `MultiWipe.cfg`, `VerdictsAreTrue` fails.
- A line may be emitted after the exit of its command
  (`bin/process_driver.py:133`).  `task_image_rsync` then takes the line for the
  last report, the progress stays at 50 or 99 with the driver gone, and the task is
  polled for ever (`ops/sync_image_tasks.py:385`).
- One disk that has the image replaces the command line of all
  (`ops/sync_image_tasks.py:364`): the others are not copied to, and the task
  succeeds.
- A stop reads `self.process` four times (`api/internal/process_runner.py:146`):
  the signal may go to the job after the one it was meant for, and raise when
  there is none.  The number of stops is never set back, so that a first stop of a
  later job may be SIGTERM or SIGKILL.
- A job with `None` among its arguments ends the runner thread, and jobs queued
  behind it wait for ever; a line that is not JSON ends the reader of standard
  output, and a child that fills the pipe then never ends (`EveryJobRuns`
  names both).
- `api/routers/dispatch.py:129` and 364 define the route `/save/stop` twice; the
  first one, which passes a string to `get_runner()`, is the one that is served.
  (Routing is not modelled: the `stopper` of `ProcessRunner` is `stop_runner()`.)

### Seen while modelling: the web page

*Messages* (`Messages.tsx`).

- Pushed messages make the page longer than its size (comment at 116-119).
- With the oldest rows first, a new message is appended to the oldest page
  (comment at 162-164), where it is out of place unless that is the last page.
- A message that the rows of the database have already is shown and counted twice.
- An answer that waits to be rendered is thrown away when a message arrives (176),
  as the message is put on the rows that were rendered before.
- While the panel for a column filter is open without a value, messages are not
  shown.

*Triage* (`commands/triage/Triage.tsx`).

- An answer without `cpu_info`, such as the JSON of a 503, is taken for one (50-71);
  the next rendering raises and the page is gone, where the text at 57-59 was
  meant (`crashed`).
- An update that arrives before the first list is thrown away; the music button,
  pressed before an update is rendered, overwrites the update (206).

*Disks* (`parts/Disks.tsx`, `parts/RunnerProgress.tsx`).

- A change of the disks that is undone before the server notices is never
  announced, although a page may have fetched the list in between.
- If the list cannot be fetched, the targets of the owner stay selected over a
  table without rows.
- Of two statuses that were fetched, which have no sequence number, the tasks of
  the second are not shown (`RunnerProgress.tsx:51`); a fetched one that comes late
  replaces a newer one that was pushed.
- "Select all" ignores the limit of one target of the Save tab (comment at
  `Disks.tsx:26`).
- `isLoading` is passed to `Mui5Table`, which ignores it; rows that a reset has
  emptied come back when flags are corrected.

*Image tree* (`DiskImageTreeView.tsx`).

- The dialog to rename shows the current name of its image, but keeps the name
  typed for the image before (231-275); "Rename" then sends that one, and the server
  replaces an existing image of that name (`os.rename`).
- A deletion that succeeds is answered with 204 and no body; the page takes it for
  a failure and does not fetch the list.  A deletion or renaming that fails with
  a JSON answer is taken for a success.
- A list of images that cannot be fetched leaves the tree hidden for good, as its
  fetch has no `catch`; the exception of `TreeCatchesUp`.  A command of the menu
  that is given while a list is loading waits for it.
- Images are selected by name, and the name stays selected when its image is gone.
  "Select all" selects the images of categories that are not shown.
- Images are listed one per filename, as the docstring says
  (`lib/disk_images.py:114`), but shown by category and renamed within one: an image
  that is renamed to a name of another category hides that image or is hidden by
  it, and a hidden one can be neither renamed (which is answered as a success) nor
  deleted.
- A list that was generated beforehand is served as it is
  (`api/routers/dispatch.py:201`), and does not change when an image is renamed or
  deleted.
- "Delete" is disabled until something was typed into a field that is not needed.
- The `finally` of a request closes whichever dialog was opened since.

## 7. What is not modelled

- The partclone tasks (parsing of progress; the runner has them as process
  tasks), and the tasks of the image sync that delete old images and write
  metadata.
- The fan-out copy.
- Two threads of the server that take sequence numbers at the same time, and two
  scans of the disks at the same time: `DiskTab` and `TriageTab` have one
  publisher each.
- The partition plan and the plans of the runners: sequential arithmetic and
  construction of lists; the plans of `Runner` are a constant.
- Component detection, catalogs and configuration files: sequential parsing
  and rewriting of files, without state that is shared or persists.
- Of the web page: the forms of the disk tabs (any of them may be filled in), the
  panels with details, the lists of catalogs and wipe options, settings, the
  buttons to reboot, to power off and to test the optical drive, the popup menu
  of an image, boxes with error messages.
- The pipe reader, a line buffer; the installation and the builder scripts, which
  are run once by hand.
- In the modelled parts: time estimates, messages, the text of reports, the wake
  events that only shorten a wait (of the log store and of the emitter), standard
  error of a runner's child, whose reader cannot fail, and exhaustion of memory
  or threads.
