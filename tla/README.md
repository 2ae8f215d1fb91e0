# PrintHive in TLA+

PrintHive drives a farm of 3D printers: a FastAPI backend (one process, one
asyncio event loop, one SQLite or PostgreSQL database) that keeps a queue of
prints, uploads files to printers, watches what they do over MQTT, relays their
cameras and accounts for material and money; a React frontend talks to it. This
directory models the parts in which the order of events decides whether the
program is right: the dispatch of prints, the cameras, background slicing as a
browser page follows it, slicer pipelines, and the budget of a cost center. TLC
checks small instances, TLAPS proves their safety properties for all of them.

Paths below are relative to `src/backend/app` unless they start with `src/`.

## 1. Inventory

### Components, their state and how they meet

| Component | State | Operations | Meets |
|---|---|---|---|
| Scheduler loop, `services/print_scheduler.py` | `_inflight` (upload tasks), `_dispatch_holds`, `_terminal_since`; the `print_queue` table | one pass at a time: release orphaned claims, close stranded rows, select rows, launch uploads | reads the state the printer manager keeps, writes rows |
| Upload task, same file | its ORM copy of the row | claim, recheck, upload, compare-and-set to `printing`, send, release the claim | FTP, MQTT client, watchdog |
| Start watchdog, same file | one coroutine per sent command | wait for the print to begin, else requeue or fail the row | hold, row, MQTT session |
| Queue routes, `api/routes/print_queue.py` | none of their own | enqueue, cancel, delete, edit, bulk edit, start, stop, resume | write rows at any time |
| Completion callback, `main.py` | `_user_stopped_printers`, expected prints | raise the plate gate, close the row, archive, bill, notify | called by the MQTT client for a printer's events |
| Printer link, `services/bambu_mqtt.py`, `printer_manager.py` | last report of each printer, connection, plate-clear flag (persisted) | connect, parse reports, detect start and end | calls back into `main.py` |
| Camera fan-out, `services/camera_fanout.py` | registry of broadcasters, subscribers, queues, tasks | subscribe, unsubscribe, pump, grace, stop | camera routes, one socket per printer |
| Finance, `services/finance_*.py` | budget reservations, the ledger | validate, reserve, release, charge | routes, upload task, watchdog, completion |
| Batches, `services/print_batch.py` | an order and its rows | expand, pause, cancel | routes |
| Slice jobs, `services/slice_dispatch.py`, `api/routes/slice_jobs.py` | in-memory job table, its counter | enqueue, run, sweep, poll | slicer sidecar, slice job tracker, pipelines |
| Slice job tracker, `src/frontend/src/contexts/SliceJobTrackerContext.tsx` | tracked jobs (state and refs), toasts, a modal | track, poll, complete, tick | polls slice jobs, shows toasts |
| Slicer pipelines, `api/routes/pipeline_runs.py` | a row per run and per copy; a background task per run | run, cancel, retry, clear, report | slice jobs run the task, which inserts queue rows; reports read the queue rows' status |
| Smart plugs, `services/smart_plug_manager.py` | pending power-offs | schedule, cancel, fire | completion, stop, print start |
| Non-Bambu printers, `services/elegoo_client.py`, `flashforge_client.py`, `printer_state_machine.py` | a state machine per printer | start and end detection | completion callback |
| Usage tracking, `services/usage_tracker.py`, `spoolman_tracking.py` | sessions per print | deduct filament at the end or on a stop | completion |
| Timelapse and failure detection, `services/layer_timelapse.py`, `obico_*.py` | a session per printer | frame per layer, pause on a detected failure | start, layer and end events |
| Library, archive, inventory, auth, notifications, virtual printer, backup, update | tables and files | mostly single-transaction CRUD or plain I/O | |

Everything in the process runs on one event loop, so a step is what a
coroutine does between two suspension points. The hard part is what lies
between the steps: a row read before an upload of minutes and written after it,
a decision taken from a snapshot, a callback that arrives when the world has
moved on, a crash that kills every coroutine but leaves the table, a printer
that never says whether it took a command.

### What makes each component correct

* Dispatch: a printer has one job at a time, a copy is printed at most once, a
  cancel is final and stops the command, a row is in the hands of one coroutine,
  retries end, nothing is stuck, a plate is cleared before the next print, a
  row is closed by its own completion.
* Camera: a printer's camera sees one socket, nobody who watches is cut off by
  somebody who leaves, nobody waits for a stream that is gone, an upstream
  nobody watches is released.
* Finance: what is charged and held for prints under way never exceeds the
  budget, no print runs without its hold, every hold is consumed or released.
* Pipelines: a cancel keeps copies out of the queue, what is reported as under
  way is under way, every run ends.
* Batches: the counters of an order agree with its rows.
* Slice jobs and their tracker: the user is told every end, once and truly, and
  no spinner is left behind. Smart plugs: power is never cut under a print.
* State machine of the other printers: one start and one end event per print.

The hazards, each at its line, are in `PROJECT.json`.

## 2. Modules

| Module | What it is |
|---|---|
| `DispatchQueue` | rows, scheduler loop, upload tasks, watchdogs, sweep, routes, completion callback, printers |
| `JobBoard` | what the dispatch path promises, without how: submit, assign, begin, return, close, reopen |
| `DispatchBoard` | the queue seen as a board: the refinement mapping from `DispatchQueue` to `JobBoard` |
| `MCDispatchQueue` | model values and symmetry for its runs |
| `DispatchQueueProofs`, `JobBoardProofs` | their theorems |
| `ExclusionProofs` | two more theorems of the queue: a claim pins its printer, a printer has one row |
| `PrinterProofs` | what the printers are made to do: nothing twice, no collision, clear plates, honest completions, final cancels, and the refinement of `JobBoard` |
| `CameraFanout` | broadcasters of one printer, their registry, their viewers, `/camera/stop` |
| `MCCameraFanout`, `CameraFanoutProofs` | model values, and its theorems |
| `SliceTracker`, `SliceTrackerProofs` | the backend's table of slice jobs and the tracker of one browser page that polls it |
| `PipelineRuns`, `PipelineRunsProofs` | pipeline runs: routes, background task, the queue entries of the copies, what is reported |
| `BudgetHold`, `BudgetHoldProofs` | the budget of one cost center: checks, holds and charges along the life of queue rows |

### How `DispatchQueue` corresponds to the code

A row is `[status, printer, claimed, attempts, staged]`: the columns `status`,
`printer_id` (`NoPrinter` is NULL, a row for any printer of a model),
`dispatching_at IS NOT NULL`, `dispatch_attempts`, and `manual_start`. Every
database transaction is one step. The engine keeps objects alive over a commit
(`expire_on_commit=False`), so a handler that awaits in the middle is several
steps and its last write is unconditional: the operators `Blind` and `Write` are
those writes, and a compare-and-set in the code is a guard in the model.

The routes read a row, check it, and write it later without looking again. A
request that nothing came between is one step (`Cancel`, `Delete`, `Edit`); one
that something did come between is a `Check`, which is remembered in `stale`, and
a write whatever the row has become: `LateCancel` and `LateDelete` (a row marked,
sent or closed meanwhile is cancelled or deleted all the same, as
`cancel_queue_item`, `cancel_batch` and `delete_queue_item` do), and `BulkWrite`.
`PATCH /{id}` looks at the claim once more just before its commit
(`print_queue.py:2085-2094`); past that look it is a bulk edit of one row.

* The loop of `PrintScheduler.run` is `pass.pc`: `boot`, `sweep`
  (`ClearStaleClaims`), `close` (`CloseStranded`), `read` and `pools` (the two
  halves of the busy set, with an await between them), `scan` (one action per
  row and outcome), then `LaunchUploads`. The scan order is any order: shortest
  job first, positions and the jump guard only choose one. The many reasons to
  hold a row back are one action, `HoldItem`, because each only drops the row
  from this pass, with or without its printer.
* An upload task is `task[i].pc`: `launched`, `claimed`, `upload`, `send`,
  `refused`, `finish`. `slot` is the printer the pass chose for it (what the
  pool reports), `on` is the printer it read when it claimed the row (what it
  uploads to): the difference is a hazard.
* A watchdog is `watch[i]`, phase A until the command lands, B until it begins.
* `machine` is what the printer really does; `seen` and `online` are what the
  backend knows. Nothing in the backend's actions reads `machine` except where
  a named timing assumption says that enough time has passed to know.
* `on_print_complete` is two steps, `RaiseGate` and `CloseRow`, far apart in the
  code, with an `ending` record for the event on its way between them.
* A restart forgets tasks, watchdogs, holds and the pass, keeps the table and
  the plate gate, and runs the reconciliation of missed completions.

`Requests` and `Faults` switch what users and the environment may do, so that
each run says exactly under which of them it holds.

### How `CameraFanout` corresponds to the code

Both locks of the module guard sections without an await, so an acquire never
suspends, and `get_or_create_broadcaster` followed by `subscribe` is one step.
(The route's retry on `RuntimeError` is therefore never taken.) Broadcasters
are numbered in the order they are made. `pump[b]` is `new` (a task that has not
run), `wait` (for the predecessor), `live` (dialing or streaming), `closing`
(the generator's own cleanup, where the socket is still open), `done`.
`teardown[b]` is `_stopped` and `_teardown_complete`. A viewer is the queue it
reads and whether its client has left; it is counted until its generator gets to
run, as in the code. A cancelled pump that never dialed ends at once, one that
streams goes through `closing`, and one that is cancelled again while it is
closing ends at once as well: the second cancellation breaks off
`await writer.wait_closed()`, so the broadcaster counts as torn down while its
socket is in `lingering`, until `SocketCloses`. A `/camera/stop` is `StopRequest`,
which stops the broadcaster, and, when that one is closed, `KillStreams`, which
ends every stream of the printer there is by then.

### How `SliceTracker` corresponds to the code

The backend's half is `table` (`_jobs`, by the request whose job it is), `nextId`
and `ticket`, the number each request was answered with; `Restart` empties the
table and numbers from 1 again, as `__init__` does. A job has ended when
`_run_job` returns; the sweep of finished jobs is part of the enqueue that runs
it. The frontend's half follows React: `listed` is what the updater functions
given to `setActiveJobs` have made of the list, `active` what was last rendered
(which is what `activeJobsRef` and the effects see), and `Render` takes one to
the other. A round of polls is a record: the job asked about, the answer, the
jobs left, and whether the effect that began it was cleaned up, which happens
when the length of the list changes. So rounds of two effects overlap as they do
in the page. A 404 and a network error are the same to the code, one `catch`.
The name of what is sliced stands for the request: it is what toast and modal
show, and what would be wrong if a number were answered with another job.

### How `PipelineRuns` corresponds to the code

`run`, `job` and `entry` are the three tables (a copy's job names its entry or
does not; a deleted entry leaves the name dangling, because SQLite runs here
without foreign keys), `task` is where `_orchestrate` stands, `asked` a cancel
request between its read and its first write. With SQLite in WAL mode a
transaction that has written excludes other writers until its commit; so the
inserts, the final cancellation check and the commit of a dispatch are one step
(`Dispatch`), a cancel's writes are one step (`CancelWrite`), and what was read
before is a step of its own. `Computed`, `JobStatus` and `RunStatus` are
`_compute_job_status`, the deleted-entry rule of `_materialise_run` and
`_roll_up_run_status`: the reported status is never stored, the properties are
about it. The queue is module `DispatchQueue` reduced to an entry's status:
taken up, handed back by the watchdog, ended, cancelled or deleted there.

A task is at work (`AtWork`), done, or cut short (`CutShort`): `dead` if a restart
took it, `lost` if it ended without a word about its run. It does so where the
pipeline's row is gone (`StartTask`, `pipeline_runs.py:485-487`) and where it
raises outside the slice's own `try` (`TaskRaises`: the launch, the source file, a
query, the assertion on the target, a refused flush or commit), at any point; its
transaction is undone and the run stays as it was.

### How `BudgetHold` corresponds to the code

A row is its status, its `estimated_cost`, the active reservation it holds
(`hold`, 0 for none), the place of its request or upload task, its print, and its
charge. `validate_print_budget` counts, for every other row, what is in the
ledger, plus its estimate if it is open and has no reservation, plus its
reservation. Those are three statements and on SQLite, where `FOR UPDATE` is
nothing, anybody may write between them, so they are three steps: `ReadSpend`,
`ReadQueue`, and `Weigh`, which reads the reservations and decides. What a check
has counted so far is `seen`. The write that relies on it is a step more: `Insert`
of the route, `Authorize` of the upload task. Only where the task's estimate
differs from the row's does the write of the new estimate come first and start
the transaction, so that check and hold are one step (`Reestimate`, `Fits`).

Cancel and delete read the status (`Withdraw`) and later write and release by the
row's id, whatever the row is by then (`TakeBack`), so the mark of an upload task
can fall in between. `Close` is the release in the task's `finally`, which an
accepted command disarms (`Send`). The watchdog's three ends (requeue, give up,
rejected) are `NeverBegins`.

A print's completion closes the row (`EndPrint`) and charges later in the same
callback (`Charge`), with everything between them free to interleave. The
callback may refuse the row by its name (fault `misnamed`), in which case the
charge ends the archive's hold if there is an archive and nothing otherwise; the
end may never be reported (`MissEnd`, fault `missed`); or the print is stopped
on a printer that is off (`Stop`, fault `offline`). Rows that stay `printing`
after that are closed by the sweep, `CloseStranded`, which neither charges nor
releases.

Two variables name exceptions at the step that makes them. `lost`: rows whose hold
nothing will end, because a release was refused three times, a stop came before
the print began or while the printer was off, the printer rejected the command,
the completion was missed or refused, the charge failed or had nobody to bill, or
the backend restarted. `uncovered`: rows whose hold a cancel or delete took while
their command or print was under way or their row waited again, and rows that
were charged while some check was between its reads, which a check may have
counted in neither the ledger nor the holds.

The three modules share no variable with `DispatchQueue`: each sees the rows of
the queue as far as its own question goes, so that it can be checked with every
interleaving of its own. What they assume of the queue is what `DispatchQueue`
shows: one task per row, a compare-and-set before the command, retries that end.

## 3. Runs

| Run | Instance | Shows |
|---|---|---|
| `Dispatch_faults` | 1 row, 1 printer, every request, every fault | types, `OneActor`, `AttemptsBounded`, `SendingIsLive`: the inductive invariant, on everything one row can go through |
| `Dispatch_contention` | 2 rows, 2 printers, 2 uploads at a time; late cancels, stops (in the middle of a send too), edits; commands lost, refused, completions misnamed | one row per printer, no second print, no invented completion, claims pin the printer, completions close their own row, a command goes only to a row marked printing and only such a request takes the mark |
| `Dispatch_board` | 2 rows, 2 printers, 1 upload at a time, plate gate on; cancel, edit, delete; crash, lost, rejected, refused | the dispatch path implements `JobBoard`; cancels are final; nothing is sent to a printer that holds a job or to an uncleared plate |
| `Dispatch_recovery` | 1 row, 1 printer, fair; stop; crash, offline, lost, misnamed, refused writes | claims are released, printing ends |
| `Camera_viewers` | 2 viewers, 3 broadcasters, queues of 2, fair; slow closes, upstream ends, shutdown | the six camera properties |
| `Slice_tracking` | 2 slices, 1 restart, fair; aged-out jobs, failing polls, reloads | the user is told once, truly and in the end; spinners match jobs |
| `Pipeline_runs` | 2 runs (also one as a retry of the other) of up to 2 copies, fair; cancel, retry, clear, dequeue, delete; failing slices, raising tasks, missing pipelines, requeues, restart | cancels stick, what is under way moves, runs end |
| `Budget_holds` | 2 rows, a budget of 3, costs of 1 and 2, one cancel or delete under way at a time, fair; refused writes, uncharged prints, rejected commands, ends misnamed or missed, printers off, restart | the budget is kept, prints are held, holds are owned and end |
| `Finding_*` | the smallest instance | a statement of the code's own comments that does not hold (section 6) |

**Bounds and why they are enough.** Two rows and two printers give every pair:
two rows for one printer, one row between two printers, a row for a chosen
printer beside a model-based one. `MaxAttempts = 2` lets a row be requeued once
and give up once (the code has 3). `UploadLimit` is 1 in one run and 2 in
another: a pool with and without room. `prints` saturates at 2, which is where
`AtMostOncePrint` is already broken. Three broadcasters are the least in which
one is stopped while it waits for another and a third one follows. The queue
size is 2 where the code has 4, so a slow viewer's full queue, which loses the
end marker, is reached quickly; `Finding_second_socket` uses 4. Deadlock is
checked everywhere except for the camera, whose instance ends when it has used
up its broadcasters, and for the three modules whose requests are finite in
number and which stop when all is done.

Two slices are what an overlap needs: one ends, the list gets shorter, and the
round of the old effect still waits for the other. One restart suffices to lose
a number and to reissue it. Two runs make a retry of a run possible and two
copies every mixture the roll-up distinguishes (all, some, none). A budget of 3
with costs of 1 and 2 has pairs of rows that fit exactly, with room, and not at
all (2 and 2), and lets the amount between a check and its hold be the
whole of what is free. `MaxTold = 1` lets one cancel or delete be between its read
and its write, which is what it takes to have the mark, the send, the end or a
restart of the same row in between; the theorems hold for every such bound. `RunsEnd` and `HoldsEnd` are checked with restarts
unbounded in number.

**What a run leaves out.** Some environments break a property of the code; they are
excluded by name, and each is reproduced by changing the instance as follows
(without the symmetry; where several properties stand, one at a time):

| Add | to | and this fails | because |
|---|---|---|---|
| `editMidPass` | contention | `OneRowPerPrinter` | an edit between selection and claim (`print_scheduler.py:1880`) sends the row to a printer the pass did not reserve; `main.py:6779` logs the outcome as a bug |
| `crash` | contention | `CompletedWasPrinted` | a row marked but never sent is closed by the sweep with the printer's previous FINISH |
| `clearFail` | contention | `CompletedWasPrinted` | the same: a failing write leaves the row marked, with no command behind it |
| `late` | contention | `AtMostOncePrint` | a printer slower than the watchdog begins a row that was requeued |
| `offline` | contention | `AtMostOncePrint` | the watchdog of a printer that dropped its connection requeues a row that is printing (`Finding_offline_revert`) |
| `uploadFail`, `budget` or `unmappable` | board | `CancelIsFinal` | three failing ends that write without looking (section 6) |
| `stopMidSend` | board | `PlateIsClear`, `ImplementsBoard` | the printer has a job whose row is cancelled |
| `cancelLate` or `deleteLate` | board | `ImplementsBoard`, `PlateIsClear`, `NoCollision` | a cancel or delete that read the row before the mark writes after it (`print_queue.py:2261-2276`, `2123-2151`): the command goes out for a row that is cancelled or gone, and the printer has a job nobody is assigned to |
| `cancelLate` | board | `CancelIsFinal` | the same, and the refusal of the command writes `pending` over the cancellation |
| `late` | contention | `OnlyLiveRowsAreSent` | the end of the first print closes the row whose second is being sent |
| `stop` and a third row | board, with one printer and the gate off | `NoCollision` | holds are dropped by printer id (`print_scheduler.py:3990`): a lost command's row is stopped, the printer goes to a second row, the first row's watchdog runs out and drops the second one's hold; the second print begins and is stopped before its start is heard, and a third row is sent while the printer still has that job |
| `Batch = {i1, i2}` | contention | `CompletionIsOwn`, `OnlyLiveRowsAreSent`, `CompletedWasPrinted` | copies of a file share the name that completions are compared by: the end of a stopped copy closes the next one, before it is sent or before it begins |
| `stop` | board | `PlateIsClear` | a stop frees the printer's row at once, so the next row can be selected before the stopped print's completion raises the gate, and its own upload then lowers it (or the print was stopped before its start was heard, and nothing raises the gate) |
| `Gated = {i1, i2}` | board | `CancelIsFinal` | the pass writes `skipped` over a cancel, as the upload's failure branch does (section 6) |
| `cancelEarly` | pipelines | `CancelSticks` | a cancel between the task's first read and its write of `slicing` (`pipeline_runs.py:495-501`, two statements apart) is overwritten, and the copies are queued |

### Timing assumptions

The code relies on durations; each is one definition or one guard with its
comment.

* `LongTerminal`: the sweep acts 300 s after the start and 300 s into a terminal
  state, later than the watchdog (90 s + 180 s) and any completion on its way.
* `MayLapse`: a dispatch hold lapses after 60 s if the printer has moved on and
  after 180 s otherwise, by which time a printer has begun or never will, unless
  the fault `late` is on.
* `EndWatch` does not fall between the two reads of a pass: they are one query
  apart, a watchdog's first poll is three seconds after the command.
* `EndPrint`: a print lasts longer than one poll of the watchdog.
* `Reconnect`: the first report after a reconnect comes sooner than an upload
  ends.
* `Restart`: every printer is reachable when the backend starts.
* One completion callback per printer at a time.
* `SliceTracker.Restart`: a restart of the backend takes longer than a page takes
  to render.
* `BudgetHold.NeverBegins`: a print that has not begun when the watchdog runs out
  does not begin later.

### Simplifications of the budget

One cost center with one limit, whole amounts, one row per request. A print is
charged at most the estimate of its hold: the clamp in
`_calculate_partial_charge`, under the assumption that billing and hold use the
same estimate. A row has one cancel or delete under way at a time; the two looks a
request takes at it (permission, then status) are one, since only what the second
saw is acted on. What a cancel or delete does at its commit is one step. The
charge of a row and of its archive are one ledger entry. The reasons for which a print is not charged at all (nobody to
charge, no cost, skipped) are one fault, `uncharged`. Edits, bulk edits and
starts of a staged row, which validate once more without excluding the row's own
reservation, are left out, and so are two rows that share one archive (a release
by archive ends both holds). A pipeline's queue rows name no cost center; with
billing on they are refused when they are dispatched.

## 4. Fairness

`FairSpec` of the queue: weak fairness for the loop, every upload task and
every callback (they are coroutines the loop resumes, with timeouts on all their
I/O) and for a reconnect and for a printer beginning what it has accepted.
Strong fairness for the watchdog, the sweep's closing of one row, hearing a
printer, and a print's end, because a flapping connection disables and enables
them again; and for a claim-releasing sweep whose write succeeds, because a
database is not unreachable for ever. Users owe nothing. The two liveness
properties are promised of a backend that is not restarted for ever and printers
that do not drop out for ever (`OutagesEnd`): a restart loop defeats every timer
of the code.

`FairSpec` of the camera: weak fairness for the pump's steps, frames, closes,
grace timers, and viewers that have something to read or are to leave; none for a
lingering socket, which nothing waits for. A dialed
camera sends a frame or its 30 s read timeout ends the stream; a close ends
within the limits of the operating system.

`FairSpec` of the slice tracker: the interval fires, React renders, answers are
handled, requests are answered or fail (weak), and a job that is asked about
again and again gets an answer at last (strong: a network that always fails
announces nothing). A slice itself owes nothing, it may run for ever.

`FairSpec` of the pipelines: weak fairness for the tasks, for a cancel that has
begun and for the queue's taking up an entry; strong fairness for a print's end,
because the watchdog may hand an entry back, a bounded number of times
(`AttemptsBounded` of the queue); exceptions owe nothing. `FairSpec` of the budget: weak fairness for the
requests' and upload tasks' steps and for prints, their ends, their charges and the
sweep. Users, faults and the write of a cancel owe nothing.

## 5. Proofs

TLAPS checks these for any sets of rows, printers, viewers, runs and slices, any
bounds, requests and faults, from the named assumptions on the constants
(`ConstantsAssumption`, `FanoutAssumption`, `SliceAssumption`,
`PipelineAssumption`, `BudgetAssumption`); slices and billed rows are finitely
many.

**`DispatchQueueProofs`.** `AttemptsBounded` is not inductive alone: a row that
gave up must not be requeued by a second watchdog or dispatched by a task that
still runs, which needs `OneActor`; that in turn needs `SendingIsLive`, since a
task between mark and send must own a row no pass can select. With the types
they are inductive (`IInv`, checked by `Dispatch_faults` first). The proof looks
at one row at a time: `RowInv(j)` is the part of the invariant about row j,
`Steady(j)` says that a step leaves everything it mentions alone, `Assemble` puts
the rows together. One lemma per action or group of actions that disturb the
same conjuncts; the printers' actions disturb none of them.

**`ExclusionProofs`.** `ClaimPinsPrinter` needs to know why nobody moves the row: a
task between claim and upload whose row still waits has it claimed, so an edit is
refused; from the mark on the row does not wait (`SendingIsLive`); a sweep
releases claims only when nothing is in flight; a row that is absent or was
skipped, which could be put back in line without its claim, is in nobody's hands
(`PinInv`). The theorem assumes `NoBulk`: `Finding_bulk_edit` shows it false
otherwise.

`OneRowPerPrinter` is the corner of a larger picture: a
printer is had by a row that prints on it, by the slot of an upload task or by a
pick of the running pass, and never by two (`SoleHolder`). A pick is safe because
a printer the scan may still choose is had by nobody (`ScanInv`), although the
busy set is read twice with an await between: a row that starts printing in that
gap is still in the pool, or its command has left a hold that nobody releases in
the gap (`PoolsInv`). `SlotInv` says that the printers the pass and the pool
remember are the rows' own. It holds under every fault, and needs neither the
holds' length nor the watchdogs' timing. It assumes `NoBulk` and `NoMidPass`
(section 3 names what an edit of a row in a pass's hands breaks).

**`PrinterProofs`** relates rows to what the printers really do. Its invariants
build on `SoleIInv` of `ExclusionProofs`, in three layers.

* `OnceIInv`: what may still be sent is `Fresh` (never begun, held by no printer),
  a watchdog that may requeue its row guards a connected printer that either has
  the job or never will, and a job is in one printer (`OnceInv`, `HeldInv`). It
  gives `PrintedAtMostOnce`.
* `MarkIInv` adds that a row being sent is marked printing (`SentInv`), that a
  working printer works for the row printing on it (`WorkInv`), that a print
  that was seen or has ended did begin (`BegunInv`), and, where no print is
  stopped, that a printer which holds a job or has one ending is still had by its
  row, because the row closes last (`OursInv`). It gives `SendsAreLive` (where no
  two rows share a name a smaller invariant does, which late cancels, late deletes
  and stops in the middle of a send leave alone: then the name check keeps every
  other row's completion away), and with
  the state of the board read off a row, `QueueImplementsBoard`: the lemmas
  `SeenClosed`, `SeenAssigned` and their like say which board step a queue step
  is, `StepOnBoard` puts them together. `QueueKeepsPromises` then takes
  `BoardKeepsPromises` over through the mapping.
* On top of it, each for one property: `SeenInv` and `LedInv` (a row marked and not
  begun is in the hands of a task or a watchdog, so no completion or sweep closes
  it) for `CompletedRowsWerePrinted`; `ReachInv` (no task finds its printer gone,
  so it fails nobody) for `CancelledRowsStay`; and `FreeIInv` for
  `CommandsFindPrinterFree` and `PlatesAreClear`: to `OursInv` it adds that a
  print that ends was heard to begin (`HeardInv`), and that what lies on a plate
  is behind the gate, or will be by the end that is on its way (`ClearInv`).

That a completion closes its own row (`OwnEndings`, which gives
`CompletionsAreOwn`) has two reasons, and either will do: the name check, where
no two rows share the name of their file; or, for copies of one file, that no
print is stopped, so the row whose job ended is still the only one printing there
(`OursInv` with `SoleHolder`). `Clean` asks for one of the two.

What the theorems leave out, and why:

| Theorem | leaves out |
|---|---|
| `PrintedAtMostOnce` | `bulk`, `editMidPass`, `late`, `offline` |
| `QueueImplementsBoard`, `QueueKeepsPromises` (`Clean`) | these four, `stopMidSend`, `cancelLate`, `deleteLate`, and `stop` together with copies of one file |
| `SendsAreLive` | the first four; for copies of one file what `Clean` does; for other rows stops in the middle of a send and late cancels and deletes are covered |
| `CompletionsAreOwn` | for copies of one file, `stop` and what else `Clean` does; for other rows nothing |
| `CompletedRowsWerePrinted` | what `Clean` does, `crash`, `clearFail` |
| `CancelledRowsStay` | what `Clean` does, gated rows, `uploadFail`, `budget`, `unmappable` |
| `CommandsFindPrinterFree`, `PlatesAreClear` | what `Clean` does, `stop` |

With these TLC finds the property violated on at most two rows (three for `stop`
and `NoCollision`). Not tried are `QueueKeepsPromises` by itself, and the rest of
`Clean` for `CompletionIsOwn` with copies. For `CancelIsFinal` some need a
companion: `late` a crash and a refusal, `stopMidSend` and `cancelLate` a refusal,
copies with `stop` a crash and a refusal. The one exception are `stopMidSend`,
`cancelLate` and `deleteLate` for `CompletedWasPrinted` where no two rows share a
name: the proof's `WorkInv` is false with them, and no instance tried violates the
property (`Dispatch_contention` has the first two). Everything else is
covered: every other request, `crash` where it is not named, commands lost,
refused or rejected, completions misnamed, jobs wedged or dismissed, failing
checks and writes.

**`JobBoardProofs`.** `BoardKeepsPromises`: the abstract board keeps its four
promises, so a system that implements it does.

**`CameraFanoutProofs`.** `HandoverIsClean` rests on `HandoverInv`: only the
newest broadcaster can be unstopped, each one waits for the one just before it,
a teardown is complete only when that pump has ended, a socket lingers only
behind a stopped broadcaster whose pump has ended, and (`Behind`) a pump that
still streams or closes behind one that got past its wait is explained by
somebody in between who gave up. The key step, `DialsBehindAClosedSocket`, is the
dial: the predecessor is torn down, so any older pump that has not ended lies
further back and `Behind` of the predecessor names the culprit. `NobodyIsCutOff`
adds that a viewer who watches a broadcaster is listed by it, so that no stop finds
it unwatched, and that a stop which still waits for an older broadcaster while a
younger one streams has somebody in `gaveUp` between the two (`EndsAreExcused`,
again by `Behind`). `NobodyIsLeftSilent` adds that an end marker stays in a queue
until it is read.

**`SliceTrackerProofs`.** `ToldOnce` and `ToldTheTruth` follow from `ToldInvs`,
which ties the page to the backend: the number of a known request is that of its
row and of no other (`TicketInv`), a tracked job carries the number and the name
of one request (`JobInv`), an answer that has come to a round is how that request
ended (`AnswerInv`), and a request that was told was told once, the truth, with
its number held against a second telling (`ToldInv`). `finishedRef` alone would
not do: it is the jobs' numbers that make it a set of requests, so the exception
for reissued numbers runs through all four. `SpinnersMatch` needs that the keys
of `startedAtRef` are the numbers of the listed jobs (`SpinnerInv`).

**`PipelineRunsProofs`.** `CancelsStick` rests on `CancelInv`: the row of a
cancelled run says so or was cleared, unless its slice has failed over it, and
then no task is left that could dispatch; no cancelled run is between the two
halves of the first check; and an entry is named by its copy, so that a cancel
finds it. The theorem assumes that `cancelEarly` is not among the requests; TLC
shows it false otherwise. `UnderWayMoves` rests on
`SettledInv`: once a task is done, every copy of a run that neither failed nor
was cancelled or cleared has an entry and names it. A task that was cut short is
not done, and the property leaves its run aside: the code has nothing that would
move it again.

**`BudgetHoldProofs`.** `HoldsOwned`, `PrintsHeld` and `BudgetIsKept` hold under
every request and fault of the model, for any rows, limit and costs. `HoldsOwned`
goes action by action over what may leave a hold, with `StageInv`: what the
places of task, row and print have to do with each other. `PrintsHeld` rests on
`HeldInv`: the hold of a row that has been authorized and still waits is there and
is worth the estimate, unless the row is uncovered.

`BudgetIsKept` is about sums over rows. A row is `Promised` its cost from the
moment its check has counted the open rows, hold or no hold, as long as it can
still be printed. Because a check is three reads, two rows can be promised more
than there is: but then one of them is still `Undecided`, and of two checks that
go on at a time the one that read the open rows later has counted the other
(`Sees`), so that it will be refused. That is `BudgetInv`: for every set of
promised rows, what there is to pay (`Payable`) fits, or an undecided one of them
has seen all the others. The set may be any subset, since a row that is given up
or refused leaves it. `ReadInv` says that a check has read every charge there is,
uncovered rows left aside. Then `ReadQueueKeeps`: the check that counts the open
rows sees all that is promised; `WeighKeeps`: a check that decides in favour has
counted what it saw, and that fits; `ReestimateKeeps`: the check that is one
transaction sees everything; `ChargeKeeps`: a charge takes the place of what its
print was promised; and `LessIsSafe` for every other step. `TotalMonotone` and
`TotalPlus` are the lemmas on sums; a total is the cardinality of a set of units,
because the library's facts on finite sets can be cited and induction over rows
cannot.

**Only model-checked.** The liveness properties (`ClaimsAreReleased`,
`PrintingEnds`, `UnwatchedStreamsEnd`, `WaitingViewerIsServed`, `EveryEndIsTold`,
`RunsEnd`, `HoldsEnd`): fairness and ENABLED are outside the prover's reach. Every
safety invariant and action property of a passing run has a theorem. Of
`JobBoard` the theorem is about its safety, all it states.

## 6. Where code and comments disagree

Each has a run that ends in a counterexample; `PROJECT.json` quotes the lines.

* `Finding_bulk_edit`: a bulk edit moves a claimed row to another printer while
  its file is being uploaded, which the claim's comment says cannot happen.
* `Finding_failure_over_cancel`: an upload that fails overwrites a cancel with
  `failed`, what the success branch next to it takes care not to do.
* `Finding_offline_revert`: the watchdog's branch "Printer disconnected - don't
  mess with the DB" is not taken for a disconnected printer, and the row is
  requeued on stale data.
* `Finding_second_socket`: two quick reloads open a second camera socket beside
  one still closing, which the predecessor chain is there to exclude. (A second
  stop of a broadcaster that is closing has the same effect, by another way; it is
  `lingering` in the model.)

Five more have no run of their own. The last four are stated in their modules,
and TLC refutes them when they are added to the run named:

* `camera_fanout.py:39-40` promises every viewer an end marker, which a full queue
  drops. `NoSilentViewer` and `WaitingViewerIsServed` exempt that viewer by name
  (`overrun`).
* `HardFailureWins` (`Pipeline_runs`): `pipeline_runs.py:201-203` says of the
  roll-up "Terminal-persisted always wins for explicit cancels / hard failures";
  the code lets only `cancelled` win. A run whose slice failed has copies that are
  `pending`, so it is reported as `in_progress` for ever.
* `OutcomeIsKept` (`Pipeline_runs`): `models/pipeline_run.py:88-91`, "deleting the
  queue entry later doesn't lose the audit trail". The copy's own status stays
  `queued`, so a completed run whose entries are deleted is reported as cancelled.
* `NumbersAreFresh` (`Slice_tracking`): `SliceJobTrackerContext.tsx:160-161`, "Ids
  come from a database sequence so this can't collide in practice". They come from
  a counter in memory (`slice_dispatch.py:65`) that a restart resets.
* `FailuresAreAcknowledged` (`Slice_tracking`): `SliceJobTrackerContext.tsx:71-73`
  makes a failed slice "an acknowledge-only modal, not a toast" so that its reason
  can be read. There is one modal: a second failure replaces the first unread.

Smaller ones met on the way: a cancel or delete that read its row before it was
marked cancels a print whose command goes out, as a stop in the middle of a send
does, and releases its hold; a `/camera/stop` that waited for its broadcaster ends
a successor's stream as well; rows the sweep closes keep their hold; `clear_terminal_runs` promises a cascade to the
copies, which SQLite without foreign keys does not do; a cancel marks the copies
of finished prints as cancelled as well, since a copy's own status never becomes
`completed`; an entry the scheduler skipped is reported as `queued`.

## 7. Not modelled

Formatting, file contents, 3MF parsing, filament and nozzle matching (they
decide which rows are held back, which is any choice here), the ordering of the
queue, notifications and websockets (nothing reads them back), authentication
(every request is taken as allowed), the AMS drying scheduler, the virtual
printer, inventory and library CRUD, backup and firmware I/O, the frontend
beside the slice job tracker (translations, pages and forms: most of the
repository's TypeScript, which keeps no state that anything else relies on). The
reason for each is in `PROJECT.json` under its component.

## 8. Plan

Done: `DispatchQueue` with `JobBoard`, `CameraFanout`, `SliceTracker`,
`PipelineRuns`, `BudgetHold`, each with theorems. Next, in order:

1. Proofs: `CompletedRowsWerePrinted` with stops in the middle of a send; the
   safety half of the liveness properties (what a stuck row, run or hold would have
   to look like, as an invariant); an abstract ledger that `BudgetHold` implements.
2. `BatchOrder`: `print_batch.py`, counters against rows under cancel, delete
   and completion.
3. `PowerOff`: `smart_plug_manager.py`, a delayed power-off against a print that
   starts meanwhile, across a restart.
4. `PrintEvents`: `printer_state_machine.py` and its two clients: one start and
   one end per print, refining an abstract event stream.
5. The toast of a dispatch in the page (`src/frontend/src/contexts/ToastContext.tsx`):
   its dismissal timers against jobs that start meanwhile.
6. Usage tracking by the two trackers of one print.
