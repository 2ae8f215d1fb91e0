---------------------------- MODULE DispatchQueue ----------------------------
(***************************************************************************)
(* The print queue's dispatch path: print_scheduler.py's queue pass, the   *)
(* pool of upload tasks it launches, the watchdog each sent print command  *)
(* leaves behind, the sweep that closes stranded rows, the completion      *)
(* callback of main.py, the queue routes a user reaches, and the printers  *)
(* at the far end of it all.                                               *)
(*                                                                         *)
(* A queue row is a record of the print_queue table.  Every database       *)
(* transaction is one step.  A handler that keeps an ORM object across an  *)
(* await is several steps, and what it writes later is written blindly,    *)
(* over whatever the row has become: sessions keep expire_on_commit=False, *)
(* so the object still holds what was first read.                          *)
(***************************************************************************)
EXTENDS Integers, FiniteSets

CONSTANTS
    Items,        \* ids of the rows of print_queue
    Printers,     \* ids of the configured printers
    NoPrinter,    \* printer_id IS NULL: a model-based row, not assigned yet
    NoJob,        \* the printer holds no job
    MaxAttempts,  \* DISPATCH_MAX_ATTEMPTS
    UploadLimit,  \* the setting queue_max_concurrent_uploads
    PlateGate,    \* the setting require_plate_clear
    Gated,        \* rows with require_previous_success
    Batch,        \* rows that are copies of one file, so share its name
    Requests,     \* the user requests this instance serves
    Faults        \* what the environment of this instance may do

ASSUME ConstantsAssumption ==
    /\ NoPrinter \notin Printers
    /\ NoJob \notin Items
    /\ MaxAttempts \in Nat \ {0}
    /\ UploadLimit \in Nat \ {0}
    /\ PlateGate \in BOOLEAN
    /\ Batch \subseteq Items

VARIABLES
    row,      \* the print_queue table
    task,     \* _inflight: the upload task of each row and where it stands
    watch,    \* the live _watchdog_print_start of each row
    hold,     \* _dispatch_holds: printers inside their post-dispatch hold
    pass,     \* the scheduler loop: where it stands, what this pass decided
    stale,    \* requests that have checked a row and not yet written it
    machine,  \* what each printer is really doing
    seen,     \* the gcode_state the backend last heard from each printer
    online,   \* printers whose MQTT session is up
    ending,   \* completion callbacks raised and not finished
    awaiting, \* printers with the awaiting-plate-clear flag
    dirty,    \* history: printers a print has left material on the bed of
    prints    \* history: how often a printer began each row's job

queueVars   == <<row, task, watch, hold, pass, stale>>
printerVars == <<machine, seen, online, ending, awaiting, dirty, prints>>
vars        == <<row, task, watch, hold, pass, stale,
                 machine, seen, online, ending, awaiting, dirty, prints>>

Terminal == {"completed", "failed", "cancelled", "skipped"}
Statuses == {"absent", "pending", "printing", "deleted"} \union Terminal
Slow     == {"bulk", "cancelLate", "deleteLate"}   \* check, await, then write
TaskPcs  == {"none", "launched", "claimed", "upload", "send", "refused",
             "finish"}
PassPcs  == {"boot", "sweep", "close", "read", "pools", "scan"}
Results  == {"FINISH", "FAILED", "IDLE"}   \* the terminal gcode states

MaybePrinter == Printers \union {NoPrinter}
Row     == [status : Statuses, printer : MaybePrinter, claimed : BOOLEAN,
            attempts : 0..MaxAttempts, staged : BOOLEAN]
Task    == [pc : TaskPcs, slot : MaybePrinter, on : MaybePrinter]
Watch   == [phase : {"off", "A", "B"}, on : MaybePrinter]
Pass    == [pc : PassPcs, todo : SUBSET Items, at : [Items -> MaybePrinter],
            busy : SUBSET Printers, picked : SUBSET Items]
Machine == [phase : {"free", "loaded", "running", "FINISH", "FAILED"},
            job : Items \union {NoJob}]
Ending  == [phase : {"none", "raised", "gateUp"},
            job : Items \union {NoJob}, result : Results]

NoTask   == [pc |-> "none", slot |-> NoPrinter, on |-> NoPrinter]
NoWatch  == [phase |-> "off", on |-> NoPrinter]
NoEnding == [phase |-> "none", job |-> NoJob, result |-> "IDLE"]
Free     == [phase |-> "free", job |-> NoJob]
AtSweep  == [pc |-> "sweep", todo |-> {}, at |-> [i \in Items |-> NoPrinter],
             busy |-> {}, picked |-> {}]
AtBoot   == [AtSweep EXCEPT !.pc = "boot"]

TypeOK ==
    /\ row \in [Items -> Row]
    /\ task \in [Items -> Task]
    /\ watch \in [Items -> Watch]
    /\ hold \subseteq Printers
    /\ pass \in Pass
    /\ stale \subseteq (Slow \intersect Requests) \X Items
    /\ machine \in [Printers -> Machine]
    /\ seen \in [Printers -> Results \union {"ACTIVE"}]
    /\ online \subseteq Printers
    /\ ending \in [Printers -> Ending]
    /\ awaiting \subseteq Printers
    /\ dirty \subseteq Printers
    /\ prints \in [Items -> 0..2]

Init ==
    /\ row = [i \in Items |-> [status |-> "absent", printer |-> NoPrinter,
                claimed |-> FALSE, attempts |-> 0, staged |-> FALSE]]
    /\ task = [i \in Items |-> NoTask]
    /\ watch = [i \in Items |-> NoWatch]
    /\ hold = {}
    /\ pass = AtBoot
    /\ stale = {}
    /\ machine = [p \in Printers |-> Free]
    /\ seen = [p \in Printers |-> "IDLE"]
    /\ online = Printers
    /\ ending = [p \in Printers |-> NoEnding]
    /\ awaiting = {}
    /\ dirty = {}
    /\ prints = [i \in Items |-> 0]

-----------------------------------------------------------------------------
(* Shared predicates and updates.                                          *)

Exists(i)   == row[i].status \notin {"absent", "deleted"}
InFlight(i) == task[i].pc # "none"
Pool        == {i \in Items : InFlight(i)}
Selected    == pass.todo \union pass.picked
PrintingOn(p) == {i \in Items : row[i].status = "printing" /\ row[i].printer = p}

\* As it would be if the plate gate were not asked.
IdleIgnoringPlate(p) == p \in online /\ seen[p] # "ACTIVE"

\* _is_printer_idle: connected, past the plate gate, in a startable state.
Idle(p) == /\ p \in online
           /\ PlateGate => p \notin awaiting
           /\ seen[p] # "ACTIVE"

Asked(r)  == r \in Requests
May(f)    == f \in Faults

\* An ORM flush of one row: a row deleted meanwhile takes no write.
Write(i, r)  == row' = IF Exists(i) THEN [row EXCEPT ![i] = r] ELSE row
Blind(i, s)  == Write(i, [row[i] EXCEPT !.status = s])

Goto(i, pc)  == task' = [task EXCEPT ![i].pc = pc]

-----------------------------------------------------------------------------
(* The queue routes.  A route reads the row, checks it, and writes it      *)
(* later without looking again.  A request that nothing came between is    *)
(* one step; one that something did come between ("cancelLate",            *)
(* "deleteLate", "bulk") is a Check and a write.                           *)

\* POST /: a row for one printer, or for any printer of a model.
Enqueue(i, p) ==
    /\ row[i].status = "absent"
    /\ row' = [row EXCEPT ![i].status = "pending", ![i].printer = p]
    /\ UNCHANGED <<task, watch, hold, pass, stale, printerVars>>

Cancel(i) ==
    /\ Asked("cancel")
    /\ row[i].status = "pending"
    /\ row' = [row EXCEPT ![i].status = "cancelled"]
    /\ UNCHANGED <<task, watch, hold, pass, stale, printerVars>>

\* The last source of a batch order is kept, as cancelled.
Delete(i) ==
    /\ Asked("delete")
    /\ Exists(i) /\ row[i].status # "printing"
    /\ \/ row' = [row EXCEPT ![i].status = "deleted"]
       \/ /\ i \in Batch /\ row[i].status # "completed"
          /\ row' = [row EXCEPT ![i].status = "cancelled"]
    /\ UNCHANGED <<task, watch, hold, pass, stale, printerVars>>

\* /{id}/start clears the hold a filament deficit put on the row.
StartStaged(i) ==
    /\ row[i].status = "pending" /\ row[i].staged
    /\ row' = [row EXCEPT ![i].staged = FALSE]
    /\ UNCHANGED <<task, watch, hold, pass, stale, printerVars>>

\* /printer/{id}/resume puts the rows the gate skipped back in line.
Resume(p) ==
    /\ Asked("resume")
    /\ LET skipped == {i \in Items : row[i].status = "skipped" /\ row[i].printer = p}
       IN /\ skipped # {}
          /\ row' = [i \in Items |-> IF i \in skipped
                       THEN [row[i] EXCEPT !.status = "pending"] ELSE row[i]]
    /\ UNCHANGED <<task, watch, hold, pass, stale, printerVars>>

\* As it would be without the claim check.
EditableIgnoringClaim(i) == row[i].status = "pending"

Editable(i) == row[i].status = "pending" /\ ~row[i].claimed

\* PATCH /{id}: refused once a dispatch has claimed the row, not before.
Edit(i, p) ==
    /\ Asked("edit") \/ Asked("editMidPass")
    /\ i \in Selected \/ task[i].pc = "launched" => Asked("editMidPass")
    /\ Editable(i) /\ p # row[i].printer
    /\ row' = [row EXCEPT ![i].printer = p]
    /\ UNCHANGED <<task, watch, hold, pass, stale, printerVars>>

\* What each of the slow requests asks of the row it has read.
Passes(ask, i) ==
    CASE ask = "bulk"       -> Editable(i)
      [] ask = "cancelLate" -> row[i].status = "pending"
      [] ask = "deleteLate" -> Exists(i) /\ row[i].status # "printing"

Check(ask, i) ==
    /\ Asked(ask)
    /\ Passes(ask, i) /\ <<ask, i>> \notin stale
    /\ stale' = stale \union {<<ask, i>>}
    /\ UNCHANGED <<row, task, watch, hold, pass, printerVars>>

\* PATCH /bulk re-validates the budget of every row in between.  A PATCH /{id}
\* past its last look at the claim is a bulk edit of one row.
BulkWrite(i, p) ==
    /\ <<"bulk", i>> \in stale
    /\ stale' = stale \ {<<"bulk", i>>}
    /\ Write(i, [row[i] EXCEPT !.printer = p])
    /\ UNCHANGED <<task, watch, hold, pass, printerVars>>

\* /{id}/cancel and /batches/{id}/cancel, with the row marked, sent or closed
\* since it was read: cancelled all the same.
LateCancel(i) ==
    /\ <<"cancelLate", i>> \in stale
    /\ stale' = stale \ {<<"cancelLate", i>>}
    /\ Blind(i, "cancelled")
    /\ UNCHANGED <<task, watch, hold, pass, printerVars>>

\* DELETE /{id} likewise.  What it read as completed has stayed so.
LateDelete(i) ==
    /\ <<"deleteLate", i>> \in stale
    /\ stale' = stale \ {<<"deleteLate", i>>}
    /\ \/ Blind(i, "deleted")
       \/ /\ i \in Batch /\ row[i].status # "completed"
          /\ Blind(i, "cancelled")
    /\ UNCHANGED <<task, watch, hold, pass, printerVars>>

\* /{id}/stop marks the row cancelled whatever the printer makes of it.
Stop(i) ==
    /\ Asked("stop") \/ Asked("stopMidSend")
    /\ task[i].pc \in {"send", "refused"} => Asked("stopMidSend")
    /\ row[i].status = "printing"
    /\ row' = [row EXCEPT ![i].status = "cancelled"]
    /\ LET p == row[i].printer IN
         machine' =
           IF p \notin online THEN machine
           ELSE [machine EXCEPT ![p] =
                   CASE machine[p].phase = "running" -> [@ EXCEPT !.phase = "FAILED"]
                     [] machine[p].phase = "loaded"  -> Free
                     [] OTHER -> @]
    /\ UNCHANGED <<task, watch, hold, pass, stale,
                   seen, online, ending, awaiting, dirty, prints>>

ClearPlate(p) ==
    /\ p \in awaiting
    /\ awaiting' = awaiting \ {p}
    /\ dirty' = dirty \ {p}
    /\ UNCHANGED <<queueVars, machine, seen, online, ending, prints>>

Request ==
    \/ \E i \in Items :
         \/ \E p \in MaybePrinter : Enqueue(i, p)
         \/ Cancel(i) \/ Delete(i) \/ StartStaged(i) \/ Stop(i)
         \/ LateCancel(i) \/ LateDelete(i)
         \/ \E ask \in Slow : Check(ask, i)
         \/ \E p \in Printers : Edit(i, p) \/ BulkWrite(i, p)
    \/ \E p \in Printers : Resume(p) \/ ClearPlate(p)

-----------------------------------------------------------------------------
(* The scheduler loop: release orphaned claims, close stranded rows, then  *)
(* one queue pass.  Between any two of these steps anything else may run.  *)

PassGoto(pc) == pass' = [pass EXCEPT !.pc = pc]

\* _clear_stale_dispatch_claims: with nothing in flight no claim is live.  A
\* database that refuses the write ("clearFail") leaves them for the next sweep.
Unclaimed == [i \in Items |-> [row[i] EXCEPT !.claimed = FALSE]]
ReleaseClaims ==
    \/ Pool # {} /\ row' = row
    \/ Pool = {} /\ row' = Unclaimed
    \/ Pool = {} /\ May("clearFail") /\ row' = row

\* run, before its loop: no coroutine survives a restart.
Startup ==
    /\ pass.pc = "boot"
    /\ ReleaseClaims
    /\ PassGoto("sweep")
    /\ UNCHANGED <<task, watch, hold, stale, printerVars>>

\* As it would be if claims were released at startup only.
KeepStaleClaims ==
    /\ pass.pc = "sweep"
    /\ PassGoto("close")
    /\ UNCHANGED <<row, task, watch, hold, stale, printerVars>>

\* And again before every pass.
ClearStaleClaims ==
    /\ pass.pc = "sweep"
    /\ ReleaseClaims
    /\ PassGoto("close")
    /\ UNCHANGED <<task, watch, hold, stale, printerVars>>

\* As it would be with no grace at all, and with no sweep at all.
TerminalNow(i) ==
    /\ row[i].status = "printing"
    /\ row[i].printer \in online /\ seen[row[i].printer] # "ACTIVE"
NeverTerminal(i) == FALSE

\* A row closes no sooner than ten minutes after it was started: 300 s too
\* young, then 300 s on the terminal clock.  Its upload task is done by then,
\* its watchdog (at most 270 s) has ended, the printer has told its state, and
\* a completion that was coming has come.
LongTerminal(i) ==
    LET p == row[i].printer IN
    /\ row[i].status = "printing" /\ p \in online /\ seen[p] # "ACTIVE"
    /\ ~InFlight(i) /\ watch[i].phase = "off"
    /\ machine[p].phase = "free" /\ ending[p].phase = "none"

\* _TERMINAL_STATE_QUEUE_STATUS.
TerminalQueueStatus(s) ==
    CASE s = "FINISH" -> "completed" [] s = "FAILED" -> "failed"
      [] OTHER -> "cancelled"

CloseStranded(S) ==
    /\ pass.pc = "close"
    /\ \A i \in S : LongTerminal(i)
    /\ row' = [i \in Items |-> IF i \in S
                 THEN [row[i] EXCEPT !.status = TerminalQueueStatus(seen[row[i].printer])]
                 ELSE row[i]]
    /\ PassGoto("read")
    /\ UNCHANGED <<task, watch, hold, stale, printerVars>>

\* A hold lapses after 60 s if the printer moved on and after 180 s in any
\* case: by then all but a slow printer ("late") has begun and been heard.
MayLapse(p) == \/ machine[p].phase = "free" \/ seen[p] = "ACTIVE"
               \/ machine[p].phase = "loaded" /\ May("late")

\* As it would be if rows in flight were not filtered out.
SelectableInFlight(i) ==
    row[i].status = "pending" /\ ~row[i].claimed /\ ~row[i].staged

Selectable(i) ==
    row[i].status = "pending" /\ ~row[i].claimed /\ ~row[i].staged /\ ~InFlight(i)

\* The rows to consider, less those in flight, and the printers a row is
\* printing on.  A hold may lapse here; one set after this step is too young.
PassRead ==
    /\ pass.pc = "read"
    /\ LET todo == {i \in Items : Selectable(i)}
       IN pass' = IF todo = {} THEN AtSweep
                  ELSE [pc |-> "pools", todo |-> todo, picked |-> {},
                        at   |-> [i \in Items |-> IF i \in todo THEN row[i].printer
                                                  ELSE NoPrinter],
                        busy |-> {p \in Printers : PrintingOn(p) # {}}]
    /\ \E lapsed \in SUBSET {p \in hold : MayLapse(p)} : hold' = hold \ lapsed
    /\ UNCHANGED <<row, task, watch, stale, printerVars>>

Uploading == {p \in Printers : \E i \in Pool : task[i].slot = p}

\* As it would be without the hold, and without the pool.
UnavailableWithoutHolds == Uploading
UnavailableWithoutPool  == hold

\* Printers in their post-dispatch hold, or with an upload in flight to them.
Unavailable == hold \union Uploading

\* The in-memory half of the busy set, read after another await.
PassPools ==
    /\ pass.pc = "pools"
    /\ pass' = [pass EXCEPT !.pc = "scan", !.busy = @ \union Unavailable]
    /\ UNCHANGED <<row, task, watch, hold, stale, printerVars>>

\* What the loop decides about one row.  The scan order (position, shortest
\* job first, the jump guard) is any order.
Considers(i) == pass.pc = "scan" /\ i \in pass.todo
Drop(i)      == pass' = [pass EXCEPT !.todo = @ \ {i}]

\* Held back: busy, offline, not idle, scheduled for later, behind a sensor
\* interlock, a drying cycle or another row's library file.  Some of these
\* holds take the printer out of the pass, some do not.
HoldItem(i) ==
    /\ Considers(i)
    /\ \/ Drop(i)
       \/ /\ pass.at[i] # NoPrinter
          /\ pass' = [pass EXCEPT !.todo = @ \ {i}, !.busy = @ \union {pass.at[i]}]
    /\ UNCHANGED <<row, task, watch, hold, stale, printerVars>>

\* The printers row i could go out on: its own, or any its model matches.
Choices(i) == {p \in Printers : /\ pass.at[i] \in {p, NoPrinter}
                                /\ p \notin pass.busy /\ Idle(p)}

\* require_previous_success and the last run on the printer failed.
SkipItem(i) ==
    /\ Considers(i) /\ i \in Gated /\ Choices(i) # {} /\ Exists(i)
    /\ Blind(i, "skipped")
    /\ Drop(i)
    /\ UNCHANGED <<task, watch, hold, stale, printerVars>>

\* The row as assigned: a model-based row gets its printer here.
Assigned(i, p) == IF pass.at[i] = NoPrinter THEN [row[i] EXCEPT !.printer = p]
                  ELSE row[i]

\* _fail_unmappable_item: no AMS mapping on the printer resolves.
FailUnmappable(i, p) ==
    /\ May("unmappable") /\ Considers(i) /\ p \in Choices(i) /\ Exists(i)
    /\ Write(i, [Assigned(i, p) EXCEPT !.status = "failed"])
    /\ Drop(i)
    /\ UNCHANGED <<task, watch, hold, stale, printerVars>>

\* _block_on_filament_deficit: staged until the user starts it by hand.
BlockOnDeficit(i, p) ==
    /\ May("short") /\ Considers(i) /\ p \in Choices(i) /\ Exists(i)
    /\ Write(i, [Assigned(i, p) EXCEPT !.staged = TRUE])
    /\ Drop(i)
    /\ UNCHANGED <<task, watch, hold, stale, printerVars>>

SelectItem(i, p) ==
    /\ Considers(i) /\ p \in Choices(i)
    /\ Exists(i) \/ pass.at[i] # NoPrinter
    /\ Write(i, Assigned(i, p))
    /\ pass' = [pass EXCEPT !.todo = @ \ {i}, !.picked = @ \union {i},
                            !.at[i] = p, !.busy = @ \union {p}]
    /\ UNCHANGED <<task, watch, hold, stale, printerVars>>

\* A write to a row deleted since the read raises StaleDataError, which ends
\* the pass with nothing launched.
PassAborts(i) ==
    /\ Considers(i) /\ ~Exists(i)
    /\ pass' = AtSweep
    /\ UNCHANGED <<row, task, watch, hold, stale, printerVars>>

\* _launch_uploads: as many as the pool has room for, the rest another pass.
LaunchUploads ==
    /\ pass.pc = "scan" /\ pass.todo = {}
    /\ \E L \in SUBSET pass.picked :
         /\ \/ Cardinality(L) + Cardinality(Pool) = UploadLimit
            \/ Cardinality(L) + Cardinality(Pool) < UploadLimit /\ L = pass.picked
            \/ Cardinality(Pool) >= UploadLimit /\ L = {}
         /\ task' = [i \in Items |-> IF i \in L
                       THEN [pc |-> "launched", slot |-> pass.at[i], on |-> NoPrinter]
                       ELSE task[i]]
    /\ pass' = AtSweep
    /\ UNCHANGED <<row, watch, hold, stale, printerVars>>

Scheduler ==
    \/ Startup \/ ClearStaleClaims \/ PassRead \/ PassPools \/ LaunchUploads
    \/ \E S \in SUBSET Items : CloseStranded(S)
    \/ \E i \in Items :
         \/ HoldItem(i) \/ SkipItem(i) \/ PassAborts(i)
         \/ \E p \in Printers : FailUnmappable(i, p) \/ BlockOnDeficit(i, p)
                                  \/ SelectItem(i, p)

-----------------------------------------------------------------------------
(* One upload task: _dispatch_one around _start_print.                     *)

\* _claim_for_dispatch, an atomic compare-and-set, then the row is read.
Claim(i) ==
    /\ task[i].pc = "launched"
    /\ IF row[i].status = "pending" /\ ~row[i].claimed
       THEN /\ row' = [row EXCEPT ![i].claimed = TRUE]
            /\ task' = [task EXCEPT ![i].pc = "claimed", ![i].on = row[i].printer]
       ELSE /\ task' = [task EXCEPT ![i] = NoTask]
            /\ UNCHANGED row
    /\ UNCHANGED <<watch, hold, pass, stale, printerVars>>

\* The printer is not connected, or the budget no longer covers the job.
RejectEarly(i) ==
    /\ task[i].pc = "claimed"
    /\ task[i].on \notin online \/ May("budget")
    /\ Blind(i, "failed")
    /\ Goto(i, "finish")
    /\ UNCHANGED <<watch, hold, pass, stale, printerVars>>

\* The row is read again.  Not pending any more: stop.  Printer active: leave
\* it pending (#2598).  Otherwise prepare the file and upload.
Recheck(i) ==
    /\ task[i].pc = "claimed" /\ task[i].on \in online
    /\ IF row[i].status = "pending" /\ seen[row[i].printer] # "ACTIVE"
       THEN task' = [task EXCEPT ![i].pc = "upload", ![i].on = row[i].printer]
       ELSE Goto(i, "finish")
    /\ UNCHANGED <<row, watch, hold, pass, stale, printerVars>>

\* Source gone, nozzle mismatch, or the upload itself failed.
UploadFails(i) ==
    /\ May("uploadFail")
    /\ task[i].pc = "upload"
    /\ Blind(i, "failed")
    /\ Goto(i, "finish")
    /\ UNCHANGED <<watch, hold, pass, stale, printerVars>>

\* As it would be with a blind write, and with the row count not looked at.
WinsAlways(i)      == TRUE
NextWhateverCas(i) == "send"

\* The compare-and-set pending -> printing (#1853): what it takes to win it,
\* and where the task goes from there.
WinsCas(i)  == row[i].status = "pending"
AfterCas(i) == IF WinsCas(i) THEN "send" ELSE "finish"

\* As it would be if the row were marked only once the printer has started.
Unmarked(i) == row

\* The row is printing before the command goes out, so a crash between the two
\* cannot print the file a second time.
Marked(i) == [row EXCEPT ![i].status = "printing"]

\* The winner also clears the printer's plate-clear flag.
Uploaded(i) ==
    /\ task[i].pc = "upload"
    /\ row' = IF WinsCas(i) THEN Marked(i) ELSE row
    /\ awaiting' = IF WinsCas(i) THEN awaiting \ {task[i].on} ELSE awaiting
    /\ Goto(i, AfterCas(i))
    /\ UNCHANGED <<watch, hold, pass, stale,
                   machine, seen, online, ending, dirty, prints>>

\* A nozzle-rack pick that no longer fits stops the print before the send.
RackPickStale(i) ==
    /\ May("rack")
    /\ task[i].pc = "send"
    /\ Blind(i, "failed")
    /\ Goto(i, "finish")
    /\ UNCHANGED <<watch, hold, pass, stale, printerVars>>

\* start_print accepted: hold the printer, leave a watchdog.  A printer that
\* holds a job already ignores the command.
Send(i) ==
    LET p == task[i].on IN
    /\ task[i].pc = "send" /\ p \in online /\ seen[p] # "ACTIVE"
    /\ \/ machine' = IF machine[p].phase = "free"
                     THEN [machine EXCEPT ![p] = [phase |-> "loaded", job |-> i]]
                     ELSE machine
       \/ May("lost") /\ machine' = machine
    /\ hold' = hold \union {p}
    /\ watch' = [watch EXCEPT ![i] = [phase |-> "A", on |-> p]]
    /\ Goto(i, "finish")
    /\ UNCHANGED <<row, pass, stale, seen, online, ending, awaiting, dirty, prints>>

\* start_print returned False or raised; the uploaded file is deleted first.
Refused(i) ==
    LET p == task[i].on IN
    /\ task[i].pc = "send"
    /\ p \notin online \/ seen[p] = "ACTIVE" \/ May("refuse")
    /\ Goto(i, "refused")
    /\ UNCHANGED <<row, watch, hold, pass, stale, printerVars>>

\* Busy is a deferral, a lost connection a retry while the budget lasts, the
\* rest a failure.
AfterRefusal(i) ==
    LET p == task[i].on IN
    /\ task[i].pc = "refused"
    /\ IF seen[p] = "ACTIVE" THEN Blind(i, "pending")
       ELSE IF p \notin online /\ row[i].attempts + 1 < MaxAttempts
       THEN Write(i, [row[i] EXCEPT !.status = "pending", !.attempts = @ + 1])
       ELSE Blind(i, "failed")
    /\ Goto(i, "finish")
    /\ UNCHANGED <<watch, hold, pass, stale, printerVars>>

\* _clear_dispatch_claim, and the done-callback that frees the pool slot.
Finish(i) ==
    /\ task[i].pc = "finish"
    /\ \/ row' = [row EXCEPT ![i].claimed = FALSE]
       \/ May("clearFail") /\ UNCHANGED row
    /\ task' = [task EXCEPT ![i] = NoTask]
    /\ UNCHANGED <<watch, hold, pass, stale, printerVars>>

UploadTask(i) ==
    \/ Claim(i) \/ RejectEarly(i) \/ Recheck(i) \/ UploadFails(i) \/ Uploaded(i)
    \/ RackPickStale(i) \/ Send(i) \/ Refused(i) \/ AfterRefusal(i) \/ Finish(i)

-----------------------------------------------------------------------------
(* _watchdog_print_start: polls every three seconds, 90 s for the command  *)
(* to land, another 180 s for the print to begin once it has.              *)

\* The reads on either side of "pools" are one query apart, far less than the
\* three seconds from a command to its first poll, so a hold taken in between
\* is not released in between.
EndWatch(i) ==
    /\ pass.pc # "pools"
    /\ watch' = [watch EXCEPT ![i] = NoWatch]
    /\ hold' = hold \ {watch[i].on}

SeesActive(i) ==
    /\ watch[i].phase # "off" /\ seen[watch[i].on] = "ACTIVE"
    /\ EndWatch(i)
    /\ UNCHANGED <<row, task, pass, stale, printerVars>>

\* The subtask id advanced: the file landed, the print has not begun.
SeesSubtask(i) ==
    LET p == watch[i].on IN
    /\ watch[i].phase = "A" /\ p \in online
    /\ machine[p] = [phase |-> "loaded", job |-> i]
    /\ watch' = [watch EXCEPT ![i].phase = "B"]
    /\ UNCHANGED <<row, task, hold, pass, stale, printerVars>>

\* The HMS fault that says the printer will not verify our commands.
CommandRejected(i) ==
    LET p == watch[i].on IN
    /\ May("reject")
    /\ watch[i].phase # "off" /\ p \in online /\ seen[p] # "ACTIVE"
    /\ machine[p].job # i
    /\ \/ row[i].status # "printing" /\ row' = row
       \/ row[i].status = "printing"
          /\ row' = [row EXCEPT ![i].status = "failed", ![i].attempts = @ + 1]
       \/ May("clearFail") /\ row' = row
    /\ EndWatch(i)
    /\ UNCHANGED <<task, pass, stale, printerVars>>

\* As it would be with no budget, and with one attempt too many.
NeverGivesUp(attempts)  == FALSE
GivesUpLate(attempts)   == attempts > MaxAttempts

GivesUp(attempts)       == attempts >= MaxAttempts

\* The time is up.  Unless the command is slow to act ("late"), a printer
\* that has not begun the job by now never will.  With nothing landed the
\* MQTT session is torn down to be built afresh.  A revert the database refuses
\* to the last retry ("clearFail") leaves the row printing.
StartTimeout(i) ==
    LET p == watch[i].on
        attempts == row[i].attempts + 1 IN
    /\ watch[i].phase # "off" /\ seen[p] # "ACTIVE"
    /\ p \in online /\ (machine[p].job = i \/ ending[p].job = i) => May("late")
    /\ \/ row[i].status # "printing" /\ row' = row
       \/ row[i].status = "printing"
          /\ row' = [row EXCEPT ![i].attempts = attempts,
                       ![i].status = IF GivesUp(attempts) THEN "failed" ELSE "pending"]
       \/ May("clearFail") /\ row' = row
    /\ online' = IF row[i].status = "printing" /\ watch[i].phase = "A" /\ machine[p].job # i
                 THEN online \ {p} ELSE online
    /\ EndWatch(i)
    /\ UNCHANGED <<task, pass, stale, machine, seen, ending, awaiting, dirty, prints>>

Watchdog(i) == SeesActive(i) \/ SeesSubtask(i) \/ CommandRejected(i) \/ StartTimeout(i)

-----------------------------------------------------------------------------
(* The printers, and what the backend hears of them.                       *)

Begin(p) ==
    /\ machine[p].phase = "loaded"
    /\ machine' = [machine EXCEPT ![p].phase = "running"]
    /\ prints' = [prints EXCEPT ![machine[p].job] = IF @ < 2 THEN @ + 1 ELSE @]
    /\ dirty' = dirty \union {p}
    /\ UNCHANGED <<queueVars, seen, online, ending, awaiting>>

\* A printer that accepts the file and drops it without beginning.
DropJob(p) ==
    /\ May("wedge")
    /\ machine[p].phase = "loaded"
    /\ machine' = [machine EXCEPT ![p] = Free]
    /\ UNCHANGED <<queueVars, seen, online, ending, awaiting, dirty, prints>>

\* A print outlasts the three seconds between two polls of the watchdog.
EndPrint(p, result) ==
    /\ machine[p].phase = "running"
    /\ p \in online => /\ seen[p] = "ACTIVE"
                       /\ \A i \in Items : watch[i].on # p
    /\ machine' = [machine EXCEPT ![p].phase = result]
    /\ UNCHANGED <<queueVars, seen, online, ending, awaiting, dirty, prints>>

HearActive(p) ==
    /\ p \in online /\ machine[p].phase = "running" /\ seen[p] # "ACTIVE"
    /\ seen' = [seen EXCEPT ![p] = "ACTIVE"]
    /\ UNCHANGED <<queueVars, machine, online, ending, awaiting, dirty, prints>>

\* The end of a print seen running raises the completion callback.
HearEnd(p) ==
    /\ p \in online /\ machine[p].phase \in {"FINISH", "FAILED"}
    /\ ending[p].phase = "none"
    /\ seen' = [seen EXCEPT ![p] = machine[p].phase]
    /\ ending' = IF seen[p] # "ACTIVE" THEN ending
                 ELSE [ending EXCEPT ![p] = [phase |-> "raised", job |-> machine[p].job,
                                             result |-> machine[p].phase]]
    /\ machine' = [machine EXCEPT ![p] = Free]
    /\ UNCHANGED <<queueVars, online, awaiting, dirty, prints>>

\* The user dismisses the finished print on the printer's screen.
Dismiss(p) ==
    /\ May("dismiss")
    /\ p \in online /\ seen[p] \in {"FINISH", "FAILED"}
    /\ seen' = [seen EXCEPT ![p] = "IDLE"]
    /\ UNCHANGED <<queueVars, machine, online, ending, awaiting, dirty, prints>>

Disconnect(p) ==
    /\ May("offline")
    /\ p \in online
    /\ online' = online \ {p}
    /\ UNCHANGED <<queueVars, machine, seen, ending, awaiting, dirty, prints>>

\* The first push after the session is up is sooner than any upload's end.
Reconnect(p) ==
    /\ p \notin online
    /\ online' = online \union {p}
    /\ seen' = IF machine[p].phase = "running" THEN [seen EXCEPT ![p] = "ACTIVE"]
               ELSE seen
    /\ UNCHANGED <<queueVars, machine, ending, awaiting, dirty, prints>>

Printer(p) ==
    \/ Begin(p) \/ DropJob(p) \/ HearActive(p) \/ HearEnd(p) \/ Dismiss(p)
    \/ Disconnect(p) \/ Reconnect(p)
    \/ \E r \in {"FINISH", "FAILED"} : EndPrint(p, r)

-----------------------------------------------------------------------------
(* on_print_complete: the plate gate early, the queue row much later.      *)

RaiseGate(p) ==
    /\ ending[p].phase = "raised"
    /\ ending' = [ending EXCEPT ![p].phase = "gateUp"]
    /\ awaiting' = awaiting \union {p}
    /\ UNCHANGED <<queueVars, machine, seen, online, dirty, prints>>

\* As it would be with no comparison of names.
NamesAlwaysAgree(i, j) == TRUE

\* _completion_belongs_to_queue_item compares names, all the event carries.
NamesAgree(i, j) == i = j \/ {i, j} \subseteq Batch

\* The row is found by printer and status alone; a wrong comparison refuses
\* even its own completion and strands the row ("misnamed").
CloseRow(p) ==
    LET done == ending[p] IN
    /\ done.phase = "gateUp"
    /\ \/ /\ PrintingOn(p) = {}
          /\ row' = row
       \/ \E i \in PrintingOn(p) :
            \/ /\ NamesAgree(i, done.job)
               /\ row' = [row EXCEPT ![i].status = TerminalQueueStatus(done.result)]
            \/ /\ ~NamesAgree(i, done.job) \/ May("misnamed")
               /\ row' = row
    /\ ending' = [ending EXCEPT ![p] = NoEnding]
    /\ UNCHANGED <<task, watch, hold, pass, stale,
                   machine, seen, online, awaiting, dirty, prints>>

Completion(p) == RaiseGate(p) \/ CloseRow(p)

-----------------------------------------------------------------------------
(* A crash of the backend and its restart.  The database survives: rows,   *)
(* claims and the plate gate.  What a printer did meanwhile is read from    *)
(* its state, and a print whose completion was missed is closed as aborted *)
(* (reconcile_stale_active_prints).  Every printer is reachable at restart. *)

Missed(p) == /\ seen[p] = "ACTIVE" \/ ending[p].phase # "none"
             /\ machine[p].phase # "running"

Restart ==
    /\ May("crash")
    /\ online = Printers
    /\ task' = [i \in Items |-> NoTask]
    /\ watch' = [i \in Items |-> NoWatch]
    /\ hold' = {} /\ pass' = AtBoot /\ stale' = {}
    /\ seen' = [p \in Printers |->
                  CASE machine[p].phase = "running" -> "ACTIVE"
                    [] machine[p].phase \in {"FINISH", "FAILED"} -> machine[p].phase
                    [] machine[p].phase \in {"free", "loaded"} /\ seen[p] = "ACTIVE" -> "IDLE"
                    [] OTHER -> seen[p]]
    /\ ending' = [p \in Printers |->
                    IF ~Missed(p) THEN NoEnding
                    ELSE [phase |-> "raised", result |-> "IDLE",
                          job |-> IF ending[p].phase # "none" THEN ending[p].job
                                  ELSE machine[p].job]]
    /\ machine' = [p \in Printers |-> IF machine[p].phase \in {"FINISH", "FAILED"}
                                      THEN Free ELSE machine[p]]
    /\ UNCHANGED <<row, online, awaiting, dirty, prints>>

-----------------------------------------------------------------------------
Next ==
    \/ Request \/ Scheduler \/ Restart
    \/ \E i \in Items : UploadTask(i) \/ Watchdog(i)
    \/ \E p \in Printers : Printer(p) \/ Completion(p)

Spec == Init /\ [][Next]_vars

-----------------------------------------------------------------------------
(* Safety.                                                                 *)

\* A row is in the hands of at most one of the pass that selected it, its
\* upload task and the watchdog of its last command, and a watchdog never
\* guards a row that could be selected: whatever order passes, uploads,
\* reverts, restarts and user requests fall in, no two of them drive one row.
Waitable == {"absent", "pending", "skipped"}
OneActor ==
    \A i \in Items :
        /\ InFlight(i) => i \notin Selected
        /\ watch[i].phase # "off" => /\ i \notin Selected
                                     /\ task[i].pc \in {"none", "finish"}
                                     /\ row[i].status \notin Waitable

\* The retry budget is real: a row that has used all its attempts is failed
\* (or deleted since, or kept as cancelled in place of a delete) and nothing
\* will dispatch it again (#2555).
AttemptsBounded ==
    \A i \in Items : row[i].attempts = MaxAttempts =>
        /\ row[i].status \in {"failed", "cancelled", "deleted"}
        /\ i \notin Selected
        /\ task[i].pc \in {"none", "finish"}

\* A command that is on its way, or was just refused, belongs to a row no pass
\* can select: a cancel or a failure may still close it, nothing can requeue it.
SendingIsLive ==
    \A i \in Items : task[i].pc \in {"send", "refused"} => row[i].status \notin Waitable

\* With the types, the three are inductive: each needs the others.
IInv == TypeOK /\ OneActor /\ AttemptsBounded /\ SendingIsLive

\* No two rows are printing on one printer at the same time, the state
\* on_print_complete reports as a bug.
OneRowPerPrinter ==
    \A i, j \in Items :
        i # j /\ row[i].status = "printing" /\ row[j].status = "printing"
            => row[i].printer # row[j].printer

\* No row's job begins twice on a printer: no crash, lost command or refused
\* send makes the queue print a copy it already printed.
AtMostOncePrint == \A i \in Items : prints[i] <= 1

\* A row is reported completed only if its job began on a printer.
CompletedWasPrinted ==
    \A i \in Items : row[i].status = "completed" => prints[i] >= 1

\* Between claim and release the row, its task and the printer the file was
\* uploaded to agree on where the job goes.
ClaimPinsPrinter ==
    \A i \in Items : task[i].pc \in {"upload", "send", "refused"} /\ Exists(i)
        => row[i].printer = task[i].on

-----------------------------------------------------------------------------
(* What a step may never do.                                               *)

Sends(i) == task[i].pc = "send" /\ watch[i].phase = "off" /\ watch'[i].phase = "A"

\* A request that writes over a row already marked: a stop, or a cancel or a
\* delete that read the row before it was marked.
Overruled(i) == Stop(i) \/ LateCancel(i) \/ LateDelete(i)

\* What OnlyLiveRowsAreSent asks of a step.
SendsAreOfMarked ==
    \A i \in Items : task'[i].pc = "send" =>
        \/ row'[i].status = "printing"
        \/ task[i].pc = "send" /\ row[i].status # "printing"
        \/ task[i].pc = "send" /\ Overruled(i)

\* The print command goes out only for a row marked printing: a cancel or
\* delete that lands during the upload is seen in time (#1853).  The mark is
\* there when the send begins, and until the send is over nothing but a request
\* of the user's takes it away: no completion, sweep, watchdog or pass does.
OnlyLiveRowsAreSent == [][SendsAreOfMarked]_vars

\* The command never reaches a printer that holds another job already.
NoCollision ==
    [][\A i \in Items : Sends(i) => machine[task[i].on].phase = "free"]_vars

\* With the plate gate on, the command never goes to a printer whose last
\* print the user has not confirmed removed.
PlateIsClear ==
    [][\A i \in Items : PlateGate /\ Sends(i) => task[i].on \notin dirty]_vars

\* A completion closes the row of the job that ended, not one that happens to
\* be printing on the same printer by the time the callback gets to it.
CompletionIsOwn ==
    [][\A p \in Printers : \A i \in Items :
          ending[p].phase = "gateUp" /\ ending'[p].phase = "none"
            /\ row'[i].status # row[i].status
          => ending[p].job = i]_vars

\* A watchdog that runs out while its printer is disconnected leaves the row
\* as it is: what the printer did is unknown (print_scheduler.py, phase A).
OfflineRowsAreLeftAlone ==
    [][\A i \in Items :
          watch[i].phase # "off" /\ watch[i].on \notin online /\ StartTimeout(i)
          => row'[i].status = row[i].status]_vars

\* What a user cancelled stays cancelled.
CancelIsFinal ==
    [][\A i \in Items : row[i].status = "cancelled"
          => row'[i].status \in {"cancelled", "deleted"}]_vars

-----------------------------------------------------------------------------
(* Liveness.  The scheduler loop, the tasks, the watchdogs and the callbacks *)
(* are coroutines the event loop keeps running, the database does not refuse *)
(* every sweep, a started print ends, a printer is heard and comes back.  No *)
(* request is ever owed.                                                     *)

Fairness ==
    /\ WF_vars(Startup) /\ WF_vars(ClearStaleClaims)
    /\ SF_vars(ClearStaleClaims /\ row' = Unclaimed)
    /\ WF_vars(PassRead) /\ WF_vars(PassPools)
    /\ WF_vars(pass.pc = "close" /\ Scheduler)
    /\ WF_vars(pass.pc = "scan" /\ Scheduler)
    /\ \A i \in Items :
         /\ WF_vars(UploadTask(i)) /\ SF_vars(Watchdog(i))
         /\ SF_vars(\E S \in SUBSET Items : i \in S /\ CloseStranded(S))
    /\ \A p \in Printers :
         /\ WF_vars(Completion(p)) /\ WF_vars(Begin(p)) /\ WF_vars(Reconnect(p))
         /\ SF_vars(HearActive(p)) /\ SF_vars(HearEnd(p))
         /\ SF_vars(\E r \in {"FINISH", "FAILED"} : EndPrint(p, r))

FairSpec == Spec /\ Fairness

\* Promised of a backend that is not restarted for ever and of printers that
\* do not drop their connection for ever.
OutagesEnd == <>[][~Restart /\ \A p \in Printers : ~Disconnect(p)]_vars

\* Every dispatch claim is released, even one whose clearing write failed:
\* no row stays out of the selection query for ever.
ClaimsAreReleased ==
    OutagesEnd => \A i \in Items : row[i].claimed ~> ~row[i].claimed

\* Every row leaves printing: by its completion, its watchdog or the sweep.
PrintingEnds ==
    OutagesEnd => \A i \in Items :
        row[i].status = "printing" ~> row[i].status # "printing"

=============================================================================
