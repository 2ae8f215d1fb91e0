---------------------------- MODULE PipelineRuns ----------------------------
(***************************************************************************)
(* Slicer pipelines: one click slices a file and queues copies of it       *)
(* (backend, api/routes/pipeline_runs.py). A run has a row, a row per copy *)
(* and, once it is dispatched, an entry of the print queue per copy; a     *)
(* background task takes it there while users cancel, retry and clear runs *)
(* and the queue works on, or loses, its entries.                          *)
(*                                                                         *)
(* The database is the default one, SQLite in WAL mode: a transaction that *)
(* has written keeps every other writer out until it commits, and one that *)
(* has only read keeps nobody out. So a handler is one step from its first *)
(* write to its commit, and each read before that is a step of its own.    *)
(* Foreign keys are not enforced. A row's id is not given to a later row.  *)
(***************************************************************************)
EXTENDS Naturals, FiniteSets

CONSTANTS
    Runs,       \* runs that may be asked for
    MaxCopies,  \* pipeline_max_copies
    Requests,   \* what users do: "cancel", "cancelEarly", "retry", "clear",
                \* "dequeue", "delete"
    Faults      \* what may go wrong: "slice", "raise", "pipeline", "requeue", "restart"

ASSUME PipelineAssumption == MaxCopies \in Nat \ {0}

VARIABLES
    run,       \* PipelineRun.status, as persisted
    copies,    \* PipelineRun.copies
    job,       \* PipelineJob: its status and whether it names a queue entry
    entry,     \* the queue entry of a copy
    task,      \* where the orchestration of a run stands
    asked,     \* runs that a cancel request has read and not written yet
    cancelled  \* runs whose cancel was committed

vars == <<run, copies, job, entry, task, asked, cancelled>>

Copies       == 1..MaxCopies
RunStatuses  == {"none", "queued", "slicing", "dispatching", "failed", "cancelled", "cleared"}
JobStatuses  == {"pending", "queued", "cancelled"}
EntryEnds    == {"completed", "failed", "cancelled"}
EntryStates  == {"none", "pending", "printing", "deleted"} \union EntryEnds
AtWork       == {"posted", "ready", "read", "slicing", "sliced", "checked", "loaded"}
CutShort     == {"lost", "dead"}   \* the task raised, or a restart took it
TaskStates   == {"none", "done"} \union AtWork \union CutShort

TypeOK ==
    /\ run \in [Runs -> RunStatuses]
    /\ copies \in [Runs -> 0..MaxCopies]
    /\ job \in [Runs -> [Copies -> [status: JobStatuses, named: BOOLEAN]]]
    /\ entry \in [Runs -> [Copies -> EntryStates]]
    /\ task \in [Runs -> TaskStates]
    /\ asked \subseteq Runs
    /\ cancelled \subseteq Runs

Init ==
    /\ run = [r \in Runs |-> "none"]
    /\ copies = [r \in Runs |-> 0]
    /\ job = [r \in Runs |-> [c \in Copies |-> [status |-> "pending", named |-> FALSE]]]
    /\ entry = [r \in Runs |-> [c \in Copies |-> "none"]]
    /\ task = [r \in Runs |-> "none"]
    /\ asked = {}
    /\ cancelled = {}

-----------------------------------------------------------------------------
(* What is reported of a run: computed from the rows whenever it is read.  *)

Of(r) == 1..copies[r]

\* The entry statuses that are passed on as they are; any other reads "queued".
ThoseThatRan == {"printing", "completed", "failed"}
PassedOn     == {"printing"} \union EntryEnds

\* _compute_job_status: the row's own status if it is over or has no entry to
\* ask, else the entry's.
Computed(r, c) ==
    IF job[r][c].status = "cancelled" THEN "cancelled"
    ELSE IF ~job[r][c].named \/ entry[r][c] = "deleted" THEN job[r][c].status
    ELSE IF entry[r][c] \in PassedOn THEN entry[r][c]
    ELSE "queued"

\* _materialise_run: a copy whose entry has left the queue counts as cancelled.
GoneIsNoNews(r, c, status) == status
GoneIsCancelled(r, c, status) ==
    IF job[r][c].named /\ entry[r][c] = "deleted" THEN "cancelled" ELSE status
JobStatus(r, c) == GoneIsCancelled(r, c, Computed(r, c))

With(r, statuses) == {c \in Of(r) : JobStatus(r, c) \in statuses}

\* _roll_up_run_status.
RunStatus(r) ==
    IF run[r] = "cancelled" THEN "cancelled"
    ELSE IF With(r, {"completed"}) = Of(r) THEN "completed"
    ELSE IF With(r, {"printing", "queued", "pending"}) # {}
    THEN IF run[r] \in {"queued", "slicing", "dispatching"} THEN run[r] ELSE "in_progress"
    ELSE IF With(r, {"cancelled"}) = Of(r) THEN "cancelled"
    ELSE IF With(r, {"completed"}) # {} THEN "partial_failure"
    ELSE "failed"

Terminal == {"completed", "failed", "cancelled", "partial_failure"}

-----------------------------------------------------------------------------
(* The routes.                                                             *)

\* run_pipeline up to its commit: the run's row and one row per copy.
Post(r, n) ==
    /\ run[r] = "none"
    /\ run' = [run EXCEPT ![r] = "queued"]
    /\ copies' = [copies EXCEPT ![r] = n]
    /\ task' = [task EXCEPT ![r] = "posted"]
    /\ UNCHANGED <<job, entry, asked, cancelled>>

\* The numbers of copies that the configured ceiling lets through.
OneTooMany == 1..(MaxCopies + 1)
Accepted   == Copies
RunPipeline(r) == \E n \in Accepted : Post(r, n)

\* ... and the background slice job it starts.
Launch(r) ==
    /\ task[r] = "posted"
    /\ task' = [task EXCEPT ![r] = "ready"]
    /\ UNCHANGED <<run, copies, job, entry, asked, cancelled>>

\* retry_failed: a new run for as many copies as have failed or were cancelled.
\* It goes on with the number it counted, so counting and posting are one step.
Unsuccessful(r) == {c \in Of(r) : Computed(r, c) \in {"failed", "cancelled"}}
RetryFailed(r, new) ==
    /\ "retry" \in Requests
    /\ run[r] \notin {"none", "cleared"}
    /\ Unsuccessful(r) # {}
    /\ Post(new, Cardinality(Unsuccessful(r)))

\* cancel_run reads the row, and answers at once if the row says it is over.
CancelRead(r) ==
    /\ "cancel" \in Requests
    /\ run[r] \in {"queued", "slicing", "dispatching"}
    /\ asked' = asked \union {r}
    /\ UNCHANGED <<run, copies, job, entry, task, cancelled>>

\* The queue entries that a cancel takes back: those nothing prints yet.
Withdrawn(e) == IF e = "pending" THEN "cancelled" ELSE e
CancelJobs(r, jobs) == [c \in Copies |-> IF c \in Of(r) THEN [jobs[c] EXCEPT !.status = "cancelled"]
                                         ELSE jobs[c]]

\* cancel_run from its first write to its commit. A row that was cleared in the
\* meantime is an error. "cancelEarly": also between the two halves of the
\* task's own first check (StartTask, BeginSlicing), a few milliseconds apart.
CancelWrite(r) ==
    /\ r \in asked
    /\ task[r] = "read" => "cancelEarly" \in Requests
    /\ asked' = asked \ {r}
    /\ IF run[r] = "cleared"
       THEN UNCHANGED <<run, job, entry, cancelled>>
       ELSE /\ run' = [run EXCEPT ![r] = "cancelled"]
            /\ job' = [job EXCEPT ![r] = CancelJobs(r, @)]
            /\ entry' = [entry EXCEPT ![r] = [c \in Copies |->
                            IF job[r][c].named THEN Withdrawn(@[c]) ELSE @[c]]]
            /\ cancelled' = cancelled \union {r}
    /\ UNCHANGED <<copies, task>>

\* clear_terminal_runs goes by the persisted status.
ClearRuns ==
    LET over == {r \in Runs : run[r] \in Terminal} IN
    /\ "clear" \in Requests /\ over # {}
    /\ run' = [r \in Runs |-> IF r \in over THEN "cleared" ELSE run[r]]
    /\ UNCHANGED <<copies, job, entry, task, asked, cancelled>>

-----------------------------------------------------------------------------
(* The orchestration of a run, in the background.                          *)

Goto(r, state) == task' = [task EXCEPT ![r] = state]

\* The first read: a run that was cancelled or cleared is left alone, and so is
\* one whose pipeline is gone, whatever its row says ("pipeline": a pipeline is
\* only marked as deleted, so its row goes when the database is changed by hand).
StartTask(r) ==
    /\ task[r] = "ready"
    /\ \/ Goto(r, IF run[r] \in {"cancelled", "cleared"} THEN "done" ELSE "read")
       \/ "pipeline" \in Faults /\ Goto(r, "lost")
    /\ UNCHANGED <<run, copies, job, entry, asked, cancelled>>

\* The status is written. Writing a row that is gone is an error.
BeginSlicing(r) ==
    /\ task[r] = "read"
    /\ IF run[r] = "cleared"
       THEN Goto(r, "done") /\ UNCHANGED run
       ELSE Goto(r, "slicing") /\ run' = [run EXCEPT ![r] = "slicing"]
    /\ UNCHANGED <<copies, job, entry, asked, cancelled>>

Sliced(r) ==
    /\ task[r] = "slicing"
    /\ Goto(r, "sliced")
    /\ UNCHANGED <<run, copies, job, entry, asked, cancelled>>

\* The slice fails: the run does, whatever its row says by now.
SliceFails(r) ==
    /\ "slice" \in Faults
    /\ task[r] = "slicing"
    /\ Goto(r, "done")
    /\ run' = [run EXCEPT ![r] = IF @ = "cleared" THEN @ ELSE "failed"]
    /\ UNCHANGED <<copies, job, entry, asked, cancelled>>

\* Is the run still there?
StillThere(r) == run[r] # "cleared"

\* Is the run still wanted? Asked after the slice, and again before the commit.
StillWanted(r) == run[r] \notin {"cancelled", "cleared"}

RecheckRun(r) ==
    /\ task[r] = "sliced"
    /\ Goto(r, IF StillWanted(r) THEN "checked" ELSE "done")
    /\ UNCHANGED <<run, copies, job, entry, asked, cancelled>>

\* The printers are picked and the rows of the copies are read.
LoadJobs(r) ==
    /\ task[r] = "checked"
    /\ Goto(r, "loaded")
    /\ UNCHANGED <<run, copies, job, entry, asked, cancelled>>

\* From the first insert to the commit. A run that was cancelled in the
\* meantime gets its entries cancelled; one that was cleared, none.
Dispatch(r) ==
    LET queued == StillWanted(r) IN
    /\ task[r] = "loaded"
    /\ Goto(r, "done")
    /\ IF run[r] = "cleared"
       THEN UNCHANGED <<run, job, entry>>
       ELSE /\ run' = [run EXCEPT ![r] = IF queued THEN "dispatching" ELSE @]
            /\ job' = [job EXCEPT ![r] = [c \in Copies |->
                          IF c \notin Of(r) THEN @[c]
                          ELSE [status |-> IF queued THEN "queued" ELSE "cancelled", named |-> TRUE]]]
            /\ entry' = [entry EXCEPT ![r] = [c \in Copies |->
                          IF c \notin Of(r) THEN @[c]
                          ELSE IF queued THEN "pending" ELSE "cancelled"]]
    /\ UNCHANGED <<copies, asked, cancelled>>

\* An exception that only the slice's own try would have caught: the launch, the
\* source file, a query, the assertion on the target, a refused flush or commit.
\* The task ends there and its transaction is undone; the run stays as it is.
TaskRaises(r) ==
    /\ "raise" \in Faults
    /\ task[r] \in AtWork
    /\ Goto(r, "lost")
    /\ UNCHANGED <<run, copies, job, entry, asked, cancelled>>

\* The backend restarts: the tasks are gone, and nothing resumes their runs.
Restart ==
    /\ "restart" \in Faults
    /\ \E r \in Runs : task[r] \in AtWork
    /\ task' = [r \in Runs |-> IF task[r] \in AtWork THEN "dead" ELSE task[r]]
    /\ asked' = {}
    /\ UNCHANGED <<run, copies, job, entry, cancelled>>

-----------------------------------------------------------------------------
(* The print queue, as module DispatchQueue has it: an entry is taken up,  *)
(* may be handed back, and ends; users cancel it or delete it there.       *)

Entry(r, c, from, to) ==
    /\ entry[r][c] \in from
    /\ entry' = [entry EXCEPT ![r][c] = to]
    /\ UNCHANGED <<run, copies, job, task, asked, cancelled>>

PrintEntry(r, c) == Entry(r, c, {"pending"}, "printing")
EndEntry(r, c)   == \E end \in EntryEnds : Entry(r, c, {"printing"}, end)
Requeue(r, c)    == "requeue" \in Faults /\ Entry(r, c, {"printing"}, "pending")
Dequeue(r, c)    == "dequeue" \in Requests /\ Entry(r, c, {"pending"}, "cancelled")
Delete(r, c)     == "delete" \in Requests /\ Entry(r, c, {"pending"} \union EntryEnds, "deleted")

-----------------------------------------------------------------------------
Orchestrate(r) ==
    \/ Launch(r) \/ StartTask(r) \/ BeginSlicing(r) \/ Sliced(r) \/ SliceFails(r)
    \/ RecheckRun(r) \/ LoadJobs(r) \/ Dispatch(r)

Next ==
    \/ \E r \in Runs : \/ RunPipeline(r) \/ Orchestrate(r) \/ TaskRaises(r)
                       \/ CancelRead(r) \/ CancelWrite(r)
                       \/ \E new \in Runs : RetryFailed(r, new)
    \/ \E r \in Runs, c \in Copies : \/ PrintEntry(r, c) \/ EndEntry(r, c) \/ Requeue(r, c)
                                     \/ Dequeue(r, c) \/ Delete(r, c)
    \/ ClearRuns \/ Restart

Spec == Init /\ [][Next]_vars

\* Tasks and requests go on, entries are taken up, and a print that is handed
\* back again and again ends at last (module DispatchQueue, AttemptsBounded).
Fairness ==
    \A r \in Runs :
        /\ WF_vars(Orchestrate(r)) /\ WF_vars(CancelWrite(r))
        /\ \A c \in Copies : WF_vars(PrintEntry(r, c)) /\ SF_vars(EndEntry(r, c))
FairSpec == Spec /\ Fairness

-----------------------------------------------------------------------------
(* Properties.                                                             *)

\* A cancel keeps its copies out of the queue: it withdraws those that wait
\* there and no later step of the run's task puts one in. Only an entry that
\* was being dispatched can come back to the queue.
CancelSticks ==
    [][\A r \in Runs, c \in Copies :
          r \in cancelled' /\ entry'[r][c] = "pending" =>
              \/ entry[r][c] = "printing"
              \/ entry[r][c] = "pending" /\ r \in cancelled]_vars

\* A run that is reported as under way is: its task is at work, or one of its
\* entries is. The code leaves three behind, which are reported as under way for
\* ever: a task that a restart took, one that raised outside the slice's try or
\* found no pipeline (CutShort), and a failed slice (HardFailureWins).
UnderWayIsMoving ==
    \A r \in Runs :
        run[r] \notin {"none", "cleared", "failed"} /\ RunStatus(r) \notin Terminal =>
            \/ task[r] \in AtWork
            \/ \E c \in Of(r) : entry[r][c] \in {"pending", "printing"}
            \/ task[r] \in CutShort

\* Every run is reported as over in the end, or cleared, unless its task was cut
\* short or its slice failed.
RunsEnd ==
    \A r \in Runs :
        (run[r] # "none")
            ~> \/ run[r] \in {"cleared", "failed"} \/ RunStatus(r) \in Terminal
               \/ task[r] \in CutShort

-----------------------------------------------------------------------------
(* What docstrings promise and the code does not keep (README, section 6). *)

\* The docstring of _roll_up_run_status: a hard failure that was persisted
\* always wins.
HardFailureWins == \A r \in Runs : run[r] = "failed" => RunStatus(r) = "failed"

\* The docstring of PipelineJob: deleting the queue entry later does not lose
\* the audit trail. A run that is reported as completed stays completed.
OutcomeIsKept ==
    [][\A r \in Runs : run[r] = "dispatching" /\ RunStatus(r) = "completed"
          => RunStatus(r)' = "completed" \/ run'[r] = "cleared"]_vars
=============================================================================
