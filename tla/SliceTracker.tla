---------------------------- MODULE SliceTracker ----------------------------
(***************************************************************************)
(* Background slicing, from the request to the announcement of its end:    *)
(* the dispatcher's table of jobs (backend, slice_dispatch.py), and the    *)
(* tracker of one browser page that polls it and tells the user            *)
(* (frontend, SliceJobTrackerContext.tsx).                                 *)
(*                                                                         *)
(* The table lives in memory and numbers its jobs from 1: a restart of the *)
(* backend empties it and numbers from 1 again. The tracker knows a job by *)
(* its number and by the name of what is sliced.                           *)
(***************************************************************************)
EXTENDS Naturals, FiniteSets, Sequences

CONSTANTS
    Slices,       \* requests made from the page; each stands for its file's name
    NoSlice,
    MaxRestarts,  \* bound: restarts of the backend
    Faults        \* what may go wrong: "restart", "aged", "error", "reload"

ASSUME SliceAssumption ==
    /\ IsFiniteSet(Slices)
    /\ NoSlice \notin Slices
    /\ MaxRestarts \in Nat

VARIABLES
    table,     \* _jobs: what is sliced under each number, and how far it is
    nextId,    \* _next_id
    restarts,
    ticket,    \* the number a request was given, 0 before
    page,      \* what the page knows of a request: not yet made, answer under
               \* way, tracked, or forgotten by a reload of the page
    fate,      \* how the slicing ended
    lost,      \* requests whose row has left the table
    active,    \* activeJobs as last rendered, which activeJobsRef mirrors
    listed,    \* activeJobs as setActiveJobs has left it, rendered or not
    started,   \* keys of startedAtRef
    finished,  \* finishedRef
    toasts,    \* numbers that have a persistent toast with a spinner
    rounds,    \* poll rounds: the job asked about, the answer, the jobs left,
               \* and whether the effect that began the round was cleaned up
    told,      \* what the user was told about each request
    modal      \* sliceError: the request whose failure the modal explains

backend == <<table, nextId, restarts, ticket, fate, lost>>
tracker == <<active, listed, started, finished, toasts, rounds, told, modal>>
vars    == <<backend, page, tracker>>

Ends     == {"completed", "failed"}
Statuses == {"open"} \union Ends   \* open: pending or running
Ids      == Nat \ {0}
Jobs     == [id: Ids, name: Slices]
Rounds   == [job: Jobs, answer: {"waiting", "error"} \union Statuses,
             left: SUBSET Jobs, cancelled: BOOLEAN]

TypeOK ==
    /\ table \in [Slices -> {"absent"} \union Statuses]
    /\ nextId \in Ids /\ restarts \in Nat
    /\ ticket \in [Slices -> Nat]
    /\ page \in [Slices -> {"new", "asked", "tracked", "forgotten"}]
    /\ fate \in [Slices -> {"none"} \union Ends]
    /\ lost \subseteq Slices
    /\ active \subseteq Jobs /\ listed \subseteq Jobs
    /\ started \subseteq Ids /\ finished \subseteq Ids /\ toasts \subseteq Ids
    /\ rounds \subseteq Rounds
    /\ told \in [Slices -> Seq(Ends)]
    /\ modal \in Slices \union {NoSlice}

\* The number an empty table begins with.
FromZero == 0
FirstId  == 1

Init ==
    /\ table = [s \in Slices |-> "absent"]
    /\ nextId = FirstId /\ restarts = 0
    /\ ticket = [s \in Slices |-> 0]
    /\ page = [s \in Slices |-> "new"]
    /\ fate = [s \in Slices |-> "none"]
    /\ lost = {}
    /\ active = {} /\ listed = {}
    /\ started = {} /\ finished = {} /\ toasts = {}
    /\ rounds = {}
    /\ told = [s \in Slices |-> <<>>]
    /\ modal = NoSlice

-----------------------------------------------------------------------------
(* The dispatcher.                                                         *)

\* Finished jobs that the sweep of an enqueue finds older than the retention.
Aged == IF "aged" \in Faults THEN {s \in Slices : table[s] \in Ends} ELSE {}

\* POST .../slice: a number is taken, the table is swept, the task is created.
Enqueue(s) ==
    /\ page[s] = "new"
    /\ \E old \in SUBSET Aged :
        /\ table' = [t \in Slices |-> IF t = s THEN "open"
                                   ELSE IF t \in old THEN "absent" ELSE table[t]]
        /\ lost' = lost \union old
    /\ ticket' = [ticket EXCEPT ![s] = nextId]
    /\ nextId' = nextId + 1
    /\ page' = [page EXCEPT ![s] = "asked"]
    /\ UNCHANGED <<restarts, fate, tracker>>

\* _run_job comes to its end.
EndJob(s, how) ==
    /\ table[s] = "open"
    /\ table' = [table EXCEPT ![s] = how]
    /\ fate' = [fate EXCEPT ![s] = how]
    /\ UNCHANGED <<nextId, restarts, ticket, lost, page, tracker>>

\* The row the poll endpoint finds under a number.
Found(id) == {s \in Slices : table[s] # "absent" /\ ticket[s] = id}

\* The backend restarts: table, tasks and numbering begin anew. Requests on
\* their way to it fail. It takes longer than a page takes to render.
Restart ==
    /\ "restart" \in Faults /\ restarts < MaxRestarts /\ listed = active
    /\ restarts' = restarts + 1
    /\ lost' = lost \union {s \in Slices : table[s] # "absent"}
    /\ table' = [s \in Slices |-> "absent"]
    /\ nextId' = FirstId
    /\ rounds' = {IF r.answer = "waiting" THEN [r EXCEPT !.answer = "error"] ELSE r : r \in rounds}
    /\ UNCHANGED <<ticket, fate, page, active, listed, started, finished, toasts, told, modal>>

-----------------------------------------------------------------------------
(* The tracker.                                                            *)

JobIds(list) == {job.id : job \in list}

\* The updater functions given to setActiveJobs. The order of the list shows
\* only in the order a round asks in, which is left open here.
OnlyThat(list, job) == {other \in list : other.id = job.id}
Added(list, job)   == IF job.id \in JobIds(list) THEN list ELSE list \union {job}
Dropped(list, job) == {other \in list : other.id # job.id}

\* renderProgressToast shows the spinner only of jobs that have a start time.
SpinnersOfAll(ids, since) == ids
Spinners(ids, since) == ids \intersect since

\* trackJob, called with the answer to the POST.
TrackJob(s) ==
    LET id == ticket[s] IN
    /\ page[s] = "asked"
    /\ page' = [page EXCEPT ![s] = "tracked"]
    /\ listed' = Added(listed, [id |-> id, name |-> s])
    /\ finished' = finished \ {id}
    /\ started' = started \union {id}
    /\ toasts' = toasts \union Spinners({id}, started')
    /\ UNCHANGED <<backend, active, rounds, told, modal>>

\* May an answer about this job still be acted on? (completeJob's own guard)
AlwaysUnhandled(id) == TRUE
Unhandled(id) == id \notin finished

\* completeJob.
CompleteJob(job, how) ==
    IF Unhandled(job.id)
    THEN /\ finished' = finished \union {job.id}
         /\ listed' = Dropped(listed, job)
         /\ started' = started \ {job.id}
         /\ toasts' = toasts \ {job.id}
         /\ told' = [told EXCEPT ![job.name] = Append(@, how)]
         /\ modal' = IF how = "failed" THEN job.name ELSE modal
    ELSE UNCHANGED <<finished, listed, started, toasts, told, modal>>

\* A tick of the poll interval: no round of this effect is under way (polling).
MayPoll == \A r \in rounds : r.cancelled
StartRound ==
    /\ MayPoll
    /\ \E job \in active :
        rounds' = rounds \union {[job |-> job, answer |-> "waiting",
                                 left |-> active \ {job}, cancelled |-> FALSE]}
    /\ UNCHANGED <<backend, page, active, listed, started, finished, toasts, told, modal>>

\* The backend answers the request that a round waits for.
Reply(r) ==
    /\ r \in rounds /\ r.answer = "waiting"
    /\ \E a \in IF Found(r.job.id) = {} THEN {"error"}
              ELSE {table[s] : s \in Found(r.job.id)} :
        rounds' = (rounds \ {r}) \union {[r EXCEPT !.answer = a]}
    /\ UNCHANGED <<backend, page, active, listed, started, finished, toasts, told, modal>>

\* The request fails on its way.
Fail(r) ==
    /\ "error" \in Faults
    /\ r \in rounds /\ r.answer = "waiting"
    /\ rounds' = (rounds \ {r}) \union {[r EXCEPT !.answer = "error"]}
    /\ UNCHANGED <<backend, page, active, listed, started, finished, toasts, told, modal>>

\* The round after an answer: gone if no job is left, else at the next job.
RestUnasked(r) == IF r.left = {} THEN {{}}
                  ELSE {{[r EXCEPT !.job = job, !.left = @ \ {job}]} : job \in r.left}
Rest(r) == IF r.left = {} THEN {{}}
           ELSE {{[r EXCEPT !.job = job, !.answer = "waiting", !.left = @ \ {job}]}
                    : job \in r.left}

\* The answer arrives. An error leaves the job tracked; an answer to a round
\* whose effect was cleaned up ends the round.
Handle(r) ==
    /\ r \in rounds /\ r.answer # "waiting"
    /\ \E rest \in IF r.cancelled /\ r.answer # "error" THEN {{}} ELSE Rest(r) :
        rounds' = (rounds \ {r}) \union rest
    /\ IF ~r.cancelled /\ r.answer \in Ends
       THEN CompleteJob(r.job, r.answer)
       ELSE UNCHANGED <<finished, listed, started, toasts, told, modal>>
    /\ UNCHANGED <<backend, page, active>>

\* React renders the list. A list of another length cleans up the polling
\* effect: a round under way is cancelled and a new interval begins.
Render ==
    /\ listed # active
    /\ active' = listed
    /\ rounds' = IF Cardinality(listed) = Cardinality(active) THEN rounds
                 ELSE {[r EXCEPT !.cancelled = TRUE] : r \in rounds}
    /\ UNCHANGED <<backend, page, listed, started, finished, toasts, told, modal>>

\* The 1 Hz tick that renders the spinners of the rendered list.
Tick ==
    /\ active # {}
    /\ toasts' = toasts \union Spinners(JobIds(active), started)
    /\ UNCHANGED <<backend, page, active, listed, started, finished, rounds, told, modal>>

CloseModal ==
    /\ modal # NoSlice
    /\ modal' = NoSlice
    /\ UNCHANGED <<backend, page, active, listed, started, finished, toasts, rounds, told>>

\* The page is reloaded: the provider begins anew and nothing is tracked.
Reload ==
    /\ "reload" \in Faults
    /\ \E s \in Slices : page[s] \in {"asked", "tracked"}
    /\ page' = [s \in Slices |-> IF page[s] \in {"asked", "tracked"} THEN "forgotten"
                                 ELSE page[s]]
    /\ active' = {} /\ listed' = {}
    /\ started' = {} /\ finished' = {} /\ toasts' = {} /\ rounds' = {}
    /\ modal' = NoSlice
    /\ UNCHANGED <<backend, told>>

-----------------------------------------------------------------------------
AnswerFor(id) == \E r \in rounds : ~r.cancelled /\ r.job.id = id /\ Reply(r)

Next ==
    \/ \E s \in Slices : Enqueue(s) \/ TrackJob(s) \/ \E how \in Ends : EndJob(s, how)
    \/ \E r \in rounds : Handle(r) \/ Fail(r) \/ Reply(r)
    \/ StartRound \/ Render \/ Tick \/ CloseModal
    \/ Restart \/ Reload

Spec == Init /\ [][Next]_vars

\* The interval fires, React renders, and answers that have come are handled.
\* A request is answered or fails, and does not fail every time.
Fairness ==
    /\ WF_vars(StartRound) /\ WF_vars(Render)
    /\ WF_vars(\E r \in rounds : Handle(r))
    /\ WF_vars(\E r \in rounds : Fail(r) \/ Reply(r))
    /\ \A n \in 1..Cardinality(Slices) : SF_vars(AnswerFor(n))
FairSpec == Spec /\ Fairness

-----------------------------------------------------------------------------
(* Properties.                                                             *)

\* Another request was lost under the number that this one carries: numbers
\* begin at 1 again with every restart of the backend.
Reissued(s) == \E t \in lost \ {s} : ticket[t] = ticket[s]

\* The number of a request names its row, and no row of another request.
Known(s) == s \notin lost /\ ~Reissued(s)

\* The user is told once how a slice ended, however many rounds, ticks and
\* late answers saw it end (completeJob, finishedRef). Two requests that were
\* given one number can be mistaken for each other, and be told again as that.
ToldOnce == \A s \in Slices : Known(s) => Len(told[s]) <= 1

\* What the user is told of a slice is how that slice ended, and nothing is
\* told of one that has not ended, with the same exception.
ToldTheTruth ==
    \A s \in Slices : Known(s) /\ told[s] # <<>> => told[s][Len(told[s])] = fate[s]

\* A spinner turns for exactly the jobs that are tracked: none is left behind
\* by a tick that runs between the end of a job and the next rendering, and
\* none is missing (renderProgressToast, completeJob).
SpinnersMatchJobs == toasts = JobIds(listed)

\* Every slice of the page whose end the backend still knows is announced,
\* whatever fails on the way and however rounds overlap.
EveryEndIsTold ==
    \A s \in Slices :
        (page[s] = "tracked" /\ fate[s] # "none")
            ~> (told[s] # <<>> \/ page[s] = "forgotten" \/ ~Known(s))

-----------------------------------------------------------------------------
(* What comments take for granted and the code does not keep (README,      *)
(* section 6).                                                             *)

\* A comment of trackJob: the numbers come from a database sequence, so one
\* that was tracked before is never tracked again.
NumbersAreFresh ==
    [][\A s \in Slices : TrackJob(s) =>
          \A t \in Slices \ {s} : page[t] = "tracked" => ticket[t] # ticket[s]]_vars

\* A comment on sliceError: a failure is explained in a modal that the user
\* acknowledges, because a toast would be gone before it could be read. A modal
\* goes only when it is closed.
FailuresAreAcknowledged == [][~Reload /\ modal # NoSlice => modal' \in {modal, NoSlice}]_vars
=============================================================================
