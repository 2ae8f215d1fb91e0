------------------------- MODULE PipelineRunsProofs -------------------------
(***************************************************************************)
(* Proofs about PipelineRuns, for every set of runs, ceiling of copies and *)
(* choice of requests and faults.                                          *)
(***************************************************************************)
EXTENDS PipelineRuns, FiniteSetTheorems, TLAPS

-----------------------------------------------------------------------------
(* Type correctness.                                                       *)

\* What the rows of one run's copies, and its entries, may be.
JobRows   == [Copies -> [status: JobStatuses, named: BOOLEAN]]
EntryRows == [Copies -> EntryStates]

\* A retry asks for at least one copy, and for no more than its parent had.
LEMMA RetryFits ==
    ASSUME TypeOK, NEW r \in Runs, Unsuccessful(r) # {}
    PROVE  Cardinality(Unsuccessful(r)) \in Copies
<1>1. /\ IsFiniteSet(Copies) /\ Cardinality(Copies) = MaxCopies
  BY FS_Interval, PipelineAssumption DEF Copies
<1>2. Unsuccessful(r) \subseteq Copies
  <2>1. copies[r] \in 0..MaxCopies
    BY DEF TypeOK
  <2>2. Of(r) \subseteq Copies
    BY <2>1, PipelineAssumption DEF Of, Copies
  <2>3. Unsuccessful(r) \subseteq Of(r)
    BY DEF Unsuccessful
  <2> QED BY <2>2, <2>3
<1>3. /\ IsFiniteSet(Unsuccessful(r)) /\ Cardinality(Unsuccessful(r)) <= MaxCopies
  BY <1>1, <1>2, FS_Subset
<1>4. Cardinality(Unsuccessful(r)) \in Nat /\ Cardinality(Unsuccessful(r)) # 0
  BY <1>3, FS_CardinalityType, FS_EmptySet
<1> QED BY <1>3, <1>4, PipelineAssumption DEF Copies

LEMMA PostIsTyped ==
    ASSUME TypeOK, NEW r \in Runs, NEW n \in Copies, Post(r, n)
    PROVE  TypeOK'
BY PipelineAssumption DEF TypeOK, Post, RunStatuses, TaskStates, AtWork, Copies

\* A step of the queue writes a state an entry may have.
LEMMA EntryIsTyped ==
    ASSUME TypeOK, NEW r \in Runs, NEW c \in Copies, NEW from,
           NEW to \in EntryStates, Entry(r, c, from, to)
    PROVE  TypeOK'
BY DEF TypeOK, Entry

LEMMA TypeInit == Init => TypeOK
BY PipelineAssumption DEF Init, TypeOK, RunStatuses, JobStatuses, EntryStates, TaskStates

LEMMA TypeStep ==
    ASSUME TypeOK, [Next]_vars
    PROVE  TypeOK'
<1>1. ASSUME NEW r \in Runs, RunPipeline(r) PROVE TypeOK'
  BY <1>1, PostIsTyped DEF RunPipeline, Accepted
<1>2. ASSUME NEW r \in Runs, NEW new \in Runs, RetryFailed(r, new) PROVE TypeOK'
  BY <1>2, PostIsTyped, RetryFits DEF RetryFailed
<1>3. ASSUME NEW r \in Runs, CancelRead(r) PROVE TypeOK'
  BY <1>3 DEF CancelRead, TypeOK
<1>4. ASSUME NEW r \in Runs, CancelWrite(r) PROVE TypeOK'
  <2>1. CancelJobs(r, job[r]) \in JobRows
    <3>1. ASSUME NEW c \in Copies
          PROVE  /\ job[r][c] \in [status: JobStatuses, named: BOOLEAN]
                 /\ [job[r][c] EXCEPT !.status = "cancelled"]
                        \in [status: JobStatuses, named: BOOLEAN]
      <4>1. job[r][c] \in [status: JobStatuses, named: BOOLEAN]
        BY <3>1 DEF TypeOK
      <4> QED BY <4>1 DEF JobStatuses
    <3> QED BY <3>1 DEF CancelJobs, JobRows
  <2>2. [c \in Copies |-> IF job[r][c].named THEN Withdrawn(entry[r][c]) ELSE entry[r][c]]
            \in EntryRows
    BY DEF TypeOK, Withdrawn, EntryRows, EntryStates, EntryEnds
  <2>3. CASE run[r] = "cleared"
    BY <1>4, <2>3 DEF CancelWrite, TypeOK
  <2>4. CASE run[r] # "cleared"
    BY <1>4, <2>1, <2>2, <2>4 DEF CancelWrite, TypeOK, JobRows, EntryRows, RunStatuses
  <2> QED BY <2>3, <2>4
<1>5. ASSUME ClearRuns PROVE TypeOK'
  BY <1>5 DEF ClearRuns, TypeOK, RunStatuses
<1>6. ASSUME NEW r \in Runs, Orchestrate(r) PROVE TypeOK'
  <2>1. CASE Launch(r) \/ StartTask(r) \/ Sliced(r) \/ RecheckRun(r) \/ LoadJobs(r)
    BY <2>1 DEF Launch, StartTask, Sliced, RecheckRun, LoadJobs, Goto, TypeOK,
                TaskStates, AtWork, CutShort
  <2>2. CASE BeginSlicing(r)
    BY <2>2 DEF BeginSlicing, Goto, TypeOK, TaskStates, AtWork, RunStatuses
  <2>3. CASE SliceFails(r)
    BY <2>3 DEF SliceFails, Goto, TypeOK, TaskStates, RunStatuses
  <2>4. CASE Dispatch(r)
    <3>1. \A b \in BOOLEAN :
              [c \in Copies |-> IF c \notin Of(r) THEN job[r][c]
                  ELSE [status |-> IF b THEN "queued" ELSE "cancelled", named |-> TRUE]]
              \in JobRows
      BY DEF TypeOK, JobRows, JobStatuses
    <3>2. \A b \in BOOLEAN :
              [c \in Copies |-> IF c \notin Of(r) THEN entry[r][c]
                  ELSE IF b THEN "pending" ELSE "cancelled"] \in EntryRows
      BY DEF TypeOK, EntryRows, EntryStates, EntryEnds
    <3>3. StillWanted(r) \in BOOLEAN
      BY DEF StillWanted
    <3>4. CASE run[r] = "cleared"
      BY <2>4, <3>4 DEF Dispatch, Goto, TypeOK, TaskStates
    <3>5. CASE run[r] # "cleared"
      <4>1. job' \in [Runs -> JobRows] /\ entry' \in [Runs -> EntryRows]
        BY <2>4, <3>1, <3>2, <3>3, <3>5 DEF Dispatch, TypeOK, JobRows, EntryRows
      <4>2. run' \in [Runs -> RunStatuses] /\ task' \in [Runs -> TaskStates]
        BY <2>4, <3>5 DEF Dispatch, Goto, TypeOK, TaskStates, RunStatuses
      <4> QED BY <2>4, <4>1, <4>2 DEF Dispatch, TypeOK, JobRows, EntryRows
    <3> QED BY <3>4, <3>5
  <2> QED BY <1>6, <2>1, <2>2, <2>3, <2>4 DEF Orchestrate
<1>7. ASSUME NEW r \in Runs, NEW c \in Copies,
             \/ PrintEntry(r, c) \/ EndEntry(r, c) \/ Requeue(r, c)
             \/ Dequeue(r, c) \/ Delete(r, c)
      PROVE  TypeOK'
  BY <1>7, EntryIsTyped
     DEF PrintEntry, EndEntry, Requeue, Dequeue, Delete, EntryStates, EntryEnds
<1>8. ASSUME Restart PROVE TypeOK'
  BY <1>8 DEF Restart, TypeOK, TaskStates, CutShort
<1>9. ASSUME NEW r \in Runs, TaskRaises(r) PROVE TypeOK'
  BY <1>9 DEF TaskRaises, Goto, TypeOK, TaskStates, CutShort
<1>10. ASSUME UNCHANGED vars PROVE TypeOK'
  BY <1>10 DEF TypeOK, vars
<1> QED BY <1>1, <1>2, <1>3, <1>4, <1>5, <1>6, <1>7, <1>8, <1>9, <1>10 DEF Next

\* Every variable keeps its type in every behaviour.
THEOREM TypeCorrect == Spec => []TypeOK
BY TypeInit, TypeStep, PTL DEF Spec

-----------------------------------------------------------------------------
(* A cancel keeps its copies out of the queue.                             *)

\* Why it does: a run that was cancelled is never still wanted while its task
\* can act on that, and no entry waits that its copy does not name. The task
\* must not be between the halves of its first check when the cancel commits.
CancelInv ==
    \A r \in Runs :
        /\ r \in cancelled /\ StillWanted(r) => task[r] \in {"done"} \union CutShort
        /\ r \in cancelled => run[r] # "none" /\ task[r] # "read"
        /\ \A c \in Copies : entry[r][c] # "none" => job[r][c].named

LEMMA CancelInit == Init => CancelInv
BY DEF Init, CancelInv

\* A new run was never cancelled and touches no entry.
LEMMA PostKeepsCancelInv ==
    ASSUME TypeOK, CancelInv, NEW r \in Runs, NEW n \in Copies, Post(r, n)
    PROVE  CancelInv'
BY DEF TypeOK, CancelInv, Post, StillWanted, AtWork, CutShort

\* A step of the queue on an entry that is there keeps the invariant.
LEMMA EntryKeepsCancelInv ==
    ASSUME TypeOK, CancelInv, NEW r \in Runs, NEW c \in Copies,
           NEW from, NEW to, "none" \notin from, Entry(r, c, from, to)
    PROVE  CancelInv'
BY DEF TypeOK, CancelInv, Entry, StillWanted

LEMMA CancelStep ==
    ASSUME "cancelEarly" \notin Requests, TypeOK, CancelInv, [Next]_vars
    PROVE  CancelInv'
<1>1. ASSUME NEW r \in Runs, RunPipeline(r) PROVE CancelInv'
  BY <1>1, PostKeepsCancelInv DEF RunPipeline, Accepted
<1>2. ASSUME NEW r \in Runs, NEW new \in Runs, RetryFailed(r, new) PROVE CancelInv'
  BY <1>2, PostKeepsCancelInv, RetryFits DEF RetryFailed
<1>3. ASSUME NEW r \in Runs, CancelRead(r) PROVE CancelInv'
  BY <1>3 DEF CancelRead, CancelInv, StillWanted
<1>4. ASSUME NEW r \in Runs, CancelWrite(r) PROVE CancelInv'
  <2>1. CASE run[r] = "cleared"
    BY <1>4, <2>1 DEF CancelWrite, CancelInv, StillWanted
  <2>2. CASE run[r] # "cleared"
    <3>1. task[r] # "read" /\ task' = task /\ cancelled' = cancelled \union {r}
      BY <1>4, <2>2 DEF CancelWrite
    <3>2. run' = [run EXCEPT ![r] = "cancelled"]
      BY <1>4, <2>2 DEF CancelWrite
    <3>3. \A q \in Runs, c \in Copies :
              /\ job'[q][c].named = job[q][c].named
              /\ entry[q][c] = "none" => entry'[q][c] = "none"
      <4>1. ASSUME NEW c \in Copies
            PROVE  job'[r][c].named = job[r][c].named
        <5>1. job'[r] = CancelJobs(r, job[r])
          BY <1>4, <2>2 DEF CancelWrite, TypeOK
        <5>2. job[r][c] \in [status: JobStatuses, named: BOOLEAN]
          BY DEF TypeOK
        <5> QED BY <5>1, <5>2 DEF CancelJobs
      <4>2. \A c \in Copies : entry[r][c] = "none" => entry'[r][c] = "none"
        BY <1>4, <2>2 DEF CancelWrite, Withdrawn, TypeOK
      <4>3. \A q \in Runs \ {r} : job'[q] = job[q] /\ entry'[q] = entry[q]
        BY <1>4, <2>2 DEF CancelWrite, TypeOK
      <4> QED BY <4>1, <4>2, <4>3
    <3> QED BY <3>1, <3>2, <3>3 DEF CancelInv, StillWanted, TypeOK
  <2> QED BY <2>1, <2>2
<1>5. ASSUME ClearRuns PROVE CancelInv'
  BY <1>5 DEF ClearRuns, CancelInv, StillWanted, Terminal, TypeOK
<1>6. ASSUME NEW r \in Runs, Orchestrate(r) PROVE CancelInv'
  <2>1. CASE Launch(r) \/ StartTask(r) \/ Sliced(r) \/ RecheckRun(r) \/ LoadJobs(r)
    BY <2>1 DEF Launch, StartTask, Sliced, RecheckRun, LoadJobs, Goto, TypeOK,
                CancelInv, StillWanted, CutShort
  <2>2. CASE BeginSlicing(r)
    <3>1. r \notin cancelled /\ UNCHANGED <<job, entry, cancelled>>
      BY <2>2 DEF BeginSlicing, CancelInv
    <3>2. \A q \in Runs \ {r} : task'[q] = task[q] /\ run'[q] = run[q]
      BY <2>2 DEF BeginSlicing, Goto, TypeOK
    <3> QED BY <3>1, <3>2 DEF CancelInv, StillWanted
  <2>3. CASE SliceFails(r)
    BY <2>3 DEF SliceFails, Goto, TypeOK, CancelInv, StillWanted, CutShort
  <2>4. CASE Dispatch(r)
    <3>1. CASE run[r] = "cleared"
      BY <2>4, <3>1 DEF Dispatch, Goto, TypeOK, CancelInv, StillWanted, CutShort
    <3>2. CASE run[r] # "cleared"
      <4>1. /\ task' = [task EXCEPT ![r] = "done"] /\ cancelled' = cancelled
            /\ \A q \in Runs \ {r} : run'[q] = run[q]
            /\ run'[r] # "none" \/ run[r] = run'[r]
        BY <2>4, <3>2 DEF Dispatch, Goto, TypeOK
      <4>2. \A q \in Runs \ {r} : job'[q] = job[q] /\ entry'[q] = entry[q]
        BY <2>4, <3>2 DEF Dispatch, TypeOK
      <4>3. \A c \in Copies : entry'[r][c] # "none" => job'[r][c].named
        BY <2>4, <3>2 DEF Dispatch, TypeOK, CancelInv
      <4> QED BY <4>1, <4>2, <4>3 DEF CancelInv, StillWanted, TypeOK
    <3> QED BY <3>1, <3>2
  <2> QED BY <1>6, <2>1, <2>2, <2>3, <2>4 DEF Orchestrate
<1>7. ASSUME NEW r \in Runs, NEW c \in Copies,
             \/ PrintEntry(r, c) \/ EndEntry(r, c) \/ Requeue(r, c)
             \/ Dequeue(r, c) \/ Delete(r, c)
      PROVE  CancelInv'
  BY <1>7, EntryKeepsCancelInv
     DEF PrintEntry, EndEntry, Requeue, Dequeue, Delete, EntryEnds
<1>8. ASSUME Restart PROVE CancelInv'
  BY <1>8 DEF Restart, CancelInv, StillWanted, TypeOK, AtWork, CutShort
<1>9. ASSUME NEW r \in Runs, TaskRaises(r) PROVE CancelInv'
  BY <1>9 DEF TaskRaises, Goto, CancelInv, StillWanted, TypeOK, CutShort
<1>10. ASSUME UNCHANGED vars PROVE CancelInv'
  BY <1>10 DEF CancelInv, StillWanted, vars
<1> QED BY <1>1, <1>2, <1>3, <1>4, <1>5, <1>6, <1>7, <1>8, <1>9, <1>10 DEF Next

\* What one step may do to the entries of runs that are cancelled.
KeptOut ==
    \A r \in Runs, c \in Copies :
        r \in cancelled' /\ entry'[r][c] = "pending" =>
            \/ entry[r][c] = "printing"
            \/ entry[r][c] = "pending" /\ r \in cancelled

\* Only the step that hands an entry back may make one wait again.
LEMMA EntryIsKeptOut ==
    ASSUME TypeOK, NEW r \in Runs, NEW c \in Copies, NEW from, NEW to,
           Entry(r, c, from, to), to = "pending" => from = {"printing"}
    PROVE  KeptOut
BY DEF TypeOK, Entry, KeptOut

LEMMA StepKeepsOut ==
    ASSUME TypeOK, CancelInv, [Next]_vars
    PROVE  KeptOut
<1>1. ASSUME entry' = entry, cancelled' = cancelled PROVE KeptOut
  BY <1>1 DEF KeptOut
<1>2. ASSUME NEW r \in Runs, RunPipeline(r) \/ CancelRead(r) PROVE KeptOut
  BY <1>1, <1>2 DEF RunPipeline, Post, CancelRead
<1>3. ASSUME NEW r \in Runs, NEW new \in Runs, RetryFailed(r, new) PROVE KeptOut
  BY <1>1, <1>3 DEF RetryFailed, Post
<1>4. ASSUME NEW r \in Runs, CancelWrite(r) PROVE KeptOut
  <2>1. CASE run[r] = "cleared"
    BY <1>1, <1>4, <2>1 DEF CancelWrite
  <2>2. CASE run[r] # "cleared"
    <3>1. \A c \in Copies : entry'[r][c] # "pending"
      <4>1. ASSUME NEW c \in Copies
            PROVE  entry'[r][c] = IF job[r][c].named THEN Withdrawn(entry[r][c]) ELSE entry[r][c]
        BY <1>4, <2>2 DEF CancelWrite, TypeOK
      <4>2. \A c \in Copies : ~job[r][c].named => entry[r][c] = "none"
        BY DEF CancelInv
      <4> QED BY <4>1, <4>2 DEF Withdrawn
    <3>2. \A q \in Runs \ {r} : entry'[q] = entry[q]
      BY <1>4, <2>2 DEF CancelWrite, TypeOK
    <3>3. cancelled' = cancelled \union {r}
      BY <1>4, <2>2 DEF CancelWrite
    <3> QED BY <3>1, <3>2, <3>3 DEF KeptOut
  <2> QED BY <2>1, <2>2
<1>5. ASSUME NEW r \in Runs, Orchestrate(r) PROVE KeptOut
  <2>1. CASE ~Dispatch(r)
    BY <1>1, <1>5, <2>1
       DEF Orchestrate, Launch, StartTask, BeginSlicing, Sliced, SliceFails, RecheckRun, LoadJobs
  <2>2. CASE Dispatch(r) /\ run[r] = "cleared"
    BY <1>1, <2>2 DEF Dispatch
  <2>3. CASE Dispatch(r) /\ run[r] # "cleared"
    <3>1. \A q \in Runs \ {r} : entry'[q] = entry[q]
      BY <2>3 DEF Dispatch, TypeOK
    <3>2. cancelled' = cancelled
      BY <2>3 DEF Dispatch
    <3>3. StillWanted(r) => r \notin cancelled
      BY <2>3 DEF Dispatch, CancelInv, CutShort
    <3>4. ASSUME NEW c \in Copies, ~StillWanted(r), entry'[r][c] = "pending"
          PROVE  entry[r][c] = "pending"
      BY <2>3, <3>4 DEF Dispatch, TypeOK
    <3> QED BY <3>1, <3>2, <3>3, <3>4 DEF KeptOut
  <2> QED BY <2>1, <2>2, <2>3
<1>6. ASSUME NEW r \in Runs, NEW c \in Copies,
             \/ PrintEntry(r, c) \/ EndEntry(r, c) \/ Requeue(r, c)
             \/ Dequeue(r, c) \/ Delete(r, c)
      PROVE  KeptOut
  BY <1>6, EntryIsKeptOut
     DEF PrintEntry, EndEntry, Requeue, Dequeue, Delete, EntryEnds
<1>7. ASSUME ClearRuns \/ Restart \/ UNCHANGED vars PROVE KeptOut
  BY <1>1, <1>7 DEF ClearRuns, Restart, vars
<1>8. ASSUME NEW r \in Runs, TaskRaises(r) PROVE KeptOut
  BY <1>1, <1>8 DEF TaskRaises
<1> QED BY <1>2, <1>3, <1>4, <1>5, <1>6, <1>7, <1>8 DEF Next

\* Whatever else users and the queue do, a cancel sticks, if it does not commit
\* between the read and the write with which the task begins.
THEOREM CancelsStick == "cancelEarly" \notin Requests => (Spec => CancelSticks)
<1> SUFFICES ASSUME "cancelEarly" \notin Requests PROVE Spec => CancelSticks
  OBVIOUS
<1>1. TypeOK /\ CancelInv /\ [Next]_vars => TypeOK' /\ CancelInv'
  BY TypeStep, CancelStep
<1>2. TypeOK /\ CancelInv /\ [Next]_vars => [KeptOut]_vars
  BY StepKeepsOut
<1> QED BY <1>1, <1>2, TypeInit, CancelInit, PTL DEF Spec, CancelSticks, KeptOut

-----------------------------------------------------------------------------
(* A run that is reported as under way is.                                 *)

\* Every run has a task, and one that is done has left a run that is over or has
\* queued every copy.
SettledInv ==
    \A r \in Runs :
      /\ task[r] = "none" => run[r] = "none" /\ r \notin asked
      /\ task[r] = "done" /\ run[r] \notin {"cleared", "failed", "cancelled"} =>
            \A c \in Of(r) : c \in Copies /\ job[r][c].named /\ entry[r][c] # "none"

LEMMA SettledInit == Init => SettledInv
BY DEF Init, SettledInv

LEMMA PostKeepsSettled ==
    ASSUME TypeOK, SettledInv, NEW r \in Runs, NEW n \in Copies, Post(r, n)
    PROVE  SettledInv'
<1>1. /\ task'[r] = "posted"
      /\ \A q \in Runs \ {r} : task'[q] = task[q] /\ run'[q] = run[q]
  BY DEF Post, TypeOK
<1>2. \A q \in Runs \ {r} : Of(q)' = Of(q)
  BY DEF Post, TypeOK, Of
<1>3. job' = job /\ entry' = entry /\ asked' = asked
  BY DEF Post
<1> QED BY <1>1, <1>2, <1>3 DEF SettledInv

\* No step of the queue makes an entry unmade.
LEMMA EntryKeepsSettled ==
    ASSUME TypeOK, SettledInv, NEW r \in Runs, NEW c \in Copies,
           NEW from, NEW to, to # "none", Entry(r, c, from, to)
    PROVE  SettledInv'
<1>1. \A q \in Runs, d \in Copies : entry[q][d] # "none" => entry'[q][d] # "none"
  BY DEF TypeOK, Entry
<1> QED BY <1>1 DEF SettledInv, Entry, Of

LEMMA SettledStep ==
    ASSUME TypeOK, SettledInv, [Next]_vars
    PROVE  SettledInv'
<1>1. ASSUME NEW r \in Runs, RunPipeline(r) PROVE SettledInv'
  BY <1>1, PostKeepsSettled DEF RunPipeline, Accepted
<1>2. ASSUME NEW r \in Runs, NEW new \in Runs, RetryFailed(r, new) PROVE SettledInv'
  BY <1>2, PostKeepsSettled, RetryFits DEF RetryFailed
<1>3. ASSUME NEW r \in Runs, CancelRead(r) PROVE SettledInv'
  BY <1>3 DEF CancelRead, SettledInv, Of
<1>4. ASSUME NEW r \in Runs, CancelWrite(r) PROVE SettledInv'
  <2>1. CASE run[r] = "cleared"
    BY <1>4, <2>1 DEF CancelWrite, SettledInv, Of
  <2>2. CASE run[r] # "cleared"
    <3>1. /\ run'[r] = "cancelled" /\ task' = task /\ r \in asked /\ asked' \subseteq asked
          /\ \A q \in Runs \ {r} : run'[q] = run[q] /\ job'[q] = job[q] /\ entry'[q] = entry[q]
      BY <1>4, <2>2 DEF CancelWrite, TypeOK
    <3>2. \A q \in Runs : Of(q)' = Of(q)
      BY <1>4 DEF CancelWrite, Of
    <3> QED BY <3>1, <3>2 DEF SettledInv
  <2> QED BY <2>1, <2>2
<1>5. ASSUME ClearRuns PROVE SettledInv'
  BY <1>5 DEF ClearRuns, SettledInv, Of, Terminal, TypeOK
<1>6. ASSUME NEW r \in Runs, Orchestrate(r) PROVE SettledInv'
  <2>1. CASE Launch(r) \/ StartTask(r) \/ BeginSlicing(r) \/ Sliced(r) \/ SliceFails(r)
             \/ RecheckRun(r) \/ LoadJobs(r)
    <3>1. /\ task'[r] # "none"
          /\ task'[r] = "done" => run'[r] \in {"cleared", "failed", "cancelled"}
          /\ \A q \in Runs \ {r} : task'[q] = task[q] /\ run'[q] = run[q]
      BY <2>1 DEF Launch, StartTask, BeginSlicing, Sliced, SliceFails, RecheckRun, LoadJobs,
                  Goto, TypeOK, StillWanted
    <3>2. job' = job /\ entry' = entry /\ copies' = copies /\ asked' = asked
      BY <2>1 DEF Launch, StartTask, BeginSlicing, Sliced, SliceFails, RecheckRun, LoadJobs
    <3> QED BY <3>1, <3>2 DEF SettledInv, Of
  <2>2. CASE Dispatch(r)
    <3>1. /\ \A q \in Runs \ {r} : task'[q] = task[q] /\ run'[q] = run[q]
                                   /\ job'[q] = job[q] /\ entry'[q] = entry[q]
          /\ copies' = copies /\ asked' = asked /\ task'[r] = "done"
      BY <2>2 DEF Dispatch, Goto, TypeOK
    <3>2. CASE run[r] = "cleared"
      BY <2>2, <3>1, <3>2 DEF Dispatch, SettledInv, Of
    <3>3. CASE run[r] # "cleared"
      <4>1. \A c \in Of(r) : c \in Copies
        BY PipelineAssumption DEF TypeOK, Of, Copies
      <4>2. \A c \in Of(r) : job'[r][c].named /\ entry'[r][c] # "none"
        BY <2>2, <3>3, <4>1 DEF Dispatch, TypeOK
      <4> QED BY <3>1, <4>1, <4>2 DEF SettledInv, Of
    <3> QED BY <3>2, <3>3
  <2> QED BY <1>6, <2>1, <2>2 DEF Orchestrate
<1>7. ASSUME NEW r \in Runs, NEW c \in Copies,
             \/ PrintEntry(r, c) \/ EndEntry(r, c) \/ Requeue(r, c)
             \/ Dequeue(r, c) \/ Delete(r, c)
      PROVE  SettledInv'
  BY <1>7, EntryKeepsSettled
     DEF PrintEntry, EndEntry, Requeue, Dequeue, Delete, EntryEnds
<1>8. ASSUME Restart PROVE SettledInv'
  BY <1>8 DEF Restart, SettledInv, Of, TypeOK, AtWork
<1>9. ASSUME NEW r \in Runs, TaskRaises(r) PROVE SettledInv'
  BY <1>9 DEF TaskRaises, Goto, SettledInv, Of, TypeOK
<1>10. ASSUME UNCHANGED vars PROVE SettledInv'
  BY <1>10 DEF SettledInv, Of, vars
<1> QED BY <1>1, <1>2, <1>3, <1>4, <1>5, <1>6, <1>7, <1>8, <1>9, <1>10 DEF Next

\* A copy that was queued and reads as under way has an entry that is.
LEMMA InFlightIsMoving ==
    ASSUME TypeOK, NEW r \in Runs, NEW c \in Copies, job[r][c].named,
           entry[r][c] # "none", JobStatus(r, c) \in {"printing", "queued", "pending"}
    PROVE  entry[r][c] \in {"pending", "printing"}
<1>1. entry[r][c] \in EntryStates
  BY DEF TypeOK
<1>2. entry[r][c] # "deleted"
  BY DEF JobStatus, GoneIsCancelled
<1>3. entry[r][c] \notin EntryEnds
  BY <1>2 DEF JobStatus, GoneIsCancelled, Computed, PassedOn, EntryEnds
<1> QED BY <1>1, <1>2, <1>3 DEF EntryStates

LEMMA SettledIsTold == TypeOK /\ SettledInv => UnderWayIsMoving
<1> SUFFICES ASSUME TypeOK, SettledInv, NEW r \in Runs,
                    run[r] \notin {"none", "cleared", "failed"},
                    RunStatus(r) \notin Terminal, task[r] \notin AtWork \union CutShort
             PROVE  \E c \in Of(r) : entry[r][c] \in {"pending", "printing"}
  BY DEF UnderWayIsMoving
<1>1. run[r] # "cancelled" /\ task[r] = "done"
  BY DEF RunStatus, Terminal, SettledInv, TypeOK, TaskStates
<1>2. With(r, {"printing", "queued", "pending"}) # {}
  BY <1>1 DEF RunStatus, Terminal
<1>3. PICK c \in Of(r) : JobStatus(r, c) \in {"printing", "queued", "pending"}
  BY <1>2 DEF With
<1>4. c \in Copies /\ job[r][c].named /\ entry[r][c] # "none"
  BY <1>1 DEF SettledInv
<1> QED BY <1>3, <1>4, InFlightIsMoving

\* What is reported as under way will move again, unless a restart or an
\* exception of its own cut its task short, or its slice failed.
THEOREM UnderWayMoves == Spec => []UnderWayIsMoving
<1>1. TypeOK /\ SettledInv /\ [Next]_vars => TypeOK' /\ SettledInv'
  BY TypeStep, SettledStep
<1> QED BY <1>1, TypeInit, SettledInit, SettledIsTold, PTL DEF Spec
=============================================================================
