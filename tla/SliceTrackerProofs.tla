------------------------- MODULE SliceTrackerProofs -------------------------
(***************************************************************************)
(* Proofs about SliceTracker, for every finite set of requests, bound on   *)
(* the restarts and choice of faults.                                      *)
(***************************************************************************)
EXTENDS SliceTracker, TLAPS

-----------------------------------------------------------------------------
(* Type correctness.                                                       *)

\* The round after an answer is well typed and asks only for jobs it had left.
LEMMA RestIsTyped ==
    ASSUME NEW r \in Rounds, NEW rest \in Rest(r)
    PROVE  /\ rest \subseteq Rounds
           /\ \A q \in rest : /\ q.job \in r.left /\ q.left \subseteq r.left
                              /\ q.answer = "waiting"
<1>1. CASE r.left = {}
  BY <1>1 DEF Rest
<1>2. CASE r.left # {}
  <2>1. PICK job \in r.left :
            rest = {[r EXCEPT !.job = job, !.answer = "waiting", !.left = @ \ {job}]}
    BY <1>2 DEF Rest
  <2>2. job \in Jobs /\ r.left \ {job} \in SUBSET Jobs
    <3>1. r.left \subseteq Jobs
      BY DEF Rounds
    <3> QED BY <1>2, <3>1
  <2> DEFINE next == [r EXCEPT !.job = job, !.answer = "waiting", !.left = @ \ {job}]
  <2>3. next \in Rounds
    BY <2>2 DEF Rounds
  <2>4. next.job = job /\ next.left = r.left \ {job} /\ next.answer = "waiting"
    BY DEF Rounds
  <2> QED BY <2>1, <2>3, <2>4
<1> QED BY <1>1, <1>2

\* A round with another answer, or cleaned up, is still a round.
LEMMA RoundIsTyped ==
    ASSUME NEW r \in Rounds
    PROVE  /\ \A a \in {"waiting", "error"} \union Statuses : [r EXCEPT !.answer = a] \in Rounds
           /\ [r EXCEPT !.cancelled = TRUE] \in Rounds
BY DEF Rounds

\* The end of a job leaves the tracker's state well typed.
LEMMA CompleteIsTyped ==
    ASSUME TypeOK, NEW job \in Jobs, NEW how \in Ends, CompleteJob(job, how)
    PROVE  /\ listed' \subseteq Jobs
           /\ started' \subseteq Ids /\ finished' \subseteq Ids /\ toasts' \subseteq Ids
           /\ told' \in [Slices -> Seq(Ends)]
           /\ modal' \in Slices \union {NoSlice}
<1>0. job.id \in Ids /\ job.name \in Slices
  BY DEF Jobs
<1>1. CASE Unhandled(job.id)
  <2>1. told[job.name] \in Seq(Ends)
    BY <1>0 DEF TypeOK
  <2>2. Append(told[job.name], how) \in Seq(Ends)
    BY <2>1
  <2>3. told' = [told EXCEPT ![job.name] = Append(told[job.name], how)]
    BY <1>1 DEF CompleteJob
  <2>4. told' \in [Slices -> Seq(Ends)]
    BY <1>0, <2>2, <2>3 DEF TypeOK
  <2> QED BY <1>0, <1>1, <2>4 DEF CompleteJob, Dropped, TypeOK
<1>2. CASE ~Unhandled(job.id)
  BY <1>2 DEF CompleteJob, TypeOK
<1> QED BY <1>1, <1>2

\* A request that is answered was given a number.
Numbered == \A s \in Slices : page[s] # "new" => ticket[s] \in Ids

LEMMA NumberedStep ==
    ASSUME TypeOK, Numbered, [Next]_vars
    PROVE  Numbered'
<1>1. ASSUME NEW s \in Slices, Enqueue(s) PROVE Numbered'
  BY <1>1 DEF Enqueue, Numbered, TypeOK
<1>2. ASSUME NEW s \in Slices, TrackJob(s) PROVE Numbered'
  BY <1>2 DEF TrackJob, Numbered, TypeOK, backend
<1>3. ASSUME Reload PROVE Numbered'
  BY <1>3 DEF Reload, Numbered, TypeOK, backend
<1>4. ASSUME UNCHANGED <<page, ticket>> PROVE Numbered'
  BY <1>4 DEF Numbered
<1>5. ASSUME NEW s \in Slices, NEW how \in Ends, EndJob(s, how) PROVE Numbered'
  BY <1>4, <1>5 DEF EndJob
<1>6. ASSUME NEW r \in rounds, Handle(r) \/ Fail(r) \/ Reply(r) PROVE Numbered'
  BY <1>4, <1>6 DEF Handle, Fail, Reply, backend
<1>7. ASSUME StartRound \/ Render \/ Tick \/ CloseModal \/ Restart \/ UNCHANGED vars
      PROVE  Numbered'
  BY <1>4, <1>7 DEF StartRound, Render, Tick, CloseModal, Restart, vars, backend
<1> QED BY <1>1, <1>2, <1>3, <1>5, <1>6, <1>7 DEF Next

LEMMA TypeInit == Init => TypeOK /\ Numbered
<1> SUFFICES ASSUME Init PROVE TypeOK /\ Numbered
  OBVIOUS
<1>1. told \in [Slices -> Seq(Ends)]
  BY DEF Init
<1> QED BY <1>1, SliceAssumption DEF Init, TypeOK, Ids, FirstId, Statuses, Numbered

LEMMA TypeStep ==
    ASSUME TypeOK, Numbered, [Next]_vars
    PROVE  TypeOK'
<1>1. ASSUME NEW s \in Slices, Enqueue(s) PROVE TypeOK'
  BY <1>1 DEF Enqueue, Aged, TypeOK, tracker, Ids, Statuses
<1>2. ASSUME NEW s \in Slices, TrackJob(s) PROVE TypeOK'
  <2>1. ticket[s] \in Ids
    BY <1>2 DEF TrackJob, Numbered
  <2> QED BY <1>2, <2>1 DEF TrackJob, Added, Spinners, TypeOK, backend, Jobs
<1>3. ASSUME NEW s \in Slices, NEW how \in Ends, EndJob(s, how) PROVE TypeOK'
  BY <1>3 DEF EndJob, TypeOK, tracker, Statuses
<1>4. ASSUME NEW r \in rounds, Handle(r) PROVE TypeOK'
  <2>1. PICK rest \in IF r.cancelled /\ r.answer # "error" THEN {{}} ELSE Rest(r) :
            rounds' = (rounds \ {r}) \union rest
    BY <1>4 DEF Handle
  <2>2. r \in Rounds /\ r.job \in Jobs
    BY DEF TypeOK, Rounds
  <2>3. rounds' \subseteq Rounds
    BY <2>1, <2>2, RestIsTyped DEF TypeOK
  <2>4. CASE ~r.cancelled /\ r.answer \in Ends
    <3>1. CompleteJob(r.job, r.answer)
      BY <1>4, <2>4 DEF Handle
    <3> QED BY <1>4, <2>2, <2>3, <2>4, <3>1, CompleteIsTyped DEF Handle, TypeOK, backend
  <2>5. CASE ~(~r.cancelled /\ r.answer \in Ends)
    BY <1>4, <2>3, <2>5 DEF Handle, TypeOK, backend
  <2> QED BY <2>4, <2>5
<1>5. ASSUME NEW r \in rounds, Fail(r) PROVE TypeOK'
  <2>1. [r EXCEPT !.answer = "error"] \in Rounds
    BY RoundIsTyped DEF TypeOK
  <2> QED BY <1>5, <2>1 DEF Fail, TypeOK, backend
<1>6. ASSUME NEW r \in rounds, Reply(r) PROVE TypeOK'
  <2>1. \A s \in Found(r.job.id) : table[s] \in Statuses
    BY DEF Found, TypeOK
  <2>2. PICK a \in {"error"} \union Statuses : rounds' = (rounds \ {r}) \union {[r EXCEPT !.answer = a]}
    BY <1>6, <2>1 DEF Reply
  <2>3. [r EXCEPT !.answer = a] \in Rounds
    BY RoundIsTyped DEF TypeOK
  <2> QED BY <1>6, <2>2, <2>3 DEF Reply, TypeOK, backend
<1>7. ASSUME StartRound PROVE TypeOK'
  <2>1. PICK job \in active :
            rounds' = rounds \union {[job |-> job, answer |-> "waiting",
                                      left |-> active \ {job}, cancelled |-> FALSE]}
    BY <1>7 DEF StartRound
  <2>2. rounds' \subseteq Rounds
    <3>1. job \in Jobs /\ active \ {job} \in SUBSET Jobs
      BY <2>1 DEF TypeOK
    <3>2. [job |-> job, answer |-> "waiting", left |-> active \ {job}, cancelled |-> FALSE] \in Rounds
      BY <3>1 DEF Rounds
    <3> QED BY <2>1, <3>2 DEF TypeOK
  <2> QED BY <1>7, <2>2 DEF StartRound, TypeOK, backend
<1>8. ASSUME Render PROVE TypeOK'
  <2>1. \A r \in rounds : [r EXCEPT !.cancelled = TRUE] \in Rounds
    BY RoundIsTyped DEF TypeOK
  <2>2. rounds' \subseteq Rounds
    BY <1>8, <2>1 DEF Render, TypeOK
  <2> QED BY <1>8, <2>2 DEF Render, TypeOK, backend
<1>9. ASSUME Restart PROVE TypeOK'
  <2>1. \A r \in rounds : [r EXCEPT !.answer = "error"] \in Rounds
    BY RoundIsTyped DEF TypeOK
  <2>2. rounds' \subseteq Rounds
    BY <1>9, <2>1 DEF Restart, TypeOK
  <2> QED BY <1>9, <2>2 DEF Restart, TypeOK, Ids, FirstId, Statuses
<1>10. ASSUME Tick \/ CloseModal \/ Reload PROVE TypeOK'
  BY <1>10 DEF Tick, CloseModal, Reload, Spinners, TypeOK, backend
<1>11. ASSUME UNCHANGED vars PROVE TypeOK'
  BY <1>11 DEF TypeOK, vars, backend, tracker
<1> QED BY <1>1, <1>2, <1>3, <1>4, <1>5, <1>6, <1>7, <1>8, <1>9, <1>10, <1>11 DEF Next

\* Every variable keeps its type in every behaviour.
THEOREM TypeCorrect == Spec => []TypeOK
<1>1. TypeOK /\ Numbered /\ [Next]_vars => TypeOK' /\ Numbered'
  BY TypeStep, NumberedStep
<1> QED BY <1>1, TypeInit, PTL DEF Spec

-----------------------------------------------------------------------------
(* A spinner turns for exactly the jobs that are tracked.                  *)

\* Why: a job has a start time for exactly as long as it is listed, and both
\* are given up together, so a late tick finds no start time to show.
SpinnerInv == SpinnersMatchJobs /\ started = JobIds(listed)

LEMMA SpinnerInit == Init => SpinnerInv
BY DEF Init, SpinnerInv, SpinnersMatchJobs, JobIds

LEMMA SpinnerStep ==
    ASSUME TypeOK, SpinnerInv, [Next]_vars
    PROVE  SpinnerInv'
<1> USE DEF SpinnerInv, SpinnersMatchJobs
<1>1. ASSUME UNCHANGED <<listed, started, toasts>> PROVE SpinnerInv'
  BY <1>1 DEF JobIds
<1>2. ASSUME NEW s \in Slices, TrackJob(s) PROVE SpinnerInv'
  <2>1. JobIds(listed') = JobIds(listed) \union {ticket[s]}
    <3>1. listed' = Added(listed, [id |-> ticket[s], name |-> s])
      BY <1>2 DEF TrackJob
    <3>2. CASE ticket[s] \in JobIds(listed)
      BY <3>1, <3>2 DEF Added
    <3>3. CASE ticket[s] \notin JobIds(listed)
      <4> DEFINE new == [id |-> ticket[s], name |-> s]
      <4>1. listed' = listed \union {new} /\ new.id = ticket[s]
        BY <3>1, <3>3 DEF Added
      <4> HIDE DEF new
      <4> QED BY <4>1 DEF JobIds
    <3> QED BY <3>2, <3>3
  <2> QED BY <1>2, <2>1 DEF TrackJob, Spinners
<1>3. ASSUME NEW r \in rounds, Handle(r) PROVE SpinnerInv'
  <2>1. CASE ~r.cancelled /\ r.answer \in Ends /\ Unhandled(r.job.id)
    <3>1. /\ listed' = Dropped(listed, r.job)
          /\ started' = started \ {r.job.id} /\ toasts' = toasts \ {r.job.id}
      BY <1>3, <2>1 DEF Handle, CompleteJob
    <3>2. JobIds(Dropped(listed, r.job)) = JobIds(listed) \ {r.job.id}
      BY DEF JobIds, Dropped
    <3> QED BY <3>1, <3>2
  <2>2. CASE ~(~r.cancelled /\ r.answer \in Ends /\ Unhandled(r.job.id))
    BY <1>1, <1>3, <2>2 DEF Handle, CompleteJob
  <2> QED BY <2>1, <2>2
<1>4. ASSUME Tick PROVE SpinnerInv'
  BY <1>4 DEF Tick, Spinners, JobIds
<1>5. ASSUME Reload PROVE SpinnerInv'
  BY <1>5 DEF Reload, JobIds
<1>6. ASSUME NEW s \in Slices, Enqueue(s) \/ \E how \in Ends : EndJob(s, how)
      PROVE  SpinnerInv'
  BY <1>1, <1>6 DEF Enqueue, EndJob, tracker
<1>7. ASSUME NEW r \in rounds, Fail(r) \/ Reply(r) PROVE SpinnerInv'
  BY <1>1, <1>7 DEF Fail, Reply
<1>8. ASSUME StartRound \/ Render \/ CloseModal \/ Restart \/ UNCHANGED vars
      PROVE  SpinnerInv'
  BY <1>1, <1>8 DEF StartRound, Render, CloseModal, Restart, vars, tracker
<1> QED BY <1>2, <1>3, <1>4, <1>5, <1>6, <1>7, <1>8 DEF Next

\* No tick, reload or late answer leaves a spinner behind or loses one.
THEOREM SpinnersMatch == Spec => []SpinnersMatchJobs
<1>1. TypeOK /\ Numbered /\ SpinnerInv /\ [Next]_vars => TypeOK' /\ Numbered' /\ SpinnerInv'
  BY TypeStep, NumberedStep, SpinnerStep
<1> QED BY <1>1, TypeInit, SpinnerInit, PTL DEF Spec, SpinnerInv

-----------------------------------------------------------------------------
(* The user is told once, and told the truth.                              *)

\* Numbers: one that was not lost is below the next and no other request's.
\* A request whose row is gone is lost, and the row says how the slice ended.
TicketInv ==
    /\ \A s \in Slices :
        /\ page[s] = "new" => /\ ticket[s] = 0 /\ s \notin lost
                              /\ table[s] = "absent" /\ fate[s] = "none"
        /\ page[s] # "new" => ticket[s] # 0
        /\ page[s] # "new" /\ s \notin lost => table[s] # "absent" /\ ticket[s] < nextId
        /\ table[s] \in Ends => fate[s] = table[s]
        /\ table[s] = "open" => fate[s] = "none"
    /\ \A s, t \in Slices :
        s # t /\ s \notin lost /\ t \notin lost /\ ticket[s] = ticket[t] => ticket[s] = 0

\* Every job that the tracker carries is one whose answer it has been given.
Genuine(job) == page[job.name] = "tracked" /\ ticket[job.name] = job.id
JobInv ==
    /\ \A job \in active \union listed : Genuine(job)
    /\ \A r \in rounds : Genuine(r.job) /\ \A job \in r.left : Genuine(job)

\* An answer that has come is what became of the job asked about.
AnswerInv ==
    \A r \in rounds :
        r.answer \in Ends /\ Known(r.job.name) => fate[r.job.name] = r.answer

\* What was told is true, and is not told again: the number is held against it.
ToldInv ==
    \A s \in Slices :
        /\ page[s] \in {"new", "asked"} => told[s] = <<>>
        /\ Known(s) /\ told[s] # <<>> =>
              /\ Len(told[s]) = 1 /\ told[s][1] = fate[s]
              /\ ticket[s] \in finished \/ page[s] = "forgotten"

ToldInvs == TicketInv /\ JobInv /\ AnswerInv /\ ToldInv

LEMMA ToldInit == Init => ToldInvs
BY DEF Init, ToldInvs, TicketInv, JobInv, AnswerInv, ToldInv, Genuine, Ends

\* A number that is known is no other request's.
LEMMA KnownIsUnique ==
    ASSUME TypeOK, TicketInv, NEW s \in Slices, NEW t \in Slices, s # t,
           page[s] # "new", Known(s)
    PROVE  ticket[t] # ticket[s]
BY DEF TicketInv, Known, Reissued

\* Steps that touch neither the table nor the pages.
LEMMA TicketsAreKept ==
    ASSUME TicketInv, UNCHANGED <<backend, page>>
    PROVE  TicketInv' /\ \A s \in Slices : Known(s)' <=> Known(s)
BY DEF TicketInv, backend, Known, Reissued

LEMMA TicketStep ==
    ASSUME TypeOK, Numbered, TicketInv, [Next]_vars
    PROVE  /\ TicketInv'
           /\ \A s \in Slices : page[s] # "new" /\ Known(s)' => Known(s)
<1> DEFINE Shrinks == \A s \in Slices : page[s] # "new" /\ Known(s)' => Known(s)
<1>1. ASSUME NEW s \in Slices, Enqueue(s) PROVE TicketInv' /\ Shrinks
  <2>1. PICK old \in SUBSET Aged :
            /\ table' = [t \in Slices |-> IF t = s THEN "open"
                                          ELSE IF t \in old THEN "absent" ELSE table[t]]
            /\ lost' = lost \union old
    BY <1>1 DEF Enqueue
  <2>2. /\ ticket' = [ticket EXCEPT ![s] = nextId] /\ nextId' = nextId + 1
        /\ page' = [page EXCEPT ![s] = "asked"] /\ fate' = fate
        /\ page[s] = "new" /\ nextId \in Nat \ {0}
    BY <1>1 DEF Enqueue, TypeOK, Ids
  <2>3. s \notin lost' /\ table'[s] = "open" /\ ticket'[s] = nextId /\ fate[s] = "none"
    BY <2>1, <2>2 DEF TicketInv, Aged, TypeOK, Ends
  <2>4. \A t \in Slices \ {s} :
            /\ ticket'[t] = ticket[t] /\ page'[t] = page[t] /\ fate'[t] = fate[t]
            /\ table'[t] = IF t \in old THEN "absent" ELSE table[t]
            /\ t \in lost' <=> t \in lost \/ t \in old
    BY <2>1, <2>2 DEF TypeOK
  <2>5. \A t \in Slices \ {s} :
            /\ page[t] = "new" => t \notin old
            /\ t \notin lost => ticket[t] < nextId
    BY <2>2 DEF Aged, TicketInv, Ends
  <2>6. TicketInv'
    <3>1. \A t \in Slices : t \in lost' => t # s
      BY <2>3
    <3>2. \A t \in Slices :
            /\ page'[t] = "new" => /\ ticket'[t] = 0 /\ t \notin lost'
                                   /\ table'[t] = "absent" /\ fate'[t] = "none"
            /\ page'[t] # "new" => ticket'[t] # 0
            /\ page'[t] # "new" /\ t \notin lost' => table'[t] # "absent" /\ ticket'[t] < nextId'
            /\ table'[t] \in Ends => fate'[t] = table'[t]
            /\ table'[t] = "open" => fate'[t] = "none"
      <4>1. ASSUME NEW t \in Slices \ {s}
            PROVE  /\ page'[t] = "new" => /\ ticket'[t] = 0 /\ t \notin lost'
                                          /\ table'[t] = "absent" /\ fate'[t] = "none"
                   /\ page'[t] # "new" => ticket'[t] # 0
                   /\ page'[t] # "new" /\ t \notin lost' => table'[t] # "absent" /\ ticket'[t] < nextId'
                   /\ table'[t] \in Ends => fate'[t] = table'[t]
                   /\ table'[t] = "open" => fate'[t] = "none"
        BY <2>2, <2>4, <2>5 DEF TicketInv, Ends, TypeOK
      <4>2. /\ page'[s] = "asked" /\ ticket'[s] # 0 /\ ticket'[s] < nextId'
            /\ table'[s] = "open" /\ fate'[s] = "none"
        BY <2>2, <2>3 DEF TypeOK
      <4> QED BY <4>1, <4>2 DEF Ends
    <3>3. \A t, u \in Slices :
              t # u /\ t \notin lost' /\ u \notin lost' /\ ticket'[t] = ticket'[u] => ticket'[t] = 0
      <4>1. \A t \in Slices \ {s} : t \notin lost' => ticket'[t] # ticket'[s]
        BY <2>2, <2>3, <2>4, <2>5 DEF TypeOK
      <4>2. \A t, u \in Slices \ {s} :
              t # u /\ t \notin lost' /\ u \notin lost' /\ ticket'[t] = ticket'[u] => ticket'[t] = 0
        BY <2>4 DEF TicketInv
      <4> QED BY <4>1, <4>2
    <3> QED BY <3>2, <3>3 DEF TicketInv
  <2>7. Shrinks
    <3>1. ASSUME NEW t \in Slices, page[t] # "new", Known(t)' PROVE Known(t)
      <4>1. t # s /\ t \notin lost
        BY <2>2, <2>4, <3>1 DEF Known
      <4>2. ASSUME NEW u \in lost \ {t}, u \in Slices PROVE ticket[u] # ticket[t]
        BY <2>2, <2>4, <3>1, <4>1, <4>2 DEF Known, Reissued, TicketInv
      <4> QED BY <4>1, <4>2 DEF Known, Reissued, TypeOK
    <3> QED BY <3>1
  <2> QED BY <2>6, <2>7
<1>2. ASSUME NEW s \in Slices, TrackJob(s) PROVE TicketInv' /\ Shrinks
  <2>1. ticket' = ticket /\ lost' = lost /\ table' = table /\ fate' = fate /\ nextId' = nextId
    BY <1>2 DEF TrackJob, backend
  <2>2. \A t \in Slices : page'[t] = "new" <=> page[t] = "new"
    BY <1>2 DEF TrackJob, TypeOK
  <2> QED BY <2>1, <2>2 DEF TicketInv, Known, Reissued
<1>3. ASSUME NEW s \in Slices, NEW how \in Ends, EndJob(s, how) PROVE TicketInv' /\ Shrinks
  <2>1. /\ ticket' = ticket /\ lost' = lost /\ page' = page /\ nextId' = nextId
        /\ table[s] = "open" /\ table'[s] = how /\ fate'[s] = how
        /\ \A t \in Slices \ {s} : table'[t] = table[t] /\ fate'[t] = fate[t]
    BY <1>3 DEF EndJob, TypeOK
  <2>2. page[s] # "new"
    BY <2>1 DEF TicketInv
  <2>3. \A t \in Slices :
            /\ page'[t] = "new" => /\ ticket'[t] = 0 /\ t \notin lost'
                                   /\ table'[t] = "absent" /\ fate'[t] = "none"
            /\ page'[t] # "new" => ticket'[t] # 0
            /\ page'[t] # "new" /\ t \notin lost' => table'[t] # "absent" /\ ticket'[t] < nextId'
            /\ table'[t] \in Ends => fate'[t] = table'[t]
            /\ table'[t] = "open" => fate'[t] = "none"
    BY <2>1, <2>2 DEF TicketInv, Ends
  <2> QED BY <2>1, <2>3 DEF TicketInv, Known, Reissued
<1>4. ASSUME Restart PROVE TicketInv' /\ Shrinks
  <2>1. /\ ticket' = ticket /\ page' = page /\ fate' = fate
        /\ lost' = lost \union {s \in Slices : table[s] # "absent"}
        /\ table' = [s \in Slices |-> "absent"]
    BY <1>4 DEF Restart
  <2> QED BY <2>1 DEF TicketInv, Known, Reissued, Ends
<1>5. ASSUME Reload PROVE TicketInv' /\ Shrinks
  <2>1. ticket' = ticket /\ lost' = lost /\ table' = table /\ fate' = fate /\ nextId' = nextId
    BY <1>5 DEF Reload, backend
  <2>2. \A t \in Slices : page'[t] = "new" <=> page[t] = "new"
    BY <1>5 DEF Reload, TypeOK
  <2> QED BY <2>1, <2>2 DEF TicketInv, Known, Reissued
<1>6. ASSUME UNCHANGED <<backend, page>> PROVE TicketInv' /\ Shrinks
  BY <1>6, TicketsAreKept
<1>7. ASSUME NEW r \in rounds, Handle(r) \/ Fail(r) \/ Reply(r) PROVE TicketInv' /\ Shrinks
  BY <1>6, <1>7 DEF Handle, Fail, Reply
<1>8. ASSUME StartRound \/ Render \/ Tick \/ CloseModal \/ UNCHANGED vars
      PROVE  TicketInv' /\ Shrinks
  BY <1>6, <1>8 DEF StartRound, Render, Tick, CloseModal, vars
<1> QED BY <1>1, <1>2, <1>3, <1>4, <1>5, <1>7, <1>8 DEF Next

\* A step that only takes jobs from the lists and rounds keeps them genuine.
LEMMA JobsAreKept ==
    ASSUME JobInv, UNCHANGED <<page, ticket>>,
           active' \subseteq active \union listed, listed' \subseteq listed,
           \A q \in rounds' :
               \/ q.job \in active \union listed /\ q.left \subseteq active \union listed
               \/ \E r \in rounds : /\ q.job \in r.left \union {r.job}
                                    /\ q.left \subseteq r.left
    PROVE  JobInv'
BY DEF JobInv, Genuine

\* The rounds that are left when r has moved on to the next job it had.
LEMMA RestIsLeft ==
    ASSUME TypeOK, NEW r \in rounds, Handle(r)
    PROVE  \A q \in rounds' : \/ q \in rounds
                              \/ /\ q.job \in r.left /\ q.left \subseteq r.left
                                 /\ q.answer = "waiting"
<1>1. PICK rest \in IF r.cancelled /\ r.answer # "error" THEN {{}} ELSE Rest(r) :
          rounds' = (rounds \ {r}) \union rest
  BY DEF Handle
<1>2. r \in Rounds
  BY DEF TypeOK
<1> QED BY <1>1, <1>2, RestIsTyped

\* What handling an answer does to the list and to what was told.
LEMMA HandleCases ==
    ASSUME NEW r \in rounds, Handle(r)
    PROVE  /\ \/ UNCHANGED <<finished, listed, told>>
              \/ /\ r.answer \in Ends /\ Unhandled(r.job.id)
                 /\ finished' = finished \union {r.job.id}
                 /\ listed' \subseteq listed
                 /\ told' = [told EXCEPT ![r.job.name] = Append(@, r.answer)]
           /\ UNCHANGED <<backend, page, active>>
BY DEF Handle, CompleteJob, Dropped

LEMMA JobStep ==
    ASSUME TypeOK, JobInv, TicketInv, [Next]_vars
    PROVE  JobInv'
<1>1. ASSUME UNCHANGED <<page, active, listed, rounds>>,
             \A s \in Slices : page[s] = "tracked" => ticket'[s] = ticket[s]
      PROVE  JobInv'
  <2>1. \A job \in Jobs : Genuine(job) => Genuine(job)'
    BY <1>1 DEF Genuine, Jobs
  <2>2. active \subseteq Jobs /\ listed \subseteq Jobs
    BY DEF TypeOK
  <2>3. \A r \in rounds : r.job \in Jobs /\ r.left \subseteq Jobs
    BY DEF TypeOK, Rounds
  <2> QED BY <1>1, <2>1, <2>2, <2>3 DEF JobInv
<1>2. ASSUME NEW s \in Slices, Enqueue(s) PROVE JobInv'
  <2>1. /\ UNCHANGED <<active, listed, rounds>>
        /\ \A t \in Slices : page[t] = "tracked" => page'[t] = "tracked" /\ ticket'[t] = ticket[t]
    BY <1>2 DEF Enqueue, tracker, TypeOK
  <2>2. \A job \in Jobs : Genuine(job) => Genuine(job)'
    BY <2>1 DEF Genuine, Jobs
  <2>3. active \subseteq Jobs /\ listed \subseteq Jobs
    BY DEF TypeOK
  <2>4. \A r \in rounds : r.job \in Jobs /\ r.left \subseteq Jobs
    BY DEF TypeOK, Rounds
  <2> QED BY <2>1, <2>2, <2>3, <2>4 DEF JobInv
<1>3. ASSUME NEW s \in Slices, TrackJob(s) PROVE JobInv'
  <2>0. PICK new : new = [id |-> ticket[s], name |-> s]
    OBVIOUS
  <2>1. /\ UNCHANGED <<active, rounds, ticket>>
        /\ page'[s] = "tracked" /\ \A t \in Slices : page[t] = "tracked" => page'[t] = "tracked"
    BY <1>3 DEF TrackJob, backend, TypeOK
  <2>2. listed' \subseteq listed \union {new}
    BY <1>3, <2>0 DEF TrackJob, Added
  <2>3. \A job \in Jobs : Genuine(job) => Genuine(job)'
    BY <2>1 DEF Genuine, Jobs
  <2>4. Genuine(new)'
    BY <2>0, <2>1 DEF Genuine
  <2>5. active \subseteq Jobs /\ listed \subseteq Jobs
    BY DEF TypeOK
  <2>6. \A r \in rounds : r.job \in Jobs /\ r.left \subseteq Jobs
    BY DEF TypeOK, Rounds
  <2> QED BY <2>1, <2>2, <2>3, <2>4, <2>5, <2>6 DEF JobInv
<1>4. ASSUME NEW s \in Slices, NEW how \in Ends, EndJob(s, how) PROVE JobInv'
  BY <1>1, <1>4 DEF EndJob, tracker
<1>5. ASSUME NEW r \in rounds, Handle(r) PROVE JobInv'
  <2>1. \A q \in rounds' : \/ q \in rounds
                           \/ q.job \in r.left /\ q.left \subseteq r.left
    BY <1>5, RestIsLeft
  <2>2. UNCHANGED <<page, ticket, active>> /\ listed' \subseteq listed
    BY <1>5, HandleCases DEF backend
  <2> QED BY <2>1, <2>2, JobsAreKept
<1>6. ASSUME NEW r \in rounds, Fail(r) \/ Reply(r) PROVE JobInv'
  <2>1. PICK a : rounds' = (rounds \ {r}) \union {[r EXCEPT !.answer = a]}
    BY <1>6 DEF Fail, Reply
  <2>2. [r EXCEPT !.answer = a].job = r.job /\ [r EXCEPT !.answer = a].left = r.left
    BY DEF TypeOK, Rounds
  <2>3. UNCHANGED <<page, ticket, active, listed>>
    BY <1>6 DEF Fail, Reply, backend
  <2> QED BY <2>1, <2>2, <2>3, JobsAreKept
<1>7. ASSUME StartRound PROVE JobInv'
  <2>1. PICK job \in active :
            rounds' = rounds \union {[job |-> job, answer |-> "waiting",
                                      left |-> active \ {job}, cancelled |-> FALSE]}
    BY <1>7 DEF StartRound
  <2>2. UNCHANGED <<page, ticket, active, listed>>
    BY <1>7 DEF StartRound, backend
  <2> QED BY <2>1, <2>2, JobsAreKept
<1>8. ASSUME Render PROVE JobInv'
  <2>1. \A r \in rounds : /\ [r EXCEPT !.cancelled = TRUE].job = r.job
                          /\ [r EXCEPT !.cancelled = TRUE].left = r.left
    BY DEF TypeOK, Rounds
  <2>2. \A q \in rounds' : \E r \in rounds : q.job = r.job /\ q.left = r.left
    BY <1>8, <2>1 DEF Render
  <2>3. UNCHANGED <<page, ticket, listed>> /\ active' = listed
    BY <1>8 DEF Render, backend
  <2> QED BY <2>2, <2>3, JobsAreKept
<1>9. ASSUME Restart PROVE JobInv'
  <2>1. \A r \in rounds : /\ [r EXCEPT !.answer = "error"].job = r.job
                          /\ [r EXCEPT !.answer = "error"].left = r.left
    BY DEF TypeOK, Rounds
  <2>2. \A q \in rounds' : \E r \in rounds : q.job = r.job /\ q.left = r.left
    BY <1>9, <2>1 DEF Restart
  <2>3. UNCHANGED <<page, ticket, listed, active>>
    BY <1>9 DEF Restart
  <2> QED BY <2>2, <2>3, JobsAreKept
<1>10. ASSUME Reload PROVE JobInv'
  BY <1>10 DEF Reload, JobInv
<1>11. ASSUME Tick \/ CloseModal \/ UNCHANGED vars PROVE JobInv'
  BY <1>1, <1>11 DEF Tick, CloseModal, vars, backend, tracker
<1> QED BY <1>2, <1>3, <1>4, <1>5, <1>6, <1>7, <1>8, <1>9, <1>10, <1>11 DEF Next

\* A slice that has ended is not ended again.
LEMMA FateIsKept ==
    ASSUME TypeOK, TicketInv, [Next]_vars, NEW s \in Slices, fate[s] # "none"
    PROVE  fate'[s] = fate[s]
<1>1. table[s] # "open"
  BY DEF TicketInv
<1>2. ASSUME NEW t \in Slices, NEW how \in Ends, EndJob(t, how) PROVE fate'[s] = fate[s]
  BY <1>1, <1>2 DEF EndJob, TypeOK
<1>3. ASSUME NEW t \in Slices, Enqueue(t) \/ TrackJob(t) PROVE fate'[s] = fate[s]
  BY <1>3 DEF Enqueue, TrackJob, backend
<1>4. ASSUME NEW r \in rounds, Handle(r) \/ Fail(r) \/ Reply(r) PROVE fate'[s] = fate[s]
  BY <1>4 DEF Handle, Fail, Reply, backend
<1>5. ASSUME StartRound \/ Render \/ Tick \/ CloseModal \/ Restart \/ Reload \/ UNCHANGED vars
      PROVE  fate'[s] = fate[s]
  BY <1>5 DEF StartRound, Render, Tick, CloseModal, Restart, Reload, vars, backend
<1> QED BY <1>2, <1>3, <1>4, <1>5 DEF Next

\* Steps after which no round carries an end that it did not carry before.
LEMMA AnswersAreKept ==
    ASSUME TypeOK, Numbered, TicketInv, JobInv, AnswerInv, [Next]_vars,
           \A q \in rounds' :
               q.answer \in Ends => \E r \in rounds : q.job = r.job /\ q.answer = r.answer
    PROVE  AnswerInv'
<1> SUFFICES ASSUME NEW q \in rounds', q.answer \in Ends, Known(q.job.name)'
             PROVE  fate'[q.job.name] = q.answer
  BY DEF AnswerInv
<1>1. PICK r \in rounds : q.job = r.job /\ q.answer = r.answer
  OBVIOUS
<1>2. q.job.name \in Slices /\ page[q.job.name] # "new"
  BY <1>1 DEF JobInv, Genuine, TypeOK, Rounds, Jobs
<1>3. Known(q.job.name)
  BY <1>2, TicketStep
<1>4. fate[q.job.name] = q.answer /\ q.answer # "none"
  BY <1>1, <1>3 DEF AnswerInv, Ends
<1> QED BY <1>2, <1>4, FateIsKept

LEMMA AnswerStep ==
    ASSUME TypeOK, Numbered, TicketInv, JobInv, AnswerInv, [Next]_vars
    PROVE  AnswerInv'
<1>1. CASE rounds' \subseteq rounds
  BY <1>1, AnswersAreKept
<1>2. ASSUME NEW r \in rounds, Handle(r) PROVE AnswerInv'
  BY <1>2, RestIsLeft, AnswersAreKept DEF Ends
<1>3. ASSUME NEW r \in rounds, Fail(r) PROVE AnswerInv'
  <2>1. rounds' = (rounds \ {r}) \union {[r EXCEPT !.answer = "error"]}
    BY <1>3 DEF Fail
  <2>2. [r EXCEPT !.answer = "error"].answer = "error"
    BY DEF TypeOK, Rounds
  <2> QED BY <2>1, <2>2, AnswersAreKept DEF Ends
<1>4. ASSUME NEW r \in rounds, Reply(r) PROVE AnswerInv'
  <2>1. PICK a \in IF Found(r.job.id) = {} THEN {"error"} ELSE {table[s] : s \in Found(r.job.id)} :
            rounds' = (rounds \ {r}) \union {[r EXCEPT !.answer = a]}
    BY <1>4 DEF Reply
  <2> DEFINE q == [r EXCEPT !.answer = a]
  <2>2. q.answer = a /\ q.job = r.job
    BY DEF TypeOK, Rounds
  <2>3. r.job.name \in Slices /\ page[r.job.name] = "tracked" /\ ticket[r.job.name] = r.job.id
    BY DEF JobInv, Genuine, TypeOK, Rounds, Jobs
  <2>4. UNCHANGED <<backend, page>> /\ UNCHANGED <<fate, lost, ticket>>
    BY <1>4 DEF Reply, backend
  <2>5. ASSUME a \in Ends, Known(r.job.name) PROVE fate[r.job.name] = a
    <3>1. PICK s \in Found(r.job.id) : a = table[s]
      BY <2>1, <2>5 DEF Ends
    <3>2. s \in Slices /\ ticket[s] = ticket[r.job.name]
      BY <2>3, <3>1 DEF Found
    <3>3. s = r.job.name
      BY <2>3, <2>5, <3>2, KnownIsUnique
    <3> QED BY <2>5, <3>1, <3>2, <3>3 DEF TicketInv
  <2>6. \A s \in Slices : Known(s)' <=> Known(s)
    BY <2>4 DEF Known, Reissued
  <2>7. ASSUME NEW t \in rounds', t.answer \in Ends, Known(t.job.name)'
        PROVE  fate'[t.job.name] = t.answer
    <3>1. CASE t \in rounds
      BY <2>4, <2>6, <2>7, <3>1 DEF AnswerInv, JobInv, TypeOK, Rounds, Jobs
    <3>2. CASE t \notin rounds
      BY <2>1, <2>2, <2>3, <2>4, <2>5, <2>6, <2>7, <3>2
    <3> QED BY <3>1, <3>2
  <2> QED BY <2>7 DEF AnswerInv
<1>5. ASSUME StartRound PROVE AnswerInv'
  <2>1. PICK job \in active :
            rounds' = rounds \union {[job |-> job, answer |-> "waiting",
                                      left |-> active \ {job}, cancelled |-> FALSE]}
    BY <1>5 DEF StartRound
  <2> QED BY <2>1, AnswersAreKept DEF Ends
<1>6. ASSUME Render PROVE AnswerInv'
  <2>1. \A r \in rounds : /\ [r EXCEPT !.cancelled = TRUE].job = r.job
                          /\ [r EXCEPT !.cancelled = TRUE].answer = r.answer
    BY DEF TypeOK, Rounds
  <2>2. \A q \in rounds' : \E r \in rounds : q.job = r.job /\ q.answer = r.answer
    BY <1>6, <2>1 DEF Render
  <2> QED BY <2>2, AnswersAreKept
<1>7. ASSUME Restart PROVE AnswerInv'
  <2>1. \A r \in rounds : [r EXCEPT !.answer = "error"].answer = "error"
    BY DEF TypeOK, Rounds
  <2>2. \A q \in rounds' : q.answer \in Ends => q \in rounds
    BY <1>7, <2>1 DEF Restart, Ends
  <2> QED BY <2>2, AnswersAreKept
<1>8. ASSUME NEW s \in Slices, Enqueue(s) \/ TrackJob(s) \/ \E how \in Ends : EndJob(s, how)
      PROVE  AnswerInv'
  <2>1. rounds' = rounds
    BY <1>8 DEF Enqueue, TrackJob, EndJob, tracker
  <2> QED BY <1>1, <2>1
<1>9. ASSUME Tick \/ CloseModal \/ Reload \/ UNCHANGED vars PROVE AnswerInv'
  <2>1. rounds' \subseteq rounds
    BY <1>9 DEF Tick, CloseModal, Reload, vars, tracker
  <2> QED BY <1>1, <2>1
<1> QED BY <1>2, <1>3, <1>4, <1>5, <1>6, <1>7, <1>8, <1>9 DEF Next

\* Steps that tell nothing, and forget neither a number nor a page.
LEMMA ToldIsKept ==
    ASSUME TypeOK, Numbered, TicketInv, ToldInv, [Next]_vars, told' = told,
           \A s \in Slices : page[s] = "new" /\ page'[s] # "new" => page'[s] = "asked",
           \A s \in Slices : page[s] = "tracked" => page'[s] \in {"tracked", "forgotten"},
           \A s \in Slices : page[s] = "forgotten" => page'[s] = "forgotten",
           \A s \in Slices : page'[s] \in {"new", "asked"} => page[s] \in {"new", "asked"},
           \A s \in Slices : page[s] # "new" => ticket'[s] = ticket[s],
           \A s \in Slices : page'[s] = "tracked" /\ Known(s) /\ ticket[s] \in finished
                                => ticket[s] \in finished'
    PROVE  ToldInv'
<1> SUFFICES ASSUME NEW s \in Slices
             PROVE  /\ page'[s] \in {"new", "asked"} => told[s] = <<>>
                    /\ Known(s)' /\ told[s] # <<>> =>
                          /\ Len(told[s]) = 1 /\ told[s][1] = fate'[s]
                          /\ ticket'[s] \in finished' \/ page'[s] = "forgotten"
  BY DEF ToldInv
<1>1. page'[s] \in {"new", "asked"} => told[s] = <<>>
  BY DEF ToldInv
<1>2. ASSUME Known(s)', told[s] # <<>>
      PROVE  /\ Len(told[s]) = 1 /\ told[s][1] = fate'[s]
             /\ ticket'[s] \in finished' \/ page'[s] = "forgotten"
  <2>1. page[s] \in {"tracked", "forgotten"}
    BY <1>2 DEF ToldInv, TypeOK
  <2>2. Known(s)
    BY <1>2, <2>1, TicketStep
  <2>3. /\ Len(told[s]) = 1 /\ told[s][1] = fate[s]
        /\ ticket[s] \in finished \/ page[s] = "forgotten"
    BY <1>2, <2>2 DEF ToldInv
  <2>4. told[s] \in Seq(Ends)
    BY DEF TypeOK
  <2>5. told[s][1] \in Ends
    BY <2>3, <2>4
  <2>6. fate'[s] = fate[s]
    BY <2>3, <2>5, FateIsKept DEF Ends
  <2> QED BY <2>1, <2>2, <2>3, <2>6
<1> QED BY <1>1, <1>2

LEMMA ToldStep ==
    ASSUME TypeOK, Numbered, ToldInvs, [Next]_vars
    PROVE  ToldInv'
<1> USE DEF ToldInvs
<1>1. ASSUME UNCHANGED <<page, finished, told>>,
             \A s \in Slices : page[s] # "new" => ticket'[s] = ticket[s]
      PROVE  ToldInv'
  BY <1>1, ToldIsKept
<1>2. ASSUME NEW s \in Slices, Enqueue(s) PROVE ToldInv'
  <2>1. /\ UNCHANGED <<finished, told>> /\ page[s] = "new" /\ page'[s] = "asked"
        /\ \A t \in Slices \ {s} : page'[t] = page[t] /\ ticket'[t] = ticket[t]
    BY <1>2 DEF Enqueue, tracker, TypeOK
  <2> QED BY <2>1, ToldIsKept
<1>3. ASSUME NEW s \in Slices, TrackJob(s) PROVE ToldInv'
  <2>1. /\ told' = told /\ ticket' = ticket /\ page[s] = "asked" /\ page'[s] = "tracked"
        /\ finished' = finished \ {ticket[s]}
        /\ \A t \in Slices \ {s} : page'[t] = page[t]
    BY <1>3 DEF TrackJob, backend, TypeOK
  <2>2. told[s] = <<>>
    BY <2>1 DEF ToldInv
  <2>3. \A t \in Slices \ {s} : page[t] # "new" /\ Known(t) => ticket[t] # ticket[s]
    BY KnownIsUnique
  <2>4. ASSUME NEW t \in Slices \ {s}, Known(t)', told[t] # <<>>
        PROVE  /\ Len(told[t]) = 1 /\ told[t][1] = fate'[t]
               /\ ticket[t] \in finished' \/ page'[t] = "forgotten"
    <3>1. page[t] \notin {"new", "asked"}
      BY <2>4 DEF ToldInv
    <3>2. Known(t)
      BY <2>4, <3>1, TicketStep
    <3>3. fate' = fate
      BY <1>3 DEF TrackJob, backend
    <3> QED BY <2>1, <2>3, <2>4, <3>1, <3>2, <3>3 DEF ToldInv
  <2>5. \A t \in Slices \ {s} : page'[t] \in {"new", "asked"} => told[t] = <<>>
    BY <2>1 DEF ToldInv
  <2> QED BY <2>1, <2>2, <2>4, <2>5 DEF ToldInv
<1>4. ASSUME NEW s \in Slices, NEW how \in Ends, EndJob(s, how) PROVE ToldInv'
  BY <1>1, <1>4 DEF EndJob, tracker
<1>5. ASSUME NEW r \in rounds, Handle(r) PROVE ToldInv'
  <2>0. UNCHANGED <<ticket, fate, lost, page>>
    BY <1>5, HandleCases DEF backend
  <2>1. CASE UNCHANGED <<finished, listed, told>>
    BY <1>1, <2>0, <2>1
  <2>2. CASE /\ r.answer \in Ends /\ Unhandled(r.job.id)
             /\ finished' = finished \union {r.job.id}
             /\ told' = [told EXCEPT ![r.job.name] = Append(@, r.answer)]
    <3>1. /\ r.job.name \in Slices /\ page[r.job.name] = "tracked"
          /\ ticket[r.job.name] = r.job.id
      BY DEF JobInv, Genuine, TypeOK, Rounds, Jobs
    <3>2. \A s \in Slices : Known(s)' <=> Known(s)
      BY <2>0 DEF Known, Reissued
    <3>3. ASSUME Known(r.job.name)
          PROVE  told'[r.job.name] = <<r.answer>> /\ fate[r.job.name] = r.answer
      <4>1. told[r.job.name] = <<>>
        BY <2>2, <3>1, <3>3 DEF ToldInv, Unhandled
      <4>2. told'[r.job.name] = Append(told[r.job.name], r.answer)
        BY <2>2, <3>1 DEF TypeOK
      <4>3. told'[r.job.name] = <<r.answer>>
        BY <4>1, <4>2
      <4>4. fate[r.job.name] = r.answer
        BY <2>2, <3>3 DEF AnswerInv
      <4> QED BY <4>3, <4>4
    <3>4. \A s \in Slices \ {r.job.name} : told'[s] = told[s]
      BY <2>2 DEF TypeOK
    <3>5. ASSUME NEW s \in Slices \ {r.job.name}
          PROVE  /\ page[s] \in {"new", "asked"} => told'[s] = <<>>
                 /\ Known(s) /\ told'[s] # <<>> =>
                       /\ Len(told'[s]) = 1 /\ told'[s][1] = fate[s]
                       /\ ticket[s] \in finished' \/ page[s] = "forgotten"
      BY <2>2, <3>4 DEF ToldInv
    <3>6. Known(r.job.name) => /\ Len(told'[r.job.name]) = 1
                               /\ told'[r.job.name][1] = fate[r.job.name]
                               /\ ticket[r.job.name] \in finished'
      <4>1. Len(<<r.answer>>) = 1 /\ <<r.answer>>[1] = r.answer
        OBVIOUS
      <4>2. ticket[r.job.name] \in finished'
        BY <2>2, <3>1
      <4> QED BY <3>3, <4>1, <4>2
    <3> QED BY <2>0, <3>1, <3>2, <3>5, <3>6 DEF ToldInv
  <2> QED BY <1>5, <2>1, <2>2, HandleCases
<1>6. ASSUME NEW r \in rounds, Fail(r) \/ Reply(r) PROVE ToldInv'
  BY <1>1, <1>6 DEF Fail, Reply, backend
<1>7. ASSUME Reload PROVE ToldInv'
  <2>1. /\ told' = told /\ ticket' = ticket
        /\ \A s \in Slices : page'[s] = IF page[s] \in {"asked", "tracked"} THEN "forgotten"
                                        ELSE page[s]
    BY <1>7 DEF Reload, backend
  <2> QED BY <2>1, ToldIsKept
<1>8. ASSUME StartRound \/ Render \/ Tick \/ CloseModal \/ Restart \/ UNCHANGED vars
      PROVE  ToldInv'
  BY <1>1, <1>8 DEF StartRound, Render, Tick, CloseModal, Restart, vars, backend, tracker
<1> QED BY <1>2, <1>3, <1>4, <1>5, <1>6, <1>7, <1>8 DEF Next

LEMMA ToldInvsHold == Spec => [](TypeOK /\ ToldInvs)
<1>1. TypeOK /\ Numbered /\ ToldInvs /\ [Next]_vars => TypeOK' /\ Numbered' /\ ToldInvs'
  BY TypeStep, NumberedStep, TicketStep, JobStep, AnswerStep, ToldStep DEF ToldInvs
<1> QED BY <1>1, TypeInit, ToldInit, PTL DEF Spec

\* However rounds, ticks and late answers interleave, and whatever is lost on
\* the way, no end is announced twice.
THEOREM ToldAtMostOnce == Spec => []ToldOnce
<1>1. ASSUME TypeOK, ToldInvs PROVE ToldOnce
  <2>1. ASSUME NEW s \in Slices, Known(s) PROVE Len(told[s]) <= 1
    <3>1. CASE told[s] = <<>>
      BY <3>1
    <3>2. CASE told[s] # <<>>
      <4>1. Len(told[s]) = 1
        BY <2>1, <3>2, <1>1 DEF ToldInvs, ToldInv
      <4> QED BY <4>1
    <3> QED BY <3>1, <3>2
  <2> QED BY <2>1 DEF ToldOnce
<1>2. TypeOK /\ ToldInvs => ToldOnce
  BY <1>1
<1> QED BY <1>2, ToldInvsHold, PTL

\* No answer that comes late, or about another job, is announced as the end of
\* this one.
THEOREM ToldTruly == Spec => []ToldTheTruth
<1>1. TypeOK /\ ToldInvs => ToldTheTruth
  BY DEF ToldInvs, ToldInv, ToldTheTruth
<1> QED BY <1>1, ToldInvsHold, PTL
=============================================================================
