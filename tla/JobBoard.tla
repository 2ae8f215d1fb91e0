------------------------------ MODULE JobBoard ------------------------------
(***************************************************************************)
(* What the dispatch path promises, without how: a board of jobs.  A job   *)
(* waits, is assigned to a printer that has no other, begins there at most *)
(* once, and may go back to waiting only if it has not begun.              *)
(***************************************************************************)
EXTENDS Integers

CONSTANTS
    Jobs,      \* the rows of the queue
    Printers,  \* the printers
    Nowhere    \* the place of a job that is not assigned

VARIABLES
    state,  \* where each job stands
    place,  \* the printer each assigned job has
    runs    \* how often each job has begun

vars == <<state, place, runs>>

States == {"new", "waiting", "assigned", "closed"}

Init ==
    /\ state = [j \in Jobs |-> "new"]
    /\ place = [j \in Jobs |-> Nowhere]
    /\ runs = [j \in Jobs |-> 0]

Submit(j) ==
    /\ state[j] = "new"
    /\ state' = [state EXCEPT ![j] = "waiting"]
    /\ UNCHANGED <<place, runs>>

Assign(j, p) ==
    /\ state[j] = "waiting" /\ runs[j] = 0
    /\ \A k \in Jobs : place[k] # p
    /\ state' = [state EXCEPT ![j] = "assigned"]
    /\ place' = [place EXCEPT ![j] = p]
    /\ UNCHANGED runs

Begin(j) ==
    /\ state[j] = "assigned" /\ runs[j] = 0
    /\ runs' = [runs EXCEPT ![j] = 1]
    /\ UNCHANGED <<state, place>>

Return(j) ==
    /\ state[j] = "assigned" /\ runs[j] = 0
    /\ state' = [state EXCEPT ![j] = "waiting"]
    /\ place' = [place EXCEPT ![j] = Nowhere]
    /\ UNCHANGED runs

\* Completed, failed, cancelled, skipped or deleted.
Close(S) ==
    /\ \A j \in S : state[j] \in {"waiting", "assigned"}
    /\ state' = [j \in Jobs |-> IF j \in S THEN "closed" ELSE state[j]]
    /\ place' = [j \in Jobs |-> IF j \in S THEN Nowhere ELSE place[j]]
    /\ UNCHANGED runs

\* A skipped job is put back in line.
Reopen(S) ==
    /\ \A j \in S : state[j] = "closed" /\ runs[j] = 0
    /\ state' = [j \in Jobs |-> IF j \in S THEN "waiting" ELSE state[j]]
    /\ UNCHANGED <<place, runs>>

Next ==
    \/ \E j \in Jobs : Submit(j) \/ Begin(j) \/ Return(j)
    \/ \E j \in Jobs, p \in Printers : Assign(j, p)
    \/ \E S \in SUBSET Jobs : Close(S) \/ Reopen(S)

Spec == Init /\ [][Next]_vars

-----------------------------------------------------------------------------
BoardTypeOK ==
    /\ state \in [Jobs -> States]
    /\ place \in [Jobs -> Printers \union {Nowhere}]
    /\ runs \in [Jobs -> {0, 1}]

\* A printer is never given to two jobs: the promise behind the busy set, the
\* upload pool, the dispatch hold and the compare-and-set of the dispatch path.
Exclusive ==
    \A j, k \in Jobs : j # k /\ place[j] # Nowhere => place[j] # place[k]

\* A job that has begun never waits again, so no copy is printed twice.
NeverAgain == \A j \in Jobs : runs[j] = 1 => state[j] \in {"assigned", "closed"}

\* Only assigned jobs have a place.
Placed == \A j \in Jobs : place[j] # Nowhere <=> state[j] = "assigned"

\* What the board promises, in the form in which every step keeps it.
BoardInv == BoardTypeOK /\ Exclusive /\ NeverAgain /\ Placed

=============================================================================
