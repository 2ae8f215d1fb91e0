----------------------------- MODULE BudgetHold -----------------------------
(***************************************************************************)
(* The budget of one cost center, and the holds that keep prints within it *)
(* (backend, services/finance_budget.py, with its callers in the queue     *)
(* routes, in the upload tasks and in the completion callback).            *)
(*                                                                         *)
(* A row of the queue is weighed against the budget when it is asked for   *)
(* and again when it is dispatched, where it gets a hold; the hold ends in *)
(* the charge for the print, or is released. Amounts are whole.            *)
(*                                                                         *)
(* The database is the default one, SQLite, where FOR UPDATE locks nothing *)
(* and a transaction that has only read keeps nobody out: every read of a  *)
(* check is a step, and so is the write that relies on it.                 *)
(***************************************************************************)
EXTENDS Naturals, FiniteSets

CONSTANTS
    Rows,      \* rows of the queue that bill the cost center
    Limit,     \* its monthly or total budget
    MaxCost,   \* bound: what a print is estimated at, at most
    MaxTold,   \* bound: cancels and deletes that are under way at a time
    Faults     \* what may go wrong: "database", "uncharged", "rejected", "restart",
               \* "misnamed", "missed", "offline"

ASSUME BudgetAssumption ==
    /\ IsFiniteSet(Rows)
    /\ Limit \in Nat
    /\ MaxCost \in Nat \ {0}
    /\ MaxTold \in Nat

VARIABLES
    row,       \* PrintQueueItem.status; "asked" while its request is under way
    cost,      \* PrintQueueItem.estimated_cost, 0 before
    task,      \* where the row's request, and later its upload task, stands
    seen,      \* what the row's check has counted so far, row by row
    told,      \* what a cancel or delete that has read the row is about to write
    hold,      \* the active BudgetReservation of the row, 0 if it has none
    print,     \* the print that the row's task has sent
    bill,      \* the charge in the ledger
    lost,      \* rows whose hold was left behind: by a fault, or by a stop
               \* of a print that had not begun and never did
    uncovered  \* rows whose hold a cancel or delete took from their dispatch, or
               \* whose charge came between the reads of another row's check

vars == <<row, cost, task, seen, told, hold, print, bill, lost, uncovered>>

Costs     == 1..MaxCost
Ends      == {"over", "cancelled"}   \* "over": completed or failed, which is all one here
Open      == {"pending", "printing"}
RowStates == {"none", "asked", "deleted"} \union Open \union Ends

Nothing   == [j \in Rows |-> 0]

TypeOK ==
    /\ row \in [Rows -> RowStates]
    /\ cost \in [Rows -> 0..MaxCost]
    /\ task \in [Rows -> {"none", "claimed", "spent", "summed", "weighed", "held", "marked",
                         "closing"}]
    /\ seen \in [Rows -> [Rows -> 0..2 * MaxCost]]
    /\ told \in [Rows -> {"no", "cancelled", "deleted", "kept"}]
    /\ hold \in [Rows -> 0..MaxCost]
    /\ print \in [Rows -> {"no", "sent", "running", "ended"}]
    /\ bill \in [Rows -> 0..MaxCost]
    /\ lost \subseteq Rows
    /\ uncovered \subseteq Rows

Init ==
    /\ row   = [i \in Rows |-> "none"]
    /\ cost  = Nothing
    /\ task  = [i \in Rows |-> "none"]
    /\ seen  = [i \in Rows |-> Nothing]
    /\ told  = [i \in Rows |-> "no"]
    /\ hold  = Nothing
    /\ print = [i \in Rows |-> "no"]
    /\ bill  = Nothing
    /\ lost  = {}
    /\ uncovered = {}

-----------------------------------------------------------------------------
(* The check.                                                              *)

\* What a function of the rows adds up to.
Units(f) == {u \in Rows \X (1..3 * MaxCost) : u[2] <= f[u[1]]}
Total(f) == Cardinality(Units(f))

\* As it would be if the rows that have no hold yet were not counted.
HeldOnly(j) == 0

\* get_cost_center_reserved_map, its first query: an open row without a hold
\* counts with what it will need.
Unheld(j) == IF hold[j] = 0 /\ row[j] \in Open THEN cost[j] ELSE 0

Goto(i, state) == task' = [task EXCEPT ![i] = state]

\* validate_print_budget for row i reads what was spent, ...
ReadSpend(i) ==
    /\ task[i] = "claimed"
    /\ Goto(i, "spent")
    /\ seen' = [seen EXCEPT ![i] = [j \in Rows |-> IF j = i THEN 0 ELSE bill[j]]]
    /\ UNCHANGED <<row, cost, told, hold, print, bill, lost, uncovered>>

\* ... then the open rows that have no hold, ...
ReadQueue(i) ==
    /\ task[i] = "spent"
    /\ Goto(i, "summed")
    /\ seen' = [seen EXCEPT ![i] = [j \in Rows |-> IF j = i THEN 0 ELSE @[j] + Unheld(j)]]
    /\ UNCHANGED <<row, cost, told, hold, print, bill, lost, uncovered>>

\* ... then the holds, and it decides.
Seen(i) == [j \in Rows |-> IF j = i THEN 0 ELSE seen[i][j] + hold[j]]
Weigh(i) ==
    /\ task[i] = "summed" /\ Total(Seen(i)) + cost[i] <= Limit
    /\ Goto(i, "weighed")
    /\ seen' = [seen EXCEPT ![i] = Nothing]
    /\ UNCHANGED <<row, cost, told, hold, print, bill, lost, uncovered>>

\* The same check in a transaction that has written already: nobody comes in
\* between.
Counted(i) == [j \in Rows |-> IF j = i THEN 0 ELSE bill[j] + Unheld(j) + hold[j]]
Fits(i, k) == Total(Counted(i)) + k <= Limit

\* The rows whose dispatch a check is deciding about.
Weighing == {i \in Rows : task[i] \in {"spent", "summed"} /\ row[i] = "pending"}

-----------------------------------------------------------------------------
(* The queue routes.                                                       *)

\* POST /: the request is weighed ...
Ask(i, k) ==
    /\ row[i] = "none"
    /\ row' = [row EXCEPT ![i] = "asked"]
    /\ cost' = [cost EXCEPT ![i] = k]
    /\ Goto(i, "claimed")
    /\ UNCHANGED <<seen, told, hold, print, bill, lost, uncovered>>

\* ... and the row written,
Insert(i) ==
    /\ row[i] = "asked" /\ task[i] = "weighed"
    /\ row' = [row EXCEPT ![i] = "pending"]
    /\ Goto(i, "none")
    /\ UNCHANGED <<cost, seen, told, hold, print, bill, lost, uncovered>>

\* or the request refused.
Decline(i) ==
    /\ row[i] = "asked" /\ task[i] # "weighed"
    /\ row' = [row EXCEPT ![i] = "none"]
    /\ cost' = [cost EXCEPT ![i] = 0]
    /\ Goto(i, "none")
    /\ seen' = [seen EXCEPT ![i] = Nothing]
    /\ UNCHANGED <<told, hold, print, bill, lost, uncovered>>

\* cancel_queue_item and delete_queue_item read the row's status and go by it
\* whatever it is later. A delete keeps the last source of an order, as
\* cancelled, unless it is completed; if it is cancelled already, only the hold is
\* left to write.
Withdraw(i) ==
    /\ told[i] = "no" /\ Cardinality({j \in Rows : told[j] # "no"}) < MaxTold
    /\ \/ row[i] \in {"pending", "over"} /\ told' = [told EXCEPT ![i] = "cancelled"]
       \/ row[i] = "cancelled" /\ told' = [told EXCEPT ![i] = "kept"]
       \/ row[i] \in {"pending"} \union Ends /\ told' = [told EXCEPT ![i] = "deleted"]
    /\ UNCHANGED <<row, cost, task, seen, hold, print, bill, lost, uncovered>>

\* As it would be if the routes left the hold alone.
KeepHold(i) == hold

\* release_budget_reservation.
ReleaseHold(i) == [hold EXCEPT ![i] = 0]

EndHold(i) == hold' = ReleaseHold(i) /\ lost' = lost \ {i}

\* Or the hold stays, if there is one, and nothing will come to end it.
LeaveHold(i) ==
    /\ hold' = hold
    /\ lost' = IF hold[i] > 0 THEN lost \union {i} ELSE lost

Sending(i) == print[i] # "no" \/ task[i] = "marked"

\* Their write, by the row's id, and the release of the hold. If the row is
\* being sent, or its print is not charged yet, or it waits again, the hold was
\* its dispatch's.
TakeBack(i) ==
    /\ told[i] # "no"
    /\ told' = [told EXCEPT ![i] = "no"]
    /\ row' = [row EXCEPT ![i] = IF told[i] = "kept" THEN @ ELSE told[i]]
    /\ EndHold(i)
    /\ uncovered' = IF Sending(i) \/ row'[i] = "pending" THEN uncovered \union {i} ELSE uncovered
    /\ UNCHANGED <<cost, task, seen, print, bill>>

\* The row is cancelled at once; the print's own end comes later. "offline": the
\* printer is off, and no end of the print will ever be reported.
Stop(i) ==
    /\ row[i] = "printing"
    /\ row' = [row EXCEPT ![i] = "cancelled"]
    /\ \/ UNCHANGED <<print, hold, lost>>
       \/ /\ "offline" \in Faults /\ print[i] \in {"sent", "running"}
          /\ print' = [print EXCEPT ![i] = "no"]
          /\ LeaveHold(i)
    /\ UNCHANGED <<cost, task, seen, told, bill, uncovered>>

Request(i) ==
    \/ \E k \in Costs : Ask(i, k)
    \/ Insert(i) \/ Decline(i) \/ Withdraw(i) \/ TakeBack(i) \/ Stop(i)

-----------------------------------------------------------------------------
(* One upload task: what _dispatch_one and _start_print do about budgets.  *)

\* A write by the row's id whatever its status says; a deleted row takes none.
Blind(i, status) == [row EXCEPT ![i] = IF @ = "deleted" THEN @ ELSE status]

\* A claimed row is weighed afresh.
Claim(i) ==
    /\ task[i] = "none" /\ row[i] = "pending"
    /\ Goto(i, "claimed")
    /\ uncovered' = uncovered \ {i}
    /\ UNCHANGED <<row, cost, seen, told, hold, print, bill, lost>>

SetHold(i, k) ==
    /\ hold' = [hold EXCEPT ![i] = k]
    /\ lost' = lost \ {i}
    /\ Goto(i, "held")

\* The row is estimated and weighed once more (ReadSpend, ReadQueue, Weigh) and
\* gets its hold. The estimate it has already is not written, so that others may
\* write between the reads and before the hold ...
Authorize(i) ==
    /\ task[i] = "weighed" /\ row[i] # "asked"
    /\ SetHold(i, cost[i])
    /\ UNCHANGED <<row, cost, seen, told, print, bill, uncovered>>

\* ... but a new one is, before the check reads anything, and the hold comes in
\* the same transaction.
Reestimate(i, k) ==
    /\ task[i] = "claimed" /\ row[i] \notin {"asked", "deleted"}
    /\ k # cost[i] /\ Fits(i, k)
    /\ cost' = [cost EXCEPT ![i] = k]
    /\ SetHold(i, k)
    /\ UNCHANGED <<row, seen, told, print, bill, uncovered>>

\* It does not fit, has no price, may not be billed there any more, or is gone.
Reject(i) ==
    /\ task[i] \in {"claimed", "spent", "summed"} /\ row[i] # "asked"
    /\ row' = Blind(i, "over")
    /\ Goto(i, "closing")
    /\ seen' = [seen EXCEPT ![i] = Nothing]
    /\ UNCHANGED <<cost, told, hold, print, bill, lost, uncovered>>

\* The printer, the source or the upload fails, or the row has to wait.
GiveUp(i) ==
    /\ task[i] = "held"
    /\ \/ row' = row
       \/ row' = Blind(i, "over")
    /\ Goto(i, "closing")
    /\ UNCHANGED <<cost, seen, told, hold, print, bill, lost, uncovered>>

\* The compare-and-set from pending to printing (#1853).
Mark(i) ==
    /\ task[i] = "held"
    /\ IF row[i] = "pending"
       THEN Goto(i, "marked") /\ row' = [row EXCEPT ![i] = "printing"]
       ELSE Goto(i, "closing") /\ UNCHANGED row
    /\ UNCHANGED <<cost, seen, told, hold, print, bill, lost, uncovered>>

\* As it would be if the hold's marker outlived the command.
ReleasedAnyway == "closing"

\* start_print accepted: the marker goes, the hold stays.
AfterSend == "none"
Send(i) ==
    /\ task[i] = "marked"
    /\ print' = [print EXCEPT ![i] = "sent"]
    /\ Goto(i, AfterSend)
    /\ UNCHANGED <<row, cost, seen, told, hold, bill, lost, uncovered>>

\* start_print refused: a deferral, a retry or a failure.
Refused(i) ==
    /\ task[i] = "marked"
    /\ row' \in {Blind(i, "pending"), Blind(i, "over")}
    /\ Goto(i, "closing")
    /\ UNCHANGED <<cost, seen, told, hold, print, bill, lost, uncovered>>

\* _release_unconfirmed_budget_reservation, in the task's finally. A database
\* that refuses the write three times leaves the hold.
Close(i) ==
    /\ task[i] = "closing"
    /\ Goto(i, "none")
    /\ \/ EndHold(i)
       \/ "database" \in Faults /\ LeaveHold(i)
    /\ UNCHANGED <<row, cost, seen, told, print, bill, uncovered>>

Proceed(i) ==
    \/ ReadSpend(i) \/ ReadQueue(i) \/ Weigh(i) \/ Authorize(i) \/ Reject(i)
    \/ GiveUp(i) \/ Mark(i) \/ Send(i) \/ Refused(i) \/ Close(i) \/ \E k \in Costs : Reestimate(i, k)

-----------------------------------------------------------------------------
(* The print, from the command to the charge.                              *)

Begin(i) ==
    /\ print[i] = "sent"
    /\ print' = [print EXCEPT ![i] = "running"]
    /\ UNCHANGED <<row, cost, task, seen, told, hold, bill, lost, uncovered>>

\* As it would be if giving a row up left its hold alone.
GaveUpOnly(i) == UNCHANGED <<hold, lost>>

GaveUp(i) == EndHold(i)

\* The printer never begins and the watchdog finds out: the row goes back with
\* its hold, or the watchdog gives up, or the printer has rejected the command.
\* A row that is not printing any more it leaves alone, hold and all. A print
\* that has not begun by then does not begin later.
NeverBegins(i) ==
    /\ print[i] = "sent"
    /\ print' = [print EXCEPT ![i] = "no"]
    /\ \/ row[i] = "printing" /\ row' = [row EXCEPT ![i] = "pending"]
          /\ UNCHANGED <<hold, lost>>
       \/ row[i] = "printing" /\ row' = [row EXCEPT ![i] = "over"]
          /\ GaveUp(i)
       \/ row[i] = "printing" /\ row' = [row EXCEPT ![i] = "over"]
          /\ "rejected" \in Faults /\ LeaveHold(i)
       \/ row[i] # "printing" /\ row' = row /\ LeaveHold(i)
    /\ UNCHANGED <<cost, task, seen, told, bill, uncovered>>

\* The completion callback closes the row first, unless it has been stopped or
\* the names disagree ("misnamed"), ...
EndPrint(i) ==
    /\ print[i] = "running"
    /\ print' = [print EXCEPT ![i] = "ended"]
    /\ \/ row[i] # "printing" /\ row' = row
       \/ row[i] = "printing" /\ \E end \in Ends : row' = [row EXCEPT ![i] = end]
       \/ row[i] = "printing" /\ "misnamed" \in Faults /\ row' = row
    /\ UNCHANGED <<cost, task, seen, told, hold, bill, lost, uncovered>>

\* "missed": the printer drops out and the print's end is never reported.
MissEnd(i) ==
    /\ "missed" \in Faults
    /\ print[i] = "running"
    /\ print' = [print EXCEPT ![i] = "no"]
    /\ LeaveHold(i)
    /\ UNCHANGED <<row, cost, task, seen, told, bill, uncovered>>

\* As it would be if the filament ratio were not clamped.
Unclamped(k) == 0..2 * k

\* What a print may be charged: its cost, or the share that was printed.
Chargeable(k) == 0..k

\* ... and charges for the print later, which ends the hold: the row's, or if no
\* row was closed the archive's. "database": the charge fails. "uncharged": the
\* print has nobody to charge or costs nothing. "misnamed": nor has it an archive.
Charge(i) ==
    /\ print[i] = "ended"
    /\ print' = [print EXCEPT ![i] = "no"]
    /\ \/ /\ \E b \in Chargeable(cost[i]) : bill' = [bill EXCEPT ![i] = b]
          /\ EndHold(i)
          /\ uncovered' = IF Weighing # {} THEN uncovered \union {i} ELSE uncovered
       \/ /\ Faults \intersect {"database", "uncharged", "misnamed"} # {}
          /\ LeaveHold(i) /\ UNCHANGED <<bill, uncovered>>
    /\ UNCHANGED <<row, cost, task, seen, told>>

\* The scheduler's sweep of rows that are printing while their printer is not: the
\* end was refused by its name or missed. It neither charges nor releases.
CloseStranded(i) ==
    /\ row[i] = "printing" /\ task[i] = "none" /\ print[i] \in {"no", "ended"}
    /\ \E end \in Ends : row' = [row EXCEPT ![i] = end]
    /\ UNCHANGED <<cost, task, seen, told, hold, print, bill, lost, uncovered>>

PrintGoesOn(i) == Begin(i) \/ NeverBegins(i) \/ EndPrint(i) \/ MissEnd(i) \/ Charge(i)
                  \/ CloseStranded(i)

\* The backend restarts: requests and tasks are gone, and so is what was to be
\* done about the prints that ended meanwhile. A row that still waits will be
\* dispatched again, and its hold with it.
Restart ==
    /\ "restart" \in Faults
    /\ \E missed \in SUBSET {i \in Rows : print[i] # "no"} :
         /\ {i \in Rows : print[i] = "ended"} \subseteq missed
         /\ print' = [i \in Rows |-> IF i \in missed \/ print[i] = "no" THEN "no" ELSE "running"]
         /\ lost' = lost \union {i \in Rows :
                  /\ hold[i] > 0
                  /\ i \in missed \/ (task[i] # "none" /\ row[i] # "pending")}
    /\ task' = [i \in Rows |-> "none"]
    /\ seen' = [i \in Rows |-> Nothing]
    /\ told' = [i \in Rows |-> "no"]
    /\ row' = [i \in Rows |-> IF row[i] = "asked" THEN "none" ELSE row[i]]
    /\ cost' = [i \in Rows |-> IF row[i] = "asked" THEN 0 ELSE cost[i]]
    /\ UNCHANGED <<hold, bill, uncovered>>

-----------------------------------------------------------------------------
Next == \/ \E i \in Rows : Request(i) \/ Claim(i) \/ Proceed(i) \/ PrintGoesOn(i)
        \/ Restart

Spec == Init /\ [][Next]_vars

\* Tasks go on, prints begin and end, and are charged.
Fairness == \A i \in Rows : WF_vars(Proceed(i)) /\ WF_vars(PrintGoesOn(i))
FairSpec == Spec /\ Fairness

-----------------------------------------------------------------------------
(* Properties.                                                             *)

\* What is charged and what is held for the prints under way stay within the
\* budget, although the reads and writes of several checks interleave. Left aside
\* are the rows that a check cannot have counted (uncovered), no more than those:
\* a dispatch whose hold a cancel or delete took, and a charge that came between the
\* reads of a check, after the ledger and before the holds.
Committed == [i \in Rows |-> IF i \in uncovered THEN 0
                             ELSE bill[i] + IF Sending(i) THEN hold[i] ELSE 0]
NeverOverspent == Total(Committed) <= Limit

\* A print is under way only with a hold of its estimate, from before its command
\* goes out until it is charged, unless a cancel or delete took the hold.
PrintsAreHeld ==
    \A i \in Rows : Sending(i) => i \in uncovered \/ (hold[i] > 0 /\ hold[i] = cost[i])

\* Every hold is somebody's business: its row waits, a task is at work on it,
\* its print is under way, or it is one of those named as left behind.
HoldsAreOwned ==
    \A i \in Rows : hold[i] > 0 =>
        row[i] = "pending" \/ task[i] # "none" \/ print[i] # "no" \/ i \in lost

\* The hold of a row that is over ends, unless it is one of those left behind
\* or the row goes back to waiting.
HoldsEnd ==
    \A i \in Rows :
        (hold[i] > 0 /\ row[i] \in Ends \union {"deleted"})
            ~> (hold[i] = 0 \/ i \in lost \/ row[i] = "pending")
=============================================================================
