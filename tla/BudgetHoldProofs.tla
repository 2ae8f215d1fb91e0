-------------------------- MODULE BudgetHoldProofs --------------------------
(***************************************************************************)
(* Proofs about BudgetHold, for every finite set of rows, every budget,    *)
(* every bound of the estimates and every choice of faults.                *)
(***************************************************************************)
EXTENDS BudgetHold, FiniteSetTheorems, TLAPS

-----------------------------------------------------------------------------
(* Type correctness.                                                       *)

\* A check that has read the ledger only has seen no more than a charge per row.
SeenInv == \A i, j \in Rows : task[i] = "spent" => seen[i][j] <= MaxCost

LEMMA TypeInit == Init => TypeOK /\ SeenInv
BY BudgetAssumption DEF Init, TypeOK, SeenInv, RowStates, Open, Ends, Nothing

LEMMA HoldTypes ==
    ASSUME TypeOK, NEW i \in Rows, EndHold(i) \/ LeaveHold(i)
    PROVE  hold' \in [Rows -> 0..MaxCost] /\ lost' \subseteq Rows
<1> USE BudgetAssumption DEF TypeOK
<1>1. CASE EndHold(i)
  BY <1>1 DEF EndHold, ReleaseHold
<1>2. CASE LeaveHold(i)
  BY <1>2 DEF LeaveHold
<1> QED BY <1>1, <1>2

LEMMA TypeStep ==
    ASSUME TypeOK, SeenInv, [Next]_vars
    PROVE  TypeOK'
<1> USE BudgetAssumption DEF TypeOK, RowStates, Open, Ends, Costs
<1>1. ASSUME NEW i \in Rows, Request(i) PROVE TypeOK'
  <2>1. ASSUME NEW k \in Costs, Ask(i, k) PROVE TypeOK'
    BY <2>1 DEF Ask, Goto
  <2>2. CASE Insert(i)
    BY <2>2 DEF Insert, Goto
  <2>3. CASE Decline(i)
    BY <2>3 DEF Decline, Goto, Nothing
  <2>4. CASE Withdraw(i)
    BY <2>4 DEF Withdraw
  <2>5. CASE TakeBack(i)
    BY <2>5 DEF TakeBack, EndHold, ReleaseHold
  <2>6. CASE Stop(i)
    BY <2>6 DEF Stop, LeaveHold
  <2> QED BY <1>1, <2>1, <2>2, <2>3, <2>4, <2>5, <2>6 DEF Request
<1>2. ASSUME NEW i \in Rows, Claim(i) PROVE TypeOK'
  BY <1>2 DEF Claim, Goto
<1>3. ASSUME NEW i \in Rows, Proceed(i) PROVE TypeOK'
  <2>1. CASE Mark(i) \/ Send(i)
    BY <2>1 DEF Mark, Send, AfterSend, Goto
  <2>2. CASE Authorize(i)
    BY <2>2 DEF Authorize, SetHold, Goto
  <2>3. ASSUME NEW k \in Costs, Reestimate(i, k) PROVE TypeOK'
    BY <2>3 DEF Reestimate, SetHold, Goto
  <2>4. CASE Reject(i) \/ GiveUp(i) \/ Refused(i)
    <3>1. \A status \in {"over", "pending"} : Blind(i, status) \in [Rows -> RowStates]
      BY DEF Blind
    <3>2. row' \in [Rows -> RowStates]
      BY <2>4, <3>1 DEF Reject, GiveUp, Refused
    <3>3. task' = [task EXCEPT ![i] = "closing"]
      BY <2>4 DEF Reject, GiveUp, Refused, Goto
    <3>4. seen' = [seen EXCEPT ![i] = Nothing] \/ seen' = seen
      BY <2>4 DEF Reject, GiveUp, Refused
    <3>5. UNCHANGED <<cost, told, hold, print, bill, lost, uncovered>>
      BY <2>4 DEF Reject, GiveUp, Refused
    <3>6. seen' \in [Rows -> [Rows -> 0..2 * MaxCost]]
      BY <3>4 DEF Nothing
    <3> QED BY <3>2, <3>3, <3>5, <3>6
  <2>5. CASE Close(i)
    BY <2>5 DEF Close, EndHold, LeaveHold, ReleaseHold, Goto
  <2>6. CASE ReadSpend(i)
    BY <2>6 DEF ReadSpend, Goto
  <2>7. CASE ReadQueue(i)
    <3>1. \A j \in Rows : Unheld(j) \in 0..MaxCost /\ seen[i][j] + Unheld(j) \in 0..2 * MaxCost
      BY <2>7 DEF ReadQueue, Unheld, SeenInv
    <3> QED BY <2>7, <3>1 DEF ReadQueue, Goto
  <2>8. CASE Weigh(i)
    BY <2>8 DEF Weigh, Goto, Nothing
  <2> QED BY <1>3, <2>1, <2>2, <2>3, <2>4, <2>5, <2>6, <2>7, <2>8 DEF Proceed
<1>4. ASSUME NEW i \in Rows, PrintGoesOn(i) PROVE TypeOK'
  <2>1. CASE Begin(i) \/ EndPrint(i) \/ CloseStranded(i)
    BY <2>1 DEF Begin, EndPrint, CloseStranded
  <2>2. CASE NeverBegins(i)
    <3>1. row' \in [Rows -> RowStates] /\ print' \in [Rows -> {"no", "sent", "running", "ended"}]
      BY <2>2 DEF NeverBegins
    <3>2. EndHold(i) \/ LeaveHold(i) \/ UNCHANGED <<hold, lost>>
      BY <2>2 DEF NeverBegins, GaveUp
    <3>3. hold' \in [Rows -> 0..MaxCost] /\ lost' \subseteq Rows
      BY <3>2, HoldTypes
    <3> QED BY <2>2, <3>1, <3>3 DEF NeverBegins
  <2>3. CASE MissEnd(i)
    BY <2>3 DEF MissEnd, LeaveHold
  <2>4. CASE Charge(i)
    <3>1. Chargeable(cost[i]) \subseteq 0..MaxCost
      BY DEF Chargeable
    <3>2. bill' \in [Rows -> 0..MaxCost] /\ uncovered' \subseteq Rows
      BY <2>4, <3>1 DEF Charge
    <3>3. EndHold(i) \/ LeaveHold(i)
      BY <2>4 DEF Charge
    <3>4. hold' \in [Rows -> 0..MaxCost] /\ lost' \subseteq Rows
      BY <3>3, HoldTypes
    <3> QED BY <2>4, <3>2, <3>4 DEF Charge
  <2> QED BY <1>4, <2>1, <2>2, <2>3, <2>4 DEF PrintGoesOn
<1>5. ASSUME Restart PROVE TypeOK'
  BY <1>5 DEF Restart, Nothing
<1>6. ASSUME UNCHANGED vars PROVE TypeOK'
  BY <1>6 DEF vars
<1> QED BY <1>1, <1>2, <1>3, <1>4, <1>5, <1>6 DEF Next

LEMMA SeenStep ==
    ASSUME TypeOK, SeenInv, [Next]_vars
    PROVE  SeenInv'
<1> USE BudgetAssumption DEF TypeOK, SeenInv
<1>1. ASSUME NEW i \in Rows, Request(i) PROVE SeenInv'
  BY <1>1 DEF Request, Ask, Insert, Decline, Withdraw, TakeBack, Stop, Goto
<1>2. ASSUME NEW i \in Rows, Claim(i) PROVE SeenInv'
  BY <1>2 DEF Claim, Goto
<1>3. ASSUME NEW i \in Rows, Proceed(i) PROVE SeenInv'
  <2>1. CASE ReadSpend(i)
    BY <2>1 DEF ReadSpend, Goto
  <2>2. CASE ReadQueue(i)
    BY <2>2 DEF ReadQueue, Goto
  <2>3. CASE Weigh(i) \/ Authorize(i) \/ \E k \in Costs : Reestimate(i, k)
    BY <2>3 DEF Weigh, Authorize, Reestimate, SetHold, Goto
  <2>4. CASE Reject(i) \/ GiveUp(i) \/ Mark(i) \/ Send(i) \/ Refused(i) \/ Close(i)
    BY <2>4 DEF Reject, GiveUp, Mark, Send, AfterSend, Refused, Close, Goto
  <2> QED BY <1>3, <2>1, <2>2, <2>3, <2>4 DEF Proceed
<1>4. ASSUME NEW i \in Rows, PrintGoesOn(i) PROVE SeenInv'
  BY <1>4 DEF PrintGoesOn, Begin, NeverBegins, EndPrint, MissEnd, Charge, CloseStranded
<1>5. ASSUME Restart PROVE SeenInv'
  BY <1>5 DEF Restart
<1>6. ASSUME UNCHANGED vars PROVE SeenInv'
  BY <1>6 DEF vars
<1> QED BY <1>1, <1>2, <1>3, <1>4, <1>5, <1>6 DEF Next

\* Every variable keeps its type in every behaviour: no hold and no charge is
\* larger than an estimate can be.
THEOREM TypeCorrect == Spec => []TypeOK
<1>1. TypeOK /\ SeenInv /\ [Next]_vars => TypeOK' /\ SeenInv'
  BY TypeStep, SeenStep
<1> QED BY <1>1, TypeInit, PTL DEF Spec

-----------------------------------------------------------------------------
(* How far a row, its task and its print can be from one another.          *)

StageInv ==
    \A i \in Rows :
        /\ row[i] = "none" => task[i] = "none"
        /\ row[i] = "asked" => task[i] \in {"claimed", "spent", "summed", "weighed"}
        /\ row[i] \in {"none", "asked"} =>
               print[i] = "no" /\ hold[i] = 0 /\ bill[i] = 0 /\ told[i] = "no"
        /\ row[i] # "none" => cost[i] \in Costs
        /\ row[i] = "pending" => task[i] # "marked" /\ print[i] = "no" /\ bill[i] = 0
        /\ row[i] = "printing" => task[i] \in {"none", "marked"}
        /\ task[i] \in {"claimed", "spent", "summed", "weighed"} =>
               row[i] \in {"asked", "pending", "cancelled", "deleted"}
        /\ task[i] = "held" => row[i] \in {"pending", "cancelled", "deleted"}
        /\ task[i] # "none" => print[i] = "no" /\ bill[i] = 0
        /\ print[i] # "no" => bill[i] = 0
        /\ bill[i] > 0 => hold[i] = 0

LEMMA StageInit == Init => StageInv
BY DEF Init, StageInv, Nothing

LEMMA StageStep ==
    ASSUME TypeOK, StageInv, [Next]_vars
    PROVE  StageInv'
<1> USE BudgetAssumption DEF TypeOK, StageInv, Ends, Costs
<1>1. ASSUME NEW i \in Rows, Request(i) PROVE StageInv'
  <2>1. ASSUME NEW k \in Costs, Ask(i, k) PROVE StageInv'
    BY <2>1 DEF Ask, Goto
  <2>2. CASE Insert(i)
    BY <2>2 DEF Insert, Goto
  <2>3. CASE Decline(i)
    BY <2>3 DEF Decline, Goto
  <2>4. CASE Withdraw(i)
    BY <2>4 DEF Withdraw
  <2>5. CASE TakeBack(i)
    BY <2>5 DEF TakeBack, EndHold, ReleaseHold
  <2>6. CASE Stop(i)
    BY <2>6 DEF Stop, LeaveHold
  <2> QED BY <1>1, <2>1, <2>2, <2>3, <2>4, <2>5, <2>6 DEF Request
<1>2. ASSUME NEW i \in Rows, Claim(i) PROVE StageInv'
  BY <1>2 DEF Claim, Goto
<1>3. ASSUME NEW i \in Rows, Proceed(i) PROVE StageInv'
  <2>1. CASE ReadSpend(i) \/ ReadQueue(i) \/ Weigh(i)
    BY <2>1 DEF ReadSpend, ReadQueue, Weigh, Goto
  <2>2. CASE Mark(i)
    BY <2>2 DEF Mark, Goto
  <2>3. CASE Send(i)
    BY <2>3 DEF Send, AfterSend, Goto
  <2>4. CASE Authorize(i)
    BY <2>4 DEF Authorize, SetHold, Goto
  <2>5. ASSUME NEW k \in Costs, Reestimate(i, k) PROVE StageInv'
    BY <2>5 DEF Reestimate, SetHold, Goto
  <2>6. CASE Reject(i)
    BY <2>6 DEF Reject, Blind, Goto
  <2>7. CASE GiveUp(i)
    BY <2>7 DEF GiveUp, Blind, Goto
  <2>8. CASE Refused(i)
    BY <2>8 DEF Refused, Blind, Goto
  <2>9. CASE Close(i)
    BY <2>9 DEF Close, EndHold, LeaveHold, ReleaseHold, Goto
  <2> QED BY <1>3, <2>1, <2>2, <2>3, <2>4, <2>5, <2>6, <2>7, <2>8, <2>9 DEF Proceed
<1>4. ASSUME NEW i \in Rows, PrintGoesOn(i) PROVE StageInv'
  <2>1. CASE Begin(i)
    BY <2>1 DEF Begin
  <2>2. CASE NeverBegins(i)
    BY <2>2 DEF NeverBegins, GaveUp, EndHold, LeaveHold, ReleaseHold
  <2>3. CASE EndPrint(i)
    BY <2>3 DEF EndPrint
  <2>4. CASE MissEnd(i)
    BY <2>4 DEF MissEnd, LeaveHold
  <2>5. CASE Charge(i)
    BY <2>5 DEF Charge, Chargeable, EndHold, LeaveHold, ReleaseHold
  <2>6. CASE CloseStranded(i)
    BY <2>6 DEF CloseStranded
  <2> QED BY <1>4, <2>1, <2>2, <2>3, <2>4, <2>5, <2>6 DEF PrintGoesOn
<1>5. ASSUME Restart PROVE StageInv'
  BY <1>5 DEF Restart
<1>6. ASSUME UNCHANGED vars PROVE StageInv'
  BY <1>6 DEF vars
<1> QED BY <1>1, <1>2, <1>3, <1>4, <1>5, <1>6 DEF Next

-----------------------------------------------------------------------------
(* No hold is forgotten.                                                   *)

LEMMA OwnedInit == Init => HoldsAreOwned
BY DEF Init, HoldsAreOwned, Nothing

LEMMA OwnedStep ==
    ASSUME TypeOK, StageInv, HoldsAreOwned, [Next]_vars
    PROVE  HoldsAreOwned'
<1> USE DEF TypeOK, HoldsAreOwned
<1>1. ASSUME NEW i \in Rows, Request(i) PROVE HoldsAreOwned'
  <2>1. CASE (\E k \in Costs : Ask(i, k)) \/ Insert(i) \/ Decline(i)
    BY <2>1 DEF Ask, Insert, Decline, Goto, StageInv
  <2>2. CASE Withdraw(i)
    BY <2>2 DEF Withdraw
  <2>3. CASE TakeBack(i)
    BY <2>3 DEF TakeBack, EndHold, ReleaseHold
  <2>4. CASE Stop(i)
    <3>1. hold[i] > 0 => task[i] # "none" \/ print[i] # "no" \/ i \in lost
      BY <2>4 DEF Stop
    <3> QED BY <2>4, <3>1 DEF Stop, LeaveHold
  <2> QED BY <1>1, <2>1, <2>2, <2>3, <2>4 DEF Request
<1>2. ASSUME NEW i \in Rows, Claim(i) PROVE HoldsAreOwned'
  BY <1>2 DEF Claim, Goto
<1>3. ASSUME NEW i \in Rows, Proceed(i) PROVE HoldsAreOwned'
  <2>1. CASE ReadSpend(i) \/ ReadQueue(i) \/ Weigh(i) \/ Mark(i) \/ Send(i)
    BY <2>1 DEF ReadSpend, ReadQueue, Weigh, Mark, Send, Goto
  <2>2. CASE Authorize(i)
    BY <2>2 DEF Authorize, SetHold, Goto
  <2>3. ASSUME NEW k \in Costs, Reestimate(i, k) PROVE HoldsAreOwned'
    BY <2>3 DEF Reestimate, SetHold, Goto
  <2>4. CASE Reject(i) \/ GiveUp(i) \/ Refused(i)
    BY <2>4 DEF Reject, GiveUp, Refused, Blind, Goto
  <2>5. CASE Close(i)
    BY <2>5 DEF Close, EndHold, LeaveHold, ReleaseHold, Goto
  <2> QED BY <1>3, <2>1, <2>2, <2>3, <2>4, <2>5 DEF Proceed
<1>4. ASSUME NEW i \in Rows, PrintGoesOn(i) PROVE HoldsAreOwned'
  <2>1. CASE Begin(i) \/ EndPrint(i) \/ CloseStranded(i)
    BY <2>1 DEF Begin, EndPrint, CloseStranded
  <2>2. CASE NeverBegins(i)
    BY <2>2 DEF NeverBegins, GaveUp, EndHold, LeaveHold, ReleaseHold
  <2>3. CASE MissEnd(i)
    BY <2>3 DEF MissEnd, LeaveHold
  <2>4. CASE Charge(i)
    BY <2>4 DEF Charge, EndHold, LeaveHold, ReleaseHold
  <2> QED BY <1>4, <2>1, <2>2, <2>3, <2>4 DEF PrintGoesOn
<1>5. ASSUME Restart PROVE HoldsAreOwned'
  BY <1>5 DEF Restart, StageInv
<1>6. ASSUME UNCHANGED vars PROVE HoldsAreOwned'
  BY <1>6 DEF vars
<1> QED BY <1>1, <1>2, <1>3, <1>4, <1>5, <1>6 DEF Next

\* A hold that is active has a row that waits, a task or a print behind it, or
\* is one of those the model names as left behind: no other path forgets one.
THEOREM HoldsOwned == Spec => []HoldsAreOwned
<1>1. TypeOK /\ SeenInv /\ StageInv /\ HoldsAreOwned /\ [Next]_vars
          => TypeOK' /\ SeenInv' /\ StageInv' /\ HoldsAreOwned'
  BY TypeStep, SeenStep, StageStep, OwnedStep
<1> QED BY <1>1, TypeInit, StageInit, OwnedInit, PTL DEF Spec

-----------------------------------------------------------------------------
(* A print is under way only with its hold.                                *)

\* Why it is: the hold of a waiting row that has been authorized is there and is
\* worth the estimate, unless it was taken from its dispatch, and then the row is
\* one of the uncovered until it is dispatched afresh.
HeldInv ==
    \A i \in Rows :
        /\ hold[i] > 0 => hold[i] = cost[i]
        /\ Sending(i) => hold[i] > 0 \/ i \in uncovered
        /\ task[i] = "held" /\ row[i] = "pending" => hold[i] > 0 \/ i \in uncovered

LEMMA HeldInit == Init => HeldInv
BY DEF Init, HeldInv, Sending, Nothing

LEMMA HeldStep ==
    ASSUME TypeOK, StageInv, HeldInv, [Next]_vars
    PROVE  HeldInv'
<1> USE BudgetAssumption DEF TypeOK, StageInv, HeldInv, Sending, Costs
<1>1. ASSUME NEW i \in Rows, Request(i) PROVE HeldInv'
  <2>1. ASSUME NEW k \in Costs, Ask(i, k) PROVE HeldInv'
    BY <2>1 DEF Ask, Goto
  <2>2. CASE Insert(i)
    BY <2>2 DEF Insert, Goto
  <2>3. CASE Decline(i)
    BY <2>3 DEF Decline, Goto
  <2>4. CASE Withdraw(i)
    BY <2>4 DEF Withdraw
  <2>5. CASE TakeBack(i)
    BY <2>5 DEF TakeBack, EndHold, ReleaseHold
  <2>6. CASE Stop(i)
    BY <2>6 DEF Stop, LeaveHold
  <2> QED BY <1>1, <2>1, <2>2, <2>3, <2>4, <2>5, <2>6 DEF Request
<1>2. ASSUME NEW i \in Rows, Claim(i) PROVE HeldInv'
  BY <1>2 DEF Claim, Goto
<1>3. ASSUME NEW i \in Rows, Proceed(i) PROVE HeldInv'
  <2>1. CASE ReadSpend(i) \/ ReadQueue(i) \/ Weigh(i)
    BY <2>1 DEF ReadSpend, ReadQueue, Weigh, Goto
  <2>2. CASE Mark(i)
    BY <2>2 DEF Mark, Goto
  <2>3. CASE Send(i)
    BY <2>3 DEF Send, AfterSend, Goto
  <2>4. CASE Authorize(i)
    BY <2>4 DEF Authorize, SetHold, Goto
  <2>5. ASSUME NEW k \in Costs, Reestimate(i, k) PROVE HeldInv'
    BY <2>5 DEF Reestimate, SetHold, Goto
  <2>6. CASE Reject(i) \/ GiveUp(i) \/ Refused(i)
    BY <2>6 DEF Reject, GiveUp, Refused, Blind, Goto
  <2>7. CASE Close(i)
    BY <2>7 DEF Close, EndHold, LeaveHold, ReleaseHold, Goto
  <2> QED BY <1>3, <2>1, <2>2, <2>3, <2>4, <2>5, <2>6, <2>7 DEF Proceed
<1>4. ASSUME NEW i \in Rows, PrintGoesOn(i) PROVE HeldInv'
  <2>1. CASE Begin(i) \/ EndPrint(i) \/ CloseStranded(i)
    BY <2>1 DEF Begin, EndPrint, CloseStranded, Ends
  <2>2. CASE NeverBegins(i)
    BY <2>2 DEF NeverBegins, GaveUp, EndHold, LeaveHold, ReleaseHold
  <2>3. CASE MissEnd(i)
    BY <2>3 DEF MissEnd, LeaveHold
  <2>4. CASE Charge(i)
    BY <2>4 DEF Charge, EndHold, LeaveHold, ReleaseHold
  <2> QED BY <1>4, <2>1, <2>2, <2>3, <2>4 DEF PrintGoesOn
<1>5. ASSUME Restart PROVE HeldInv'
  BY <1>5 DEF Restart
<1>6. ASSUME UNCHANGED vars PROVE HeldInv'
  BY <1>6 DEF vars
<1> QED BY <1>1, <1>2, <1>3, <1>4, <1>5, <1>6 DEF Next

LEMMA HeldIsSafe == HeldInv => PrintsAreHeld
BY DEF HeldInv, PrintsAreHeld

\* From before its command goes out until it is charged, a print has a hold of
\* its estimate, whatever fails, unless a cancel or delete took it from the dispatch.
THEOREM PrintsHeld == Spec => []PrintsAreHeld
<1>1. TypeOK /\ SeenInv /\ StageInv /\ HeldInv /\ [Next]_vars
          => TypeOK' /\ SeenInv' /\ StageInv' /\ HeldInv'
  BY TypeStep, SeenStep, StageStep, HeldStep
<1> QED BY <1>1, TypeInit, StageInit, HeldInit, HeldIsSafe, PTL DEF Spec

-----------------------------------------------------------------------------
(* Adding up.                                                              *)

LEMMA UnitsFinite ==
    ASSUME NEW f
    PROVE  IsFiniteSet(Units(f)) /\ Total(f) \in Nat
<1>1. IsFiniteSet(1..3 * MaxCost)
  BY FS_Interval, BudgetAssumption
<1>2. IsFiniteSet(Rows \X (1..3 * MaxCost))
  BY <1>1, FS_Product, BudgetAssumption
<1>3. Units(f) \in SUBSET (Rows \X (1..3 * MaxCost))
  BY DEF Units
<1>4. IsFiniteSet(Units(f))
  BY <1>2, <1>3, FS_Subset
<1> QED BY <1>4, FS_CardinalityType DEF Total

\* A sum grows with its terms.
LEMMA TotalMonotone ==
    ASSUME NEW f, NEW g,
           \A i \in Rows : f[i] \in Nat /\ g[i] \in Nat /\ f[i] <= g[i]
    PROVE  Total(f) <= Total(g)
<1>1. Units(f) \subseteq Units(g)
  <2> SUFFICES ASSUME NEW i \in Rows, NEW n \in 1..3 * MaxCost, n <= f[i]
               PROVE  n <= g[i]
    BY DEF Units
  <2> QED BY BudgetAssumption
<1> QED BY <1>1, UnitsFinite, FS_Subset DEF Total

\* ... and by no more than one of them does.
LEMMA TotalPlus ==
    ASSUME NEW f, NEW g, NEW i \in Rows, NEW k \in Nat, f[i] \in Nat, f[i] <= k,
           \A j \in Rows \ {i} : f[j] \in Nat /\ g[j] \in Nat /\ f[j] <= g[j]
    PROVE  Total(f) <= Total(g) + k
<1> DEFINE T == {i} \X (1..k)
<1>1. IsFiniteSet(T) /\ Cardinality(T) = k
  <2>1. IsFiniteSet(1..k) /\ Cardinality(1..k) = k
    BY FS_Interval
  <2>2. IsFiniteSet({i}) /\ Cardinality({i}) = 1
    BY FS_Singleton
  <2>3. IsFiniteSet(T) /\ Cardinality(T) = Cardinality({i}) * Cardinality(1..k)
    BY <2>1, <2>2, FS_Product
  <2> QED BY <2>1, <2>2, <2>3
<1>2. Units(f) \subseteq Units(g) \union T
  <2> SUFFICES ASSUME NEW j \in Rows, NEW n \in 1..3 * MaxCost, n <= f[j]
               PROVE  n <= g[j] \/ <<j, n>> \in T
    BY DEF Units
  <2>1. CASE j = i
    BY <2>1, BudgetAssumption
  <2>2. CASE j # i
    BY <2>2, BudgetAssumption
  <2> QED BY <2>1, <2>2
<1>3. IsFiniteSet(Units(g) \union T)
      /\ Cardinality(Units(g) \union T) = Total(g) + k - Cardinality(Units(g) \intersect T)
  BY <1>1, UnitsFinite, FS_Union DEF Total
<1>4. IsFiniteSet(Units(g) \intersect T)
  BY <1>1, FS_Subset
<1>5. Cardinality(Units(g) \intersect T) \in Nat
  BY <1>4, FS_CardinalityType
<1>6. Total(f) <= Cardinality(Units(g) \union T)
  BY <1>2, <1>3, FS_Subset DEF Total
<1> QED BY <1>3, <1>5, <1>6, UnitsFinite

-----------------------------------------------------------------------------
(* The budget is kept.                                                     *)

\* A row is promised what it costs from the moment its check has counted the
\* others, hold or no hold, as long as it can still be printed. Until it is
\* decided the check may still refuse it.
Undecided(z) == z \notin uncovered /\ row[z] = "pending" /\ task[z] = "summed"
Promised(j) ==
    /\ j \notin uncovered
    /\ Sending(j) \/ (row[j] = "pending" /\ task[j] \in {"summed", "weighed", "held"})

\* What there is to pay if the rows of T are printed.
Billed(j)  == IF j \in uncovered THEN 0 ELSE bill[j]
Payable(T) == [j \in Rows |-> Billed(j) + IF j \in T THEN cost[j] ELSE 0]

\* The check of row z has counted j, or will by its hold.
Sees(z, j) == seen[z][j] + hold[j] >= Billed(j) + cost[j]

\* Why it is: whichever rows are promised something, it fits, or one of those
\* undecided has seen all the others and will be refused. Of two checks that go on
\* at a time, the one that counts the rows later sees the other.
BudgetInv ==
    \A T \in SUBSET {j \in Rows : Promised(j)} :
        \/ Total(Payable(T)) <= Limit
        \/ \E z \in T : Undecided(z) /\ \A j \in T \ {z} : Sees(z, j)

\* A check has read every charge there is, but those that are left aside.
ReadInv == \A z \in Weighing : \A j \in Rows \ {z} : seen[z][j] >= Billed(j)

LEMMA ReadInit == Init => ReadInv
BY DEF Init, ReadInv, Weighing

LEMMA BudgetInit == Init => BudgetInv
<1> SUFFICES ASSUME Init, NEW T \in SUBSET {j \in Rows : Promised(j)}
             PROVE  Total(Payable(T)) <= Limit
  BY DEF BudgetInv
<1>1. Units(Payable(T)) = {}
  <2> SUFFICES ASSUME NEW i \in Rows, NEW n \in 1..3 * MaxCost, n <= Payable(T)[i]
               PROVE  FALSE
    BY DEF Units
  <2>1. Payable(T)[i] = 0
    BY DEF Init, Payable, Billed, Nothing
  <2> QED BY <2>1, BudgetAssumption
<1> QED BY <1>1, FS_EmptySet, BudgetAssumption DEF Total

LEMMA BudgetIsSafe == TypeOK /\ StageInv /\ HeldInv /\ BudgetInv => NeverOverspent
<1> SUFFICES ASSUME TypeOK, StageInv, HeldInv, BudgetInv PROVE NeverOverspent
  OBVIOUS
<1> DEFINE T == {j \in Rows : j \notin uncovered /\ Sending(j)}
<1>1. T \in SUBSET {j \in Rows : Promised(j)}
  BY DEF Promised
<1>2. \A z \in T : ~Undecided(z)
  BY DEF Undecided, Sending, StageInv
<1>3. Total(Payable(T)) <= Limit
  BY <1>1, <1>2 DEF BudgetInv
<1>4. \A i \in Rows : /\ Committed[i] \in Nat /\ Payable(T)[i] \in Nat
                      /\ Committed[i] <= Payable(T)[i]
  BY BudgetAssumption DEF TypeOK, HeldInv, Committed, Payable, Billed
<1>5. Total(Committed) <= Total(Payable(T))
  BY <1>4, TotalMonotone
<1> QED BY <1>3, <1>5, UnitsFinite, BudgetAssumption DEF NeverOverspent

-----------------------------------------------------------------------------
(* The steps that promise nothing.                                         *)

\* No row is promised anything anew, nothing more is charged, no check has seen
\* less, and none that is undecided is decided in favour.
Lessens ==
    /\ \A j \in Rows : Billed(j)' <= Billed(j)
    /\ \A j \in Rows : Promised(j)' =>
           Promised(j) /\ cost'[j] = cost[j] /\ hold[j] <= hold'[j]
    /\ \A j \in Rows : Promised(j)' /\ Undecided(j) => Undecided(j)' /\ seen'[j] = seen[j]

LEMMA LessIsSafe ==
    ASSUME TypeOK, TypeOK', BudgetInv, Lessens
    PROVE  BudgetInv'
<1> SUFFICES ASSUME NEW T \in SUBSET {j \in Rows : Promised(j)'}
             PROVE  \/ Total(Payable(T)') <= Limit
                    \/ \E z \in T : Undecided(z)' /\ \A j \in T \ {z} : Sees(z, j)'
  BY DEF BudgetInv, Total, Units
<1>1. T \in SUBSET {j \in Rows : Promised(j)}
  BY DEF Lessens
<1>2. CASE Total(Payable(T)) <= Limit
  <2>1. \A j \in Rows : /\ Payable(T)'[j] \in Nat /\ Payable(T)[j] \in Nat
                        /\ Payable(T)'[j] <= Payable(T)[j]
    BY BudgetAssumption DEF TypeOK, Payable, Billed, Lessens
  <2>2. Total(Payable(T)') <= Total(Payable(T))
    BY <2>1, TotalMonotone
  <2> QED BY <1>2, <2>2, UnitsFinite, BudgetAssumption
<1>3. ASSUME NEW z \in T, Undecided(z), \A j \in T \ {z} : Sees(z, j)
      PROVE  Undecided(z)' /\ \A j \in T \ {z} : Sees(z, j)'
  <2>1. Undecided(z)' /\ seen'[z] = seen[z]
    BY <1>3 DEF Lessens
  <2>2. ASSUME NEW j \in T \ {z} PROVE Sees(z, j)'
    <3>1. j \in Rows /\ z \in Rows /\ Sees(z, j)
      BY <1>3
    <3>2. Billed(j)' <= Billed(j) /\ cost'[j] = cost[j] /\ hold[j] <= hold'[j]
      BY <3>1 DEF Lessens
    <3>3. Billed(j) \in Nat /\ Billed(j)' \in Nat
      BY <3>1, BudgetAssumption DEF TypeOK, Billed
    <3>4. cost[j] \in Nat /\ hold[j] \in Nat /\ hold'[j] \in Nat /\ seen[z][j] \in Nat
      BY <3>1, BudgetAssumption DEF TypeOK
    <3>5. seen'[z][j] = seen[z][j]
      BY <2>1
    <3> QED BY <3>1, <3>2, <3>3, <3>4, <3>5 DEF Sees
  <2> QED BY <2>1, <2>2
<1> QED BY <1>1, <1>2, <1>3 DEF BudgetInv

-----------------------------------------------------------------------------
(* The steps that do.                                                      *)

\* A row that is promised something counts, by its hold or without, for what it
\* costs.
LEMMA QueueCovers ==
    ASSUME TypeOK, StageInv, HeldInv, NEW j \in Rows, Promised(j)
    PROVE  Unheld(j) + hold[j] >= cost[j]
BY BudgetAssumption DEF TypeOK, StageInv, HeldInv, Promised, Sending, Unheld, Open, Costs

\* The check that reads the rows without a hold sees all that are promised
\* anything: whoever comes later sees it.
LEMMA ReadQueueKeeps ==
    ASSUME TypeOK, StageInv, HeldInv, ReadInv, BudgetInv, NEW i \in Rows, ReadQueue(i)
    PROVE  BudgetInv'
<1> USE DEF ReadQueue, Goto
<1> SUFFICES ASSUME NEW T \in SUBSET {j \in Rows : Promised(j)'}
             PROVE  \/ Total(Payable(T)') <= Limit
                    \/ \E z \in T : Undecided(z)' /\ \A j \in T \ {z} : Sees(z, j)'
  BY DEF BudgetInv, Total, Units
<1>1. \A j \in Rows \ {i} : /\ Promised(j)' => Promised(j)
                            /\ Undecided(j) => Undecided(j)'
                            /\ seen'[j] = seen[j]
  BY DEF TypeOK, Promised, Undecided, Sending
<1>2. Payable(T)' = Payable(T)
  BY DEF Payable, Billed
<1>3. CASE i \in T
  <2>1. Undecided(i)' /\ i \in Weighing
    BY <1>3 DEF TypeOK, StageInv, Promised, Undecided, Sending, Weighing
  <2>2. ASSUME NEW j \in T \ {i} PROVE Sees(i, j)'
    <3>1. Promised(j) /\ j \in Rows
      BY <1>1
    <3>2. seen[i][j] >= Billed(j)
      BY <2>1, <3>1 DEF ReadInv
    <3>3. Unheld(j) + hold[j] >= cost[j]
      BY <3>1, QueueCovers
    <3>4. seen'[i][j] = seen[i][j] + Unheld(j)
      BY <2>2, <3>1 DEF TypeOK
    <3>5. seen[i][j] \in Nat /\ Unheld(j) \in Nat /\ hold[j] \in Nat /\ cost[j] \in Nat
          /\ Billed(j) \in Nat
      BY <3>1, BudgetAssumption DEF TypeOK, Unheld, Billed
    <3>6. Billed(j)' = Billed(j) /\ hold'[j] = hold[j] /\ cost'[j] = cost[j]
      BY DEF Billed
    <3> QED BY <3>2, <3>3, <3>4, <3>5, <3>6 DEF Sees
  <2> QED BY <1>3, <2>1, <2>2
<1>4. CASE i \notin T
  <2>1. T \in SUBSET {j \in Rows : Promised(j)}
    BY <1>1, <1>4
  <2>2. ASSUME NEW z \in T, Undecided(z), \A j \in T \ {z} : Sees(z, j)
        PROVE  Undecided(z)' /\ \A j \in T \ {z} : Sees(z, j)'
    BY <1>1, <1>4, <2>2 DEF Sees, Billed
  <2> QED BY <1>2, <2>1, <2>2 DEF BudgetInv
<1> QED BY <1>3, <1>4

\* A check that decides in favour has counted what it saw, and that fits.
LEMMA WeighKeeps ==
    ASSUME TypeOK, StageInv, ReadInv, BudgetInv, NEW i \in Rows, Weigh(i)
    PROVE  BudgetInv'
<1> USE DEF Weigh, Goto
<1> SUFFICES ASSUME NEW T \in SUBSET {j \in Rows : Promised(j)'}
             PROVE  \/ Total(Payable(T)') <= Limit
                    \/ \E z \in T : Undecided(z)' /\ \A j \in T \ {z} : Sees(z, j)'
  BY DEF BudgetInv, Total, Units
<1>1. Payable(T)' = Payable(T)
  BY DEF Payable, Billed
<1>2. T \in SUBSET {j \in Rows : Promised(j)}
  BY DEF TypeOK, StageInv, Promised, Sending
<1>3. ASSUME NEW z \in T \ {i}, Undecided(z), \A j \in T \ {z} : Sees(z, j)
      PROVE  Undecided(z)' /\ \A j \in T \ {z} : Sees(z, j)'
  BY <1>3 DEF TypeOK, Undecided, Sees, Billed
<1>4. ASSUME i \in T, Undecided(i), \A j \in T \ {i} : Sees(i, j)
      PROVE  Total(Payable(T)) <= Limit
  <2>1. i \in Weighing
    BY <1>4 DEF Undecided, Weighing
  <2>2. ASSUME NEW j \in Rows \ {i}
        PROVE  Payable(T)[j] \in Nat /\ Seen(i)[j] \in Nat /\ Payable(T)[j] <= Seen(i)[j]
    <3>1. seen[i][j] >= Billed(j)
      BY <2>1 DEF ReadInv
    <3>2. seen[i][j] \in Nat /\ hold[j] \in Nat /\ cost[j] \in Nat /\ Billed(j) \in Nat
      BY BudgetAssumption DEF TypeOK, Billed
    <3>3. Payable(T)[j] = Billed(j) + IF j \in T THEN cost[j] ELSE 0
      BY DEF Payable
    <3>4. Seen(i)[j] = seen[i][j] + hold[j]
      BY DEF Seen
    <3>5. CASE j \in T
      BY <1>4, <3>2, <3>3, <3>4, <3>5 DEF Sees
    <3>6. CASE j \notin T
      BY <3>1, <3>2, <3>3, <3>4, <3>6
    <3> QED BY <3>5, <3>6
  <2>3. Payable(T)[i] \in Nat /\ Payable(T)[i] <= cost[i] /\ cost[i] \in Nat
    BY <1>4, BudgetAssumption DEF TypeOK, StageInv, Payable, Billed, Undecided
  <2>4. Total(Payable(T)) <= Total(Seen(i)) + cost[i]
    BY <2>2, <2>3, TotalPlus
  <2> QED BY <2>3, <2>4, UnitsFinite, BudgetAssumption
<1> QED BY <1>1, <1>2, <1>3, <1>4 DEF BudgetInv

\* A new estimate is weighed in one transaction: it sees everything.
LEMMA ReestimateKeeps ==
    ASSUME TypeOK, StageInv, HeldInv, BudgetInv, NEW i \in Rows, NEW k \in Costs, Reestimate(i, k)
    PROVE  BudgetInv'
<1> USE DEF Reestimate, SetHold, Goto
<1> SUFFICES ASSUME NEW T \in SUBSET {j \in Rows : Promised(j)'}
             PROVE  \/ Total(Payable(T)') <= Limit
                    \/ \E z \in T : Undecided(z)' /\ \A j \in T \ {z} : Sees(z, j)'
  BY DEF BudgetInv, Total, Units
<1>1. \A j \in Rows \ {i} : /\ Promised(j)' => Promised(j)
                            /\ Undecided(j) => Undecided(j)'
                            /\ hold'[j] = hold[j] /\ cost'[j] = cost[j]
  BY DEF TypeOK, Promised, Undecided, Sending
<1>2. \A j \in Rows : Billed(j)' = Billed(j) /\ Billed(j) \in Nat /\ Billed(j) <= bill[j]
  BY BudgetAssumption DEF TypeOK, Billed
<1>3. CASE i \in T
  <2>1. ASSUME NEW j \in Rows \ {i}
        PROVE  /\ Payable(T)'[j] \in Nat /\ Counted(i)[j] \in Nat
               /\ Payable(T)'[j] <= Counted(i)[j]
    <3>1. Payable(T)'[j] = Billed(j) + IF j \in T THEN cost[j] ELSE 0
      BY <1>1, <1>2 DEF Payable
    <3>2. Counted(i)[j] = bill[j] + Unheld(j) + hold[j]
      BY DEF Counted
    <3>3. /\ bill[j] \in Nat /\ Unheld(j) \in Nat /\ hold[j] \in Nat /\ cost[j] \in Nat
          /\ Billed(j) \in Nat /\ Billed(j) <= bill[j]
      BY <1>2, BudgetAssumption DEF TypeOK, Unheld
    <3>4. CASE j \in T
      <4>1. Unheld(j) + hold[j] >= cost[j]
        BY <1>1, <3>4, QueueCovers
      <4> QED BY <3>1, <3>2, <3>3, <3>4, <4>1
    <3>5. CASE j \notin T
      BY <3>1, <3>2, <3>3, <3>5
    <3> QED BY <3>4, <3>5
  <2>2. Payable(T)'[i] \in Nat /\ Payable(T)'[i] <= k /\ k \in Nat
    BY <1>3, BudgetAssumption DEF TypeOK, StageInv, Payable, Billed, Costs
  <2>3. Total(Payable(T)') <= Total(Counted(i)) + k
    BY <2>1, <2>2, TotalPlus
  <2> QED BY <2>2, <2>3, UnitsFinite, BudgetAssumption DEF Fits
<1>4. CASE i \notin T
  <2>1. T \in SUBSET {j \in Rows : Promised(j)}
    BY <1>1, <1>4
  <2>2. Payable(T)' = Payable(T)
    BY <1>1, <1>2, <1>4 DEF Payable
  <2>3. ASSUME NEW z \in T, Undecided(z), \A j \in T \ {z} : Sees(z, j)
        PROVE  Undecided(z)' /\ \A j \in T \ {z} : Sees(z, j)'
    BY <1>1, <1>2, <1>4, <2>3 DEF Sees
  <2> QED BY <2>1, <2>2, <2>3 DEF BudgetInv
<1> QED BY <1>3, <1>4

\* A charge takes the place of what the print was promised, or no check that is
\* under way can have counted it.
LEMMA ChargeKeeps ==
    ASSUME TypeOK, TypeOK', StageInv, BudgetInv, NEW i \in Rows, Charge(i)
    PROVE  BudgetInv'
<1> USE DEF Charge
<1>1. ~Promised(i)'
  BY DEF TypeOK, StageInv, Promised, Sending
<1>2. \A j \in Rows \ {i} : hold'[j] = hold[j] /\ bill'[j] = bill[j]
                          /\ (j \in uncovered' <=> j \in uncovered)
  BY DEF EndHold, ReleaseHold, LeaveHold, TypeOK
<1>3. \A j \in Rows : Promised(j)' =>
          j # i /\ Promised(j) /\ (Undecided(j) => Undecided(j)')
  BY <1>1, <1>2 DEF Promised, Undecided, Sending, TypeOK
<1>4. CASE Billed(i)' <= Billed(i)
  <2>1. \A j \in Rows : Billed(j)' <= Billed(j)
    BY <1>2, <1>4, BudgetAssumption DEF Billed, TypeOK
  <2>2. \A j \in Rows : Promised(j)' => hold[j] <= hold'[j]
    BY <1>2, <1>3, BudgetAssumption DEF TypeOK
  <2>3. Lessens
    BY <2>1, <2>2, <1>3 DEF Lessens
  <2> QED BY <2>3, LessIsSafe
<1>5. CASE ~(Billed(i)' <= Billed(i))
  <2>1. i \notin uncovered /\ Weighing = {} /\ bill'[i] <= cost[i]
    BY <1>5, BudgetAssumption DEF Billed, TypeOK, Chargeable, LeaveHold
  <2>2. \A z \in Rows : ~Undecided(z)
    BY <2>1 DEF Undecided, Weighing
  <2>3. Promised(i)
    BY <2>1 DEF Promised, Sending
  <2> SUFFICES ASSUME NEW T \in SUBSET {j \in Rows : Promised(j)'}
               PROVE  Total(Payable(T)') <= Limit
    BY DEF BudgetInv, Total, Units
  <2> DEFINE U == T \union {i}
  <2>4. U \in SUBSET {j \in Rows : Promised(j)}
    BY <1>3, <2>3
  <2>5. Total(Payable(U)) <= Limit
    BY <2>2, <2>4 DEF BudgetInv
  <2>6. i \notin T
    BY <1>1
  <2>7. ASSUME NEW j \in Rows
        PROVE  /\ Payable(T)'[j] \in Nat /\ Payable(U)[j] \in Nat
               /\ Payable(T)'[j] <= Payable(U)[j]
    BY <1>2, <2>1, <2>6, BudgetAssumption DEF Payable, Billed, TypeOK
  <2>8. Total(Payable(T)') <= Total(Payable(U))
    BY <2>7, TotalMonotone
  <2> QED BY <2>5, <2>8, UnitsFinite, BudgetAssumption
<1> QED BY <1>4, <1>5

-----------------------------------------------------------------------------
(* Every step.                                                             *)

LEMMA ReadStep ==
    ASSUME TypeOK, TypeOK', StageInv, ReadInv, [Next]_vars
    PROVE  ReadInv'
<1> USE BudgetAssumption DEF Weighing
<1>1. ASSUME \A j \in Rows : Billed(j)' <= Billed(j),
             \A z \in Weighing' : z \in Weighing /\ \A j \in Rows : seen'[z][j] >= seen[z][j]
      PROVE  ReadInv'
  <2> SUFFICES ASSUME NEW z \in Weighing', NEW j \in Rows \ {z}
               PROVE  seen'[z][j] >= Billed(j)'
    BY DEF ReadInv
  <2>1. seen[z][j] >= Billed(j) /\ seen'[z][j] >= seen[z][j] /\ Billed(j)' <= Billed(j)
    BY <1>1 DEF ReadInv
  <2>2. seen[z][j] \in Nat /\ seen'[z][j] \in Nat /\ Billed(j) \in Nat /\ Billed(j)' \in Nat
    BY DEF TypeOK, Billed
  <2> QED BY <2>1, <2>2
<1>2. ASSUME bill' = bill, uncovered \subseteq uncovered'
      PROVE  \A j \in Rows : Billed(j)' <= Billed(j)
  BY <1>2 DEF Billed, TypeOK
<1>3. ASSUME NEW i \in Rows, Request(i) PROVE ReadInv'
  <2>1. bill' = bill /\ uncovered \subseteq uncovered'
    BY <1>3 DEF Request, Ask, Insert, Decline, Withdraw, TakeBack, Stop
  <2>2. \A z \in Weighing' : z \in Weighing /\ seen'[z] = seen[z]
    <3>1. CASE (\E k \in Costs : Ask(i, k)) \/ Insert(i) \/ Decline(i)
      BY <3>1 DEF Ask, Insert, Decline, Goto, TypeOK
    <3>2. CASE Withdraw(i)
      BY <3>2 DEF Withdraw
    <3>3. CASE TakeBack(i)
      BY <3>3 DEF TakeBack, TypeOK
    <3>4. CASE Stop(i)
      BY <3>4 DEF Stop, TypeOK
    <3> QED BY <1>3, <3>1, <3>2, <3>3, <3>4 DEF Request
  <2> QED BY <1>1, <1>2, <2>1, <2>2 DEF TypeOK
<1>4. ASSUME NEW i \in Rows, Claim(i) PROVE ReadInv'
  <2>1. \A j \in Rows : Billed(j)' <= Billed(j)
    BY <1>4 DEF Claim, Billed, TypeOK, StageInv
  <2>2. \A z \in Weighing' : z \in Weighing /\ seen'[z] = seen[z]
    BY <1>4 DEF Claim, Goto, TypeOK
  <2> QED BY <1>1, <2>1, <2>2 DEF TypeOK
<1>5. ASSUME NEW i \in Rows, ReadSpend(i) PROVE ReadInv'
  <2> SUFFICES ASSUME NEW z \in Weighing', NEW j \in Rows \ {z}
               PROVE  seen'[z][j] >= Billed(j)'
    BY DEF ReadInv
  <2>1. Billed(j)' = Billed(j) /\ Billed(j) <= bill[j] /\ bill[j] \in Nat
    BY <1>5 DEF ReadSpend, Billed, TypeOK
  <2>2. CASE z = i
    BY <1>5, <2>1, <2>2 DEF ReadSpend, TypeOK
  <2>3. CASE z # i
    <3>1. z \in Weighing /\ seen'[z] = seen[z]
      BY <1>5, <2>3 DEF ReadSpend, Goto, TypeOK
    <3> QED BY <2>1, <3>1 DEF ReadInv
  <2> QED BY <2>2, <2>3
<1>6. ASSUME NEW i \in Rows, ReadQueue(i) PROVE ReadInv'
  <2>1. bill' = bill /\ uncovered' = uncovered
    BY <1>6 DEF ReadQueue
  <2>2. \A z \in Weighing' : z \in Weighing
    BY <1>6 DEF ReadQueue, Goto, TypeOK
  <2> SUFFICES ASSUME NEW z \in Weighing', NEW j \in Rows \ {z}
               PROVE  seen'[z][j] >= Billed(j)'
    BY DEF ReadInv
  <2>3. seen[z][j] >= Billed(j) /\ Billed(j)' = Billed(j)
    BY <2>1, <2>2 DEF ReadInv, Billed
  <2>4. seen[z][j] \in Nat /\ Unheld(j) \in Nat /\ Billed(j) \in Nat
    BY DEF TypeOK, Unheld, Billed
  <2>5. CASE z = i
    <3>1. seen'[z][j] = seen[z][j] + Unheld(j)
      BY <1>6, <2>5 DEF ReadQueue, TypeOK
    <3> QED BY <2>3, <2>4, <3>1
  <2>6. CASE z # i
    <3>1. seen'[z] = seen[z]
      BY <1>6, <2>6 DEF ReadQueue, TypeOK
    <3> QED BY <2>3, <3>1
  <2> QED BY <2>5, <2>6
<1>7. ASSUME NEW i \in Rows, Proceed(i), ~ReadSpend(i), ~ReadQueue(i) PROVE ReadInv'
  <2>1. bill' = bill /\ uncovered' = uncovered
    BY <1>7 DEF Proceed, Weigh, Authorize, Reestimate, Reject, GiveUp, Mark, Send, Refused, Close
  <2>2. \A z \in Weighing' : z \in Weighing /\ seen'[z] = seen[z]
    <3>1. CASE Weigh(i) \/ Authorize(i) \/ \E k \in Costs : Reestimate(i, k)
      BY <3>1 DEF Weigh, Authorize, Reestimate, SetHold, Goto, TypeOK
    <3>2. CASE Reject(i) \/ GiveUp(i) \/ Refused(i)
      BY <3>2 DEF Reject, GiveUp, Refused, Blind, Goto, TypeOK
    <3>3. CASE Mark(i) \/ Send(i) \/ Close(i)
      BY <3>3 DEF Mark, Send, AfterSend, Close, Goto, TypeOK
    <3> QED BY <1>7, <3>1, <3>2, <3>3 DEF Proceed
  <2> QED BY <1>1, <1>2, <2>1, <2>2 DEF TypeOK
<1>8. ASSUME NEW i \in Rows, PrintGoesOn(i), ~Charge(i) PROVE ReadInv'
  <2>1. bill' = bill /\ uncovered' = uncovered
    BY <1>8 DEF PrintGoesOn, Begin, NeverBegins, EndPrint, MissEnd, CloseStranded
  <2>2. \A z \in Weighing' : z \in Weighing /\ seen'[z] = seen[z]
    <3>1. CASE NeverBegins(i)
      BY <3>1 DEF NeverBegins, TypeOK, StageInv
    <3>2. CASE Begin(i) \/ MissEnd(i)
      BY <3>2 DEF Begin, MissEnd
    <3>3. CASE EndPrint(i) \/ CloseStranded(i)
      BY <3>3 DEF EndPrint, CloseStranded, Ends, TypeOK
    <3> QED BY <1>8, <3>1, <3>2, <3>3 DEF PrintGoesOn
  <2> QED BY <1>1, <1>2, <2>1, <2>2 DEF TypeOK
<1>9. ASSUME NEW i \in Rows, Charge(i) PROVE ReadInv'
  <2>1. Weighing' = Weighing /\ seen' = seen
    BY <1>9 DEF Charge
  <2>2. Weighing # {} => \A j \in Rows : Billed(j)' <= Billed(j)
    BY <1>9 DEF Charge, LeaveHold, Billed, TypeOK
  <2>3. CASE Weighing = {}
    BY <2>1, <2>3 DEF ReadInv
  <2>4. CASE Weighing # {}
    BY <1>1, <2>1, <2>2, <2>4 DEF TypeOK
  <2> QED BY <2>3, <2>4
<1>10. ASSUME Restart PROVE ReadInv'
  BY <1>10 DEF Restart, ReadInv
<1>11. ASSUME UNCHANGED vars PROVE ReadInv'
  BY <1>11 DEF vars, ReadInv, Billed
<1> QED BY <1>3, <1>4, <1>5, <1>6, <1>7, <1>8, <1>9, <1>10, <1>11 DEF Next, Proceed, PrintGoesOn

LEMMA BudgetStep ==
    ASSUME TypeOK, TypeOK', StageInv, HeldInv, ReadInv, BudgetInv, [Next]_vars
    PROVE  BudgetInv'
<1> USE BudgetAssumption DEF Lessens, Promised, Undecided, Billed, Sending
<1>1. ASSUME NEW i \in Rows, Request(i) PROVE Lessens
  <2>1. CASE (\E k \in Costs : Ask(i, k)) \/ Insert(i) \/ Decline(i)
    BY <2>1 DEF Ask, Insert, Decline, Goto, TypeOK, StageInv
  <2>2. CASE Withdraw(i)
    BY <2>2 DEF Withdraw, TypeOK
  <2>3. CASE TakeBack(i)
    BY <2>3 DEF TakeBack, EndHold, ReleaseHold, TypeOK
  <2>4. CASE Stop(i)
    BY <2>4 DEF Stop, LeaveHold, TypeOK
  <2> QED BY <1>1, <2>1, <2>2, <2>3, <2>4 DEF Request
<1>2. ASSUME NEW i \in Rows, Claim(i) PROVE Lessens
  BY <1>2 DEF Claim, Goto, TypeOK, StageInv
<1>3. ASSUME NEW i \in Rows, Proceed(i) PROVE Lessens \/ BudgetInv'
  <2>1. CASE ReadSpend(i)
    BY <2>1 DEF ReadSpend, Goto, TypeOK
  <2>2. CASE ReadQueue(i) \/ Weigh(i) \/ \E k \in Costs : Reestimate(i, k)
    BY <2>2, ReadQueueKeeps, WeighKeeps, ReestimateKeeps
  <2>3. CASE Authorize(i)
    BY <2>3 DEF Authorize, SetHold, Goto, TypeOK, HeldInv
  <2>4. CASE Reject(i)
    BY <2>4 DEF Reject, Blind, Goto, TypeOK, StageInv
  <2>5. CASE GiveUp(i)
    BY <2>5 DEF GiveUp, Blind, Goto, TypeOK, StageInv
  <2>6. CASE Mark(i)
    BY <2>6 DEF Mark, Goto, TypeOK
  <2>7. CASE Send(i)
    BY <2>7 DEF Send, AfterSend, Goto, TypeOK
  <2>8. CASE Refused(i)
    BY <2>8 DEF Refused, Blind, Goto, TypeOK, StageInv
  <2>9. CASE Close(i)
    BY <2>9 DEF Close, EndHold, LeaveHold, ReleaseHold, Goto, TypeOK, StageInv
  <2> QED BY <1>3, <2>1, <2>2, <2>3, <2>4, <2>5, <2>6, <2>7, <2>8, <2>9 DEF Proceed
<1>4. ASSUME NEW i \in Rows, PrintGoesOn(i) PROVE Lessens \/ BudgetInv'
  <2>1. CASE Begin(i)
    BY <2>1 DEF Begin, TypeOK
  <2>2. CASE NeverBegins(i)
    BY <2>2 DEF NeverBegins, GaveUp, EndHold, LeaveHold, ReleaseHold, TypeOK, StageInv
  <2>3. CASE EndPrint(i)
    BY <2>3 DEF EndPrint, TypeOK, StageInv, Ends
  <2>4. CASE MissEnd(i)
    BY <2>4 DEF MissEnd, LeaveHold, TypeOK
  <2>5. CASE Charge(i)
    BY <2>5, ChargeKeeps
  <2>6. CASE CloseStranded(i)
    BY <2>6 DEF CloseStranded, TypeOK, Ends
  <2> QED BY <1>4, <2>1, <2>2, <2>3, <2>4, <2>5, <2>6 DEF PrintGoesOn
<1>5. ASSUME Restart PROVE Lessens
  <2>1. UNCHANGED <<hold, bill, uncovered>>
    BY <1>5 DEF Restart
  <2>2. \A j \in Rows : print'[j] # "no" => print[j] # "no"
    BY <1>5 DEF Restart
  <2>3. \A j \in Rows : /\ task'[j] = "none"
                        /\ row'[j] = "pending" => row[j] = "pending"
                        /\ row[j] # "asked" => cost'[j] = cost[j]
    BY <1>5 DEF Restart
  <2>4. \A j \in Rows : Promised(j)' => Promised(j) /\ row[j] # "asked" /\ ~Undecided(j)
    BY <2>1, <2>2, <2>3 DEF StageInv
  <2> QED BY <2>1, <2>3, <2>4 DEF TypeOK
<1>6. ASSUME UNCHANGED vars PROVE Lessens
  BY <1>6 DEF vars, TypeOK
<1>7. Lessens \/ BudgetInv'
  BY <1>1, <1>2, <1>3, <1>4, <1>5, <1>6 DEF Next
<1> QED BY <1>7, LessIsSafe

\* Charges and the holds of the prints under way never add up to more than the
\* budget, however the reads and writes of the checks, the dispatches, the cancels
\* and the charges of any number of rows interleave. Left aside are the rows that no
\* check can have counted, as in the run.
THEOREM BudgetIsKept == Spec => []NeverOverspent
<1>1. TypeOK /\ SeenInv /\ StageInv /\ HeldInv /\ ReadInv /\ BudgetInv /\ [Next]_vars
          => TypeOK' /\ SeenInv' /\ StageInv' /\ HeldInv' /\ ReadInv' /\ BudgetInv'
  BY TypeStep, SeenStep, StageStep, HeldStep, ReadStep, BudgetStep
<1> QED BY <1>1, TypeInit, StageInit, HeldInit, ReadInit, BudgetInit, BudgetIsSafe, PTL DEF Spec
=============================================================================
