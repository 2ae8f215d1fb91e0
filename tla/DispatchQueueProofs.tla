------------------------ MODULE DispatchQueueProofs ------------------------
(***************************************************************************)
(* The dispatch path keeps its types, gives every row to one actor, keeps  *)
(* the retry budget and sends no row that still waits, for any number of   *)
(* rows and printers, under every request and every fault.                 *)
(***************************************************************************)
EXTENDS DispatchQueue, TLAPS

\* What the four invariants say of one row.
RowInv(j) ==
    /\ InFlight(j) => j \notin Selected
    /\ watch[j].phase # "off" => /\ j \notin Selected
                                 /\ task[j].pc \in {"none", "finish"}
                                 /\ row[j].status \notin Waitable
    /\ row[j].attempts = MaxAttempts =>
         /\ row[j].status \in {"failed", "cancelled", "deleted"}
         /\ j \notin Selected
         /\ task[j].pc \in {"none", "finish"}
    /\ task[j].pc \in {"send", "refused"} => row[j].status \notin Waitable

\* A step that brings row j no nearer to a printer: most of them.
Steady(j) ==
    /\ j \in Selected' => j \in Selected
    /\ watch'[j].phase # "off" => watch[j].phase # "off"
    /\ task'[j].pc # "none" => task[j].pc # "none"
    /\ task'[j].pc \notin {"none", "finish"} => task[j].pc \notin {"none", "finish"}
    /\ task'[j].pc \in {"send", "refused"} => task[j].pc \in {"send", "refused"}
    /\ row'[j].status \in Waitable => row[j].status \in Waitable
    /\ row'[j].attempts = row[j].attempts
    /\ row'[j].status = row[j].status
         \/ row'[j].status \in {"failed", "cancelled", "deleted"}
         \/ row[j].attempts # MaxAttempts

LEMMA ByRow == IInv <=> TypeOK /\ \A j \in Items : RowInv(j)
  BY DEF IInv, OneActor, AttemptsBounded, SendingIsLive, RowInv

LEMMA SteadyKeeps == ASSUME NEW j \in Items, RowInv(j), Steady(j) PROVE RowInv(j)'
  BY DEF RowInv, Steady, InFlight

LEMMA Assemble ==
    ASSUME IInv, TypeOK', \A j \in Items : Steady(j) \/ RowInv(j)'
    PROVE  IInv'
  <1>1. \A j \in Items : RowInv(j)' BY ByRow, SteadyKeeps
  <1>2. OneActor' /\ AttemptsBounded' /\ SendingIsLive'
    BY <1>1 DEF RowInv, OneActor, AttemptsBounded, SendingIsLive, InFlight
  <1> QED BY <1>2 DEF IInv

-----------------------------------------------------------------------------
(* Steps that leave the queue alone.                                       *)

LEMMA Untouched ==
    ASSUME IInv, TypeOK', UNCHANGED <<row, task, watch, pass>>
    PROVE  IInv'
  BY Assemble DEF Steady, Selected

\* The history counter of begun prints, which saturates.
LEMMA CountTyped ==
    ASSUME NEW f \in [Items -> 0..2], NEW k
    PROVE  [f EXCEPT ![k] = IF @ < 2 THEN @ + 1 ELSE @] \in [Items -> 0..2]
  <1>1. CASE k \in Items
    <2>1. (IF f[k] < 2 THEN f[k] + 1 ELSE f[k]) \in 0..2 BY <1>1
    <2> QED BY <2>1
  <1>2. CASE k \notin Items BY <1>2
  <1> QED BY <1>1, <1>2

LEMMA PrinterKeeps ==
    ASSUME IInv, NEW p \in Printers,
           Printer(p) \/ RaiseGate(p) \/ ClearPlate(p)
    PROVE  IInv'
  <1>1. CASE Begin(p)
    <2>1. machine' \in [Printers -> Machine] BY <1>1 DEF Begin, IInv, TypeOK, Machine
    <2>2. prints \in [Items -> 0..2] BY DEF IInv, TypeOK
    <2>3. prints' = [prints EXCEPT ![machine[p].job] = IF @ < 2 THEN @ + 1 ELSE @]
      BY <1>1 DEF Begin
    <2>4. prints' \in [Items -> 0..2] BY <2>2, <2>3, CountTyped
    <2>5. TypeOK' BY <1>1, <2>1, <2>4 DEF Begin, IInv, TypeOK, queueVars
    <2> QED BY <1>1, <2>5, Untouched DEF Begin, queueVars
  <1>2. CASE DropJob(p)
    <2>1. machine' \in [Printers -> Machine] BY <1>2 DEF DropJob, IInv, TypeOK, Machine, Free
    <2>2. TypeOK' BY <1>2, <2>1 DEF DropJob, IInv, TypeOK, queueVars
    <2> QED BY <1>2, <2>2, Untouched DEF DropJob, queueVars
  <1>3. CASE HearActive(p)
    <2>1. seen' \in [Printers -> Results \union {"ACTIVE"}]
      BY <1>3 DEF HearActive, IInv, TypeOK
    <2>2. TypeOK' BY <1>3, <2>1 DEF HearActive, IInv, TypeOK, queueVars
    <2> QED BY <1>3, <2>2, Untouched DEF HearActive, queueVars
  <1>4. CASE HearEnd(p)
    <2>1. seen' \in [Printers -> Results \union {"ACTIVE"}]
      BY <1>4 DEF HearEnd, IInv, TypeOK, Results
    <2>2. machine' \in [Printers -> Machine] BY <1>4 DEF HearEnd, IInv, TypeOK, Machine, Free
    <2>3. ending' \in [Printers -> Ending]
      BY <1>4 DEF HearEnd, IInv, TypeOK, Ending, Machine, Results
    <2>4. TypeOK' BY <1>4, <2>1, <2>2, <2>3 DEF HearEnd, IInv, TypeOK, queueVars
    <2> QED BY <1>4, <2>4, Untouched DEF HearEnd, queueVars
  <1>5. CASE Dismiss(p)
    <2>1. seen' \in [Printers -> Results \union {"ACTIVE"}]
      BY <1>5 DEF Dismiss, IInv, TypeOK, Results
    <2>2. TypeOK' BY <1>5, <2>1 DEF Dismiss, IInv, TypeOK, queueVars
    <2> QED BY <1>5, <2>2, Untouched DEF Dismiss, queueVars
  <1>6. CASE Disconnect(p)
    <2>1. TypeOK' BY <1>6 DEF Disconnect, IInv, TypeOK, queueVars
    <2> QED BY <1>6, <2>1, Untouched DEF Disconnect, queueVars
  <1>7. CASE Reconnect(p)
    <2>1. seen' \in [Printers -> Results \union {"ACTIVE"}]
      BY <1>7 DEF Reconnect, IInv, TypeOK
    <2>2. TypeOK' BY <1>7, <2>1 DEF Reconnect, IInv, TypeOK, queueVars
    <2> QED BY <1>7, <2>2, Untouched DEF Reconnect, queueVars
  <1>8. ASSUME NEW r \in {"FINISH", "FAILED"}, EndPrint(p, r) PROVE IInv'
    <2>1. machine' \in [Printers -> Machine] BY <1>8 DEF EndPrint, IInv, TypeOK, Machine
    <2>2. TypeOK' BY <1>8, <2>1 DEF EndPrint, IInv, TypeOK, queueVars
    <2> QED BY <1>8, <2>2, Untouched DEF EndPrint, queueVars
  <1>9. CASE RaiseGate(p)
    <2>1. ending' \in [Printers -> Ending] BY <1>9 DEF RaiseGate, IInv, TypeOK, Ending
    <2>2. TypeOK' BY <1>9, <2>1 DEF RaiseGate, IInv, TypeOK, queueVars
    <2> QED BY <1>9, <2>2, Untouched DEF RaiseGate, queueVars
  <1>10. CASE ClearPlate(p)
    <2>1. TypeOK' BY <1>10 DEF ClearPlate, IInv, TypeOK, queueVars
    <2> QED BY <1>10, <2>1, Untouched DEF ClearPlate, queueVars
  <1> QED BY <1>1, <1>2, <1>3, <1>4, <1>5, <1>6, <1>7, <1>8, <1>9, <1>10 DEF Printer

-----------------------------------------------------------------------------
(* Requests and callbacks that write rows.                                 *)

\* A step that writes rows only, and brings none nearer to a printer.
LEMMA RowsOnly ==
    ASSUME IInv, row' \in [Items -> Row],
           UNCHANGED <<task, watch, hold, pass, stale, printerVars>>,
           \A j \in Items : Steady(j)
    PROVE  IInv'
  <1>1. TypeOK' BY DEF IInv, TypeOK, printerVars
  <1> QED BY <1>1, Assemble

LEMMA EnqueueKeeps ==
    ASSUME IInv, NEW i \in Items, NEW p \in MaybePrinter, Enqueue(i, p)
    PROVE  IInv'
  <1>1. row \in [Items -> Row] BY DEF IInv, TypeOK
  <1>2. row' = [row EXCEPT ![i].status = "pending", ![i].printer = p]
    BY DEF Enqueue
  <1>3. row' \in [Items -> Row] BY <1>1, <1>2 DEF Row, Statuses, Terminal
  <1>4. \A j \in Items : Steady(j)
    BY <1>1, <1>2, ByRow DEF RowInv, Enqueue, Steady, Waitable, Selected, Row
  <1> QED BY <1>3, <1>4, RowsOnly DEF Enqueue

LEMMA CancelKeeps ==
    ASSUME IInv, NEW i \in Items, Cancel(i)
    PROVE  IInv'
  <1>1. row \in [Items -> Row] BY DEF IInv, TypeOK
  <1>2. row' = [row EXCEPT ![i].status = "cancelled"]
    BY DEF Cancel
  <1>3. row' \in [Items -> Row] BY <1>1, <1>2 DEF Row, Statuses, Terminal
  <1>4. \A j \in Items : Steady(j)
    BY <1>1, <1>2 DEF Cancel, Steady, Waitable, Selected, Row
  <1> QED BY <1>3, <1>4, RowsOnly DEF Cancel

LEMMA StartStagedKeeps ==
    ASSUME IInv, NEW i \in Items, StartStaged(i)
    PROVE  IInv'
  <1>1. row \in [Items -> Row] BY DEF IInv, TypeOK
  <1>2. row' = [row EXCEPT ![i].staged = FALSE]
    BY DEF StartStaged
  <1>3. row' \in [Items -> Row] BY <1>1, <1>2 DEF Row, Statuses, Terminal
  <1>4. \A j \in Items : Steady(j)
    BY <1>1, <1>2 DEF StartStaged, Steady, Waitable, Selected, Row
  <1> QED BY <1>3, <1>4, RowsOnly DEF StartStaged

LEMMA EditKeeps ==
    ASSUME IInv, NEW i \in Items, NEW p \in Printers, Edit(i, p)
    PROVE  IInv'
  <1>1. row \in [Items -> Row] BY DEF IInv, TypeOK
  <1>2. row' = [row EXCEPT ![i].printer = p]
    BY DEF Edit
  <1>3. row' \in [Items -> Row] BY <1>1, <1>2 DEF Row, Statuses, Terminal, MaybePrinter
  <1>4. \A j \in Items : Steady(j)
    BY <1>1, <1>2 DEF Edit, Steady, Waitable, Selected, Row
  <1> QED BY <1>3, <1>4, RowsOnly DEF Edit

LEMMA DeleteKeeps ==
    ASSUME IInv, NEW i \in Items, Delete(i)
    PROVE  IInv'
  <1>1. row \in [Items -> Row] BY DEF IInv, TypeOK
  <1>2. PICK s \in {"deleted", "cancelled"} : row' = [row EXCEPT ![i].status = s]
    BY DEF Delete
  <1>3. row' \in [Items -> Row] BY <1>1, <1>2 DEF Row, Statuses, Terminal
  <1>4. \A j \in Items : Steady(j)
    BY <1>1, <1>2 DEF Delete, Steady, Waitable, Selected, Row
  <1> QED BY <1>3, <1>4, RowsOnly DEF Delete

LEMMA ResumeKeeps ==
    ASSUME IInv, NEW p \in Printers, Resume(p)
    PROVE  IInv'
  <1> DEFINE skipped == {i \in Items : row[i].status = "skipped" /\ row[i].printer = p}
  <1>1. row \in [Items -> Row] BY DEF IInv, TypeOK
  <1>2. row' = [i \in Items |-> IF i \in skipped
                  THEN [row[i] EXCEPT !.status = "pending"] ELSE row[i]]
    BY DEF Resume
  <1>3. row' \in [Items -> Row] BY <1>1, <1>2 DEF Row, Statuses
  <1>4. \A j \in Items : Steady(j)
    BY <1>1, <1>2, ByRow DEF RowInv, Resume, Steady, Waitable, Selected, Row
  <1> QED BY <1>3, <1>4, RowsOnly DEF Resume

LEMMA StopKeeps ==
    ASSUME IInv, NEW i \in Items, Stop(i)
    PROVE  IInv'
  <1>1. row \in [Items -> Row] BY DEF IInv, TypeOK
  <1>2. row' = [row EXCEPT ![i].status = "cancelled"] BY DEF Stop
  <1>3. row' \in [Items -> Row] BY <1>1, <1>2 DEF Row, Statuses, Terminal
  <1>4. machine' \in [Printers -> Machine]
    BY DEF Stop, IInv, TypeOK, Machine, Free
  <1>5. TypeOK' BY <1>3, <1>4 DEF IInv, TypeOK, Stop
  <1>6. \A j \in Items : Steady(j)
    BY <1>1, <1>2 DEF Steady, Stop, Waitable, Selected, Row
  <1> QED BY <1>5, <1>6, Assemble

\* A late cancel or delete closes its row, unless the row is gone.
LEMMA LateShape ==
    ASSUME NEW i \in Items, LateCancel(i) \/ LateDelete(i)
    PROVE  /\ UNCHANGED <<task, watch, hold, pass, printerVars>>
           /\ \/ row' = row
              \/ /\ Exists(i)
                 /\ \E s \in {"cancelled", "deleted"} : row' = [row EXCEPT ![i].status = s]
  BY DEF LateCancel, LateDelete, Blind, Write

\* The stale rows are those a request has checked.
LEMMA StaleTyped ==
    ASSUME IInv, NEW i \in Items,
           \/ LateCancel(i) \/ LateDelete(i) \/ \E p \in Printers : BulkWrite(i, p)
           \/ \E ask \in Slow : Check(ask, i)
    PROVE  stale' \subseteq (Slow \intersect Requests) \X Items
  <1>1. stale \subseteq (Slow \intersect Requests) \X Items BY DEF IInv, TypeOK
  <1>2. CASE \E ask \in Slow : Check(ask, i) BY <1>1, <1>2 DEF Check, Asked
  <1>3. CASE stale' \subseteq stale BY <1>1, <1>3
  <1> QED BY <1>2, <1>3 DEF LateCancel, LateDelete, BulkWrite

LEMMA SlowKeeps ==
    ASSUME IInv, NEW i \in Items,
           \/ LateCancel(i) \/ LateDelete(i) \/ \E p \in Printers : BulkWrite(i, p)
           \/ \E ask \in Slow : Check(ask, i)
    PROVE  IInv'
  <1>1. row \in [Items -> Row] BY DEF IInv, TypeOK
  <1>2. stale' \subseteq (Slow \intersect Requests) \X Items BY StaleTyped
  <1>3. CASE \E ask \in Slow : Check(ask, i)
    <2>1. TypeOK' BY <1>2, <1>3 DEF Check, IInv, TypeOK, printerVars
    <2> QED BY <1>3, <2>1, Untouched DEF Check
  <1>4. CASE LateCancel(i) \/ LateDelete(i)
    <2>1. row' \in [Items -> Row]
      BY <1>1, <1>4, LateShape DEF Row, Statuses, Terminal
    <2>2. TypeOK' BY <1>2, <1>4, <2>1, LateShape DEF IInv, TypeOK, printerVars
    <2>3. \A j \in Items : Steady(j)
      BY <1>1, <1>4, LateShape DEF Steady, Waitable, Selected, Row
    <2> QED BY <2>2, <2>3, Assemble
  <1>5. ASSUME NEW p \in Printers, BulkWrite(i, p) PROVE IInv'
    <2>1. row' = row \/ row' = [row EXCEPT ![i] = [row[i] EXCEPT !.printer = p]]
      BY <1>5 DEF BulkWrite, Write
    <2>2. row' \in [Items -> Row] BY <1>1, <2>1 DEF Row, MaybePrinter
    <2>3. TypeOK' BY <1>2, <1>5, <2>2 DEF BulkWrite, IInv, TypeOK, printerVars
    <2>4. \A j \in Items : Steady(j)
      BY <1>1, <1>5, <2>1 DEF BulkWrite, Steady, Selected, Row
    <2> QED BY <2>3, <2>4, Assemble
  <1> QED BY <1>3, <1>4, <1>5

LEMMA CloseRowKeeps ==
    ASSUME IInv, NEW p \in Printers, CloseRow(p)
    PROVE  IInv'
  <1>1. row \in [Items -> Row] BY DEF IInv, TypeOK
  <1>2. row' = row \/ \E i \in PrintingOn(p) :
            row' = [row EXCEPT ![i].status = TerminalQueueStatus(ending[p].result)]
    BY DEF CloseRow
  <1>3. TerminalQueueStatus(ending[p].result) \in {"completed", "failed", "cancelled"}
    BY DEF TerminalQueueStatus
  <1>4. row' \in [Items -> Row]
    BY <1>1, <1>2, <1>3 DEF Row, Statuses, Terminal, PrintingOn
  <1>5. ending' \in [Printers -> Ending]
    BY DEF CloseRow, IInv, TypeOK, Ending, NoEnding, Results
  <1>6. TypeOK' BY <1>4, <1>5 DEF CloseRow, IInv, TypeOK
  <1>7. \A j \in Items : row[j].status = "printing" => row[j].attempts # MaxAttempts
    BY ByRow DEF RowInv
  <1>8. \A j \in Items : Steady(j)
    BY <1>1, <1>2, <1>3, <1>7
    DEF CloseRow, Steady, Waitable, Selected, Row, PrintingOn
  <1> QED BY <1>6, <1>8, Assemble

LEMMA RestartKeeps ==
    ASSUME IInv, Restart
    PROVE  IInv'
  <1>1. task' \in [Items -> Task] /\ watch' \in [Items -> Watch]
    BY DEF Restart, NoTask, NoWatch, Task, Watch, TaskPcs, MaybePrinter
  <1>2. pass' \in Pass BY DEF Restart, Pass, AtBoot, AtSweep, PassPcs, MaybePrinter
  <1>3. seen' \in [Printers -> Results \union {"ACTIVE"}]
    BY DEF Restart, IInv, TypeOK, Results
  <1>4. ending' \in [Printers -> Ending]
    BY DEF Restart, IInv, TypeOK, Ending, NoEnding, Results, Machine
  <1>5. machine' \in [Printers -> Machine] BY DEF Restart, IInv, TypeOK, Machine, Free
  <1>6. TypeOK' BY <1>1, <1>2, <1>3, <1>4, <1>5 DEF IInv, TypeOK, Restart
  <1>7. \A j \in Items : Steady(j)
    BY DEF Steady, Restart, Selected, NoTask, NoWatch, AtBoot, AtSweep
  <1> QED BY <1>6, <1>7, Assemble

-----------------------------------------------------------------------------
(* The scheduler loop.                                                     *)

\* A pass step that selects no new row and writes rows steadily.
LEMMA PassOnly ==
    ASSUME IInv, row' \in [Items -> Row], pass' \in Pass,
           UNCHANGED <<task, watch, hold, stale, printerVars>>,
           \A j \in Items : Steady(j)
    PROVE  IInv'
  <1>1. TypeOK' BY DEF IInv, TypeOK, printerVars
  <1> QED BY <1>1, Assemble

LEMMA SweepsKeep ==
    ASSUME IInv,
           Startup \/ ClearStaleClaims \/ \E S \in SUBSET Items : CloseStranded(S)
    PROVE  IInv'
  <1>1. row \in [Items -> Row] /\ pass \in Pass BY DEF IInv, TypeOK
  <1>2. ASSUME ReleaseClaims, PassGoto("sweep") \/ PassGoto("close"),
               UNCHANGED <<task, watch, hold, stale, printerVars>>
        PROVE  IInv'
    <2>1. row' = row \/ row' = Unclaimed BY <1>2 DEF ReleaseClaims
    <2>2. row' \in [Items -> Row] BY <1>1, <2>1 DEF Row, Unclaimed
    <2>3. pass' \in Pass BY <1>1, <1>2 DEF PassGoto, Pass, PassPcs
    <2>4. \A j \in Items : Steady(j)
      BY <1>1, <1>2, <2>1 DEF PassGoto, Pass, Steady, Selected, Row, Unclaimed
    <2> QED BY <1>2, <2>2, <2>3, <2>4, PassOnly
  <1>3. ASSUME NEW S \in SUBSET Items, CloseStranded(S) PROVE IInv'
    <2> DEFINE s(i) == TerminalQueueStatus(seen[row[i].printer])
    <2>1. row' = [i \in Items |-> IF i \in S THEN [row[i] EXCEPT !.status = s(i)]
                                  ELSE row[i]]
      BY <1>3 DEF CloseStranded
    <2>2. \A i \in Items : s(i) \in {"completed", "failed", "cancelled"}
      BY DEF TerminalQueueStatus
    <2>3. \A i \in S : row[i].status = "printing" /\ row[i].attempts # MaxAttempts
      BY <1>3, ByRow DEF CloseStranded, LongTerminal, RowInv
    <2> HIDE DEF s
    <2>4. row' \in [Items -> Row] BY <1>1, <2>1, <2>2 DEF Row, Statuses, Terminal
    <2>5. pass' \in Pass BY <1>1, <1>3 DEF CloseStranded, PassGoto, Pass, PassPcs
    <2>6. \A j \in Items : Steady(j)
      BY <1>1, <1>3, <2>1, <2>2, <2>3
      DEF CloseStranded, PassGoto, Pass, Steady, Waitable, Selected, Row
    <2> QED BY <1>3, <2>4, <2>5, <2>6, PassOnly DEF CloseStranded
  <1> QED BY <1>2, <1>3 DEF Startup, ClearStaleClaims

\* The one step that selects rows: none of them has a task or a watchdog, and
\* none has used its attempts.
LEMMA PassReadKeeps ==
    ASSUME IInv, PassRead
    PROVE  IInv'
  <1>1. pass' \in Pass
    BY DEF PassRead, Pass, PassPcs, AtSweep, IInv, TypeOK, MaybePrinter, Row
  <1>2. TypeOK' BY <1>1 DEF PassRead, IInv, TypeOK, printerVars
  <1>3. \A j \in Items : j \in Selected' => Selectable(j)
    BY DEF PassRead, AtSweep, Selected
  <1>4. \A j \in Items : RowInv(j)'
    BY <1>3, ByRow DEF RowInv, PassRead, Selectable, InFlight, Waitable
  <1> QED BY <1>2, <1>4, Assemble

LEMMA PassPoolsKeeps ==
    ASSUME IInv, PassPools
    PROVE  IInv'
  <1>1. pass' \in Pass
    BY DEF PassPools, Pass, PassPcs, IInv, TypeOK, Unavailable, Uploading
  <1>2. row' \in [Items -> Row] BY DEF PassPools, IInv, TypeOK
  <1>3. \A j \in Items : Steady(j) BY DEF PassPools, IInv, TypeOK, Pass, Steady, Selected
  <1> QED BY <1>1, <1>2, <1>3, PassOnly DEF PassPools

\* A write of the pass to a row in its hands.
LEMMA PassWrite ==
    ASSUME IInv, NEW i \in Items, i \in Selected, NEW r \in Row,
           r.attempts = row[i].attempts,
           row' = row \/ row' = [row EXCEPT ![i] = r],
           pass' \in Pass, Selected' \subseteq Selected,
           UNCHANGED <<task, watch, hold, stale, printerVars>>
    PROVE  IInv'
  <1>1. row \in [Items -> Row] BY DEF IInv, TypeOK
  <1>2. row' \in [Items -> Row] BY <1>1
  <1>3. TypeOK' BY <1>2 DEF IInv, TypeOK, printerVars
  <1>4. task[i].pc = "none" /\ watch[i].phase = "off" /\ row[i].attempts # MaxAttempts
    BY ByRow DEF RowInv, InFlight
  <1>5. RowInv(i)' BY <1>1, <1>4 DEF RowInv, InFlight, Row
  <1>6. \A j \in Items \ {i} : Steady(j) BY <1>1 DEF Steady
  <1> QED BY <1>3, <1>5, <1>6, Assemble

LEMMA ScanKeeps ==
    ASSUME IInv, NEW i \in Items,
           \/ HoldItem(i) \/ SkipItem(i) \/ PassAborts(i)
           \/ \E p \in Printers : \/ FailUnmappable(i, p) \/ BlockOnDeficit(i, p)
                                  \/ SelectItem(i, p)
    PROVE  IInv'
  <1>1. row \in [Items -> Row] /\ pass \in Pass BY DEF IInv, TypeOK
  <1>2. \A p \in Printers :
          Assigned(i, p) \in Row /\ Assigned(i, p).attempts = row[i].attempts
    BY <1>1 DEF Assigned, Row, MaybePrinter
  <1>3. row[i] \in Row BY <1>1
  <1>4. ASSUME Drop(i) PROVE pass' \in Pass /\ Selected' \subseteq Selected
    BY <1>1, <1>4 DEF Drop, Pass, Selected
  <1>5. CASE HoldItem(i)
    <2>1. ASSUME pass.at[i] # NoPrinter,
                 pass' = [pass EXCEPT !.todo = @ \ {i}, !.busy = @ \union {pass.at[i]}]
          PROVE  pass' \in Pass /\ Selected' \subseteq Selected
      <3>1. pass.at[i] \in Printers BY <1>1, <2>1 DEF Pass, MaybePrinter
      <3> QED BY <1>1, <2>1, <3>1 DEF Pass, Selected
    <2>2. pass' \in Pass /\ Selected' \subseteq Selected
      BY <1>4, <1>5, <2>1 DEF HoldItem
    <2> QED BY <1>3, <1>5, <2>2, PassWrite DEF HoldItem, Considers, Selected
  <1>6. CASE SkipItem(i)
    <2>1. [row[i] EXCEPT !.status = "skipped"] \in Row
      BY <1>3 DEF Row, Statuses, Terminal
    <2>2. [row[i] EXCEPT !.status = "skipped"].attempts = row[i].attempts
      BY <1>3 DEF Row
    <2>3. row' = [row EXCEPT ![i] = [row[i] EXCEPT !.status = "skipped"]]
      BY <1>6 DEF SkipItem, Blind, Write
    <2> QED BY <1>4, <1>6, <2>1, <2>2, <2>3, PassWrite DEF SkipItem, Considers, Selected
  <1>7. CASE PassAborts(i)
    <2>1. pass' \in Pass /\ Selected' \subseteq Selected
      BY <1>7 DEF PassAborts, AtSweep, Pass, PassPcs, Selected, MaybePrinter
    <2> QED BY <1>3, <1>7, <2>1, PassWrite DEF PassAborts, Considers, Selected
  <1>8. ASSUME NEW p \in Printers, FailUnmappable(i, p) PROVE IInv'
    <2> DEFINE r == [Assigned(i, p) EXCEPT !.status = "failed"]
    <2>1. r \in Row /\ r.attempts = row[i].attempts
      BY <1>2 DEF Row, Statuses, Terminal
    <2>2. row' = [row EXCEPT ![i] = r] BY <1>8 DEF FailUnmappable, Write
    <2> HIDE DEF r
    <2> QED BY <1>4, <1>8, <2>1, <2>2, PassWrite DEF FailUnmappable, Considers, Selected
  <1>9. ASSUME NEW p \in Printers, BlockOnDeficit(i, p) PROVE IInv'
    <2> DEFINE r == [Assigned(i, p) EXCEPT !.staged = TRUE]
    <2>1. r \in Row /\ r.attempts = row[i].attempts BY <1>2 DEF Row
    <2>2. row' = [row EXCEPT ![i] = r] BY <1>9 DEF BlockOnDeficit, Write
    <2> HIDE DEF r
    <2> QED BY <1>4, <1>9, <2>1, <2>2, PassWrite DEF BlockOnDeficit, Considers, Selected
  <1>10. ASSUME NEW p \in Printers, SelectItem(i, p) PROVE IInv'
    <2>1. row' = row \/ row' = [row EXCEPT ![i] = Assigned(i, p)]
      BY <1>10 DEF SelectItem, Write
    <2>2. pass' \in Pass /\ Selected' \subseteq Selected
      BY <1>1, <1>10 DEF SelectItem, Considers, Pass, Selected, MaybePrinter
    <2> QED BY <1>2, <1>10, <2>1, <2>2, PassWrite DEF SelectItem, Considers, Selected
  <1> QED BY <1>5, <1>6, <1>7, <1>8, <1>9, <1>10

\* The pass hands its rows over: none of them had a task or a watchdog.
LEMMA LaunchKeeps ==
    ASSUME IInv, LaunchUploads
    PROVE  IInv'
  <1>1. PICK L \in SUBSET pass.picked :
          task' = [i \in Items |-> IF i \in L
                    THEN [pc |-> "launched", slot |-> pass.at[i], on |-> NoPrinter]
                    ELSE task[i]]
    BY DEF LaunchUploads
  <1>2. pass \in Pass /\ task \in [Items -> Task] BY DEF IInv, TypeOK
  <1>3. task' \in [Items -> Task] BY <1>1, <1>2 DEF Pass, Task, TaskPcs, MaybePrinter
  <1>4. pass' \in Pass BY DEF LaunchUploads, AtSweep, Pass, PassPcs, MaybePrinter
  <1>5. TypeOK' BY <1>3, <1>4 DEF LaunchUploads, IInv, TypeOK, printerVars
  <1>6. Selected' = {} BY DEF LaunchUploads, AtSweep, Selected
  <1>7. \A j \in Items : task'[j].pc = "launched" \/ task'[j] = task[j]
    BY <1>1
  <1>8. \A j \in Items : task'[j] # task[j] => j \in Selected BY <1>1 DEF Selected
  <1>9. \A j \in Items : RowInv(j)'
    BY <1>6, <1>7, <1>8, ByRow DEF RowInv, LaunchUploads, InFlight
  <1> QED BY <1>5, <1>9, Assemble

LEMMA SchedulerKeeps ==
    ASSUME IInv, Scheduler
    PROVE  IInv'
  BY SweepsKeep, PassReadKeeps, PassPoolsKeeps, LaunchKeeps, ScanKeeps DEF Scheduler

-----------------------------------------------------------------------------
(* The upload task.                                                        *)

\* A step of a live task that marks its row failed, or leaves the row alone.
LEMMA Fails ==
    ASSUME IInv, NEW i \in Items, task[i].pc \in {"claimed", "upload", "send", "refused"},
           row' = row \/ Blind(i, "failed"), Goto(i, "finish"),
           UNCHANGED <<watch, hold, pass, stale, printerVars>>
    PROVE  IInv'
  <1>1. row \in [Items -> Row] /\ task \in [Items -> Task] BY DEF IInv, TypeOK
  <1>2. row' = row \/ row' = [row EXCEPT ![i].status = "failed"] BY DEF Blind, Write
  <1>3. row' \in [Items -> Row] BY <1>1, <1>2 DEF Row, Statuses, Terminal
  <1>4. task' = [task EXCEPT ![i].pc = "finish"] BY DEF Goto
  <1>5. task' \in [Items -> Task] BY <1>1, <1>4 DEF Task, TaskPcs
  <1>6. TypeOK' BY <1>3, <1>5 DEF IInv, TypeOK, printerVars
  <1>7. \A j \in Items : Steady(j)
    BY <1>1, <1>2, <1>4 DEF Steady, Selected, Row, Task, Waitable
  <1> QED BY <1>6, <1>7, Assemble

LEMMA ClaimKeeps ==
    ASSUME IInv, NEW i \in Items, Claim(i)
    PROVE  IInv'
  <1>1. row \in [Items -> Row] /\ task \in [Items -> Task] BY DEF IInv, TypeOK
  <1>2. row' = row \/ row' = [row EXCEPT ![i].claimed = TRUE] BY DEF Claim
  <1>3. row' \in [Items -> Row] BY <1>1, <1>2 DEF Row
  <1>4. task' = [task EXCEPT ![i].pc = "claimed", ![i].on = row[i].printer]
          \/ task' = [task EXCEPT ![i] = NoTask]
    BY DEF Claim
  <1>5. task' \in [Items -> Task]
    BY <1>1, <1>4 DEF Task, TaskPcs, NoTask, Row, MaybePrinter
  <1>6. TypeOK' BY <1>3, <1>5 DEF Claim, IInv, TypeOK, printerVars
  <1>7. \A j \in Items : Steady(j)
    <2>1. task[i].pc = "launched" BY DEF Claim
    <2>2. \A j \in Items : /\ row'[j].status = row[j].status
                           /\ row'[j].attempts = row[j].attempts
      BY <1>1, <1>2 DEF Row
    <2>3. \A j \in Items : \/ task'[j].pc = task[j].pc
                           \/ task[j].pc = "launched" /\ task'[j].pc \in {"claimed", "none"}
      BY <1>1, <1>4, <2>1 DEF Task, NoTask
    <2> QED BY <2>2, <2>3 DEF Claim, Steady, Selected
  <1> QED BY <1>6, <1>7, Assemble

LEMMA RecheckKeeps ==
    ASSUME IInv, NEW i \in Items, Recheck(i)
    PROVE  IInv'
  <1>1. row \in [Items -> Row] /\ task \in [Items -> Task] BY DEF IInv, TypeOK
  <1>2. task' = [task EXCEPT ![i].pc = "upload", ![i].on = row[i].printer]
          \/ task' = [task EXCEPT ![i].pc = "finish"]
    BY DEF Recheck, Goto
  <1>3. task' \in [Items -> Task] BY <1>1, <1>2 DEF Task, TaskPcs, Row
  <1>4. TypeOK' BY <1>3 DEF Recheck, IInv, TypeOK, printerVars
  <1>5. \A j \in Items : Steady(j)
    BY <1>1, <1>2 DEF Recheck, Steady, Selected, Task
  <1> QED BY <1>4, <1>5, Assemble

\* Only the winner of the compare-and-set goes on to send, and its row is
\* printing from then on.
LEMMA UploadedKeeps ==
    ASSUME IInv, NEW i \in Items, Uploaded(i)
    PROVE  IInv'
  <1>1. row \in [Items -> Row] /\ task \in [Items -> Task] BY DEF IInv, TypeOK
  <1>2. task' = [task EXCEPT ![i].pc = AfterCas(i)] BY DEF Uploaded, Goto
  <1>3. row' = IF WinsCas(i) THEN [row EXCEPT ![i].status = "printing"] ELSE row
    BY DEF Uploaded, Marked
  <1>4. row' \in [Items -> Row] BY <1>1, <1>3 DEF Row, Statuses
  <1>5. task' \in [Items -> Task] BY <1>1, <1>2 DEF Task, TaskPcs, AfterCas
  <1>6. TypeOK' BY <1>4, <1>5 DEF Uploaded, IInv, TypeOK
  <1>7. task[i].pc = "upload" BY DEF Uploaded
  <1>8. \A j \in Items \ {i} : Steady(j)
    BY <1>1, <1>2, <1>3 DEF Uploaded, Steady, Selected
  <1>9. RowInv(i)'
    BY <1>1, <1>2, <1>3, <1>7, ByRow
    DEF Uploaded, RowInv, AfterCas, WinsCas, InFlight, Selected, Waitable, Row, Task
  <1> QED BY <1>6, <1>8, <1>9, Assemble

LEMMA SendKeeps ==
    ASSUME IInv, NEW i \in Items, Send(i)
    PROVE  IInv'
  <1> DEFINE p == task[i].on
  <1>1. task \in [Items -> Task] /\ watch \in [Items -> Watch] BY DEF IInv, TypeOK
  <1>2. p \in Printers BY DEF Send, IInv, TypeOK
  <1>3. task' = [task EXCEPT ![i].pc = "finish"] BY DEF Send, Goto
  <1>4. watch' = [watch EXCEPT ![i] = [phase |-> "A", on |-> p]] BY DEF Send
  <1>5. task' \in [Items -> Task] BY <1>1, <1>3 DEF Task, TaskPcs
  <1>6. watch' \in [Items -> Watch] BY <1>1, <1>2, <1>4 DEF Watch, MaybePrinter
  <1>7. machine' \in [Printers -> Machine] BY DEF Send, IInv, TypeOK, Machine
  <1>8. hold' \subseteq Printers BY <1>2 DEF Send, IInv, TypeOK
  <1>9. TypeOK' BY <1>5, <1>6, <1>7, <1>8 DEF Send, IInv, TypeOK
  <1>10. \A j \in Items \ {i} : Steady(j)
    BY <1>1, <1>3, <1>4 DEF Send, Steady, Selected
  <1>11. task[i].pc = "send" BY DEF Send
  <1>12. RowInv(i)'
    BY <1>1, <1>3, <1>4, <1>11, ByRow DEF Send, RowInv, InFlight, Selected, Task, Watch
  <1> QED BY <1>9, <1>10, <1>12, Assemble

LEMMA RefusedKeeps ==
    ASSUME IInv, NEW i \in Items, Refused(i)
    PROVE  IInv'
  <1>1. task \in [Items -> Task] BY DEF IInv, TypeOK
  <1>2. task' = [task EXCEPT ![i].pc = "refused"] BY DEF Refused, Goto
  <1>3. task' \in [Items -> Task] BY <1>1, <1>2 DEF Task, TaskPcs
  <1>4. TypeOK' BY <1>3 DEF Refused, IInv, TypeOK, printerVars
  <1>5. \A j \in Items : Steady(j) BY <1>1, <1>2 DEF Refused, Steady, Selected, Task
  <1> QED BY <1>4, <1>5, Assemble

\* A retry is counted only while the budget lasts, so the row put back in line
\* has attempts left.
LEMMA AfterRefusalKeeps ==
    ASSUME IInv, NEW i \in Items, AfterRefusal(i)
    PROVE  IInv'
  <1>1. row \in [Items -> Row] /\ task \in [Items -> Task] BY DEF IInv, TypeOK
  <1>2. task' = [task EXCEPT ![i].pc = "finish"] BY DEF AfterRefusal, Goto
  <1>3. task[i].pc = "refused" BY DEF AfterRefusal
  <1>4. \/ row' = row
        \/ row' = [row EXCEPT ![i].status = "pending"]
        \/ row' = [row EXCEPT ![i].status = "failed"]
        \/ /\ row[i].attempts + 1 < MaxAttempts
           /\ row' = [row EXCEPT ![i].status = "pending", ![i].attempts = @ + 1]
    BY DEF AfterRefusal, Blind, Write
  <1>5. MaxAttempts \in Nat /\ row[i].attempts \in 0..MaxAttempts
    BY <1>1, ConstantsAssumption DEF Row
  <1>6. row' \in [Items -> Row] BY <1>1, <1>4, <1>5 DEF Row, Statuses, Terminal
  <1>7. task' \in [Items -> Task] BY <1>1, <1>2 DEF Task, TaskPcs
  <1>8. TypeOK' BY <1>6, <1>7 DEF AfterRefusal, IInv, TypeOK, printerVars
  <1>9. \A j \in Items \ {i} : Steady(j)
    BY <1>1, <1>2, <1>4 DEF AfterRefusal, Steady, Selected
  <1>10. watch[i].phase = "off" /\ i \notin Selected /\ row[i].attempts # MaxAttempts
    BY <1>3, ByRow DEF RowInv, InFlight
  <1>11. RowInv(i)'
    BY <1>1, <1>2, <1>4, <1>5, <1>10
    DEF AfterRefusal, RowInv, InFlight, Selected, Row, Task
  <1> QED BY <1>8, <1>9, <1>11, Assemble

LEMMA FinishKeeps ==
    ASSUME IInv, NEW i \in Items, Finish(i)
    PROVE  IInv'
  <1>1. row \in [Items -> Row] /\ task \in [Items -> Task] BY DEF IInv, TypeOK
  <1>2. row' = row \/ row' = [row EXCEPT ![i].claimed = FALSE] BY DEF Finish
  <1>3. task' = [task EXCEPT ![i] = NoTask] BY DEF Finish
  <1>4. row' \in [Items -> Row] BY <1>1, <1>2 DEF Row
  <1>5. task' \in [Items -> Task] BY <1>1, <1>3 DEF Task, TaskPcs, NoTask, MaybePrinter
  <1>6. TypeOK' BY <1>4, <1>5 DEF Finish, IInv, TypeOK, printerVars
  <1>7. \A j \in Items : Steady(j)
    BY <1>1, <1>2, <1>3 DEF Finish, Steady, Selected, Row, NoTask
  <1> QED BY <1>6, <1>7, Assemble

LEMMA UploadTaskKeeps ==
    ASSUME IInv, NEW i \in Items, UploadTask(i)
    PROVE  IInv'
  <1>1. CASE RejectEarly(i) BY <1>1, Fails DEF RejectEarly
  <1>2. CASE UploadFails(i) BY <1>2, Fails DEF UploadFails
  <1>3. CASE RackPickStale(i) BY <1>3, Fails DEF RackPickStale
  <1> QED
    BY <1>1, <1>2, <1>3, ClaimKeeps, RecheckKeeps, UploadedKeeps, SendKeeps,
       RefusedKeeps, AfterRefusalKeeps, FinishKeeps
    DEF UploadTask

-----------------------------------------------------------------------------
(* The watchdog.                                                           *)

\* The end of row i's watchdog: what it writes of the row is its last word.
LEMMA WatchEnds ==
    ASSUME IInv, NEW i \in Items, watch[i].phase # "off", EndWatch(i),
           row' \in [Items -> Row], \A j \in Items \ {i} : row'[j] = row[j],
           row'[i].attempts = MaxAttempts =>
             row'[i].status \in {"failed", "cancelled", "deleted"},
           online' \subseteq Printers,
           UNCHANGED <<task, pass, stale, machine, seen, ending, awaiting, dirty, prints>>
    PROVE  IInv'
  <1>1. watch \in [Items -> Watch] BY DEF IInv, TypeOK
  <1>2. watch' = [watch EXCEPT ![i] = NoWatch] BY DEF EndWatch
  <1>3. watch' \in [Items -> Watch] BY <1>1, <1>2 DEF Watch, NoWatch, MaybePrinter
  <1>4. hold' \subseteq Printers BY DEF EndWatch, IInv, TypeOK
  <1>5. TypeOK' BY <1>3, <1>4 DEF IInv, TypeOK
  <1>6. \A j \in Items \ {i} : Steady(j) BY <1>1, <1>2 DEF Steady, Selected
  <1>7. i \notin Selected /\ task[i].pc \in {"none", "finish"} BY ByRow DEF RowInv
  <1>8. RowInv(i)' BY <1>1, <1>2, <1>7 DEF RowInv, InFlight, Selected, NoWatch
  <1> QED BY <1>5, <1>6, <1>8, Assemble

LEMMA WatchdogKeeps ==
    ASSUME IInv, NEW i \in Items, Watchdog(i)
    PROVE  IInv'
  <1>1. row \in [Items -> Row] /\ watch \in [Items -> Watch] BY DEF IInv, TypeOK
  <1>2. MaxAttempts \in Nat /\ row[i].attempts \in 0..MaxAttempts
    BY <1>1, ConstantsAssumption DEF Row
  <1>3. row[i].attempts = MaxAttempts =>
          row[i].status \in {"failed", "cancelled", "deleted"}
    BY ByRow DEF RowInv
  <1>4. CASE SeesActive(i)
    <2>1. online' \subseteq Printers BY <1>4 DEF SeesActive, printerVars, IInv, TypeOK
    <2> QED BY <1>1, <1>3, <1>4, <2>1, WatchEnds DEF SeesActive, printerVars
  <1>5. CASE SeesSubtask(i)
    <2>1. watch' = [watch EXCEPT ![i].phase = "B"] BY <1>5 DEF SeesSubtask
    <2>2. watch' \in [Items -> Watch] BY <1>1, <2>1 DEF Watch
    <2>3. TypeOK' BY <1>5, <2>2 DEF SeesSubtask, printerVars, IInv, TypeOK
    <2>4. \A j \in Items : Steady(j)
      BY <1>1, <1>5, <2>1 DEF SeesSubtask, Steady, Selected, Watch
    <2> QED BY <2>3, <2>4, Assemble
  <1>6. CASE CommandRejected(i)
    <2>1. row' = row \/ /\ row[i].status = "printing"
                        /\ row' = [row EXCEPT ![i].status = "failed", ![i].attempts = @ + 1]
      BY <1>6 DEF CommandRejected
    <2>2. row' \in [Items -> Row]
      BY <1>1, <1>2, <1>3, <2>1 DEF Row, Statuses, Terminal
    <2>3. row'[i].attempts = MaxAttempts =>
            row'[i].status \in {"failed", "cancelled", "deleted"}
      BY <1>1, <1>3, <2>1 DEF Row
    <2>4. \A j \in Items \ {i} : row'[j] = row[j] BY <1>1, <2>1
    <2>5. online' \subseteq Printers BY <1>6 DEF CommandRejected, printerVars, IInv, TypeOK
    <2> QED
      BY <1>6, <2>2, <2>3, <2>4, <2>5, WatchEnds DEF CommandRejected, printerVars
  <1>7. CASE StartTimeout(i)
    <2> DEFINE n == row[i].attempts + 1
               s == IF GivesUp(n) THEN "failed" ELSE "pending"
    <2>1. row' = row \/ /\ row[i].status = "printing"
                        /\ row' = [row EXCEPT ![i].attempts = n, ![i].status = s]
      BY <1>7 DEF StartTimeout
    <2>2. s \in {"failed", "pending"} /\ (n = MaxAttempts => s = "failed")
      BY <1>2 DEF GivesUp
    <2>3. row[i].status = "printing" => n \in 0..MaxAttempts BY <1>2, <1>3
    <2> HIDE DEF n, s
    <2>4. row' \in [Items -> Row]
      BY <1>1, <2>1, <2>2, <2>3 DEF Row, Statuses, Terminal
    <2>5. row'[i].attempts = MaxAttempts =>
            row'[i].status \in {"failed", "cancelled", "deleted"}
      BY <1>1, <1>3, <2>1, <2>2 DEF Row
    <2>6. \A j \in Items \ {i} : row'[j] = row[j] BY <1>1, <2>1
    <2>7. online' \subseteq Printers BY <1>7 DEF StartTimeout, IInv, TypeOK
    <2> QED BY <1>7, <2>4, <2>5, <2>6, <2>7, WatchEnds DEF StartTimeout
  <1> QED BY <1>4, <1>5, <1>6, <1>7 DEF Watchdog

-----------------------------------------------------------------------------
(* The theorems.                                                           *)

LEMMA InitHolds == Init => IInv
  <1> SUFFICES ASSUME Init PROVE IInv
    OBVIOUS
  <1>1. TypeOK
    <2>1. row \in [Items -> Row]
      BY ConstantsAssumption DEF Init, Row, Statuses, MaybePrinter
    <2>2. task \in [Items -> Task] BY DEF Init, Task, TaskPcs, NoTask, MaybePrinter
    <2>3. watch \in [Items -> Watch] BY DEF Init, Watch, NoWatch, MaybePrinter
    <2>4. pass \in Pass BY DEF Init, Pass, PassPcs, AtBoot, AtSweep, MaybePrinter
    <2>5. machine \in [Printers -> Machine] BY DEF Init, Machine, Free
    <2>6. ending \in [Printers -> Ending] BY DEF Init, Ending, NoEnding, Results
    <2>7. seen \in [Printers -> Results \union {"ACTIVE"}] BY DEF Init, Results
    <2>8. prints \in [Items -> 0..2] BY DEF Init
    <2> QED BY <2>1, <2>2, <2>3, <2>4, <2>5, <2>6, <2>7, <2>8 DEF Init, TypeOK
  <1>2. \A j \in Items : RowInv(j)
    BY ConstantsAssumption
    DEF Init, RowInv, InFlight, Selected, NoTask, NoWatch, AtBoot, AtSweep
  <1> QED BY <1>1, <1>2, ByRow

LEMMA RequestKeeps ==
    ASSUME IInv, Request
    PROVE  IInv'
  BY EnqueueKeeps, CancelKeeps, DeleteKeeps, StartStagedKeeps, StopKeeps, EditKeeps,
     SlowKeeps, ResumeKeeps, PrinterKeeps
  DEF Request

LEMMA NextHolds == IInv /\ [Next]_vars => IInv'
  <1> SUFFICES ASSUME IInv, [Next]_vars PROVE IInv'
    OBVIOUS
  <1>1. CASE UNCHANGED vars BY <1>1, Untouched DEF vars, IInv, TypeOK
  <1>2. CASE Next
    BY <1>2, RequestKeeps, SchedulerKeeps, RestartKeeps, UploadTaskKeeps, WatchdogKeeps,
       PrinterKeeps, CloseRowKeeps
    DEF Next, Completion
  <1> QED BY <1>1, <1>2

\* The inductive invariant holds of every state the dispatch path reaches.
THEOREM Inductive == Spec => []IInv
  BY InitHolds, NextHolds, PTL DEF Spec

\* Every reachable state is well typed: in particular no retry count leaves
\* 0..DISPATCH_MAX_ATTEMPTS (_watchdog_print_start, _start_print).
THEOREM TypeCorrect == Spec => []TypeOK
  <1>1. IInv => TypeOK BY DEF IInv
  <1> QED BY <1>1, Inductive, PTL

\* No two of the queue pass, the upload pool and the watchdog drive one row
\* (check_queue's in-flight filter, _launch_uploads, _watchdog_print_start).
THEOREM RowHasOneActor == Spec => []OneActor
  <1>1. IInv => OneActor BY DEF IInv
  <1> QED BY <1>1, Inductive, PTL

\* A row whose attempts are used up is never dispatched again (#2555).
THEOREM BudgetIsReal == Spec => []AttemptsBounded
  <1>1. IInv => AttemptsBounded BY DEF IInv
  <1> QED BY <1>1, Inductive, PTL

\* A row whose command is on its way is out of every pass's reach, so no
\* restart of the pass requeues it (the compare-and-set of #1853).
THEOREM SentRowsStayLive == Spec => []SendingIsLive
  <1>1. IInv => SendingIsLive BY DEF IInv
  <1> QED BY <1>1, Inductive, PTL

=============================================================================
