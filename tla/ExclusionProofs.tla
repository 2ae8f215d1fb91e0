--------------------------- MODULE ExclusionProofs ---------------------------
(***************************************************************************)
(* A row keeps its printer and a printer has one row, for any number of    *)
(* rows and printers and under every fault.                                *)
(*                                                                         *)
(* First: between claim and release, a row keeps the printer its file was  *)
(* uploaded to, under every request but the bulk edit.  The bulk edit      *)
(* really breaks it: it validates rows long before it writes them.         *)
(*                                                                         *)
(* Then: a printer is driven for one row at a time, without the bulk edit  *)
(* and the edit of a row that a pass has in hand, both of which move a row *)
(* to a printer the pass has not looked at.                                *)
(***************************************************************************)
EXTENDS DispatchQueueProofs

NoBulk == "bulk" \notin Requests

LEMMA NoBulkWrite ==
    ASSUME NoBulk, IInv PROVE \A i \in Items, p \in Printers : ~BulkWrite(i, p)
  BY DEF NoBulk, BulkWrite, IInv, TypeOK

\* What keeps row j on its printer.
PinInv(j) ==
    /\ task[j].pc \in {"upload", "send", "refused"} /\ Exists(j)
         => row[j].printer = task[j].on
    /\ task[j].pc \in {"claimed", "upload"} /\ row[j].status = "pending"
         => row[j].claimed
    /\ row[j].status \in {"absent", "skipped"} => ~InFlight(j) /\ j \notin Selected
    /\ j \notin pass.todo \intersect pass.picked

PinIInv == IInv /\ \A j \in Items : PinInv(j)

\* The pass takes no row in hand, nor any it had under consideration twice.
NoneSelected(j) ==
    /\ j \in Selected' => j \in Selected
    /\ j \notin (pass.todo \intersect pass.picked)' \/ j \in pass.todo \intersect pass.picked

\* A step that neither moves row j, nor frees it, nor puts it back in line.
Fixed(j) ==
    /\ \/ task'[j] = task[j]
       \/ task[j].pc # "none" /\ task'[j].pc \in {"none", "finish"}
    /\ row'[j].printer = row[j].printer
    /\ row'[j].claimed = row[j].claimed
    /\ \/ row'[j].status = row[j].status
       \/ /\ row[j].status \notin {"absent", "deleted"}
          /\ row'[j].status \notin {"absent", "pending", "skipped"}
    /\ NoneSelected(j)

LEMMA FixedKeeps == ASSUME NEW j \in Items, PinInv(j), Fixed(j) PROVE PinInv(j)'
  BY DEF PinInv, Fixed, NoneSelected, InFlight, Exists

\* A row nothing has in flight is pinned by nothing.
LEMMA Loose ==
    ASSUME NEW j \in Items, task'[j].pc \in {"none", "launched", "finish"},
           row'[j].status \in {"absent", "skipped"}
             => task'[j].pc = "none" /\ j \notin Selected',
           j \notin (pass.todo \intersect pass.picked)'
    PROVE  PinInv(j)'
  BY DEF PinInv, InFlight

LEMMA PinAssemble ==
    ASSUME PinIInv, IInv', \A j \in Items : Fixed(j) \/ PinInv(j)'
    PROVE  PinIInv'
  BY FixedKeeps DEF PinIInv

-----------------------------------------------------------------------------
(* Requests.                                                               *)

LEMMA RequestPins ==
    ASSUME NoBulk, PinIInv, IInv', Request
    PROVE  PinIInv'
  <1>1. row \in [Items -> Row] BY DEF PinIInv, IInv, TypeOK
  <1>2. ASSUME NEW i \in Items,
               Cancel(i) \/ Delete(i) \/ StartStaged(i) \/ Stop(i)
        PROVE  PinIInv'
    <2>1. UNCHANGED <<task, pass, stale>>
      BY <1>2 DEF Cancel, Delete, StartStaged, Stop
    <2>2. \/ row[i].status \notin {"absent", "deleted"}
             /\ \E s \in {"cancelled", "deleted"} : row' = [row EXCEPT ![i].status = s]
          \/ row' = [row EXCEPT ![i].staged = FALSE]
      BY <1>2 DEF Cancel, Delete, StartStaged, Stop, Exists
    <2>3. \A j \in Items : Fixed(j)
      BY <1>1, <2>1, <2>2 DEF Fixed, NoneSelected, Selected, Row
    <2> QED BY <2>1, <2>3, PinAssemble DEF PinIInv
  <1>3. ASSUME NEW i \in Items, NEW p \in MaybePrinter, Enqueue(i, p) PROVE PinIInv'
    <2>1. UNCHANGED <<task, pass, stale>> BY <1>3 DEF Enqueue
    <2>2. \A j \in Items \ {i} : Fixed(j)
      BY <1>1, <1>3, <2>1 DEF Enqueue, Fixed, NoneSelected, Selected
    <2>3. task[i].pc = "none" /\ i \notin pass.todo \intersect pass.picked
      BY <1>3 DEF Enqueue, PinIInv, PinInv, InFlight
    <2>4. row'[i].status = "pending" BY <1>1, <1>3 DEF Enqueue, Row
    <2>5. PinInv(i)' BY <2>1, <2>3, <2>4, Loose
    <2> QED BY <2>1, <2>2, <2>5, PinAssemble DEF PinIInv
  <1>4. ASSUME NEW i \in Items, NEW p \in Printers, Edit(i, p) PROVE PinIInv'
    <2>1. UNCHANGED <<task, pass, stale>> BY <1>4 DEF Edit
    <2>2. row' = [row EXCEPT ![i].printer = p] BY <1>4 DEF Edit
    <2>3. \A j \in Items \ {i} : Fixed(j)
      BY <1>1, <2>1, <2>2 DEF Fixed, NoneSelected, Selected
    <2>4. row[i].status = "pending" /\ ~row[i].claimed BY <1>4 DEF Edit, Editable
    <2>5. task[i].pc \notin {"claimed", "upload", "send", "refused"}
      BY <2>4 DEF PinIInv, PinInv, IInv, SendingIsLive, Waitable
    <2>6. row'[i].status = "pending" BY <1>1, <2>2, <2>4 DEF Row
    <2>7. PinInv(i)' BY <2>1, <2>5, <2>6 DEF PinIInv, PinInv
    <2> QED BY <2>1, <2>3, <2>7, PinAssemble DEF PinIInv
  <1>5. ASSUME NEW p \in Printers, Resume(p) PROVE PinIInv'
    <2>1. UNCHANGED <<task, pass, stale>> BY <1>5 DEF Resume
    <2> DEFINE S == {i \in Items : row[i].status = "skipped" /\ row[i].printer = p}
    <2>2. row' = [i \in Items |-> IF i \in S THEN [row[i] EXCEPT !.status = "pending"]
                                  ELSE row[i]]
      BY <1>5 DEF Resume
    <2>3. \A j \in Items \ S : Fixed(j)
      BY <1>1, <2>1, <2>2 DEF Fixed, NoneSelected, Selected
    <2>4. ASSUME NEW j \in S PROVE PinInv(j)'
      <3>1. task[j].pc = "none" /\ j \notin pass.todo \intersect pass.picked
        BY DEF PinIInv, PinInv, InFlight
      <3>2. row'[j].status = "pending" BY <1>1, <2>2 DEF Row
      <3> QED BY <2>1, <3>1, <3>2, Loose
    <2> HIDE DEF S
    <2> QED BY <2>1, <2>3, <2>4, PinAssemble DEF PinIInv
  <1>6. ASSUME NEW p \in Printers, ClearPlate(p) PROVE PinIInv'
    BY <1>6, PinAssemble
    DEF PinIInv, ClearPlate, queueVars, Fixed, NoneSelected, Selected
  <1>7. ASSUME NEW i \in Items, LateCancel(i) \/ LateDelete(i) PROVE PinIInv'
    <2>1. \A j \in Items : Fixed(j)
      BY <1>1, <1>7, LateShape DEF Fixed, NoneSelected, Selected, Row, Exists
    <2> QED BY <2>1, PinAssemble
  <1>8. ASSUME NEW i \in Items, NEW ask \in Slow, Check(ask, i) PROVE PinIInv'
    BY <1>8, PinAssemble DEF PinIInv, Check, Fixed, NoneSelected, Selected
  <1>9. \A i \in Items, p \in Printers : ~BulkWrite(i, p) BY NoBulkWrite DEF PinIInv
  <1> QED BY <1>2, <1>3, <1>4, <1>5, <1>6, <1>7, <1>8, <1>9 DEF Request

-----------------------------------------------------------------------------
(* The scheduler loop.                                                     *)

\* A write of the pass to a row in its hands, which no task has in flight.
LEMMA ScanPins ==
    ASSUME PinIInv, IInv', NEW i \in Items,
           \/ HoldItem(i) \/ SkipItem(i) \/ PassAborts(i)
           \/ \E p \in Printers : \/ FailUnmappable(i, p) \/ BlockOnDeficit(i, p)
                                  \/ SelectItem(i, p)
    PROVE  PinIInv'
  <1>1. row \in [Items -> Row] /\ pass \in Pass BY DEF PinIInv, IInv, TypeOK
  <1>2. UNCHANGED <<task, stale>>
    BY DEF HoldItem, SkipItem, PassAborts, FailUnmappable, BlockOnDeficit, SelectItem
  <1>3. i \in pass.todo /\ i \notin pass.picked /\ task[i].pc = "none"
        /\ row[i].status \notin {"absent", "skipped"}
    BY DEF HoldItem, SkipItem, PassAborts, FailUnmappable, BlockOnDeficit, SelectItem,
           Considers, PinIInv, PinInv, IInv, OneActor, InFlight, Selected
  <1>4. \A j \in Items \ {i} : row'[j] = row[j]
    BY <1>1
    DEF HoldItem, SkipItem, PassAborts, FailUnmappable, BlockOnDeficit, SelectItem,
        Write, Blind
  <1>5. /\ pass'.todo \subseteq pass.todo \ {i}
        /\ pass'.picked \subseteq pass.picked \union {i}
    <2>1. CASE Drop(i) BY <1>1, <2>1 DEF Drop, Pass
    <2>2. CASE HoldItem(i) BY <1>1, <2>1, <2>2 DEF HoldItem, Pass
    <2>3. CASE PassAborts(i) BY <2>3 DEF PassAborts, AtSweep
    <2>4. ASSUME NEW p \in Printers, SelectItem(i, p)
          PROVE  /\ pass'.todo \subseteq pass.todo \ {i}
                 /\ pass'.picked \subseteq pass.picked \union {i}
      BY <1>1, <2>4 DEF SelectItem, Pass
    <2> QED
      BY <2>1, <2>2, <2>3, <2>4 DEF SkipItem, FailUnmappable, BlockOnDeficit
  <1>6. \A j \in Items \ {i} : Fixed(j)
    BY <1>2, <1>4, <1>5 DEF Fixed, NoneSelected, Selected
  <1>7. row'[i].status \in {"absent", "skipped"} => i \notin Selected'
    <2>1. CASE SkipItem(i)
      BY <1>1, <1>3, <2>1 DEF SkipItem, Drop, Selected, Pass
    <2>2. CASE ~SkipItem(i)
      <3>1. \A p \in Printers :
              Assigned(i, p) \in Row /\ Assigned(i, p).status = row[i].status
        BY <1>1 DEF Assigned, Row, MaybePrinter
      <3>2. row'[i].status \in {row[i].status, "failed"}
        <4>1. CASE HoldItem(i) \/ PassAborts(i) BY <4>1 DEF HoldItem, PassAborts
        <4>2. ASSUME NEW p \in Printers, FailUnmappable(i, p)
              PROVE  row'[i].status = "failed"
          BY <1>1, <3>1, <4>2 DEF FailUnmappable, Write
        <4>3. ASSUME NEW p \in Printers, BlockOnDeficit(i, p)
              PROVE  row'[i].status = row[i].status
          BY <1>1, <3>1, <4>3 DEF BlockOnDeficit, Write
        <4>4. ASSUME NEW p \in Printers, SelectItem(i, p)
              PROVE  row'[i].status = row[i].status
          BY <1>1, <3>1, <4>4 DEF SelectItem, Write
        <4> QED BY <2>2, <4>1, <4>2, <4>3, <4>4
      <3> QED BY <1>3, <3>2
    <2> QED BY <2>1, <2>2
  <1>8. PinInv(i)' BY <1>2, <1>3, <1>5, <1>7, Loose
  <1> QED BY <1>2, <1>6, <1>8, PinAssemble DEF PinIInv

\* Claims are released only while nothing is in flight.
LEMMA SchedulerPins ==
    ASSUME PinIInv, IInv', Scheduler
    PROVE  PinIInv'
  <1>1. row \in [Items -> Row] /\ pass \in Pass /\ task \in [Items -> Task]
    BY DEF PinIInv, IInv, TypeOK
  <1>2. ASSUME Startup \/ ClearStaleClaims PROVE PinIInv'
    <2>1. UNCHANGED <<task, stale>> /\ pass'.todo = pass.todo /\ pass'.picked = pass.picked
      BY <1>1, <1>2 DEF Startup, ClearStaleClaims, PassGoto, Pass
    <2>2. row' = row \/ (Pool = {} /\ row' = Unclaimed)
      BY <1>2 DEF Startup, ClearStaleClaims, ReleaseClaims
    <2>3. CASE row' = row
      BY <2>1, <2>3, PinAssemble DEF PinIInv, Fixed, NoneSelected, Selected
    <2>4. CASE Pool = {} /\ row' = Unclaimed
      <3>1. ASSUME NEW j \in Items PROVE PinInv(j)'
        <4>1. task[j].pc = "none" BY <2>4 DEF Pool, InFlight
        <4>2. row'[j].status = row[j].status BY <1>1, <2>4 DEF Unclaimed, Row
        <4>3. PinInv(j) BY DEF PinIInv
        <4> QED BY <2>1, <4>1, <4>2, <4>3, Loose DEF PinInv, Selected
      <3> QED BY <2>1, <3>1, PinAssemble DEF PinIInv
    <2> QED BY <2>2, <2>3, <2>4
  <1>3. ASSUME NEW S \in SUBSET Items, CloseStranded(S) PROVE PinIInv'
    <2>1. UNCHANGED <<task, stale>> /\ pass'.todo = pass.todo /\ pass'.picked = pass.picked
      BY <1>1, <1>3 DEF CloseStranded, PassGoto, Pass
    <2>2. \A j \in Items : Fixed(j)
      <3> SUFFICES ASSUME NEW j \in Items PROVE Fixed(j)
        OBVIOUS
      <3>1. CASE j \in S
        <4> DEFINE s == TerminalQueueStatus(seen[row[j].printer])
        <4>1. row[j].status = "printing" BY <1>3, <3>1 DEF CloseStranded, LongTerminal
        <4>2. row'[j] = [row[j] EXCEPT !.status = s] BY <1>3, <3>1 DEF CloseStranded
        <4>3. s \in {"completed", "failed", "cancelled"} BY DEF TerminalQueueStatus
        <4> HIDE DEF s
        <4>4. row[j] \in Row BY <1>1
        <4> QED
          BY <2>1, <4>1, <4>2, <4>3, <4>4 DEF Fixed, NoneSelected, Selected, Row
      <3>2. CASE j \notin S
        BY <1>3, <2>1, <3>2 DEF CloseStranded, Fixed, NoneSelected, Selected
      <3> QED BY <3>1, <3>2
    <2> QED BY <2>1, <2>2, PinAssemble DEF PinIInv
  <1>4. CASE PassRead
    <2>1. UNCHANGED <<row, task, stale>> BY <1>4 DEF PassRead
    <2>2. pass'.picked = {} /\ \A j \in pass'.todo : Selectable(j)
      BY <1>4 DEF PassRead, AtSweep
    <2>3. ASSUME NEW j \in Items PROVE PinInv(j)'
      <3>1. PinInv(j) BY DEF PinIInv
      <3> QED BY <2>1, <2>2, <3>1 DEF PinInv, Selected, Selectable, InFlight, Exists
    <2> QED BY <2>1, <2>3, PinAssemble DEF PinIInv
  <1>5. CASE PassPools
    <2>1. UNCHANGED <<row, task, stale>> /\ pass'.todo = pass.todo
            /\ pass'.picked = pass.picked
      BY <1>1, <1>5 DEF PassPools, Pass
    <2> QED BY <2>1, PinAssemble DEF PinIInv, Fixed, NoneSelected, Selected
  <1>6. CASE LaunchUploads
    <2>1. UNCHANGED <<row, stale>> /\ pass'.todo = {} /\ pass'.picked = {}
      BY <1>6 DEF LaunchUploads, AtSweep
    <2>2. PICK L \in SUBSET pass.picked :
            task' = [i \in Items |-> IF i \in L
                      THEN [pc |-> "launched", slot |-> pass.at[i], on |-> NoPrinter]
                      ELSE task[i]]
      BY <1>6 DEF LaunchUploads
    <2>3. ASSUME NEW j \in Items PROVE Fixed(j) \/ PinInv(j)'
      <3>1. CASE j \in L
        <4>1. row[j].status \notin {"absent", "skipped"}
          BY <3>1 DEF PinIInv, PinInv, Selected
        <4>2. task'[j].pc = "launched" BY <2>2, <3>1
        <4> QED BY <2>1, <4>1, <4>2, Loose
      <3>2. CASE j \notin L
        BY <2>1, <2>2, <3>2 DEF Fixed, NoneSelected, Selected
      <3> QED BY <3>1, <3>2
    <2> QED BY <2>1, <2>3, PinAssemble DEF PinIInv
  <1> QED BY <1>2, <1>3, <1>4, <1>5, <1>6, ScanPins DEF Scheduler

-----------------------------------------------------------------------------
(* The upload task.                                                        *)

\* The end of a task that leaves the row alone or closes it.
LEMMA EndPins ==
    ASSUME PinIInv, IInv', NEW i \in Items,
           task[i].pc \in {"claimed", "upload", "send", "refused"},
           row' = row \/ Blind(i, "failed"), Goto(i, "finish"),
           UNCHANGED <<pass, stale>>
    PROVE  PinIInv'
  <1>1. row \in [Items -> Row] /\ task \in [Items -> Task]
    BY DEF PinIInv, IInv, TypeOK
  <1>2. row' = row \/ (Exists(i) /\ row' = [row EXCEPT ![i].status = "failed"])
    BY DEF Blind, Write
  <1>3. \A j \in Items : Fixed(j)
    BY <1>1, <1>2 DEF Goto, Fixed, NoneSelected, Selected, Exists, Row, Task
  <1> QED BY <1>3, PinAssemble DEF PinIInv

\* The claim reads the row it has just marked.
LEMMA ClaimPins ==
    ASSUME PinIInv, IInv', NEW i \in Items, Claim(i)
    PROVE  PinIInv'
  <1>1. row \in [Items -> Row] /\ task \in [Items -> Task]
    BY DEF PinIInv, IInv, TypeOK
  <1>2. UNCHANGED <<pass, stale>> /\ task[i].pc = "launched" BY DEF Claim
  <1>3. CASE row[i].status = "pending" /\ ~row[i].claimed
    <2>1. row' = [row EXCEPT ![i].claimed = TRUE] BY <1>3 DEF Claim
    <2>2. task' = [task EXCEPT ![i].pc = "claimed", ![i].on = row[i].printer]
      BY <1>3 DEF Claim
    <2>3. \A j \in Items \ {i} : Fixed(j)
      BY <1>1, <1>2, <2>1, <2>2 DEF Fixed, NoneSelected, Selected
    <2>4. row'[i].claimed /\ row'[i].status = "pending" /\ task'[i].pc = "claimed"
      BY <1>1, <1>3, <2>1, <2>2 DEF Row, Task
    <2>5. PinInv(i)' BY <1>2, <2>4 DEF PinIInv, PinInv
    <2> QED BY <1>2, <2>3, <2>5, PinAssemble DEF PinIInv
  <1>4. CASE ~(row[i].status = "pending" /\ ~row[i].claimed)
    <2>1. row' = row /\ task' = [task EXCEPT ![i] = NoTask] BY <1>4 DEF Claim
    <2>2. \A j \in Items : Fixed(j)
      BY <1>1, <1>2, <2>1 DEF Fixed, NoneSelected, Selected, NoTask
    <2> QED BY <1>2, <2>2, PinAssemble DEF PinIInv
  <1> QED BY <1>3, <1>4

\* The second read is the one the upload goes by.
LEMMA RecheckPins ==
    ASSUME PinIInv, IInv', NEW i \in Items, Recheck(i)
    PROVE  PinIInv'
  <1>1. task \in [Items -> Task] BY DEF PinIInv, IInv, TypeOK
  <1>2. UNCHANGED <<row, pass, stale>> /\ task[i].pc = "claimed" BY DEF Recheck
  <1>3. CASE task' = [task EXCEPT ![i].pc = "upload", ![i].on = row[i].printer]
    <2>1. \A j \in Items \ {i} : Fixed(j)
      BY <1>1, <1>2, <1>3 DEF Fixed, NoneSelected, Selected
    <2>2. task'[i].pc = "upload" /\ task'[i].on = row[i].printer
      BY <1>1, <1>3 DEF Task
    <2>3. PinInv(i)' BY <1>2, <2>2 DEF PinIInv, PinInv, InFlight, Selected
    <2> QED BY <1>2, <2>1, <2>3, PinAssemble DEF PinIInv
  <1>4. CASE Goto(i, "finish") BY <1>2, <1>4, EndPins
  <1> QED BY <1>3, <1>4 DEF Recheck

\* What sends keeps the printer of what was uploaded.
LEMMA UploadedPins ==
    ASSUME PinIInv, IInv', NEW i \in Items, Uploaded(i)
    PROVE  PinIInv'
  <1>1. row \in [Items -> Row] /\ task \in [Items -> Task]
    BY DEF PinIInv, IInv, TypeOK
  <1>2. UNCHANGED <<pass, stale>> /\ task[i].pc = "upload" BY DEF Uploaded
  <1>3. CASE WinsCas(i)
    <2>1. row' = [row EXCEPT ![i].status = "printing"] BY <1>3 DEF Uploaded, Marked
    <2>2. task' = [task EXCEPT ![i].pc = "send"]
      BY <1>3 DEF Uploaded, Goto, AfterCas
    <2>3. \A j \in Items \ {i} : Fixed(j)
      BY <1>1, <1>2, <2>1, <2>2 DEF Fixed, NoneSelected, Selected
    <2>4. row[i].printer = task[i].on
      BY <1>2, <1>3 DEF PinIInv, PinInv, Exists, WinsCas
    <2>5. /\ row'[i].status = "printing" /\ row'[i].printer = row[i].printer
          /\ task'[i].pc = "send" /\ task'[i].on = task[i].on
      BY <1>1, <2>1, <2>2 DEF Row, Task
    <2>6. PinInv(i)' BY <1>2, <2>4, <2>5 DEF PinIInv, PinInv
    <2> QED BY <1>2, <2>3, <2>6, PinAssemble DEF PinIInv
  <1>4. CASE ~WinsCas(i) BY <1>2, <1>4, EndPins DEF Uploaded, AfterCas
  <1> QED BY <1>3, <1>4

LEMMA RefusedPins ==
    ASSUME PinIInv, IInv', NEW i \in Items, Refused(i)
    PROVE  PinIInv'
  <1>1. task \in [Items -> Task] BY DEF PinIInv, IInv, TypeOK
  <1>2. UNCHANGED <<row, pass, stale>> /\ task[i].pc = "send" BY DEF Refused
  <1>3. task' = [task EXCEPT ![i].pc = "refused"] BY DEF Refused, Goto
  <1>4. \A j \in Items \ {i} : Fixed(j)
    BY <1>1, <1>2, <1>3 DEF Fixed, NoneSelected, Selected
  <1>5. task'[i].pc = "refused" /\ task'[i].on = task[i].on BY <1>1, <1>3 DEF Task
  <1>6. PinInv(i)' BY <1>2, <1>5 DEF PinIInv, PinInv, InFlight, Selected, Exists
  <1> QED BY <1>2, <1>4, <1>6, PinAssemble DEF PinIInv

\* A refused row goes back in line only as its task ends.
LEMMA AfterRefusalPins ==
    ASSUME PinIInv, IInv', NEW i \in Items, AfterRefusal(i)
    PROVE  PinIInv'
  <1>1. row \in [Items -> Row] /\ task \in [Items -> Task]
    BY DEF PinIInv, IInv, TypeOK
  <1>2. UNCHANGED <<pass, stale>> /\ task[i].pc = "refused" BY DEF AfterRefusal
  <1>3. task' = [task EXCEPT ![i].pc = "finish"] BY DEF AfterRefusal, Goto
  <1>4. \/ row' = row
        \/ row' = [row EXCEPT ![i].status = "pending"]
        \/ row' = [row EXCEPT ![i].status = "failed"]
        \/ row' = [row EXCEPT ![i].status = "pending", ![i].attempts = @ + 1]
    BY DEF AfterRefusal, Blind, Write
  <1>5. \A j \in Items \ {i} : Fixed(j)
    BY <1>1, <1>2, <1>3, <1>4 DEF Fixed, NoneSelected, Selected
  <1>6. row[i].status \notin {"absent", "skipped"}
          /\ i \notin pass.todo \intersect pass.picked
    BY <1>2 DEF PinIInv, PinInv, InFlight
  <1>7. row'[i].status \notin {"absent", "skipped"} /\ task'[i].pc = "finish"
    BY <1>1, <1>3, <1>4, <1>6 DEF Row, Task
  <1>8. PinInv(i)' BY <1>2, <1>6, <1>7, Loose
  <1> QED BY <1>2, <1>5, <1>8, PinAssemble DEF PinIInv

LEMMA FinishPins ==
    ASSUME PinIInv, IInv', NEW i \in Items, Finish(i)
    PROVE  PinIInv'
  <1>1. row \in [Items -> Row] /\ task \in [Items -> Task]
    BY DEF PinIInv, IInv, TypeOK
  <1>2. UNCHANGED <<pass, stale>> /\ task[i].pc = "finish" BY DEF Finish
  <1>3. task' = [task EXCEPT ![i] = NoTask] BY DEF Finish
  <1>4. row' = row \/ row' = [row EXCEPT ![i].claimed = FALSE] BY DEF Finish
  <1>5. \A j \in Items \ {i} : Fixed(j)
    BY <1>1, <1>2, <1>3, <1>4 DEF Fixed, NoneSelected, Selected
  <1>6. row[i].status \notin {"absent", "skipped"}
          /\ i \notin pass.todo \intersect pass.picked
    BY <1>2 DEF PinIInv, PinInv, InFlight
  <1>7. row'[i].status = row[i].status /\ task'[i].pc = "none"
    BY <1>1, <1>3, <1>4 DEF Row, NoTask
  <1>8. PinInv(i)' BY <1>2, <1>6, <1>7, Loose
  <1> QED BY <1>2, <1>5, <1>8, PinAssemble DEF PinIInv

LEMMA UploadTaskPins ==
    ASSUME PinIInv, IInv', NEW i \in Items, UploadTask(i)
    PROVE  PinIInv'
  <1>1. CASE RejectEarly(i) BY <1>1, EndPins DEF RejectEarly
  <1>2. CASE UploadFails(i) BY <1>2, EndPins DEF UploadFails
  <1>3. CASE RackPickStale(i) BY <1>3, EndPins DEF RackPickStale
  <1>4. CASE Send(i) BY <1>4, EndPins DEF Send
  <1> QED
    BY <1>1, <1>2, <1>3, <1>4, ClaimPins, RecheckPins, UploadedPins, RefusedPins,
       AfterRefusalPins, FinishPins
    DEF UploadTask

-----------------------------------------------------------------------------
(* Watchdogs, printers, callbacks and restarts.                            *)

\* A watchdog that reverts its row finds no task on it that could be pinned.
LEMMA WatchdogPins ==
    ASSUME PinIInv, IInv', NEW i \in Items, Watchdog(i)
    PROVE  PinIInv'
  <1>1. row \in [Items -> Row] /\ task \in [Items -> Task]
    BY DEF PinIInv, IInv, TypeOK
  <1>2. UNCHANGED <<task, pass, stale>>
    BY DEF Watchdog, SeesActive, SeesSubtask, CommandRejected, StartTimeout
  <1>3. CASE row' = row
    BY <1>2, <1>3, PinAssemble DEF PinIInv, Fixed, NoneSelected, Selected
  <1>4. CASE row' # row
    <2>1. /\ watch[i].phase # "off" /\ row[i].status = "printing"
          /\ \E n, s : /\ s \in {"failed", "pending"}
                       /\ row' = [row EXCEPT ![i].attempts = n, ![i].status = s]
      <3>1. CASE CommandRejected(i)
        <4>1. row' = [row EXCEPT ![i].attempts = row[i].attempts + 1,
                                 ![i].status = "failed"]
          BY <1>1, <1>4, <3>1 DEF CommandRejected, Row
        <4> QED BY <1>4, <3>1, <4>1 DEF CommandRejected
      <3>2. CASE StartTimeout(i) BY <1>4, <3>2 DEF StartTimeout
      <3> QED BY <1>4, <3>1, <3>2 DEF Watchdog, SeesActive, SeesSubtask
    <2>2. \A j \in Items \ {i} : Fixed(j)
      BY <1>1, <1>2, <2>1 DEF Fixed, NoneSelected, Selected
    <2>3. task[i].pc \in {"none", "finish"} BY <2>1 DEF PinIInv, IInv, OneActor
    <2>4. row'[i].status \notin {"absent", "skipped"} BY <1>1, <2>1 DEF Row
    <2>5. i \notin pass.todo \intersect pass.picked BY DEF PinIInv, PinInv
    <2>6. PinInv(i)' BY <1>2, <2>3, <2>4, <2>5, Loose
    <2> QED BY <1>2, <2>2, <2>6, PinAssemble DEF PinIInv
  <1> QED BY <1>3, <1>4

LEMMA OutsidePins ==
    ASSUME PinIInv, IInv', NEW p \in Printers, Printer(p) \/ Completion(p)
    PROVE  PinIInv'
  <1>1. row \in [Items -> Row] BY DEF PinIInv, IInv, TypeOK
  <1>2. UNCHANGED <<task, pass, stale>>
    BY DEF Printer, Completion, Begin, DropJob, HearActive, HearEnd, Dismiss, Disconnect,
           Reconnect, EndPrint, RaiseGate, CloseRow, queueVars
  <1>3. CASE row' = row
    BY <1>2, <1>3, PinAssemble DEF PinIInv, Fixed, NoneSelected, Selected
  <1>4. CASE row' # row
    <2>1. CloseRow(p)
      BY <1>4 DEF Printer, Completion, Begin, DropJob, HearActive, HearEnd, Dismiss,
                  Disconnect, Reconnect, EndPrint, RaiseGate, queueVars
    <2>2. PICK i \in PrintingOn(p) :
            row' = [row EXCEPT ![i].status = TerminalQueueStatus(ending[p].result)]
      BY <1>4, <2>1 DEF CloseRow
    <2>3. TerminalQueueStatus(ending[p].result) \in {"completed", "failed", "cancelled"}
      BY DEF TerminalQueueStatus
    <2>4. row[i].status = "printing" BY <2>2 DEF PrintingOn
    <2>5. \A j \in Items : Fixed(j)
      BY <1>1, <1>2, <2>2, <2>3, <2>4 DEF Fixed, NoneSelected, Selected, Row
    <2> QED BY <1>2, <2>5, PinAssemble DEF PinIInv
  <1> QED BY <1>3, <1>4

LEMMA RestartPins ==
    ASSUME PinIInv, IInv', Restart
    PROVE  PinIInv'
  <1>1. row' = row /\ stale' = {} /\ task' = [i \in Items |-> NoTask] /\ pass' = AtBoot
    BY DEF Restart
  <1>2. \A j \in Items : task'[j].pc = "none" BY <1>1 DEF NoTask
  <1>3. pass'.todo = {} /\ pass'.picked = {} BY <1>1 DEF AtBoot, AtSweep
  <1>4. \A j \in Items : PinInv(j)' BY <1>2, <1>3, Loose DEF Selected
  <1> QED BY <1>1, <1>4, PinAssemble

-----------------------------------------------------------------------------
(* The theorem.                                                            *)

LEMMA InitPins == Init => PinIInv
  <1> SUFFICES ASSUME Init PROVE PinIInv
    OBVIOUS
  <1>1. \A j \in Items : PinInv(j)
    BY DEF Init, PinInv, InFlight, Selected, NoTask, AtBoot, AtSweep
  <1> QED BY <1>1, InitHolds DEF PinIInv, Init

LEMMA NextPins == NoBulk /\ PinIInv /\ [Next]_vars => PinIInv'
  <1> SUFFICES ASSUME NoBulk, PinIInv, [Next]_vars PROVE PinIInv'
    OBVIOUS
  <1>1. IInv' BY NextHolds DEF PinIInv
  <1>2. CASE UNCHANGED vars
    BY <1>1, <1>2, PinAssemble DEF vars, PinIInv, Fixed, NoneSelected, Selected
  <1>3. CASE Next
    BY <1>1, <1>3, RequestPins, SchedulerPins, RestartPins, UploadTaskPins, WatchdogPins,
       OutsidePins
    DEF Next
  <1> QED BY <1>2, <1>3

\* Whatever is edited, cancelled, refused, reverted or restarted meanwhile, the
\* row, its task and the printer the file was uploaded to agree from the upload
\* to the release, as long as no bulk edit is served (_claim_for_dispatch and
\* the claim check of PATCH /{id}, #2615).
THEOREM ClaimHoldsPrinter == ASSUME NoBulk PROVE Spec => []ClaimPinsPrinter
  <1>1. NoBulk /\ PinIInv /\ [Next]_vars => PinIInv' BY NextPins
  <1>2. PinIInv => ClaimPinsPrinter BY DEF PinIInv, PinInv, ClaimPinsPrinter
  <1> QED BY NoBulk, InitPins, <1>1, <1>2, PTL DEF Spec

-----------------------------------------------------------------------------
(* One row for each printer.                                               *)

NoMidPass == "editMidPass" \notin Requests

\* Row j has printer p: its task occupies the slot, or it is printing there, or
\* the pass has picked it for p.
Has(j, p) ==
    \/ task[j].slot = p
    \/ row[j].status = "printing" /\ row[j].printer = p
    \/ j \in pass.picked /\ pass.at[j] = p

SoleHolder == \A p \in Printers : \A i, j \in Items : Has(i, p) /\ Has(j, p) => i = j

\* A task that may still send.
Live(j) == task[j].pc \in {"launched", "claimed", "upload", "send", "refused"}

\* What the pass and the pool remember of row j's printer is what the row says.
SlotInv(j) ==
    /\ j \in pass.todo => pass.at[j] = row[j].printer
    /\ j \in pass.picked =>
         pass.at[j] \in Printers /\ (Exists(j) => pass.at[j] = row[j].printer)
    /\ Live(j) =>
         task[j].slot \in Printers /\ (Exists(j) => task[j].slot = row[j].printer)
    /\ row[j].status = "printing" => j \notin Selected /\ row[j].printer \in Printers
    /\ task[j].pc = "none" => task[j].slot = NoPrinter

\* A printer the scan may still choose has no row.
ScanInv ==
    pass.pc = "scan" => \A p \in Printers \ pass.busy : \A j \in Items : ~Has(j, p)

\* Between the two reads of a pass, a row that began printing since the first
\* one is still in the pool or has left its printer a hold.
PoolsInv ==
    pass.pc = "pools" =>
        /\ pass.picked = {}
        /\ \A j \in Items :
             row[j].status = "printing" /\ row[j].printer \notin pass.busy \union hold
               => task[j].pc \in {"send", "refused"}

SoleIInv ==
    PinIInv /\ SoleHolder /\ ScanInv /\ PoolsInv /\ \A j \in Items : SlotInv(j)

-----------------------------------------------------------------------------
(* Steps outside the scheduler loop.                                       *)

\* Such a step gives row j no printer it did not have.
Follows(j) ==
    /\ task'[j].slot \in {task[j].slot, NoPrinter}
    /\ Live(j)' => Live(j) /\ task'[j].slot = task[j].slot
    /\ task'[j].pc = "none" => task[j].pc = "none" \/ task'[j].slot = NoPrinter
    /\ \/ row'[j].printer = row[j].printer
       \/ ~Live(j)' /\ j \notin Selected /\ row'[j].status # "printing"
    /\ row'[j].status = "printing" => j \notin Selected
    /\ row'[j].status = "printing" /\ row[j].status # "printing"
         => Live(j) /\ Exists(j) /\ task'[j].pc = "send"
    /\ Exists(j)' => Exists(j) \/ (~Live(j)' /\ j \notin Selected)
    /\ row'[j].status = "printing" /\ task[j].pc \in {"send", "refused"}
         => task'[j].pc \in {"send", "refused"} \/ row'[j].printer \in hold'

LEMMA FollowKeeps ==
    ASSUME SoleIInv, PinIInv', pass' = pass, \A j \in Items : Follows(j),
           hold \subseteq hold' \/ pass.pc # "pools"
    PROVE  SoleIInv'
  <1>1. ASSUME NEW j \in Items PROVE SlotInv(j)'
    <2>1. SlotInv(j) /\ Follows(j) BY DEF SoleIInv
    <2> QED BY <2>1 DEF SlotInv, Follows, Selected
  <1>2. ASSUME NEW j \in Items, NEW p \in Printers, Has(j, p)' PROVE Has(j, p)
    <2>1. SlotInv(j) /\ Follows(j) BY DEF SoleIInv
    <2>2. NoPrinter \notin Printers BY ConstantsAssumption
    <2> QED BY <1>2, <2>1, <2>2 DEF SlotInv, Follows, Has, Selected
  <1>3. SoleHolder' BY <1>2 DEF SoleIInv, SoleHolder
  <1>4. ScanInv' BY <1>2 DEF SoleIInv, ScanInv
  <1>5. PoolsInv'
    <2> SUFFICES ASSUME pass.pc = "pools"
                 PROVE  \A j \in Items : row'[j].status = "printing"
                          /\ row'[j].printer \notin (pass.busy \union hold)'
                            => task'[j].pc \in {"send", "refused"}
      BY DEF SoleIInv, PoolsInv
    <2> SUFFICES ASSUME NEW j \in Items, row'[j].status = "printing",
                        row'[j].printer \notin (pass.busy \union hold)'
                 PROVE  task'[j].pc \in {"send", "refused"}
      OBVIOUS
    <2>1. Follows(j) OBVIOUS
    <2>2. CASE row[j].status # "printing" BY <2>1, <2>2 DEF Follows
    <2>3. CASE row[j].status = "printing"
      <3>1. row'[j].printer = row[j].printer \/ ~Live(j)' BY <2>1 DEF Follows
      <3>2. row'[j].printer = row[j].printer BY <2>1 DEF Follows
      <3>3. task[j].pc \in {"send", "refused"} BY <2>3, <3>2 DEF SoleIInv, PoolsInv
      <3> QED BY <2>1, <3>3 DEF Follows
    <2> QED BY <2>2, <2>3
  <1> QED BY <1>1, <1>3, <1>4, <1>5 DEF SoleIInv

\* A row left alone, with its task.
LEMMA StillFollows ==
    ASSUME SoleIInv, NEW j \in Items, row'[j] = row[j], task'[j] = task[j]
    PROVE  Follows(j)
  <1>1. SlotInv(j) BY DEF SoleIInv
  <1> QED BY <1>1 DEF Follows, SlotInv, Live, Exists

\* A row that is closed, or marked, but stays where it is.
LEMMA ClosedFollows ==
    ASSUME SoleIInv, NEW j \in Items, task'[j] = task[j],
           row'[j].printer = row[j].printer, row'[j].status # "printing", Exists(j)
    PROVE  Follows(j)
  BY DEF Follows, Live, Exists

LEMMA SoleRequests ==
    ASSUME NoBulk, NoMidPass, SoleIInv, PinIInv', Request
    PROVE  SoleIInv'
  <1>1. row \in [Items -> Row] BY DEF SoleIInv, PinIInv, IInv, TypeOK
  <1>2. ASSUME NEW i \in Items,
               Cancel(i) \/ Delete(i) \/ StartStaged(i) \/ Stop(i)
        PROVE  SoleIInv'
    <2>1. UNCHANGED <<task, pass, hold>>
      BY <1>2 DEF Cancel, Delete, StartStaged, Stop
    <2>2. /\ Exists(i)
          /\ \/ \E s \in {"cancelled", "deleted"} : row' = [row EXCEPT ![i].status = s]
             \/ row[i].status = "pending" /\ row' = [row EXCEPT ![i].staged = FALSE]
      BY <1>2 DEF Cancel, Delete, StartStaged, Stop, Exists
    <2>3. row'[i].printer = row[i].printer /\ row'[i].status # "printing"
      BY <1>1, <2>2 DEF Row
    <2>4. \A j \in Items \ {i} : row'[j] = row[j] BY <1>1, <2>2
    <2>5. \A j \in Items : Follows(j) BY <2>1, <2>2, <2>3, <2>4, StillFollows, ClosedFollows
    <2> QED BY <2>1, <2>5, FollowKeeps
  <1>3. ASSUME NEW i \in Items, NEW p \in MaybePrinter, Enqueue(i, p) PROVE SoleIInv'
    <2>1. UNCHANGED <<task, pass, hold>> BY <1>3 DEF Enqueue
    <2>2. \A j \in Items \ {i} : row'[j] = row[j] BY <1>1, <1>3 DEF Enqueue
    <2>3. row'[i].status = "pending" BY <1>1, <1>3 DEF Enqueue, Row
    <2>4. task[i].pc = "none" /\ i \notin Selected
      BY <1>3 DEF Enqueue, SoleIInv, PinIInv, PinInv, InFlight
    <2>5. Follows(i) BY <2>1, <2>3, <2>4 DEF Follows, Live
    <2> QED BY <2>1, <2>2, <2>5, StillFollows, FollowKeeps
  <1>4. ASSUME NEW i \in Items, NEW p \in Printers, Edit(i, p) PROVE SoleIInv'
    <2>1. UNCHANGED <<task, pass, hold>> BY <1>4 DEF Edit
    <2>2. \A j \in Items \ {i} : row'[j] = row[j] BY <1>1, <1>4 DEF Edit
    <2>3. row[i].status = "pending" /\ ~row[i].claimed BY <1>4 DEF Edit, Editable
    <2>4. row'[i].status = "pending" BY <1>1, <1>4, <2>3 DEF Edit, Row
    <2>5. i \notin Selected /\ task[i].pc # "launched"
      BY <1>4 DEF Edit, NoMidPass, Asked
    <2>6. ~Live(i)
      BY <2>3, <2>5
      DEF Live, SoleIInv, PinIInv, PinInv, IInv, SendingIsLive, Waitable
    <2>7. Follows(i) BY <2>1, <2>3, <2>4, <2>5, <2>6 DEF Follows, Live, Exists
    <2> QED BY <2>1, <2>2, <2>7, StillFollows, FollowKeeps
  <1>5. ASSUME NEW p \in Printers, Resume(p) PROVE SoleIInv'
    <2>1. UNCHANGED <<task, pass, hold>> BY <1>5 DEF Resume
    <2>2. ASSUME NEW j \in Items PROVE Follows(j)
      <3>1. CASE row[j].status = "skipped" /\ row[j].printer = p
        <4>1. row'[j] = [row[j] EXCEPT !.status = "pending"] BY <1>5, <3>1 DEF Resume
        <4>2. row'[j].status = "pending" /\ row'[j].printer = row[j].printer
          BY <1>1, <4>1 DEF Row
        <4> QED BY <2>1, <3>1, <4>2, ClosedFollows DEF Exists
      <3>2. CASE ~(row[j].status = "skipped" /\ row[j].printer = p)
        BY <1>5, <2>1, <3>2, StillFollows DEF Resume
      <3> QED BY <3>1, <3>2
    <2> QED BY <2>1, <2>2, FollowKeeps
  <1>6. ASSUME NEW p \in Printers, ClearPlate(p) PROVE SoleIInv'
    BY <1>6, StillFollows, FollowKeeps DEF ClearPlate, queueVars
  <1>7. ASSUME NEW i \in Items, LateCancel(i) \/ LateDelete(i) PROVE SoleIInv'
    <2>1. \A j \in Items \ {i} : row'[j] = row[j] BY <1>1, <1>7, LateShape
    <2>2. \/ row'[i] = row[i]
          \/ /\ Exists(i)
             /\ row'[i].printer = row[i].printer /\ row'[i].status # "printing"
      BY <1>1, <1>7, LateShape DEF Row
    <2>3. \A j \in Items : Follows(j)
      BY <1>7, <2>1, <2>2, LateShape, StillFollows, ClosedFollows
    <2> QED BY <1>7, <2>3, LateShape, FollowKeeps
  <1>8. ASSUME NEW i \in Items, NEW ask \in Slow, Check(ask, i) PROVE SoleIInv'
    BY <1>8, StillFollows, FollowKeeps DEF Check
  <1>9. \A i \in Items, p \in Printers : ~BulkWrite(i, p)
    BY NoBulkWrite DEF SoleIInv, PinIInv
  <1> QED BY <1>2, <1>3, <1>4, <1>5, <1>6, <1>7, <1>8, <1>9 DEF Request

\* The end of a task that leaves the row alone or closes it.
LEMMA SoleEnds ==
    ASSUME SoleIInv, PinIInv', NEW i \in Items,
           task[i].pc \in {"claimed", "upload", "send", "refused"},
           Goto(i, "finish"), pass' = pass, hold \subseteq hold',
           \/ row' = row
           \/ Exists(i) /\ row' = [row EXCEPT ![i].status = "failed"],
           row'[i].status = "printing" /\ task[i].pc \in {"send", "refused"}
             => row'[i].printer \in hold'
    PROVE  SoleIInv'
  <1>1. row \in [Items -> Row] /\ task \in [Items -> Task]
    BY DEF SoleIInv, PinIInv, IInv, TypeOK
  <1>2. task' = [task EXCEPT ![i].pc = "finish"] BY DEF Goto
  <1>3. task'[i].pc = "finish" /\ task'[i].slot = task[i].slot BY <1>1, <1>2 DEF Task
  <1>4. \A j \in Items \ {i} : row'[j] = row[j] /\ task'[j] = task[j] BY <1>1, <1>2
  <1>5. /\ row'[i].printer = row[i].printer
        /\ row'[i].status \in {row[i].status, "failed"}
        /\ Exists(i)' => Exists(i)
    BY <1>1 DEF Row, Exists
  <1>6. i \notin Selected
    BY DEF SoleIInv, PinIInv, IInv, OneActor, InFlight
  <1>7. Follows(i) BY <1>3, <1>5, <1>6 DEF Follows, Live
  <1> QED BY <1>4, <1>7, StillFollows, FollowKeeps

LEMMA SoleUploads ==
    ASSUME SoleIInv, PinIInv', NEW i \in Items, UploadTask(i)
    PROVE  SoleIInv'
  <1>1. row \in [Items -> Row] /\ task \in [Items -> Task] /\ MaxAttempts \in Nat
    BY ConstantsAssumption DEF SoleIInv, PinIInv, IInv, TypeOK
  <1>2. pass' = pass /\ hold \subseteq hold'
    BY DEF UploadTask, Claim, RejectEarly, Recheck, UploadFails, Uploaded, RackPickStale,
           Send, Refused, AfterRefusal, Finish
  <1>3. i \notin Selected
    BY DEF UploadTask, Claim, RejectEarly, Recheck, UploadFails, Uploaded, RackPickStale,
           Send, Refused, AfterRefusal, Finish, SoleIInv, PinIInv, IInv, OneActor, InFlight
  <1>4. CASE Claim(i)
    <2>1. row' = row \/ row' = [row EXCEPT ![i].claimed = TRUE] BY <1>4 DEF Claim
    <2>2. /\ task[i].pc = "launched"
          /\ \/ task' = [task EXCEPT ![i].pc = "claimed", ![i].on = row[i].printer]
             \/ task' = [task EXCEPT ![i] = NoTask]
      BY <1>4 DEF Claim
    <2>3. \/ task'[i].pc = "claimed" /\ task'[i].slot = task[i].slot
          \/ task'[i].pc = "none" /\ task'[i].slot = NoPrinter
      BY <1>1, <2>2 DEF Task, NoTask
    <2>4. row'[i].status = row[i].status /\ row'[i].printer = row[i].printer
      BY <1>1, <2>1 DEF Row
    <2>5. \A j \in Items \ {i} : row'[j] = row[j] /\ task'[j] = task[j]
      BY <1>1, <2>1, <2>2
    <2>6. Follows(i) BY <1>3, <2>2, <2>3, <2>4 DEF Follows, Live, Exists
    <2> QED BY <1>2, <2>5, <2>6, StillFollows, FollowKeeps
  <1>5. CASE Recheck(i)
    <2>1. CASE task' = [task EXCEPT ![i].pc = "upload", ![i].on = row[i].printer]
      <3>1. task[i].pc = "claimed" /\ row' = row BY <1>5 DEF Recheck
      <3>2. task'[i].pc = "upload" /\ task'[i].slot = task[i].slot BY <1>1, <2>1 DEF Task
      <3>3. \A j \in Items \ {i} : task'[j] = task[j] BY <1>1, <2>1
      <3>4. Follows(i) BY <1>3, <3>1, <3>2 DEF Follows, Live, Exists
      <3> QED BY <1>2, <3>1, <3>3, <3>4, StillFollows, FollowKeeps
    <2>2. CASE Goto(i, "finish") BY <1>2, <1>5, <2>2, SoleEnds DEF Recheck
    <2> QED BY <1>5, <2>1, <2>2 DEF Recheck
  <1>6. CASE RejectEarly(i) \/ UploadFails(i) \/ RackPickStale(i)
    <2>1. \/ Exists(i) /\ row' = [row EXCEPT ![i].status = "failed"]
          \/ ~Exists(i) /\ row' = row
      BY <1>6 DEF RejectEarly, UploadFails, RackPickStale, Blind, Write
    <2>2. row'[i].status # "printing" BY <1>1, <2>1 DEF Exists, Row
    <2> QED BY <1>2, <1>6, <2>1, <2>2, SoleEnds DEF RejectEarly, UploadFails, RackPickStale
  <1>7. CASE Uploaded(i)
    <2>1. CASE WinsCas(i)
      <3>1. row' = [row EXCEPT ![i].status = "printing"]
        BY <1>7, <2>1 DEF Uploaded, Marked
      <3>2. task' = [task EXCEPT ![i].pc = "send"]
        BY <1>7, <2>1 DEF Uploaded, Goto, AfterCas
      <3>3. task'[i].pc = "send" /\ task'[i].slot = task[i].slot
        BY <1>1, <3>2 DEF Task
      <3>4. row'[i].status = "printing" /\ row'[i].printer = row[i].printer
        BY <1>1, <3>1 DEF Row
      <3>5. task[i].pc = "upload" /\ row[i].status = "pending"
        BY <1>7, <2>1 DEF Uploaded, WinsCas
      <3>6. \A j \in Items \ {i} : row'[j] = row[j] /\ task'[j] = task[j]
        BY <1>1, <3>1, <3>2
      <3>7. Follows(i) BY <1>3, <3>3, <3>4, <3>5 DEF Follows, Live, Exists
      <3> QED BY <1>2, <3>6, <3>7, StillFollows, FollowKeeps
    <2>2. CASE ~WinsCas(i)
      BY <1>2, <1>7, <2>2, SoleEnds DEF Uploaded, AfterCas
    <2> QED BY <2>1, <2>2
  <1>8. CASE Send(i)
    <2>1. row[i].status = "printing" => row[i].printer = task[i].on
      BY <1>8 DEF Send, SoleIInv, PinIInv, PinInv, Exists
    <2>2. row' = row /\ task[i].on \in hold' /\ task[i].pc = "send" /\ Goto(i, "finish")
      BY <1>8 DEF Send
    <2> QED BY <1>2, <2>1, <2>2, SoleEnds
  <1>9. CASE Refused(i)
    <2>1. row' = row /\ task[i].pc = "send" /\ task' = [task EXCEPT ![i].pc = "refused"]
      BY <1>9 DEF Refused, Goto
    <2>2. task'[i].pc = "refused" /\ task'[i].slot = task[i].slot BY <1>1, <2>1 DEF Task
    <2>3. \A j \in Items \ {i} : task'[j] = task[j] BY <1>1, <2>1
    <2>4. Follows(i) BY <1>3, <2>1, <2>2 DEF Follows, Live, Exists
    <2> QED BY <1>2, <2>1, <2>3, <2>4, StillFollows, FollowKeeps
  <1>10. CASE AfterRefusal(i)
    <2>1. task' = [task EXCEPT ![i].pc = "finish"] /\ task[i].pc = "refused"
      BY <1>10 DEF AfterRefusal, Goto
    <2>2. \/ row' = row /\ ~Exists(i)
          \/ /\ Exists(i)
             /\ \/ row' = [row EXCEPT ![i].status = "pending"]
                \/ row' = [row EXCEPT ![i].status = "failed"]
                \/ row' = [row EXCEPT ![i].status = "pending", ![i].attempts = @ + 1]
      BY <1>10 DEF AfterRefusal, Blind, Write
    <2>3. /\ row'[i].printer = row[i].printer
          /\ row'[i].status # "printing" /\ (Exists(i)' => Exists(i))
      BY <1>1, <2>2 DEF Row, Exists
    <2>4. task'[i].pc = "finish" /\ task'[i].slot = task[i].slot BY <1>1, <2>1 DEF Task
    <2>5. \A j \in Items \ {i} : row'[j] = row[j] /\ task'[j] = task[j]
      BY <1>1, <2>1, <2>2
    <2>6. Follows(i) BY <2>3, <2>4 DEF Follows, Live
    <2> QED BY <1>2, <2>5, <2>6, StillFollows, FollowKeeps
  <1>11. CASE Finish(i)
    <2>1. task[i].pc = "finish" /\ task' = [task EXCEPT ![i] = NoTask]
      BY <1>11 DEF Finish
    <2>2. row' = row \/ row' = [row EXCEPT ![i].claimed = FALSE] BY <1>11 DEF Finish
    <2>3. row'[i].status = row[i].status /\ row'[i].printer = row[i].printer
      BY <1>1, <2>2 DEF Row
    <2>4. task'[i].pc = "none" /\ task'[i].slot = NoPrinter BY <1>1, <2>1 DEF NoTask
    <2>5. \A j \in Items \ {i} : row'[j] = row[j] /\ task'[j] = task[j]
      BY <1>1, <2>1, <2>2
    <2>6. Follows(i) BY <1>3, <2>1, <2>3, <2>4 DEF Follows, Live, Exists
    <2> QED BY <1>2, <2>5, <2>6, StillFollows, FollowKeeps
  <1> QED BY <1>4, <1>5, <1>6, <1>7, <1>8, <1>9, <1>10, <1>11 DEF UploadTask

\* A watchdog ends between passes' two reads only, and marks nothing printing.
LEMMA SoleWatchdogs ==
    ASSUME SoleIInv, PinIInv', NEW i \in Items, Watchdog(i)
    PROVE  SoleIInv'
  <1>1. row \in [Items -> Row] BY DEF SoleIInv, PinIInv, IInv, TypeOK
  <1>2. UNCHANGED <<task, pass>>
    BY DEF Watchdog, SeesActive, SeesSubtask, CommandRejected, StartTimeout
  <1>3. hold \subseteq hold' \/ pass.pc # "pools"
    BY DEF Watchdog, SeesActive, SeesSubtask, CommandRejected, StartTimeout, EndWatch
  <1>4. CASE row' = row BY <1>2, <1>3, <1>4, StillFollows, FollowKeeps
  <1>5. CASE row' # row
    <2>1. /\ row[i].status = "printing"
          /\ \E n, s : /\ s \in {"failed", "pending"}
                       /\ row' = [row EXCEPT ![i].attempts = n, ![i].status = s]
      <3>1. CASE CommandRejected(i)
        <4>1. row' = [row EXCEPT ![i].attempts = row[i].attempts + 1,
                                 ![i].status = "failed"]
          BY <1>1, <1>5, <3>1 DEF CommandRejected, Row
        <4> QED BY <1>5, <3>1, <4>1 DEF CommandRejected
      <3>2. CASE StartTimeout(i) BY <1>5, <3>2 DEF StartTimeout
      <3> QED BY <1>5, <3>1, <3>2 DEF Watchdog, SeesActive, SeesSubtask
    <2>2. \A j \in Items \ {i} : row'[j] = row[j] BY <1>1, <2>1
    <2>3. row'[i].printer = row[i].printer /\ row'[i].status # "printing"
      BY <1>1, <2>1 DEF Row
    <2>4. Follows(i) BY <1>2, <2>1, <2>3, ClosedFollows DEF Exists
    <2> QED BY <1>2, <1>3, <2>2, <2>4, StillFollows, FollowKeeps
  <1> QED BY <1>4, <1>5

LEMMA SoleOutside ==
    ASSUME SoleIInv, PinIInv', NEW p \in Printers, Printer(p) \/ Completion(p)
    PROVE  SoleIInv'
  <1>1. row \in [Items -> Row] BY DEF SoleIInv, PinIInv, IInv, TypeOK
  <1>2. UNCHANGED <<task, pass, hold>>
    BY DEF Printer, Completion, Begin, DropJob, HearActive, HearEnd, Dismiss, Disconnect,
           Reconnect, EndPrint, RaiseGate, CloseRow, queueVars
  <1>3. CASE row' = row BY <1>2, <1>3, StillFollows, FollowKeeps
  <1>4. CASE row' # row
    <2>1. CloseRow(p)
      BY <1>4 DEF Printer, Completion, Begin, DropJob, HearActive, HearEnd, Dismiss,
                  Disconnect, Reconnect, EndPrint, RaiseGate, queueVars
    <2>2. PICK i \in PrintingOn(p) :
            row' = [row EXCEPT ![i].status = TerminalQueueStatus(ending[p].result)]
      BY <1>4, <2>1 DEF CloseRow
    <2>3. TerminalQueueStatus(ending[p].result) \in {"completed", "failed", "cancelled"}
      BY DEF TerminalQueueStatus
    <2>4. i \in Items /\ row[i].status = "printing" BY <2>2 DEF PrintingOn
    <2>5. row'[i].printer = row[i].printer /\ row'[i].status # "printing"
      BY <1>1, <2>2, <2>3, <2>4 DEF Row
    <2>6. \A j \in Items \ {i} : row'[j] = row[j] BY <1>1, <2>2
    <2>7. Follows(i) BY <1>2, <2>4, <2>5, ClosedFollows DEF Exists
    <2> QED BY <1>2, <2>4, <2>6, <2>7, StillFollows, FollowKeeps
  <1> QED BY <1>3, <1>4

\* After a restart a printer is had by the row printing on it alone.
LEMMA SoleRestart ==
    ASSUME SoleIInv, PinIInv', Restart
    PROVE  SoleIInv'
  <1>1. row' = row /\ pass'.pc = "boot" /\ pass'.todo = {} /\ pass'.picked = {}
    BY DEF Restart, AtBoot, AtSweep
  <1>2. \A j \in Items : task'[j].pc = "none" /\ task'[j].slot = NoPrinter
    BY DEF Restart, NoTask
  <1>3. \A j \in Items : SlotInv(j)'
    BY <1>1, <1>2 DEF SoleIInv, SlotInv, Live, Selected
  <1>4. \A p \in Printers : \A j \in Items : Has(j, p)' => Has(j, p)
    BY <1>1, <1>2, ConstantsAssumption DEF Has
  <1>5. SoleHolder' BY <1>4 DEF SoleHolder, SoleIInv
  <1> QED BY <1>1, <1>3, <1>5 DEF SoleIInv, ScanInv, PoolsInv

-----------------------------------------------------------------------------
(* The scheduler loop.                                                     *)

\* Before its reads a pass has nothing in hand.
LEMMA SoleSweeps ==
    ASSUME SoleIInv, PinIInv',
           Startup \/ ClearStaleClaims \/ \E S \in SUBSET Items : CloseStranded(S)
    PROVE  SoleIInv'
  <1>1. row \in [Items -> Row] /\ pass \in Pass
    BY DEF SoleIInv, PinIInv, IInv, TypeOK
  <1>2. task' = task /\ pass'.todo = pass.todo /\ pass'.picked = pass.picked
        /\ pass'.at = pass.at /\ pass'.pc \notin {"scan", "pools"}
    BY <1>1 DEF Startup, ClearStaleClaims, CloseStranded, PassGoto, Pass
  <1>3. ASSUME NEW j \in Items
        PROVE  /\ row'[j].printer = row[j].printer
               /\ row'[j].status = "printing" => row[j].status = "printing"
               /\ Exists(j)' => Exists(j)
    <2>1. ASSUME ReleaseClaims
          PROVE  row'[j].printer = row[j].printer /\ row'[j].status = row[j].status
      BY <1>1, <2>1 DEF ReleaseClaims, Unclaimed, Row
    <2>2. ASSUME NEW S \in SUBSET Items, CloseStranded(S)
          PROVE  /\ row'[j].printer = row[j].printer
                 /\ row'[j].status = row[j].status \/ (row[j].status = "printing"
                       /\ row'[j].status \in {"completed", "failed", "cancelled"})
      <3> DEFINE s == TerminalQueueStatus(seen[row[j].printer])
      <3>1. s \in {"completed", "failed", "cancelled"} BY DEF TerminalQueueStatus
      <3>2. row'[j] = IF j \in S THEN [row[j] EXCEPT !.status = s] ELSE row[j]
        BY <2>2 DEF CloseStranded
      <3>3. j \in S => row[j].status = "printing"
        BY <2>2 DEF CloseStranded, LongTerminal
      <3> HIDE DEF s
      <3>4. row[j] \in Row BY <1>1
      <3> QED BY <3>1, <3>2, <3>3, <3>4 DEF Row
    <2> QED BY <2>1, <2>2 DEF Startup, ClearStaleClaims, Exists
  <1>4. \A j \in Items : SlotInv(j)'
    BY <1>2, <1>3 DEF SoleIInv, SlotInv, Selected, Live
  <1>5. \A p \in Printers : \A j \in Items : Has(j, p)' => Has(j, p)
    BY <1>2, <1>3 DEF Has
  <1>6. SoleHolder' BY <1>5 DEF SoleHolder, SoleIInv
  <1> QED BY <1>2, <1>4, <1>6 DEF SoleIInv, ScanInv, PoolsInv

\* The first read: no row is printing on a printer that is not busy.
LEMMA SolePassRead ==
    ASSUME SoleIInv, PinIInv', PassRead
    PROVE  SoleIInv'
  <1>1. row \in [Items -> Row] BY DEF SoleIInv, PinIInv, IInv, TypeOK
  <1>2. UNCHANGED <<row, task>> BY DEF PassRead
  <1>3. /\ pass'.picked = {} /\ pass'.pc # "scan"
        /\ \A j \in pass'.todo : Selectable(j) /\ pass'.at[j] = row[j].printer
        /\ pass'.pc = "pools" => pass'.busy = {p \in Printers : PrintingOn(p) # {}}
    BY DEF PassRead, AtSweep
  <1>4. \A j \in Items : SlotInv(j)'
    BY <1>2, <1>3 DEF SoleIInv, SlotInv, Selected, Live, Exists, Selectable
  <1>5. \A p \in Printers : \A j \in Items : Has(j, p)' => Has(j, p)
    BY <1>2, <1>3 DEF Has
  <1>6. SoleHolder' BY <1>5 DEF SoleHolder, SoleIInv
  <1>7. PoolsInv'
    <2> SUFFICES ASSUME pass'.pc = "pools", NEW j \in Items, row[j].status = "printing",
                        row[j].printer \notin pass'.busy
                 PROVE  task[j].pc \in {"send", "refused"}
      BY <1>2, <1>3 DEF PoolsInv
    <2>1. row[j].printer \in Printers BY DEF SoleIInv, SlotInv
    <2> QED BY <1>3, <2>1 DEF PrintingOn
  <1> QED BY <1>3, <1>4, <1>6, <1>7 DEF SoleIInv, ScanInv

\* The second read adds the pool and the holds: together with the first it
\* leaves out no printer that a row has.
LEMMA SolePassPools ==
    ASSUME SoleIInv, PinIInv', PassPools
    PROVE  SoleIInv'
  <1>1. pass \in Pass BY DEF SoleIInv, PinIInv, IInv, TypeOK
  <1>2. UNCHANGED <<row, task, hold>> /\ pass.pc = "pools" BY DEF PassPools
  <1>3. /\ pass'.todo = pass.todo /\ pass'.picked = pass.picked /\ pass'.at = pass.at
        /\ pass'.pc = "scan" /\ pass'.busy = pass.busy \union hold \union Uploading
    BY <1>1 DEF PassPools, Unavailable, Pass
  <1>4. \A j \in Items : SlotInv(j)'
    BY <1>2, <1>3 DEF SoleIInv, SlotInv, Selected, Live, Exists
  <1>5. \A p \in Printers : \A j \in Items : Has(j, p)' => Has(j, p)
    BY <1>2, <1>3 DEF Has
  <1>6. SoleHolder' BY <1>5 DEF SoleHolder, SoleIInv
  <1>7. ASSUME NEW p \in Printers \ pass'.busy, NEW j \in Items, Has(j, p) PROVE FALSE
    <2>1. p \notin pass.busy \union hold /\ p \notin Uploading BY <1>3
    <2>2. SlotInv(j) BY DEF SoleIInv
    <2>3. task[j].slot # p
      BY <2>1, <2>2, ConstantsAssumption DEF Uploading, Pool, InFlight, SlotInv
    <2>4. pass.picked = {} BY <1>2 DEF SoleIInv, PoolsInv
    <2>5. row[j].status = "printing" /\ row[j].printer = p BY <1>7, <2>3, <2>4 DEF Has
    <2>6. task[j].pc \in {"send", "refused"}
      BY <1>2, <2>1, <2>5 DEF SoleIInv, PoolsInv
    <2> QED BY <2>2, <2>3, <2>5, <2>6 DEF SlotInv, Live, Exists
  <1>8. ScanInv' BY <1>5, <1>7 DEF ScanInv
  <1> QED BY <1>3, <1>4, <1>6, <1>8 DEF SoleIInv, PoolsInv

\* A decision that picks nothing: the row may be closed or moved, the printer it
\* is moved to is one it does not yet have.
LEMMA SoleDecides ==
    ASSUME SoleIInv, PinIInv', NEW i \in Items, Considers(i),
           \/ HoldItem(i) \/ SkipItem(i) \/ PassAborts(i)
           \/ \E p \in Printers : FailUnmappable(i, p) \/ BlockOnDeficit(i, p)
    PROVE  SoleIInv'
  <1>1. row \in [Items -> Row] /\ pass \in Pass
    BY DEF SoleIInv, PinIInv, IInv, TypeOK
  <1>2. task' = task /\ i \in Selected
    BY DEF HoldItem, SkipItem, PassAborts, FailUnmappable, BlockOnDeficit, Considers,
           Selected
  <1>3. \/ /\ pass'.pc = pass.pc /\ pass'.at = pass.at /\ pass'.picked = pass.picked
           /\ pass'.todo = pass.todo \ {i} /\ pass.busy \subseteq pass'.busy
        \/ pass' = AtSweep
    <2>1. CASE Drop(i) BY <1>1, <2>1 DEF Drop, Pass
    <2>2. CASE HoldItem(i) BY <1>1, <2>1, <2>2 DEF HoldItem, Pass
    <2> QED BY <2>1, <2>2 DEF SkipItem, PassAborts, FailUnmappable, BlockOnDeficit
  <1>4. \A j \in Items \ {i} : row'[j] = row[j]
    BY <1>1
    DEF HoldItem, SkipItem, PassAborts, FailUnmappable, BlockOnDeficit, Write, Blind
  <1>5. i \notin pass.picked /\ row[i].status # "printing" /\ task[i].pc = "none"
    BY <1>2
    DEF Considers, SoleIInv, SlotInv, PinIInv, PinInv, IInv, OneActor, InFlight
  <1>6. row'[i].status # "printing"
    <2>1. CASE row' = row BY <1>5, <2>1
    <2>2. CASE SkipItem(i) BY <1>1, <2>2 DEF SkipItem, Blind, Write, Row
    <2>3. ASSUME NEW p \in Printers, FailUnmappable(i, p) \/ BlockOnDeficit(i, p)
          PROVE  row'[i].status # "printing"
      <3>1. Assigned(i, p) \in Row /\ Assigned(i, p).status = row[i].status
        BY <1>1 DEF Assigned, Row, MaybePrinter
      <3>2. \/ row' = [row EXCEPT ![i] = [Assigned(i, p) EXCEPT !.status = "failed"]]
            \/ row' = [row EXCEPT ![i] = [Assigned(i, p) EXCEPT !.staged = TRUE]]
            \/ row' = row
        BY <2>3 DEF FailUnmappable, BlockOnDeficit, Write
      <3> QED BY <1>1, <1>5, <3>1, <3>2 DEF Row
    <2> QED BY <2>1, <2>2, <2>3 DEF HoldItem, PassAborts
  <1>7. i \notin Selected'
    BY <1>3, <1>5 DEF Selected, AtSweep
  <1>8. ASSUME NEW j \in Items PROVE SlotInv(j)'
    <2>1. SlotInv(j) BY DEF SoleIInv
    <2>2. CASE j = i
      BY <1>2, <1>5, <1>6, <1>7, <2>1, <2>2 DEF SlotInv, Live, Selected
    <2>3. CASE j # i
      BY <1>2, <1>3, <1>4, <2>1, <2>3 DEF SlotInv, Live, Selected, Exists, AtSweep
    <2> QED BY <2>2, <2>3
  <1>9. \A p \in Printers : \A j \in Items : Has(j, p)' => Has(j, p)
    BY <1>2, <1>3, <1>4, <1>6 DEF Has, AtSweep
  <1>10. SoleHolder' BY <1>9 DEF SoleHolder, SoleIInv
  <1>11. ScanInv' BY <1>3, <1>9 DEF ScanInv, SoleIInv, AtSweep
  <1>12. PoolsInv' BY <1>3 DEF PoolsInv, Considers, AtSweep
  <1> QED BY <1>8, <1>10, <1>11, <1>12 DEF SoleIInv

\* The scan picks a row for a printer no row has, and takes it out of the pass.
LEMMA SolePicks ==
    ASSUME SoleIInv, PinIInv', NEW i \in Items, NEW q \in Printers, SelectItem(i, q)
    PROVE  SoleIInv'
  <1>1. row \in [Items -> Row] /\ pass \in Pass
    BY DEF SoleIInv, PinIInv, IInv, TypeOK
  <1>2. /\ task' = task /\ pass.pc = "scan" /\ i \in pass.todo /\ q \notin pass.busy
        /\ pass.at[i] \in {q, NoPrinter} /\ (Exists(i) \/ pass.at[i] # NoPrinter)
    BY DEF SelectItem, Considers, Choices
  <1>3. /\ pass'.pc = "scan" /\ pass'.at = [pass.at EXCEPT ![i] = q]
        /\ pass'.picked = pass.picked \union {i} /\ pass'.todo = pass.todo \ {i}
        /\ pass'.busy = pass.busy \union {q}
    BY <1>1, <1>2 DEF SelectItem, Pass
  <1>4. pass'.at[i] = q /\ \A j \in Items \ {i} : pass'.at[j] = pass.at[j]
    BY <1>1, <1>3 DEF Pass
  <1>5. \A j \in Items \ {i} : row'[j] = row[j]
    BY <1>1 DEF SelectItem, Write
  <1>6. row[i].status # "printing" /\ task[i].pc = "none" /\ pass.at[i] = row[i].printer
    BY <1>2
    DEF SoleIInv, SlotInv, PinIInv, PinInv, IInv, OneActor, InFlight, Selected
  <1>7. row'[i].status = row[i].status /\ (Exists(i) => row'[i].printer = q)
    <2>1. CASE Exists(i)
      <3>1. row' = [row EXCEPT ![i] = Assigned(i, q)] BY <2>1 DEF SelectItem, Write
      <3>2. Assigned(i, q).status = row[i].status /\ Assigned(i, q).printer = q
        BY <1>1, <1>2, <1>6 DEF Assigned, Row
      <3> QED BY <1>1, <3>1, <3>2
    <2>2. CASE ~Exists(i) BY <2>2 DEF SelectItem, Write
    <2> QED BY <2>1, <2>2
  <1>8. ASSUME NEW j \in Items PROVE SlotInv(j)'
    <2>1. SlotInv(j) BY DEF SoleIInv
    <2>2. CASE j = i
      BY <1>2, <1>3, <1>4, <1>6, <1>7, <2>1, <2>2 DEF SlotInv, Live, Selected, Exists
    <2>3. CASE j # i
      BY <1>2, <1>3, <1>4, <1>5, <2>1, <2>3 DEF SlotInv, Live, Selected, Exists
    <2> QED BY <2>2, <2>3
  <1>9. \A p \in Printers : \A j \in Items :
          Has(j, p)' => Has(j, p) \/ (j = i /\ p = q)
    BY <1>2, <1>3, <1>4, <1>5, <1>6, <1>7 DEF Has
  <1>10. \A j \in Items : ~Has(j, q) BY <1>2 DEF SoleIInv, ScanInv
  <1>11. \A p \in Printers : Has(i, p)' => p = q
    BY <1>2, <1>3, <1>4, <1>6, <1>7, ConstantsAssumption DEF Has, SoleIInv, SlotInv
  <1>12. SoleHolder' BY <1>9, <1>10, <1>11 DEF SoleHolder, SoleIInv
  <1>13. ScanInv' BY <1>2, <1>3, <1>9 DEF ScanInv, SoleIInv
  <1> QED BY <1>3, <1>8, <1>12, <1>13 DEF SoleIInv, PoolsInv

\* The pool takes over the printers the pass had picked.
LEMMA SoleLaunch ==
    ASSUME SoleIInv, PinIInv', LaunchUploads
    PROVE  SoleIInv'
  <1>1. PICK L \in SUBSET pass.picked :
          task' = [i \in Items |-> IF i \in L
                    THEN [pc |-> "launched", slot |-> pass.at[i], on |-> NoPrinter]
                    ELSE task[i]]
    BY DEF LaunchUploads
  <1>2. row' = row /\ pass'.pc = "sweep" /\ pass'.todo = {} /\ pass'.picked = {}
    BY DEF LaunchUploads, AtSweep
  <1>3. ASSUME NEW j \in Items PROVE SlotInv(j)'
    <2>1. SlotInv(j) BY DEF SoleIInv
    <2>2. CASE j \in L
      <3>1. task'[j].pc = "launched" /\ task'[j].slot = pass.at[j] BY <1>1, <2>2
      <3> QED BY <1>2, <2>1, <2>2, <3>1 DEF SlotInv, Live, Selected, Exists
    <2>3. CASE j \notin L
      BY <1>1, <1>2, <2>1, <2>3 DEF SlotInv, Live, Selected, Exists
    <2> QED BY <2>2, <2>3
  <1>4. \A p \in Printers : \A j \in Items : Has(j, p)' => Has(j, p)
    BY <1>1, <1>2 DEF Has
  <1>5. SoleHolder' BY <1>4 DEF SoleHolder, SoleIInv
  <1> QED BY <1>2, <1>3, <1>5 DEF SoleIInv, ScanInv, PoolsInv

LEMMA SoleScheduler ==
    ASSUME SoleIInv, PinIInv', Scheduler
    PROVE  SoleIInv'
  <1>1. ASSUME NEW i \in Items,
               \/ HoldItem(i) \/ SkipItem(i) \/ PassAborts(i)
               \/ \E p \in Printers : FailUnmappable(i, p) \/ BlockOnDeficit(i, p)
        PROVE  SoleIInv'
    <2>1. Considers(i)
      BY <1>1 DEF HoldItem, SkipItem, PassAborts, FailUnmappable, BlockOnDeficit
    <2> QED BY <1>1, <2>1, SoleDecides
  <1> QED
    BY <1>1, SoleSweeps, SolePassRead, SolePassPools, SolePicks, SoleLaunch
    DEF Scheduler

-----------------------------------------------------------------------------
(* The theorem.                                                            *)

LEMMA InitSole == Init => SoleIInv
  <1> SUFFICES ASSUME Init PROVE SoleIInv
    OBVIOUS
  <1>1. /\ pass.pc = "boot" /\ pass.todo = {} /\ pass.picked = {}
        /\ \A j \in Items : /\ task[j].pc = "none" /\ task[j].slot = NoPrinter
                           /\ row[j].status = "absent"
    BY DEF Init, AtBoot, AtSweep, NoTask
  <1>2. \A j \in Items : SlotInv(j) BY <1>1 DEF SlotInv, Live, Selected
  <1>3. SoleHolder BY <1>1, ConstantsAssumption DEF SoleHolder, Has
  <1> QED BY <1>1, <1>2, <1>3, InitPins DEF SoleIInv, ScanInv, PoolsInv

LEMMA NextSole == NoBulk /\ NoMidPass /\ SoleIInv /\ [Next]_vars => SoleIInv'
  <1> SUFFICES ASSUME NoBulk, NoMidPass, SoleIInv, [Next]_vars PROVE SoleIInv'
    OBVIOUS
  <1>1. PinIInv' BY NextPins DEF SoleIInv
  <1>2. CASE UNCHANGED vars BY <1>1, <1>2, StillFollows, FollowKeeps DEF vars
  <1>3. CASE Next
    BY <1>1, <1>3, SoleRequests, SoleScheduler, SoleRestart, SoleUploads, SoleWatchdogs,
       SoleOutside
    DEF Next
  <1> QED BY <1>2, <1>3

\* A row that prints has its printer, so two of them have two printers.
LEMMA SoleImplies == SoleIInv => OneRowPerPrinter
  BY DEF SoleIInv, SoleHolder, SlotInv, Has, OneRowPerPrinter

\* No two rows are ever printing on one printer, whatever crashes, connections
\* and commands are lost, holds lapse and rows are stopped, as long as no bulk
\* edit and no edit of a row in a pass's hands is served: the busy set, the pool
\* and the holds leave no gap (check_queue, _launch_uploads).
THEOREM PrintersAreNotShared ==
    ASSUME NoBulk, NoMidPass PROVE Spec => []OneRowPerPrinter
  <1>1. NoBulk /\ NoMidPass /\ SoleIInv /\ [Next]_vars => SoleIInv' BY NextSole
  <1> QED BY NoBulk, NoMidPass, InitSole, <1>1, SoleImplies, PTL DEF Spec

=============================================================================
