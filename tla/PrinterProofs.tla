---------------------------- MODULE PrinterProofs ----------------------------
(***************************************************************************)
(* What the printers are made to do, for any number of rows and printers:  *)
(* a job begins at most once, a command finds its printer free and its     *)
(* plate clear, a cancelled row stays cancelled, a completed one was       *)
(* printed, and the queue implements the board of jobs.                    *)
(*                                                                         *)
(* Each theorem names the requests and faults it does without, because     *)
(* with them TLC finds it violated; the README names the one exception.    *)
(***************************************************************************)
EXTENDS ExclusionProofs, DispatchBoard

NoLate    == "late" \notin Faults
NoOffline == "offline" \notin Faults

\* Row k's job has not begun and no printer holds it.
Fresh(k) == prints[k] = 0 /\ \A p \in Printers : machine[p].job # k

\* A row that may yet be sent.
Ready(k) == row[k].status \in Waitable \/ k \in Selected \/ Live(k)

\* A row whose watchdog may yet put it back in line.
Watched(k) == watch[k].phase # "off" /\ row[k].status = "printing"

OnIt(k) == /\ machine[watch[k].on].job = k
           /\ machine[watch[k].on].phase \in {"loaded", "running"}

\* What may be sent, or sent again, is fresh; a watchdog in doubt looks at the
\* printer that has the job.
OnceInv(k) ==
    /\ Ready(k) => Fresh(k)
    /\ Watched(k) => /\ watch[k].on = row[k].printer /\ watch[k].on \in online
                     /\ Fresh(k) \/ OnIt(k)
    /\ prints[k] \in {0, 1}

\* A job is held by one printer, which has not begun it while it is loaded.
HeldInv ==
    \A p \in Printers :
        /\ machine[p].phase = "free" <=> machine[p].job = NoJob
        /\ machine[p].phase = "loaded" => prints[machine[p].job] = 0
        /\ \A q \in Printers : machine[p].job = machine[q].job
                                 => machine[p].job = NoJob \/ p = q

OnceIInv == SoleIInv /\ HeldInv /\ \A k \in Items : OnceInv(k)

LEMMA Types ==
    ASSUME SoleIInv
    PROVE  /\ row \in [Items -> Row] /\ task \in [Items -> Task]
           /\ watch \in [Items -> Watch] /\ pass \in Pass
           /\ machine \in [Printers -> Machine] /\ online \subseteq Printers
           /\ seen \in [Printers -> Results \union {"ACTIVE"}]
           /\ ending \in [Printers -> Ending] /\ prints \in [Items -> 0..2]
           /\ awaiting \subseteq Printers /\ dirty \subseteq Printers
           /\ NoJob \notin Items /\ NoPrinter \notin Printers
           /\ MaxAttempts \in Nat \ {0} /\ Batch \subseteq Items
  BY ConstantsAssumption DEF SoleIInv, PinIInv, IInv, TypeOK

\* The rows' side of a step: row k comes no nearer to a printer, and a watchdog
\* that still guards it guards the same printer.
RowTame(k) ==
    /\ Ready(k)' => Ready(k) \/ Fresh(k)
    /\ Watched(k)' => /\ Watched(k) /\ watch'[k].on = watch[k].on
                      /\ row'[k].printer = row[k].printer
                      /\ watch[k].on \in online'

\* The printers' side: nothing takes up row k's job, and nothing but an end its
\* watchdog cannot miss drops it.
HandTame(k) ==
    /\ prints'[k] \in {0, 1}
    /\ Fresh(k) => Fresh(k)'
    /\ Watched(k) /\ Watched(k)' /\ OnIt(k) => Fresh(k)' \/ OnIt(k)'

LEMMA TameKeeps ==
    ASSUME NEW k \in Items, OnceInv(k), RowTame(k), HandTame(k)
    PROVE  OnceInv(k)'
  BY DEF OnceInv, RowTame, HandTame

\* A step that leaves the printers alone.
LEMMA HandsOff ==
    ASSUME OnceIInv, SoleIInv', UNCHANGED <<machine, prints>>,
           \A k \in Items : RowTame(k)
    PROVE  OnceIInv'
  <1>1. HeldInv' BY DEF OnceIInv, HeldInv
  <1>2. ASSUME NEW k \in Items PROVE OnceInv(k)'
    <2>1. OnceInv(k) /\ RowTame(k) BY DEF OnceIInv
    <2>2. HandTame(k) BY <2>1 DEF OnceInv, RowTame, HandTame, Fresh, OnIt
    <2> QED BY <2>1, <2>2, TameKeeps
  <1> QED BY <1>1, <1>2 DEF OnceIInv

\* A row left alone, with its task and its watchdog.
LEMMA StillTame ==
    ASSUME NEW k \in Items, OnceInv(k), row'[k] = row[k], task'[k] = task[k],
           watch'[k] = watch[k], k \in Selected' => k \in Selected,
           Watched(k) => watch[k].on \in online'
    PROVE  RowTame(k)
  BY DEF RowTame, Ready, Watched, Live, OnceInv

\* A row that is closed.
LEMMA ClosedTame ==
    ASSUME NEW k \in Items, row'[k].status \notin Waitable \union {"printing"},
           k \in Selected' => Ready(k), Live(k)' => Ready(k)
    PROVE  RowTame(k)
  BY DEF RowTame, Ready, Watched

-----------------------------------------------------------------------------
(* Requests.                                                               *)

LEMMA OnceRequests ==
    ASSUME NoBulk, OnceIInv, SoleIInv', Request
    PROVE  OnceIInv'
  <1>0. SoleIInv BY DEF OnceIInv
  <1>1. row \in [Items -> Row] /\ machine \in [Printers -> Machine] BY <1>0, Types
  <1>2. ASSUME NEW i \in Items, Cancel(i) \/ Delete(i) PROVE OnceIInv'
    <2>1. UNCHANGED <<task, pass, watch, online, machine, prints>>
      BY <1>2 DEF Cancel, Delete, printerVars
    <2>2. \E s \in {"cancelled", "deleted"} : row' = [row EXCEPT ![i].status = s]
      BY <1>2 DEF Cancel, Delete
    <2>3. row'[i].status \in {"cancelled", "deleted"} BY <1>1, <2>2 DEF Row
    <2>4. \A k \in Items \ {i} : row'[k] = row[k] BY <1>1, <2>2
    <2>5. RowTame(i) BY <2>1, <2>3, ClosedTame DEF Waitable, Ready, Selected, Live
    <2>6. ASSUME NEW k \in Items \ {i} PROVE RowTame(k)
      <3>1. OnceInv(k) BY DEF OnceIInv
      <3> QED BY <2>1, <2>4, <3>1, StillTame DEF Selected, OnceInv
    <2> QED BY <2>1, <2>5, <2>6, HandsOff
  <1>3. ASSUME NEW i \in Items, NEW p \in MaybePrinter,
               Enqueue(i, p) \/ StartStaged(i) \/ (p \in Printers /\ Edit(i, p))
        PROVE  OnceIInv'
    <2>1. UNCHANGED <<task, pass, watch, online, machine, prints>>
      BY <1>3 DEF Enqueue, StartStaged, Edit, printerVars
    <2>2. row[i].status \in Waitable
      BY <1>3 DEF Enqueue, StartStaged, Edit, Editable, Waitable
    <2>3. /\ \A k \in Items \ {i} : row'[k] = row[k]
          /\ row'[i].status = "pending"
      BY <1>1, <1>3 DEF Enqueue, StartStaged, Edit, Editable, Row
    <2>4. RowTame(i) BY <2>2, <2>3 DEF RowTame, Ready, Watched
    <2>5. ASSUME NEW k \in Items \ {i} PROVE RowTame(k)
      <3>1. OnceInv(k) BY DEF OnceIInv
      <3> QED BY <2>1, <2>3, <3>1, StillTame DEF Selected, OnceInv
    <2> QED BY <2>1, <2>4, <2>5, HandsOff
  <1>4. ASSUME NEW p \in Printers, Resume(p) PROVE OnceIInv'
    <2>1. UNCHANGED <<task, pass, watch, online, machine, prints>>
      BY <1>4 DEF Resume, printerVars
    <2>2. ASSUME NEW k \in Items PROVE RowTame(k)
      <3>1. OnceInv(k) BY DEF OnceIInv
      <3>2. CASE row[k].status = "skipped" /\ row[k].printer = p
        <4>1. row'[k] = [row[k] EXCEPT !.status = "pending"] BY <1>4, <3>2 DEF Resume
        <4>2. row'[k].status = "pending" BY <1>1, <4>1 DEF Row
        <4> QED BY <3>2, <4>2 DEF RowTame, Ready, Watched, Waitable
      <3>3. CASE ~(row[k].status = "skipped" /\ row[k].printer = p)
        <4>1. row'[k] = row[k] BY <1>4, <3>3 DEF Resume
        <4> QED BY <2>1, <3>1, <4>1, StillTame DEF Selected, OnceInv
      <3> QED BY <3>2, <3>3
    <2> QED BY <2>1, <2>2, HandsOff
  <1>5. ASSUME NEW p \in Printers, ClearPlate(p) PROVE OnceIInv'
    <2>1. UNCHANGED <<row, task, pass, watch, online, machine, prints>>
      BY <1>5 DEF ClearPlate, queueVars
    <2> QED BY <2>1, StillTame, HandsOff DEF OnceIInv, OnceInv, Selected
  <1>6. ASSUME NEW i \in Items, Stop(i) PROVE OnceIInv'
    <2> DEFINE p == row[i].printer
    <2>1. UNCHANGED <<task, pass, watch, online, prints>> BY <1>6 DEF Stop
    <2>2. row[i].status = "printing" /\ row' = [row EXCEPT ![i].status = "cancelled"]
      BY <1>6 DEF Stop
    <2>3. row'[i].status = "cancelled" /\ \A k \in Items \ {i} : row'[k] = row[k]
      BY <1>1, <2>2 DEF Row
    <2>4. p \in Printers BY <1>0, <2>2 DEF SoleIInv, SlotInv
    <2>5. \A q \in Printers : \/ q # p /\ machine'[q] = machine[q]
                              \/ q = p /\ machine'[q] = machine[q]
                              \/ q = p /\ machine'[q] = Free
                              \/ /\ q = p /\ machine'[q].job = machine[q].job
                                 /\ machine[q].phase = "running"
                                 /\ machine'[q].phase = "FAILED"
      BY <1>1, <1>6, <2>4 DEF Stop, Machine
    <2>6. HeldInv'
      BY <1>0, <1>1, <2>1, <2>5, Types DEF OnceIInv, HeldInv, Free, Machine
    <2>7. \A k \in Items : Fresh(k) => Fresh(k)'
      BY <1>0, <2>1, <2>5, Types DEF Fresh, Free
    <2>8. OnceInv(i)'
      <3>1. RowTame(i) BY <2>1, <2>3, ClosedTame DEF Waitable, Ready, Selected, Live
      <3>2. HandTame(i)
        BY <2>1, <2>3, <2>7 DEF HandTame, Watched, OnceIInv, OnceInv
      <3> QED BY <3>1, <3>2, TameKeeps DEF OnceIInv
    <2>9. ASSUME NEW k \in Items \ {i} PROVE OnceInv(k)'
      <3>1. OnceInv(k) BY DEF OnceIInv
      <3>2. RowTame(k) BY <2>1, <2>3, <3>1, StillTame DEF Selected, OnceInv
      <3>3. Watched(k) => watch[k].on # p /\ watch[k].on \in Printers
        BY <1>0, <2>2, <2>4, <3>1, Types DEF OnceInv, Watched, SoleIInv, SoleHolder, Has
      <3>4. Watched(k) /\ OnIt(k) => OnIt(k)' BY <2>1, <2>5, <3>3 DEF OnIt
      <3>5. HandTame(k) BY <2>1, <2>7, <3>1, <3>4 DEF HandTame, OnceInv
      <3> QED BY <3>1, <3>2, <3>5, TameKeeps
    <2> QED BY <2>6, <2>8, <2>9 DEF OnceIInv
  <1>7. \A i \in Items, p \in Printers : ~BulkWrite(i, p)
    BY <1>0, NoBulkWrite DEF SoleIInv, PinIInv
  <1>8. NoPrinter \in MaybePrinter /\ Printers \subseteq MaybePrinter BY DEF MaybePrinter
  <1>9. ASSUME NEW i \in Items,
               LateCancel(i) \/ LateDelete(i) \/ \E ask \in Slow : Check(ask, i)
        PROVE  OnceIInv'
    <2>1. UNCHANGED <<task, pass, watch, online, machine, prints>>
      BY <1>9, LateShape DEF Check, printerVars
    <2>2. \/ row' = row
          \/ \E s \in {"cancelled", "deleted"} : row' = [row EXCEPT ![i].status = s]
      BY <1>9, LateShape DEF Check
    <2>3. ASSUME NEW k \in Items, row'[k] = row[k] PROVE RowTame(k)
      <3>1. OnceInv(k) BY DEF OnceIInv
      <3> QED BY <2>1, <2>3, <3>1, StillTame DEF Selected, OnceInv
    <2>4. ASSUME NEW k \in Items, row'[k] # row[k] PROVE RowTame(k)
      <3>1. row'[k].status \in {"cancelled", "deleted"} BY <1>1, <2>2, <2>4 DEF Row
      <3> QED BY <2>1, <3>1, ClosedTame DEF Waitable, Ready, Selected, Live
    <2> QED BY <2>1, <2>3, <2>4, HandsOff
  <1> QED BY <1>2, <1>3, <1>4, <1>5, <1>6, <1>7, <1>8, <1>9 DEF Request

-----------------------------------------------------------------------------
(* The scheduler loop.                                                     *)

\* A step of the loop selects what waits, launches what is selected and closes
\* what prints.
LEMMA LoopTame ==
    ASSUME OnceIInv, SoleIInv',
           UNCHANGED <<watch, online, machine, prints>>,
           \A k \in Items :
             /\ row'[k].status \in Waitable => Ready(k)
             /\ k \in Selected' => Ready(k)
             /\ Live(k)' => Ready(k)
             /\ row'[k].status = "printing" => row[k].status = "printing"
                                               /\ row'[k].printer = row[k].printer
    PROVE  OnceIInv'
  <1>1. ASSUME NEW k \in Items PROVE RowTame(k)
    <2>1. OnceInv(k) BY DEF OnceIInv
    <2>2. Ready(k)' => Ready(k) BY DEF Ready
    <2> QED BY <2>1, <2>2 DEF RowTame, Watched, OnceInv
  <1> QED BY <1>1, HandsOff

LEMMA OnceScheduler ==
    ASSUME OnceIInv, SoleIInv', Scheduler
    PROVE  OnceIInv'
  <1>0. SoleIInv BY DEF OnceIInv
  <1>1. row \in [Items -> Row] /\ pass \in Pass BY <1>0, Types
  <1>2. UNCHANGED <<watch, online, machine, prints>>
    BY DEF Scheduler, Startup, ClearStaleClaims, PassRead, PassPools, LaunchUploads,
           CloseStranded, HoldItem, SkipItem, PassAborts, FailUnmappable, BlockOnDeficit,
           SelectItem, printerVars
  <1>3. ASSUME Startup \/ ClearStaleClaims PROVE OnceIInv'
    <2>1. task' = task /\ Selected' = Selected
      BY <1>1, <1>3 DEF Startup, ClearStaleClaims, PassGoto, Pass, Selected
    <2>2. row' = row \/ row' = Unclaimed
      BY <1>3 DEF Startup, ClearStaleClaims, ReleaseClaims
    <2>3. \A k \in Items : row'[k].status = row[k].status
                           /\ row'[k].printer = row[k].printer
      BY <1>1, <2>2 DEF Unclaimed, Row
    <2> QED BY <1>2, <2>1, <2>3, LoopTame DEF Ready, Live
  <1>4. ASSUME NEW S \in SUBSET Items, CloseStranded(S) PROVE OnceIInv'
    <2>1. task' = task /\ Selected' = Selected
      BY <1>1, <1>4 DEF CloseStranded, PassGoto, Pass, Selected
    <2>2. ASSUME NEW k \in Items
          PROVE  /\ row'[k].status \in Waitable => row[k].status \in Waitable
                 /\ row'[k].status = "printing" => row[k].status = "printing"
                                                   /\ row'[k].printer = row[k].printer
      <3> DEFINE s == TerminalQueueStatus(seen[row[k].printer])
      <3>1. s \in {"completed", "failed", "cancelled"} BY DEF TerminalQueueStatus
      <3>2. row'[k] = IF k \in S THEN [row[k] EXCEPT !.status = s] ELSE row[k]
        BY <1>4 DEF CloseStranded
      <3> HIDE DEF s
      <3>3. row[k] \in Row BY <1>1
      <3> QED BY <3>1, <3>2, <3>3 DEF Row, Waitable
    <2> QED BY <1>2, <2>1, <2>2, LoopTame DEF Ready, Live
  <1>5. CASE PassRead
    <2>1. UNCHANGED <<row, task>> BY <1>5 DEF PassRead
    <2>2. \A k \in Items : k \in Selected' => Selectable(k)
      BY <1>5 DEF PassRead, AtSweep, Selected
    <2> QED BY <1>2, <2>1, <2>2, LoopTame DEF Ready, Live, Selectable, Waitable
  <1>6. CASE PassPools
    <2>1. UNCHANGED <<row, task>> /\ Selected' = Selected
      BY <1>1, <1>6 DEF PassPools, Pass, Selected
    <2> QED BY <1>2, <2>1, LoopTame DEF Ready, Live
  <1>7. CASE LaunchUploads
    <2>1. row' = row /\ Selected' = {} BY <1>7 DEF LaunchUploads, AtSweep, Selected
    <2>2. \A k \in Items : task'[k] = task[k] \/ k \in Selected
      BY <1>7 DEF LaunchUploads, Selected
    <2> QED BY <1>2, <2>1, <2>2, LoopTame DEF Ready, Live
  <1>8. ASSUME NEW i \in Items,
               \/ HoldItem(i) \/ SkipItem(i) \/ PassAborts(i)
               \/ \E p \in Printers : \/ FailUnmappable(i, p) \/ BlockOnDeficit(i, p)
                                      \/ SelectItem(i, p)
        PROVE  OnceIInv'
    <2>1. task' = task /\ i \in Selected
      BY <1>8 DEF HoldItem, SkipItem, PassAborts, FailUnmappable, BlockOnDeficit,
                  SelectItem, Considers, Selected
    <2>2. Selected' \subseteq Selected
      <3>1. CASE Drop(i) BY <1>1, <3>1 DEF Drop, Pass, Selected
      <3>2. CASE HoldItem(i) BY <1>1, <3>2 DEF HoldItem, Drop, Pass, Selected
      <3>3. CASE PassAborts(i) BY <3>3 DEF PassAborts, AtSweep, Selected
      <3>4. ASSUME NEW p \in Printers, SelectItem(i, p) PROVE Selected' \subseteq Selected
        BY <1>1, <2>1, <3>4 DEF SelectItem, Pass, Selected
      <3> QED
        BY <1>8, <3>1, <3>2, <3>3, <3>4 DEF SkipItem, FailUnmappable, BlockOnDeficit
    <2>3. \A k \in Items \ {i} : row'[k] = row[k]
      BY <1>1, <1>8
      DEF HoldItem, SkipItem, PassAborts, FailUnmappable, BlockOnDeficit, SelectItem,
          Write, Blind
    <2>4. row[i].status # "printing" BY <1>0, <2>1 DEF SoleIInv, SlotInv
    <2>5. row'[i].status # "printing"
      <3>1. \A p \in Printers :
              Assigned(i, p) \in Row /\ Assigned(i, p).status = row[i].status
        BY <1>1 DEF Assigned, Row, MaybePrinter
      <3>2. \/ row' = row
            \/ row' = [row EXCEPT ![i] = [row[i] EXCEPT !.status = "skipped"]]
            \/ \E p \in Printers :
                 \/ row' = [row EXCEPT ![i] = [Assigned(i, p) EXCEPT !.status = "failed"]]
                 \/ row' = [row EXCEPT ![i] = [Assigned(i, p) EXCEPT !.staged = TRUE]]
                 \/ row' = [row EXCEPT ![i] = Assigned(i, p)]
        BY <1>8
        DEF HoldItem, SkipItem, PassAborts, FailUnmappable, BlockOnDeficit, SelectItem,
            Write, Blind
      <3> QED BY <1>1, <2>4, <3>1, <3>2 DEF Row
    <2> QED BY <1>2, <2>1, <2>2, <2>3, <2>5, LoopTame DEF Ready, Live
  <1> QED BY <1>3, <1>4, <1>5, <1>6, <1>7, <1>8 DEF Scheduler

-----------------------------------------------------------------------------
(* Upload tasks and watchdogs.                                             *)

\* Any other step of a task keeps its row fresh: the row was ready to be sent.
LEMMA OnceTasks ==
    ASSUME OnceIInv, SoleIInv', NEW i \in Items, UploadTask(i), ~Send(i)
    PROVE  OnceIInv'
  <1>0. SoleIInv BY DEF OnceIInv
  <1>1. row \in [Items -> Row] /\ task \in [Items -> Task] BY <1>0, Types
  <1>2. UNCHANGED <<pass, watch, online, machine, prints>> /\ task[i].pc # "none"
    BY DEF UploadTask, Claim, RejectEarly, Recheck, UploadFails, Uploaded, RackPickStale,
           Refused, AfterRefusal, Finish, printerVars
  <1>3. \A k \in Items \ {i} : row'[k] = row[k] /\ task'[k] = task[k]
    BY <1>1
    DEF UploadTask, Claim, RejectEarly, Recheck, UploadFails, Uploaded, RackPickStale,
        Refused, AfterRefusal, Finish, Goto, Blind, Write, WinsCas, Marked
  <1>4. RowTame(i)
    <2>1. OnceInv(i) BY DEF OnceIInv
    <2>2. i \notin Selected' /\ (Live(i) => watch[i].phase = "off")
      BY <1>0, <1>2
      DEF SoleIInv, PinIInv, IInv, OneActor, InFlight, Selected, Live
    <2>3. CASE Live(i) BY <1>2, <2>1, <2>2, <2>3 DEF RowTame, Ready, Watched, OnceInv
    <2>4. CASE ~Live(i)
      <3>1. Finish(i)
        BY <2>4 DEF UploadTask, Claim, RejectEarly, Recheck, UploadFails, Uploaded,
                    RackPickStale, Refused, AfterRefusal, Live
      <3>2. row'[i].status = row[i].status /\ row'[i].printer = row[i].printer
              /\ task'[i].pc = "none"
        BY <1>1, <3>1 DEF Finish, Row, NoTask
      <3> QED BY <1>2, <2>1, <2>2, <3>2 DEF RowTame, Ready, Watched, Live, OnceInv
    <2> QED BY <2>3, <2>4
  <1>5. ASSUME NEW k \in Items \ {i} PROVE RowTame(k)
    <2>1. OnceInv(k) BY DEF OnceIInv
    <2> QED BY <1>2, <1>3, <2>1, StillTame DEF Selected, OnceInv
  <1> QED BY <1>2, <1>4, <1>5, HandsOff

\* A command reaches a free printer or nothing; its watchdog knows which.
LEMMA OnceSend ==
    ASSUME OnceIInv, SoleIInv', NEW i \in Items, Send(i)
    PROVE  OnceIInv'
  <1> DEFINE p == task[i].on
  <1>0. SoleIInv BY DEF OnceIInv
  <1>1. /\ task \in [Items -> Task] /\ watch \in [Items -> Watch]
        /\ machine \in [Printers -> Machine] /\ p \in Printers
    BY <1>0, Types DEF Send
  <1>2. UNCHANGED <<row, pass, online, prints>> /\ task[i].pc = "send" BY DEF Send
  <1>3. /\ task' = [task EXCEPT ![i].pc = "finish"]
        /\ watch' = [watch EXCEPT ![i] = [phase |-> "A", on |-> p]]
    BY DEF Send, Goto
  <1>4. Fresh(i) BY <1>2 DEF OnceIInv, OnceInv, Ready, Live
  <1>5. \/ machine' = machine
        \/ /\ machine[p].phase = "free"
           /\ machine' = [machine EXCEPT ![p] = [phase |-> "loaded", job |-> i]]
    BY DEF Send
  <1>6. HeldInv'
    <2>1. \A q \in Printers : machine[q].job # i BY <1>4 DEF Fresh
    <2>2. i # NoJob BY <1>0, Types
    <2>3. prints[i] = 0 BY <1>4 DEF Fresh
    <2> QED BY <1>1, <1>2, <1>5, <2>1, <2>2, <2>3 DEF OnceIInv, HeldInv
  <1>7. ASSUME NEW k \in Items \ {i} PROVE OnceInv(k)'
    <2>1. OnceInv(k) BY DEF OnceIInv
    <2>2. task'[k] = task[k] /\ watch'[k] = watch[k] BY <1>1, <1>3
    <2>3. RowTame(k) BY <1>2, <2>1, <2>2, StillTame DEF Selected, OnceInv
    <2>4. Fresh(k) => Fresh(k)' BY <1>1, <1>2, <1>5 DEF Fresh
    <2>5. Watched(k) /\ OnIt(k) => OnIt(k)'
      BY <1>0, <1>1, <1>5, <2>1, <2>2, Types DEF OnIt, OnceInv
    <2>6. HandTame(k) BY <1>2, <2>1, <2>4, <2>5 DEF HandTame, OnceInv
    <2> QED BY <2>1, <2>3, <2>6, TameKeeps
  <1>8. OnceInv(i)'
    <2>1. /\ task'[i].pc = "finish" /\ watch'[i].on = p BY <1>1, <1>3 DEF Task
    <2>2. ~Ready(i)'
      BY <1>0, <1>2, <2>1
      DEF Ready, Live, Selected, SoleIInv, PinIInv, IInv, OneActor, SendingIsLive,
          InFlight
    <2>3. row[i].status = "printing" => row[i].printer = p
      BY <1>0, <1>2 DEF SoleIInv, PinIInv, PinInv, Exists
    <2>4. Fresh(i)' \/ OnIt(i)' BY <1>1, <1>2, <1>4, <1>5, <2>1 DEF Fresh, OnIt
    <2>5. prints'[i] \in {0, 1} BY <1>2 DEF OnceIInv, OnceInv
    <2>6. p \in online' BY DEF Send
    <2> QED BY <1>2, <2>1, <2>2, <2>3, <2>4, <2>5, <2>6 DEF OnceInv, Watched
  <1> QED BY <1>6, <1>7, <1>8 DEF OnceIInv

\* The watchdog that requeues a row has waited for the printer that has it.
LEMMA OnceWatchdogs ==
    ASSUME NoLate, OnceIInv, SoleIInv', NEW i \in Items, Watchdog(i)
    PROVE  OnceIInv'
  <1> DEFINE p == watch[i].on
  <1>0. SoleIInv BY DEF OnceIInv
  <1>1. row \in [Items -> Row] /\ watch \in [Items -> Watch] BY <1>0, Types
  <1>2. UNCHANGED <<task, pass, machine, prints>> /\ watch[i].phase # "off"
    BY DEF Watchdog, SeesActive, SeesSubtask, CommandRejected, StartTimeout, printerVars
  <1>3. \A k \in Items \ {i} : row'[k] = row[k] /\ watch'[k] = watch[k]
    <2>1. \A k \in Items \ {i} : watch'[k] = watch[k]
      BY <1>1
      DEF Watchdog, SeesActive, SeesSubtask, CommandRejected, StartTimeout, EndWatch
    <2>2. \A k \in Items \ {i} : row'[k] = row[k]
      BY <1>1 DEF Watchdog, SeesActive, SeesSubtask, CommandRejected, StartTimeout
    <2> QED BY <2>1, <2>2
  <1>4. online' = online \/ (online' = online \ {p} /\ row[i].status = "printing")
    BY DEF Watchdog, SeesActive, SeesSubtask, CommandRejected, StartTimeout, printerVars
  <1>5. \/ row'[i] = row[i]
        \/ row[i].status = "printing" /\ row'[i].status = "failed"
        \/ row[i].status = "printing" /\ Fresh(i) /\ row'[i].status \in {"failed", "pending"}
    <2>1. CASE SeesActive(i) \/ SeesSubtask(i) BY <2>1 DEF SeesActive, SeesSubtask
    <2>2. CASE CommandRejected(i) BY <1>1, <2>2 DEF CommandRejected, Row
    <2>3. CASE StartTimeout(i)
      <3>1. CASE row' = row BY <3>1
      <3>2. CASE row' # row
        <4>1. /\ row[i].status = "printing"
              /\ \E n, s : /\ s \in {"failed", "pending"}
                           /\ row' = [row EXCEPT ![i].attempts = n, ![i].status = s]
          BY <2>3, <3>2 DEF StartTimeout
        <4>2. row'[i].status \in {"failed", "pending"} BY <1>1, <4>1 DEF Row
        <4>3. Watched(i) /\ OnceInv(i) BY <1>2, <4>1 DEF Watched, OnceIInv
        <4>4. machine[p].job # i BY <2>3, <4>3 DEF StartTimeout, NoLate, May, OnceInv
        <4>5. Fresh(i) BY <4>3, <4>4 DEF OnceInv, OnIt
        <4> QED BY <4>1, <4>2, <4>5
      <3> QED BY <3>1, <3>2
    <2> QED BY <2>1, <2>2, <2>3 DEF Watchdog
  <1>6. RowTame(i)
    <2>1. OnceInv(i) BY DEF OnceIInv
    <2>2. \/ watch'[i] = NoWatch
          \/ watch'[i].on = p /\ row' = row /\ online' = online
      BY <1>1
      DEF Watchdog, SeesActive, SeesSubtask, CommandRejected, StartTimeout, EndWatch,
          Watch, printerVars
    <2>3. Ready(i)' => Ready(i) \/ Fresh(i)
      BY <1>2, <1>5 DEF Ready, Live, Selected, Waitable
    <2>4. watch'[i] = NoWatch => ~Watched(i)' BY DEF NoWatch, Watched
    <2> QED BY <1>2, <2>1, <2>2, <2>3, <2>4 DEF RowTame, Watched, OnceInv
  <1>7. ASSUME NEW k \in Items \ {i} PROVE RowTame(k)
    <2>1. OnceInv(k) /\ OnceInv(i) BY DEF OnceIInv
    <2>2. ASSUME Watched(k) PROVE watch[k].on \in online'
      <3>1. watch[k].on = row[k].printer /\ watch[k].on \in online
        BY <2>1, <2>2 DEF OnceInv
      <3>2. row[i].status = "printing" => row[i].printer = p
        BY <1>2, <2>1 DEF OnceInv, Watched
      <3>3. row[i].status = "printing" => row[k].printer # p
        BY <1>0, <2>2, <3>1, <3>2, Types DEF Watched, SoleIInv, SoleHolder, Has
      <3> QED BY <1>4, <3>1, <3>3
    <2> QED BY <1>2, <1>3, <2>1, <2>2, StillTame DEF Selected
  <1> QED BY <1>2, <1>6, <1>7, HandsOff

-----------------------------------------------------------------------------
(* The printers, their callbacks, and a restart.                           *)

LEMMA OnceBegin ==
    ASSUME OnceIInv, SoleIInv', NEW p \in Printers, Begin(p)
    PROVE  OnceIInv'
  <1> DEFINE j == machine[p].job
  <1>0. SoleIInv BY DEF OnceIInv
  <1>1. machine \in [Printers -> Machine] /\ prints \in [Items -> 0..2] /\ NoJob \notin Items
    BY <1>0, Types
  <1>2. UNCHANGED <<row, task, watch, pass, online>> /\ machine[p].phase = "loaded"
    BY DEF Begin, queueVars
  <1>3. machine' = [machine EXCEPT ![p].phase = "running"] BY DEF Begin
  <1>4. j \in Items /\ prints[j] = 0
    BY <1>1, <1>2 DEF OnceIInv, HeldInv, Machine
  <1>5. prints' = [prints EXCEPT ![j] = 1] BY <1>1, <1>4 DEF Begin
  <1>6. /\ machine'[p].phase = "running" /\ machine'[p].job = j
        /\ \A q \in Printers : machine'[q].job = machine[q].job
        /\ \A q \in Printers \ {p} : machine'[q] = machine[q]
    BY <1>1, <1>3 DEF Machine
  <1>7. HeldInv' BY <1>1, <1>2, <1>4, <1>5, <1>6 DEF OnceIInv, HeldInv
  <1>8. ASSUME NEW k \in Items PROVE OnceInv(k)'
    <2>1. OnceInv(k) BY DEF OnceIInv
    <2>2. RowTame(k) BY <1>2, <2>1, StillTame DEF Selected, OnceInv
    <2>3. prints'[k] \in {0, 1} /\ (Fresh(k) => Fresh(k)')
      BY <1>1, <1>5, <1>6, <2>1 DEF OnceInv, Fresh
    <2>4. Watched(k) /\ OnIt(k) => OnIt(k)'
      BY <1>0, <1>2, <1>6, <2>1, Types DEF OnIt, OnceInv
    <2> QED BY <2>1, <2>2, <2>3, <2>4, TameKeeps DEF HandTame
  <1> QED BY <1>7, <1>8 DEF OnceIInv

\* A printer that lets go of its job, or ends it: a job it drops unbegun is
\* fresh again, a job that ends is one no watchdog waits for.
LEMMA OnceLets ==
    ASSUME OnceIInv, SoleIInv', NEW p \in Printers,
           DropJob(p) \/ HearEnd(p) \/ \E r \in {"FINISH", "FAILED"} : EndPrint(p, r)
    PROVE  OnceIInv'
  <1>0. SoleIInv BY DEF OnceIInv
  <1>1. machine \in [Printers -> Machine] /\ NoJob \notin Items BY <1>0, Types
  <1>2. UNCHANGED <<row, task, watch, pass, online, prints>>
    BY DEF DropJob, HearEnd, EndPrint, queueVars
  <1>3. /\ \A q \in Printers \ {p} : machine'[q] = machine[q]
        /\ \/ machine'[p] = Free
           \/ /\ machine'[p].phase \in {"FINISH", "FAILED"}
              /\ machine'[p].job = machine[p].job /\ machine[p].phase = "running"
    BY <1>1 DEF DropJob, HearEnd, EndPrint, Machine
  <1>4. HeldInv' BY <1>1, <1>2, <1>3 DEF OnceIInv, HeldInv, Free
  <1>5. ASSUME NEW k \in Items PROVE OnceInv(k)'
    <2>1. OnceInv(k) BY DEF OnceIInv
    <2>2. RowTame(k) BY <1>2, <2>1, StillTame DEF Selected, OnceInv
    <2>3. Fresh(k) => Fresh(k)' BY <1>1, <1>2, <1>3 DEF Fresh, Free
    <2>4. ASSUME Watched(k), OnIt(k) PROVE Fresh(k)' \/ OnIt(k)'
      <3>1. CASE watch[k].on # p
        BY <1>0, <1>2, <1>3, <2>1, <2>4, <3>1, Types DEF OnIt, OnceInv
      <3>2. CASE watch[k].on = p
        <4>1. p \in online BY <2>1, <2>4, <3>2 DEF OnceInv
        <4>2. DropJob(p) /\ machine[p].phase = "loaded" /\ machine[p].job = k
          BY <2>4, <3>2, <4>1 DEF OnIt, HearEnd, EndPrint, DropJob
        <4>3. machine'[p] = Free BY <1>1, <4>2 DEF DropJob
        <4>4. prints[k] = 0 /\ \A q \in Printers \ {p} : machine[q].job # k
          BY <1>1, <4>2 DEF OnceIInv, HeldInv
        <4> QED BY <1>1, <1>2, <1>3, <4>3, <4>4 DEF Fresh, Free
      <3> QED BY <3>1, <3>2
    <2> QED BY <1>2, <2>1, <2>2, <2>3, <2>4, TameKeeps DEF HandTame, OnceInv
  <1> QED BY <1>4, <1>5 DEF OnceIInv

LEMMA OnceOutside ==
    ASSUME NoOffline, OnceIInv, SoleIInv', NEW p \in Printers, Printer(p) \/ Completion(p)
    PROVE  OnceIInv'
  <1>0. SoleIInv BY DEF OnceIInv
  <1>1. row \in [Items -> Row] BY <1>0, Types
  <1>2. CASE HearActive(p) \/ Dismiss(p) \/ Reconnect(p) \/ RaiseGate(p)
    <2>1. UNCHANGED <<row, task, watch, pass, machine, prints>> /\ online \subseteq online'
      BY <1>2 DEF HearActive, Dismiss, Reconnect, RaiseGate, queueVars
    <2>2. \A k \in Items : RowTame(k)
      BY <2>1, StillTame DEF OnceIInv, OnceInv, Selected
    <2> QED BY <2>1, <2>2, HandsOff
  <1>3. CASE CloseRow(p)
    <2>1. UNCHANGED <<task, watch, pass, online, machine, prints>>
      BY <1>3 DEF CloseRow
    <2>2. TerminalQueueStatus(ending[p].result) \in {"completed", "failed", "cancelled"}
      BY DEF TerminalQueueStatus
    <2>3. row' = row \/ \E i \in PrintingOn(p) :
            row' = [row EXCEPT ![i].status = TerminalQueueStatus(ending[p].result)]
      BY <1>3 DEF CloseRow
    <2>4. ASSUME NEW k \in Items
          PROVE  row'[k] = row[k] \/ row'[k].status \in {"completed", "failed", "cancelled"}
      BY <1>1, <2>2, <2>3 DEF PrintingOn, Row
    <2>5. ASSUME NEW k \in Items PROVE RowTame(k)
      <3>1. CASE row'[k] = row[k]
        BY <2>1, <3>1, StillTame DEF OnceIInv, OnceInv, Selected
      <3>2. CASE row'[k].status \in {"completed", "failed", "cancelled"}
        BY <2>1, <3>2, ClosedTame DEF Waitable, Ready, Selected, Live
      <3> QED BY <2>4, <3>1, <3>2
    <2> QED BY <2>1, <2>5, HandsOff
  <1>4. ~Disconnect(p) BY DEF NoOffline, Disconnect, May
  <1> QED BY <1>2, <1>3, <1>4, OnceBegin, OnceLets DEF Printer, Completion

\* After a restart only rows that wait are ready; what was printing is left to
\* its completion or the sweep.
LEMMA OnceRestart ==
    ASSUME OnceIInv, SoleIInv', Restart
    PROVE  OnceIInv'
  <1>0. SoleIInv BY DEF OnceIInv
  <1>1. machine \in [Printers -> Machine] /\ NoJob \notin Items BY <1>0, Types
  <1>2. UNCHANGED <<row, prints>> /\ Selected' = {}
        /\ \A k \in Items : task'[k].pc = "none" /\ watch'[k].phase = "off"
    BY DEF Restart, AtBoot, AtSweep, Selected, NoTask, NoWatch
  <1>3. \A p \in Printers : machine'[p] = Free \/ machine'[p] = machine[p]
    BY DEF Restart
  <1>4. HeldInv' BY <1>1, <1>2, <1>3 DEF OnceIInv, HeldInv, Free
  <1>5. ASSUME NEW k \in Items PROVE OnceInv(k)'
    <2>1. OnceInv(k) BY DEF OnceIInv
    <2>2. RowTame(k) BY <1>2 DEF RowTame, Ready, Watched, Live
    <2>3. Fresh(k) => Fresh(k)' BY <1>1, <1>2, <1>3 DEF Fresh, Free
    <2>4. ~Watched(k)' BY <1>2 DEF Watched
    <2> QED BY <1>2, <2>1, <2>2, <2>3, <2>4, TameKeeps DEF HandTame, OnceInv
  <1> QED BY <1>4, <1>5 DEF OnceIInv

-----------------------------------------------------------------------------
(* A job begins at most once.                                              *)

LEMMA InitOnce == Init => OnceIInv
  <1> SUFFICES ASSUME Init PROVE OnceIInv
    OBVIOUS
  <1>1. NoJob \notin Items BY ConstantsAssumption
  <1>2. HeldInv BY DEF Init, HeldInv, Free
  <1>3. \A k \in Items : OnceInv(k)
    BY <1>1 DEF Init, OnceInv, Fresh, Watched, Free, NoWatch
  <1> QED BY <1>2, <1>3, InitSole DEF OnceIInv

LEMMA NextOnce ==
    NoBulk /\ NoMidPass /\ NoLate /\ NoOffline /\ OnceIInv /\ [Next]_vars => OnceIInv'
  <1> SUFFICES ASSUME NoBulk, NoMidPass, NoLate, NoOffline, OnceIInv, [Next]_vars
               PROVE  OnceIInv'
    OBVIOUS
  <1>1. SoleIInv' BY NextSole DEF OnceIInv
  <1>2. CASE UNCHANGED vars
    BY <1>1, <1>2, StillTame, HandsOff DEF vars, OnceIInv, OnceInv, Selected
  <1>3. CASE Next
    BY <1>1, <1>3, OnceRequests, OnceScheduler, OnceRestart, OnceTasks, OnceSend,
       OnceWatchdogs, OnceOutside
    DEF Next
  <1> QED BY <1>2, <1>3

\* No row's job begins twice, whatever crashes, commands lost, refused or
\* rejected, stops in the middle of a send and failing writes do, as long as no
\* printer acts on a command later than the watchdog waits (180 s past its
\* landing), none loses its connection of itself, and no edit moves a row that is
\* being dispatched: a watchdog's requeue comes only when the printer it guards
\* holds nothing of the row (_watchdog_print_start, #1853).
THEOREM PrintedAtMostOnce ==
    ASSUME NoBulk, NoMidPass, NoLate, NoOffline PROVE Spec => []AtMostOncePrint
  <1>1. NoBulk /\ NoMidPass /\ NoLate /\ NoOffline /\ OnceIInv /\ [Next]_vars => OnceIInv'
    BY NextOnce
  <1>2. OnceIInv => AtMostOncePrint
    <2> SUFFICES ASSUME OnceIInv, NEW k \in Items PROVE prints[k] <= 1
      BY DEF AtMostOncePrint
    <2>1. prints[k] \in {0, 1} BY DEF OnceIInv, OnceInv
    <2> QED BY <2>1
  <1> QED BY NoBulk, NoMidPass, NoLate, NoOffline, InitOnce, <1>1, <1>2, PTL DEF Spec

-----------------------------------------------------------------------------
(* Who writes what.                                                        *)

LEMMA Writers ==
    ASSUME Next
    PROVE
      /\ \/ machine' = machine \/ Restart
         \/ \E i \in Items : Stop(i) \/ Send(i)
         \/ \E p \in Printers : \/ Begin(p) \/ DropJob(p) \/ HearEnd(p)
                                \/ \E r \in {"FINISH", "FAILED"} : EndPrint(p, r)
      /\ prints' = prints \/ \E p \in Printers : Begin(p)
      /\ \/ seen' = seen \/ Restart
         \/ \E p \in Printers : HearActive(p) \/ HearEnd(p) \/ Dismiss(p) \/ Reconnect(p)
      /\ \/ online' = online \/ \E i \in Items : StartTimeout(i)
         \/ \E p \in Printers : Disconnect(p) \/ Reconnect(p)
      /\ \/ ending' = ending \/ Restart
         \/ \E p \in Printers : HearEnd(p) \/ RaiseGate(p) \/ CloseRow(p)
      /\ \/ awaiting' = awaiting \/ \E i \in Items : Uploaded(i)
         \/ \E p \in Printers : RaiseGate(p) \/ ClearPlate(p)
      /\ dirty' = dirty \/ \E p \in Printers : Begin(p) \/ ClearPlate(p)
      /\ watch' = watch \/ Restart \/ \E i \in Items : Send(i) \/ Watchdog(i)
      /\ task' = task \/ Restart \/ LaunchUploads \/ \E i \in Items : UploadTask(i)
      /\ pass' = pass \/ Restart \/ Scheduler
  <1>1. CASE Request
    BY <1>1 DEF Request, Enqueue, Cancel, Delete, StartStaged, Stop, Check, Edit,
                BulkWrite, LateCancel, LateDelete, Resume, ClearPlate, printerVars, queueVars
  <1>2. CASE Scheduler
    BY <1>2 DEF Scheduler, Startup, ClearStaleClaims, PassRead, PassPools, LaunchUploads,
                CloseStranded, HoldItem, SkipItem, PassAborts, FailUnmappable,
                BlockOnDeficit, SelectItem, printerVars
  <1>3. CASE Restart BY <1>3 DEF Restart
  <1>4. ASSUME NEW i \in Items, UploadTask(i)
        PROVE  /\ machine' = machine \/ Send(i)
               /\ UNCHANGED <<prints, seen, online, ending, dirty, pass>>
               /\ awaiting' = awaiting \/ Uploaded(i)
               /\ watch' = watch \/ Send(i)
    BY <1>4 DEF UploadTask, Claim, RejectEarly, Recheck, UploadFails, Uploaded,
                RackPickStale, Send, Refused, AfterRefusal, Finish, printerVars
  <1>5. ASSUME NEW i \in Items, Watchdog(i)
        PROVE  /\ UNCHANGED <<machine, prints, seen, ending, awaiting, dirty, task, pass>>
               /\ online' = online \/ StartTimeout(i)
    BY <1>5 DEF Watchdog, SeesActive, SeesSubtask, CommandRejected, StartTimeout,
                printerVars
  <1>6. ASSUME NEW p \in Printers, Printer(p)
        PROVE  /\ UNCHANGED <<row, task, watch, pass, awaiting>>
               /\ \/ machine' = machine \/ Begin(p) \/ DropJob(p) \/ HearEnd(p)
                  \/ \E r \in {"FINISH", "FAILED"} : EndPrint(p, r)
               /\ prints' = prints \/ Begin(p)
               /\ dirty' = dirty \/ Begin(p)
               /\ \/ seen' = seen \/ HearActive(p) \/ HearEnd(p) \/ Dismiss(p)
                  \/ Reconnect(p)
               /\ online' = online \/ Disconnect(p) \/ Reconnect(p)
               /\ ending' = ending \/ HearEnd(p)
    BY <1>6 DEF Printer, Begin, DropJob, HearActive, HearEnd, Dismiss, Disconnect,
                Reconnect, EndPrint, queueVars
  <1>7. ASSUME NEW p \in Printers, Completion(p)
        PROVE  /\ UNCHANGED <<task, watch, pass, machine, prints, seen, online, dirty>>
               /\ RaiseGate(p) \/ (CloseRow(p) /\ awaiting' = awaiting)
    BY <1>7 DEF Completion, RaiseGate, CloseRow, queueVars
  <1> QED BY <1>1, <1>2, <1>3, <1>4, <1>5, <1>6, <1>7 DEF Next

\* How a printer's job comes and goes.
LEMMA HandSteps ==
    ASSUME SoleIInv, Next, NEW p \in Printers
    PROVE  \/ machine'[p] = machine[p]
           \/ machine'[p] = Free
           \/ /\ Begin(p) /\ machine[p].phase = "loaded" /\ machine'[p].phase = "running"
              /\ machine'[p].job = machine[p].job
           \/ /\ machine[p].phase = "running" /\ machine'[p].phase \in {"FINISH", "FAILED"}
              /\ machine'[p].job = machine[p].job
              /\ (\E i \in Items : Stop(i) /\ row[i].printer = p)
                 \/ \E r \in {"FINISH", "FAILED"} : EndPrint(p, r)
           \/ \E i \in Items : /\ Send(i) /\ task[i].on = p /\ machine[p].phase = "free"
                               /\ machine'[p] = [phase |-> "loaded", job |-> i]
  <1>1. machine \in [Printers -> Machine] BY Types
  <1>2. CASE Restart BY <1>2 DEF Restart
  <1>3. ASSUME NEW i \in Items, Stop(i)
        PROVE  \/ machine'[p] = machine[p] \/ machine'[p] = Free
               \/ /\ machine[p].phase = "running" /\ machine'[p].phase = "FAILED"
                  /\ machine'[p].job = machine[p].job /\ row[i].printer = p
    BY <1>1, <1>3 DEF Stop, Machine
  <1>4. ASSUME NEW i \in Items, Send(i)
        PROVE  \/ machine'[p] = machine[p]
               \/ /\ task[i].on = p /\ machine[p].phase = "free"
                  /\ machine'[p] = [phase |-> "loaded", job |-> i]
    BY <1>1, <1>4 DEF Send
  <1>5. ASSUME NEW q \in Printers, Begin(q)
        PROVE  \/ machine'[p] = machine[p]
               \/ /\ q = p /\ machine[p].phase = "loaded" /\ machine'[p].phase = "running"
                  /\ machine'[p].job = machine[p].job
    BY <1>1, <1>5 DEF Begin, Machine
  <1>6. ASSUME NEW q \in Printers, DropJob(q) \/ HearEnd(q)
        PROVE  machine'[p] = machine[p] \/ machine'[p] = Free
    BY <1>1, <1>6 DEF DropJob, HearEnd
  <1>7. ASSUME NEW q \in Printers, NEW r \in {"FINISH", "FAILED"}, EndPrint(q, r)
        PROVE  \/ machine'[p] = machine[p]
               \/ /\ q = p /\ machine[p].phase = "running" /\ machine'[p].phase = r
                  /\ machine'[p].job = machine[p].job
    BY <1>1, <1>7 DEF EndPrint, Machine
  <1> QED BY <1>2, <1>3, <1>4, <1>5, <1>6, <1>7, Writers

\* The end of a print is taken for that of the row printing there only if it is.
OwnEndings ==
    \A p \in Printers : \A k \in PrintingOn(p) :
        ending[p].phase = "gateUp" /\ NamesAgree(k, ending[p].job) => ending[p].job = k

\* A row stops printing because its watchdog or its task gave it up, unbegun, or
\* by a request of the user's, the completion of its job or the sweep.
Leaves(k) == row'[k].status # "printing" \/ row'[k].printer # row[k].printer

LEMMA WhoCloses ==
    ASSUME NoBulk, NoLate, OwnEndings, OnceIInv, Next, NEW k \in Items,
           row[k].status = "printing", Leaves(k)
    PROVE  \/ /\ Fresh(k) /\ row'[k].status # "completed"
              /\ task'[k].pc \notin {"send", "refused"} /\ watch'[k].phase = "off"
           \/ Overruled(k)
           \/ \E p \in Printers : /\ CloseRow(p) /\ row[k].printer = p
                                  /\ ending[p].phase = "gateUp" /\ ending[p].job = k
                                  /\ row'[k].status = TerminalQueueStatus(ending[p].result)
           \/ \E S \in SUBSET Items : CloseStranded(S) /\ k \in S
  <1>0. SoleIInv /\ OnceInv(k) BY DEF OnceIInv
  <1>1. row \in [Items -> Row] /\ task \in [Items -> Task]
        /\ watch \in [Items -> Watch]
    BY <1>0, Types
  <1>2. CASE Request
    <2>1. ASSUME NEW i \in Items, Cancel(i) \/ Delete(i) \/ StartStaged(i) PROVE FALSE
      <3>1. (row[i].status # "printing" /\ row'[k] = row[k]) \/ k = i
        BY <1>1, <2>1 DEF Cancel, Delete, StartStaged
      <3> QED BY <2>1, <3>1 DEF Cancel, Delete, StartStaged, Leaves
    <2>2. ASSUME NEW i \in Items, NEW p, Enqueue(i, p) \/ Edit(i, p) PROVE FALSE
      BY <1>1, <2>2 DEF Enqueue, Edit, Editable, Leaves
    <2>3. ASSUME NEW p \in Printers, Resume(p) PROVE FALSE
      BY <1>1, <2>3 DEF Resume, Leaves
    <2>4. ASSUME NEW p \in Printers, ClearPlate(p) PROVE FALSE
      BY <2>4 DEF ClearPlate, queueVars, Leaves
    <2>5. ASSUME NEW i \in Items, Stop(i) \/ LateCancel(i) \/ LateDelete(i) PROVE i = k
      BY <1>1, <2>5, LateShape DEF Stop, Leaves
    <2>6. \A i \in Items, p \in Printers : ~BulkWrite(i, p)
      BY <1>0, NoBulkWrite DEF SoleIInv, PinIInv
    <2>7. ASSUME NEW i \in Items, NEW ask \in Slow, Check(ask, i) PROVE FALSE
      BY <2>7 DEF Check, Leaves
    <2> QED BY <1>2, <2>1, <2>2, <2>3, <2>4, <2>5, <2>6, <2>7 DEF Request, Overruled
  <1>3. CASE Scheduler
    <2>1. k \notin Selected BY <1>0 DEF SoleIInv, SlotInv
    <2>2. CASE Startup \/ ClearStaleClaims
      <3>1. row' = row \/ row' = Unclaimed
        BY <2>2 DEF Startup, ClearStaleClaims, ReleaseClaims
      <3>2. row'[k].status = row[k].status /\ row'[k].printer = row[k].printer
        BY <1>1, <3>1 DEF Unclaimed, Row
      <3> QED BY <3>2 DEF Leaves
    <2>3. CASE PassRead \/ PassPools \/ LaunchUploads
      BY <2>3 DEF PassRead, PassPools, LaunchUploads, Leaves
    <2>4. ASSUME NEW S \in SUBSET Items, CloseStranded(S) PROVE k \in S
      BY <2>4 DEF CloseStranded, Leaves
    <2>5. ASSUME NEW i \in Items,
                 \/ HoldItem(i) \/ SkipItem(i) \/ PassAborts(i)
                 \/ \E p \in Printers : \/ FailUnmappable(i, p) \/ BlockOnDeficit(i, p)
                                        \/ SelectItem(i, p)
          PROVE  FALSE
      <3>1. i \in Selected
        BY <2>5 DEF HoldItem, SkipItem, PassAborts, FailUnmappable, BlockOnDeficit,
                    SelectItem, Considers, Selected
      <3>2. i # k BY <2>1, <3>1
      <3>3. row'[k] = row[k]
        BY <1>1, <2>5, <3>2
        DEF HoldItem, SkipItem, PassAborts, FailUnmappable, BlockOnDeficit, SelectItem,
            Write, Blind
      <3> QED BY <3>3 DEF Leaves
    <2> QED BY <1>3, <2>2, <2>3, <2>4, <2>5 DEF Scheduler
  <1>4. CASE Restart BY <1>4 DEF Restart, Leaves
  <1>5. ASSUME NEW i \in Items, UploadTask(i)
        PROVE  /\ Fresh(k) /\ row'[k].status # "completed"
               /\ task'[k].pc \notin {"send", "refused"} /\ watch'[k].phase = "off"
    <2>1. i = k
      BY <1>1, <1>5
      DEF UploadTask, Claim, RejectEarly, Recheck, UploadFails, Uploaded, RackPickStale,
          Send, Refused, AfterRefusal, Finish, Blind, Write, WinsCas, Marked, Leaves
    <2>2. RejectEarly(k) \/ UploadFails(k) \/ RackPickStale(k) \/ AfterRefusal(k)
      BY <1>1, <1>5, <2>1
      DEF UploadTask, Claim, Recheck, Uploaded, Send, Refused, Finish, WinsCas, Marked,
          Leaves, Row
    <2>3. task'[k].pc = "finish" /\ Live(k) /\ watch' = watch
      BY <1>1, <2>2
      DEF RejectEarly, UploadFails, RackPickStale, AfterRefusal, Goto, Live, Task
    <2>5. row'[k].status # "completed"
      <3>1. \/ row' = row
            \/ \E s \in {"pending", "failed"} :
                 row' = [row EXCEPT ![k] = [row[k] EXCEPT !.status = s]]
            \/ row' = [row EXCEPT ![k] = [row[k] EXCEPT !.status = "pending",
                                                       !.attempts = @ + 1]]
        BY <2>2 DEF RejectEarly, UploadFails, RackPickStale, AfterRefusal, Blind, Write
      <3> QED BY <1>1, <3>1 DEF Row
    <2>4. watch[k].phase = "off"
      BY <1>0, <2>3 DEF Live, SoleIInv, PinIInv, IInv, OneActor
    <2> QED BY <1>0, <2>3, <2>4, <2>5 DEF OnceInv, Ready
  <1>6. ASSUME NEW i \in Items, Watchdog(i)
        PROVE  /\ Fresh(k) /\ row'[k].status # "completed"
               /\ task'[k].pc \notin {"send", "refused"} /\ watch'[k].phase = "off"
    <2>1. i = k /\ (CommandRejected(k) \/ StartTimeout(k)) /\ task' = task
      BY <1>1, <1>6
      DEF Watchdog, SeesActive, SeesSubtask, CommandRejected, StartTimeout, Leaves
    <2>2. Watched(k) BY <2>1 DEF CommandRejected, StartTimeout, Watched
    <2>3. watch[k].on \in online /\ machine[watch[k].on].job # k
      BY <1>0, <2>1, <2>2 DEF OnceInv, CommandRejected, StartTimeout, NoLate, May
    <2>4. Fresh(k) BY <1>0, <2>2, <2>3 DEF OnceInv, OnIt
    <2>5. watch'[k].phase = "off"
      BY <1>1, <2>1 DEF CommandRejected, StartTimeout, EndWatch, NoWatch
    <2>6. task[k].pc \in {"none", "finish"}
      BY <1>0, <2>2 DEF Watched, SoleIInv, PinIInv, IInv, OneActor
    <2>7. row'[k].status # "completed"
      <3>1. \/ row' = row
            \/ row' = [row EXCEPT ![k].status = "failed", ![k].attempts = @ + 1]
            \/ \E n : \E s \in {"failed", "pending"} :
                 row' = [row EXCEPT ![k].attempts = n, ![k].status = s]
        BY <2>1 DEF CommandRejected, StartTimeout
      <3> QED BY <1>1, <3>1 DEF Row
    <2> QED BY <2>1, <2>4, <2>5, <2>6, <2>7
  <1>7. ASSUME NEW p \in Printers, Printer(p) PROVE FALSE
    BY <1>7 DEF Printer, Begin, DropJob, HearActive, HearEnd, Dismiss, Disconnect,
                Reconnect, EndPrint, queueVars, Leaves
  <1>8. ASSUME NEW p \in Printers, Completion(p)
        PROVE  /\ CloseRow(p) /\ row[k].printer = p
               /\ ending[p].phase = "gateUp" /\ ending[p].job = k
               /\ row'[k].status = TerminalQueueStatus(ending[p].result)
    <2>1. CloseRow(p) BY <1>8 DEF Completion, RaiseGate, queueVars, Leaves
    <2>2. PICK i \in PrintingOn(p) :
            /\ NamesAgree(i, ending[p].job)
            /\ row' = [row EXCEPT ![i].status = TerminalQueueStatus(ending[p].result)]
      BY <2>1 DEF CloseRow, Leaves
    <2>3. i = k BY <1>1, <2>2 DEF Leaves, PrintingOn
    <2>4. ending[p].job = k BY <2>1, <2>2, <2>3 DEF OwnEndings, CloseRow
    <2>5. row'[k].status = TerminalQueueStatus(ending[p].result)
      BY <1>1, <2>2, <2>3 DEF Row
    <2> QED BY <2>1, <2>2, <2>3, <2>4, <2>5 DEF PrintingOn, CloseRow
  <1> QED BY <1>2, <1>3, <1>4, <1>5, <1>6, <1>7, <1>8 DEF Next

-----------------------------------------------------------------------------
(* What a printer works on is marked.                                      *)

NoStopMidSend == "stopMidSend" \notin Requests
NoLateWrite == {"cancelLate", "deleteLate"} \intersect Requests = {}
NoStop == "stop" \notin Requests

\* No two rows have the name of one file.
SingleBatch == \A i, j \in Batch : i = j

\* A row whose command is going out is marked printing.
SentInv == \A k \in Items : task[k].pc \in {"send", "refused"} => row[k].status = "printing"

Working(p) == machine[p].phase \in {"loaded", "running"}
Begun(p)   == machine[p].phase \in {"running", "FINISH", "FAILED"}

\* A printer works for the row that is printing on it, and is connected.
WorkInv ==
    \A p \in Printers : Working(p) =>
        /\ row[machine[p].job].status = "printing" /\ row[machine[p].job].printer = p
        /\ p \in online

\* A print seen or ended has begun, and no printer has an ended one.
BegunInv ==
    \A p \in Printers :
        /\ Begun(p) => prints[machine[p].job] = 1
        /\ ending[p].phase # "none" =>
             /\ ending[p].job \in Items /\ prints[ending[p].job] = 1
             /\ \A q \in Printers : machine[q].job # ending[p].job
        /\ seen[p] = "ACTIVE" => Begun(p)

\* A printer holds a job, or its end is on the way, as long as the job's row is
\* printing on it: without stops the row
\* closes last.
OursInv ==
    \A p \in Printers :
        /\ machine[p].phase # "free" =>
             row[machine[p].job].status = "printing" /\ row[machine[p].job].printer = p
        /\ ending[p].phase # "none" =>
             row[ending[p].job].status = "printing" /\ row[ending[p].job].printer = p

MarkIInv == OnceIInv /\ SentInv /\ WorkInv /\ BegunInv /\ (NoStop => OursInv)

\* No edit moves a row in hand, no printer is late or drops out, no stop falls
\* into a send, no cancel or delete is overtaken, and no print is stopped whose
\* name is another row's as well.
Clean == /\ NoBulk /\ NoMidPass /\ NoLate /\ NoOffline /\ NoStopMidSend /\ NoLateWrite
         /\ SingleBatch \/ NoStop

LEMMA NeverLate ==
    ASSUME Clean, SoleIInv PROVE \A i \in Items : ~LateCancel(i) /\ ~LateDelete(i)
  BY DEF Clean, NoLateWrite, LateCancel, LateDelete, SoleIInv, PinIInv, IInv, TypeOK

\* No printer holds or ends the job of one row while it is had by another.
LEMMA OneJob ==
    ASSUME SoleIInv, NEW p \in Printers, NEW j \in Items, NEW k \in Items,
           row[j].status = "printing", row[j].printer = p, Has(k, p)
    PROVE  j = k
  BY DEF SoleIInv, SoleHolder, Has

\* By its name where names are its own, else because it is the only row there.
LEMMA EndingsAreOwn == ASSUME Clean, MarkIInv PROVE OwnEndings
  <1> SUFFICES ASSUME NEW p \in Printers, NEW k \in PrintingOn(p),
                      ending[p].phase = "gateUp", NamesAgree(k, ending[p].job)
               PROVE  ending[p].job = k
    BY DEF OwnEndings
  <1>1. CASE SingleBatch BY <1>1 DEF NamesAgree, SingleBatch
  <1>2. CASE NoStop
    <2>1. /\ row[ending[p].job].status = "printing" /\ row[ending[p].job].printer = p
          /\ ending[p].job \in Items
      BY <1>2 DEF MarkIInv, OursInv, BegunInv
    <2>2. k \in Items /\ Has(k, p) BY DEF PrintingOn, Has
    <2> QED BY <2>1, <2>2, OneJob DEF MarkIInv, OnceIInv
  <1> QED BY <1>1, <1>2 DEF Clean

LEMMA JobsAreItems ==
    ASSUME OnceIInv, NEW p \in Printers
    PROVE  machine[p].phase # "free" <=> machine[p].job \in Items
  BY Types DEF OnceIInv, HeldInv, Machine

\* A row that has begun is not in line, not in hand and not about to be sent.
LEMMA BegunIsNotReady ==
    ASSUME OnceIInv, NEW k \in Items,
           prints[k] = 1 \/ \E p \in Printers : machine[p].job = k
    PROVE  ~Fresh(k) /\ ~Ready(k)
  BY DEF OnceIInv, OnceInv, Fresh

\* A printer takes up a job only by the command that sends it.
LEMMA TakesUp ==
    ASSUME SoleIInv, Next, NEW p \in Printers, NEW k \in Items,
           machine'[p].job = k, machine[p].job # k
    PROVE  Send(k) /\ task[k].on = p
  <1>1. NoJob # k BY Types
  <1>2. machine'[p] # Free BY <1>1 DEF Free
  <1>3. PICK i \in Items : /\ Send(i) /\ task[i].on = p
                           /\ machine'[p] = [phase |-> "loaded", job |-> i]
    BY <1>2, HandSteps
  <1>4. i = k BY <1>3
  <1> QED BY <1>3, <1>4

\* A printer that works, works on what it had or on what was just sent.
LEMMA KeepsWorking ==
    ASSUME SoleIInv, Next, NEW p \in Printers, Working(p)'
    PROVE  \/ Working(p) /\ machine'[p].job = machine[p].job
           \/ \E i \in Items : Send(i) /\ task[i].on = p /\ machine'[p].job = i
  <1>1. machine'[p] # Free /\ machine'[p].phase \notin {"FINISH", "FAILED"}
    BY DEF Working, Free
  <1>2. CASE machine'[p] = machine[p] BY <1>2 DEF Working
  <1>3. CASE machine[p].phase = "loaded" /\ machine'[p].job = machine[p].job
    BY <1>3 DEF Working
  <1>4. CASE \E i \in Items : /\ Send(i) /\ task[i].on = p
                              /\ machine'[p] = [phase |-> "loaded", job |-> i]
    BY <1>4
  <1> QED BY <1>1, <1>2, <1>3, <1>4, HandSteps

\* And one that has begun, has begun what it had.
LEMMA KeepsBegun ==
    ASSUME SoleIInv, Next, NEW p \in Printers, Begun(p)'
    PROVE  /\ Begun(p) \/ (Begin(p) /\ machine[p].phase = "loaded")
           /\ machine'[p].job = machine[p].job
  <1>1. machine'[p] # Free /\ machine'[p].phase # "loaded"
    BY DEF Begun, Free
  <1>2. CASE machine'[p] = machine[p] BY <1>2 DEF Begun
  <1>3. CASE machine[p].phase = "running" /\ machine'[p].job = machine[p].job
    BY <1>3 DEF Begun
  <1>4. ASSUME NEW i \in Items, machine'[p] = [phase |-> "loaded", job |-> i]
        PROVE  FALSE
    <2>1. machine'[p].phase = "loaded" BY <1>4
    <2> QED BY <1>1, <2>1
  <1>5. CASE /\ Begin(p) /\ machine[p].phase = "loaded"
             /\ machine'[p].job = machine[p].job
    BY <1>5
  <1> QED BY <1>1, <1>2, <1>3, <1>4, <1>5, HandSteps

\* A print that has begun leaves its printer when it has ended.
LEMMA LetsGo ==
    ASSUME SoleIInv, Next, NEW p \in Printers, Begun(p), machine'[p] = Free
    PROVE  /\ Restart \/ HearEnd(p)
           /\ machine[p].phase \in {"FINISH", "FAILED"}
  <1>1. machine \in [Printers -> Machine] BY Types
  <1>2. machine'[p] # machine[p] BY DEF Begun, Free
  <1>3. ASSUME NEW i \in Items, Stop(i) PROVE FALSE
    BY <1>1, <1>2, <1>3 DEF Stop, Begun, Free, Machine
  <1>4. ASSUME NEW i \in Items, Send(i) PROVE FALSE
    BY <1>1, <1>2, <1>4 DEF Send, Free
  <1>5. ASSUME NEW q \in Printers, Begin(q) \/ DropJob(q) PROVE FALSE
    BY <1>1, <1>2, <1>5 DEF Begin, DropJob, Begun, Free
  <1>6. ASSUME NEW q \in Printers, HearEnd(q)
        PROVE  q = p /\ machine[p].phase \in {"FINISH", "FAILED"}
    BY <1>1, <1>2, <1>6 DEF HearEnd
  <1>7. ASSUME NEW q \in Printers, NEW r \in {"FINISH", "FAILED"}, EndPrint(q, r)
        PROVE  FALSE
    BY <1>1, <1>2, <1>7 DEF EndPrint, Free
  <1>8. CASE Restart BY <1>1, <1>2, <1>8 DEF Restart
  <1> QED BY <1>2, <1>3, <1>4, <1>5, <1>6, <1>7, <1>8, Writers

\* A job that has begun stays begun.
LEMMA StaysBegun ==
    ASSUME OnceIInv, Next, NEW k \in Items, prints[k] = 1
    PROVE  prints'[k] = 1
  <1>1. ASSUME NEW p \in Printers, Begin(p) PROVE prints'[k] = 1
    <2>1. prints[machine[p].job] = 0 BY <1>1 DEF Begin, OnceIInv, HeldInv
    <2>2. prints \in [Items -> 0..2] BY Types DEF OnceIInv
    <2> QED BY <1>1, <2>1, <2>2 DEF Begin
  <1> QED BY <1>1, Writers

\* The end on its way from a printer is the one that was, or that of the print
\* the printer had begun and now lets go.
LEMMA EndingSteps ==
    ASSUME OnceIInv, BegunInv, Next, NEW p \in Printers, ending'[p].phase # "none"
    PROVE  \/ ending[p].phase # "none" /\ ending'[p].job = ending[p].job
           \/ /\ Begun(p) /\ ending'[p].job = machine[p].job
              /\ machine'[p] = Free /\ UNCHANGED <<row, prints>>
  <1>1. /\ machine \in [Printers -> Machine] /\ ending \in [Printers -> Ending]
    BY Types DEF OnceIInv
  <1>2. CASE Restart
    <2>1. Missed(p) /\ ending[p].phase = "none" => seen[p] = "ACTIVE" /\ ~Working(p)
      BY DEF Missed, Working, BegunInv, Begun
    <2>2. /\ Missed(p)
          /\ ending'[p].job = IF ending[p].phase # "none" THEN ending[p].job
                              ELSE machine[p].job
          /\ UNCHANGED <<row, prints>>
      BY <1>2 DEF Restart, NoEnding
    <2>3. ending[p].phase = "none" => Begun(p) /\ machine'[p] = Free
      BY <1>2, <2>1, <2>2 DEF Restart, BegunInv, Begun, Working
    <2> QED BY <2>2, <2>3
  <1>3. ASSUME NEW q \in Printers, HearEnd(q) PROVE
          \/ ending[p].phase # "none" /\ ending'[p].job = ending[p].job
          \/ /\ Begun(p) /\ ending'[p].job = machine[p].job
             /\ machine'[p] = Free /\ UNCHANGED <<row, prints>>
    BY <1>1, <1>3 DEF HearEnd, Begun, queueVars
  <1>4. ASSUME NEW q \in Printers, RaiseGate(q) \/ CloseRow(q)
        PROVE  ending[p].phase # "none" /\ ending'[p].job = ending[p].job
    <2>1. CASE RaiseGate(q) BY <1>1, <2>1 DEF RaiseGate, Ending
    <2>2. CASE CloseRow(q) BY <1>1, <2>2 DEF CloseRow, NoEnding
    <2> QED BY <1>4, <2>1, <2>2
  <1> QED BY <1>2, <1>3, <1>4, Writers

\* A task comes to send by winning the compare-and-set.
LEMMA ComesToSend ==
    ASSUME SoleIInv, Next, NEW k \in Items, task'[k].pc \in {"send", "refused"}
    PROVE  \/ task[k].pc \in {"send", "refused"}
              /\ (task'[k].pc = "send" => task[k].pc = "send")
           \/ Uploaded(k) /\ WinsCas(k) /\ row'[k].status = "printing"
  <1>1. row \in [Items -> Row] /\ task \in [Items -> Task] BY Types
  <1>2. CASE task' = task BY <1>2
  <1>3. CASE Restart BY <1>3 DEF Restart, NoTask
  <1>4. CASE LaunchUploads BY <1>4 DEF LaunchUploads
  <1>5. ASSUME NEW i \in Items, UploadTask(i)
        PROVE  \/ task[k].pc \in {"send", "refused"}
                  /\ (task'[k].pc = "send" => task[k].pc = "send")
               \/ Uploaded(k) /\ WinsCas(k)
    BY <1>1, <1>5
    DEF UploadTask, Claim, RejectEarly, Recheck, UploadFails, Uploaded, RackPickStale,
        Send, Refused, AfterRefusal, Finish, Goto, AfterCas, NoTask, Task
  <1>6. Uploaded(k) /\ WinsCas(k) => row'[k].status = "printing"
    BY <1>1 DEF Uploaded, Marked, Row
  <1> QED BY <1>2, <1>3, <1>4, <1>5, <1>6, Writers

\* While a task sends, only a request of the user's takes the mark from its row.
LEMMA MarkStays ==
    ASSUME NoBulk, NoLate, OwnEndings, OnceIInv, BegunInv, Next, NEW k \in Items,
           task[k].pc \in {"send", "refused"}, task'[k].pc \in {"send", "refused"},
           row[k].status = "printing", ~Overruled(k)
    PROVE  row'[k].status = "printing"
  <1>1. Fresh(k) /\ InFlight(k) BY DEF OnceIInv, OnceInv, Ready, Live, InFlight
  <1>2. \A S \in SUBSET Items : k \in S => ~CloseStranded(S)
    BY <1>1 DEF CloseStranded, LongTerminal
  <1>3. \A p \in Printers : ending[p].phase = "gateUp" => ending[p].job # k
    BY <1>1 DEF BegunInv, Fresh
  <1>4. ~Leaves(k) BY <1>2, <1>3, WhoCloses
  <1> QED BY <1>4 DEF Leaves

LEMMA SentStep ==
    ASSUME Clean, MarkIInv, Next
    PROVE  SentInv'
  <1>0. OnceIInv /\ SoleIInv BY DEF MarkIInv, OnceIInv
  <1> SUFFICES ASSUME NEW k \in Items, task'[k].pc \in {"send", "refused"},
                      task[k].pc \in {"send", "refused"}
               PROVE  row'[k].status = "printing"
    BY <1>0, ComesToSend DEF SentInv
  <1>1. row[k].status = "printing" BY DEF MarkIInv, SentInv
  <1>2. ~Overruled(k)
    BY <1>0, NeverLate DEF Overruled, Stop, Clean, NoStopMidSend, Asked
  <1> QED BY <1>0, <1>1, <1>2, MarkStays, EndingsAreOwn DEF MarkIInv, Clean

LEMMA WorkStep ==
    ASSUME Clean, MarkIInv, OnceIInv', Next
    PROVE  WorkInv'
  <1>0. OnceIInv /\ SoleIInv BY DEF MarkIInv, OnceIInv
  <1>1. /\ row \in [Items -> Row] /\ machine \in [Printers -> Machine]
        /\ online \subseteq Printers
    BY <1>0, Types
  <1> SUFFICES ASSUME NEW p \in Printers, Working(p)'
               PROVE  /\ row'[machine'[p].job].status = "printing"
                      /\ row'[machine'[p].job].printer = p
                      /\ p \in online'
    BY DEF WorkInv
  <1>2. \/ Working(p) /\ machine'[p].job = machine[p].job
        \/ \E i \in Items : Send(i) /\ task[i].on = p /\ machine'[p].job = i
    BY <1>0, KeepsWorking
  <1>3. ASSUME NEW i \in Items, Send(i), task[i].on = p, machine'[p].job = i
        PROVE  row'[i].status = "printing" /\ row'[i].printer = p /\ p \in online'
    BY <1>0, <1>3
    DEF Send, MarkIInv, SentInv, OnceIInv, SoleIInv, PinIInv, PinInv, Exists
  <1>4. CASE Working(p) /\ machine'[p].job = machine[p].job
    <2> DEFINE k == machine[p].job
    <2>1. k \in Items BY <1>0, <1>4, JobsAreItems DEF Working
    <2>2. row[k].status = "printing" /\ row[k].printer = p /\ p \in online
      BY <1>4 DEF MarkIInv, WorkInv
    <2>3. ~Fresh(k) BY DEF Fresh
    <2>4. ~Overruled(k)
      <3> SUFFICES ASSUME Stop(k) PROVE FALSE
        BY <1>0, <2>1, NeverLate DEF Overruled
      <3>1. machine[p].phase \in {"loaded", "running"} /\ machine[p] \in Machine
        BY <1>1, <1>4 DEF Working
      <3>2. machine' = [machine EXCEPT ![p] =
                          CASE machine[p].phase = "running" -> [@ EXCEPT !.phase = "FAILED"]
                            [] machine[p].phase = "loaded"  -> Free
                            [] OTHER -> @]
        BY <2>2 DEF Stop
      <3>3. machine'[p].phase \in {"free", "FAILED"}
        BY <1>1, <3>1, <3>2 DEF Free, Machine
      <3> QED BY <3>3 DEF Working
    <2>5. \A S \in SUBSET Items : k \in S => ~CloseStranded(S)
      BY <1>4, <2>2 DEF CloseStranded, LongTerminal, Working
    <2>6. \A q \in Printers : ending[q].phase = "gateUp" => ending[q].job # k
      BY DEF MarkIInv, BegunInv
    <2>7. ~Leaves(k)
      <3> HIDE DEF k
      <3> QED BY <1>0, <2>1, <2>2, <2>3, <2>4, <2>5, <2>6, EndingsAreOwn, WhoCloses DEF Clean
    <2>8. p \in online'
      <3>1. ASSUME NEW i \in Items, StartTimeout(i), p \notin online' PROVE FALSE
        <4>1. /\ row[i].status = "printing" /\ watch[i].phase # "off"
              /\ watch[i].on = p /\ machine[p].job # i
          BY <2>2, <3>1 DEF StartTimeout
        <4>2. row[i].printer = p BY <1>0, <4>1 DEF OnceIInv, OnceInv, Watched
        <4>3. i = k BY <1>0, <2>1, <2>2, <4>1, <4>2 DEF SoleIInv, SoleHolder, Has
        <4> QED BY <4>1, <4>3
      <3>2. \A q \in Printers : ~Disconnect(q) BY DEF Disconnect, Clean, NoOffline, May
      <3>3. \A q \in Printers : Reconnect(q) => p \in online' BY <2>2 DEF Reconnect
      <3> QED BY <2>2, <3>1, <3>2, <3>3, Writers
    <2> QED BY <1>4, <2>2, <2>7, <2>8 DEF Leaves
  <1> QED BY <1>2, <1>3, <1>4

LEMMA BegunStep ==
    ASSUME OnceIInv, BegunInv, OnceIInv', Next
    PROVE  BegunInv'
  <1>0. OnceIInv /\ SoleIInv BY DEF OnceIInv
  <1>1. /\ machine \in [Printers -> Machine] /\ prints \in [Items -> 0..2]
        /\ ending \in [Printers -> Ending] /\ NoJob \notin Items
        /\ seen \in [Printers -> Results \union {"ACTIVE"}]
    BY <1>0, Types
  <1>2. \A k \in Items : prints[k] = 1 => prints'[k] = 1 BY <1>0, StaysBegun
  <1>3. ASSUME NEW p \in Printers, Begun(p)' PROVE prints'[machine'[p].job] = 1
    <2>1. \/ Begun(p) /\ machine'[p].job = machine[p].job
          \/ Begin(p) /\ machine'[p].job = machine[p].job
      BY <1>0, <1>3, KeepsBegun
    <2>2. CASE Begun(p) /\ machine'[p].job = machine[p].job
      <3>1. machine[p].job \in Items BY <1>0, <2>2, JobsAreItems DEF Begun
      <3> QED BY <1>2, <2>2, <3>1 DEF BegunInv
    <2>3. CASE Begin(p) /\ machine'[p].job = machine[p].job
      <3>1. machine[p].job \in Items BY <1>0, <2>3, JobsAreItems DEF Begin
      <3>2. prints[machine[p].job] = 0 BY <1>0, <2>3 DEF Begin, OnceIInv, HeldInv
      <3> QED BY <1>1, <2>3, <3>1, <3>2 DEF Begin
    <2> QED BY <2>1, <2>2, <2>3
  \* No printer takes up a job that has begun.
  <1>4. ASSUME NEW k \in Items, prints[k] = 1, \A q \in Printers : machine[q].job # k
        PROVE  \A q \in Printers : machine'[q].job # k
    <2> SUFFICES ASSUME NEW q \in Printers, machine'[q].job = k PROVE FALSE
      OBVIOUS
    <2>1. Send(k) BY <1>0, <1>4, TakesUp
    <2>2. Fresh(k) BY <1>0, <2>1 DEF Send, OnceIInv, OnceInv, Ready, Live
    <2> QED BY <1>4, <2>2 DEF Fresh
  <1>5. ASSUME NEW p \in Printers, ending'[p].phase # "none"
        PROVE  /\ ending'[p].job \in Items /\ prints'[ending'[p].job] = 1
               /\ \A q \in Printers : machine'[q].job # ending'[p].job
    <2>1. CASE ending[p].phase # "none" /\ ending'[p].job = ending[p].job
      BY <1>2, <1>4, <2>1 DEF BegunInv
    <2>2. CASE /\ Begun(p) /\ ending'[p].job = machine[p].job
               /\ machine'[p] = Free /\ UNCHANGED <<row, prints>>
      <3> DEFINE k == machine[p].job
      <3>1. k \in Items /\ prints[k] = 1
        BY <1>0, <2>2, JobsAreItems DEF BegunInv, Begun
      <3>2. \A q \in Printers \ {p} : machine[q].job # k
        BY <1>0, <1>1, <3>1 DEF OnceIInv, HeldInv
      <3>3. \A q \in Printers : machine'[q].job # k
        <4> SUFFICES ASSUME NEW q \in Printers, machine'[q].job = k PROVE FALSE
          OBVIOUS
        <4>1. q # p BY <1>1, <2>2, <3>1 DEF Free
        <4> HIDE DEF k
        <4>2. Send(k) BY <1>0, <3>1, <3>2, <4>1, TakesUp
        <4>3. Fresh(k) BY <1>0, <3>1, <4>2 DEF Send, OnceIInv, OnceInv, Ready, Live
        <4> QED BY <3>1, <4>3 DEF Fresh
      <3> QED BY <2>2, <3>1, <3>3
    <2> QED BY <1>0, <1>5, <2>1, <2>2, EndingSteps
  <1>6. ASSUME NEW p \in Printers, seen'[p] = "ACTIVE" PROVE Begun(p)'
    <2>1. CASE Restart BY <1>1, <1>6, <2>1 DEF Restart, Begun, Machine, Results
    <2>2. CASE ~Restart
      <3>1. \/ seen[p] = "ACTIVE" /\ ~HearEnd(p)
            \/ machine' = machine /\ Begun(p)
        <4>1. ASSUME NEW q \in Printers,
                     HearActive(q) \/ HearEnd(q) \/ Dismiss(q) \/ Reconnect(q)
              PROVE  \/ seen[p] = "ACTIVE" /\ ~HearEnd(p)
                     \/ machine' = machine /\ Begun(p)
          BY <1>1, <1>6, <4>1 DEF HearActive, HearEnd, Dismiss, Reconnect, Begun
        <4>2. CASE seen' = seen BY <1>1, <1>6, <4>2 DEF HearEnd
        <4> QED BY <2>2, <4>1, <4>2, Writers
      <3>2. CASE machine' = machine /\ Begun(p) BY <3>2 DEF Begun
      <3>3. CASE seen[p] = "ACTIVE" /\ ~HearEnd(p)
        <4>1. Begun(p) BY <3>3 DEF BegunInv
        <4>2. CASE machine'[p] = machine[p] BY <4>1, <4>2 DEF Begun
        <4>3. CASE machine'[p] = Free BY <1>0, <2>2, <3>3, <4>1, <4>3, LetsGo
        <4> QED BY <1>0, <4>1, <4>2, <4>3, HandSteps DEF Begun
      <3> QED BY <3>1, <3>2, <3>3
    <2> QED BY <2>1, <2>2
  <1> QED BY <1>3, <1>5, <1>6 DEF BegunInv

LEMMA NeverStops ==
    ASSUME Clean, NoStop, SoleIInv, NEW k \in Items PROVE ~Stop(k) /\ ~Overruled(k)
  BY NeverLate DEF Clean, NoStop, NoStopMidSend, Stop, Asked, Overruled

\* The row of a job that a printer holds or ends stays with it.
LEMMA OursStays ==
    ASSUME Clean, NoStop, MarkIInv, Next, NEW p \in Printers, NEW k \in Items,
           row[k].status = "printing", row[k].printer = p,
           \/ machine[p].job = k
           \/ ending[p].phase # "none" /\ ending[p].job = k /\ ~CloseRow(p)
    PROVE  row'[k].status = "printing" /\ row'[k].printer = p
  <1>0. OnceIInv /\ SoleIInv BY DEF MarkIInv, OnceIInv
  <1>1. ~Fresh(k) BY <1>0 DEF Fresh, MarkIInv, BegunInv
  <1>2. ~Overruled(k) BY <1>0, NeverStops
  <1>3. \A S \in SUBSET Items : k \in S => ~CloseStranded(S)
    <2>1. machine[p].job = k => machine[p].phase # "free" BY <1>0, JobsAreItems
    <2> QED BY <2>1 DEF CloseStranded, LongTerminal
  <1>4. ASSUME NEW q \in Printers, CloseRow(q), row[k].printer = q,
               ending[q].phase = "gateUp", ending[q].job = k
        PROVE  FALSE
    <2>1. machine[p].job # k BY <1>0, <1>4 DEF MarkIInv, BegunInv
    <2> QED BY <1>4, <2>1
  <1>5. ~Leaves(k) BY <1>0, <1>1, <1>2, <1>3, <1>4, EndingsAreOwn, WhoCloses DEF Clean
  <1> QED BY <1>5 DEF Leaves

LEMMA OursStep ==
    ASSUME Clean, NoStop, MarkIInv, OnceIInv', Next
    PROVE  OursInv'
  <1>0. OnceIInv /\ SoleIInv BY DEF MarkIInv, OnceIInv
  <1>1. /\ row \in [Items -> Row] /\ machine \in [Printers -> Machine]
        /\ ending \in [Printers -> Ending]
    BY <1>0, Types
  <1> SUFFICES ASSUME NEW p \in Printers
               PROVE  /\ machine'[p].phase # "free" =>
                           /\ row'[machine'[p].job].status = "printing"
                           /\ row'[machine'[p].job].printer = p
                      /\ ending'[p].phase # "none" =>
                           /\ row'[ending'[p].job].status = "printing"
                           /\ row'[ending'[p].job].printer = p
    BY DEF OursInv
  <1>2. ASSUME machine'[p].phase # "free"
        PROVE  row'[machine'[p].job].status = "printing"
               /\ row'[machine'[p].job].printer = p
    <2>1. \/ machine[p].phase # "free" /\ machine'[p].job = machine[p].job
          \/ \E i \in Items : Send(i) /\ task[i].on = p /\ machine'[p].job = i
      <3>1. machine'[p] # Free BY <1>2 DEF Free
      <3>2. CASE machine'[p] = machine[p] BY <1>2, <3>2
      <3>3. CASE /\ machine[p].phase \in {"loaded", "running"}
                 /\ machine'[p].job = machine[p].job
        BY <3>3
      <3>4. CASE \E i \in Items : /\ Send(i) /\ task[i].on = p
                                  /\ machine'[p] = [phase |-> "loaded", job |-> i]
        BY <3>4
      <3> QED BY <1>0, <3>1, <3>2, <3>3, <3>4, HandSteps
    <2>2. CASE machine[p].phase # "free" /\ machine'[p].job = machine[p].job
      <3>1. machine[p].job \in Items BY <1>0, <2>2, JobsAreItems
      <3>2. row[machine[p].job].status = "printing" /\ row[machine[p].job].printer = p
        BY <2>2 DEF MarkIInv, OursInv
      <3> QED BY <2>2, <3>1, <3>2, OursStays
    <2>3. ASSUME NEW i \in Items, Send(i), task[i].on = p, machine'[p].job = i
          PROVE  row'[i].status = "printing" /\ row'[i].printer = p
      BY <1>0, <2>3 DEF Send, MarkIInv, SentInv, SoleIInv, PinIInv, PinInv, Exists
    <2> QED BY <2>1, <2>2, <2>3
  <1>3. ASSUME ending'[p].phase # "none"
        PROVE  row'[ending'[p].job].status = "printing"
               /\ row'[ending'[p].job].printer = p
    <2>1. CASE ending[p].phase # "none" /\ ending'[p].job = ending[p].job
      <3>1. ~CloseRow(p) BY <1>1, <1>3 DEF CloseRow, NoEnding
      <3>2. ending[p].job \in Items BY <1>0, <2>1 DEF MarkIInv, BegunInv
      <3>3. row[ending[p].job].status = "printing" /\ row[ending[p].job].printer = p
        BY <2>1 DEF MarkIInv, OursInv
      <3> QED BY <2>1, <3>1, <3>2, <3>3, OursStays
    <2>2. CASE Begun(p) /\ ending'[p].job = machine[p].job /\ row' = row
      BY <2>2 DEF MarkIInv, OursInv, Begun
    <2> QED BY <1>0, <1>3, <2>1, <2>2, EndingSteps DEF MarkIInv
  <1> QED BY <1>2, <1>3

LEMMA InitMark == Init => MarkIInv
  <1> SUFFICES ASSUME Init PROVE MarkIInv
    OBVIOUS
  <1>1. SentInv /\ WorkInv /\ BegunInv /\ OursInv
    BY DEF Init, SentInv, WorkInv, BegunInv, OursInv, Working, Begun, NoTask, Free, NoEnding
  <1> QED BY <1>1, InitOnce DEF MarkIInv

LEMMA NextMark == Clean /\ MarkIInv /\ [Next]_vars => MarkIInv'
  <1> SUFFICES ASSUME Clean, MarkIInv, [Next]_vars PROVE MarkIInv'
    OBVIOUS
  <1>1. OnceIInv' BY NextOnce DEF Clean, MarkIInv
  <1>2. CASE UNCHANGED vars
    BY <1>1, <1>2 DEF vars, MarkIInv, SentInv, WorkInv, BegunInv, OursInv, Working, Begun
  <1>3. CASE Next
    <2>1. SentInv' /\ WorkInv' BY <1>1, <1>3, SentStep, WorkStep
    <2>3. BegunInv' BY <1>1, <1>3, BegunStep DEF MarkIInv
    <2>2. NoStop => OursInv' BY <1>1, <1>3, OursStep
    <2> QED BY <1>1, <2>1, <2>2, <2>3 DEF MarkIInv, NoStop
  <1> QED BY <1>2, <1>3

-----------------------------------------------------------------------------
(* Only live rows are sent, and a completion closes its own row.           *)

LEMMA SendStep ==
    ASSUME NoBulk, NoLate, OwnEndings, OnceIInv, BegunInv, [Next]_vars
    PROVE  [SendsAreOfMarked]_vars
  <1> SUFFICES ASSUME Next, NEW k \in Items, task'[k].pc = "send"
               PROVE  \/ row'[k].status = "printing"
                      \/ task[k].pc = "send" /\ row[k].status # "printing"
                      \/ task[k].pc = "send" /\ Overruled(k)
    BY DEF SendsAreOfMarked
  <1>1. CASE task[k].pc = "send" BY <1>1, MarkStays
  <1>2. CASE task[k].pc # "send" BY <1>2, ComesToSend DEF OnceIInv
  <1> QED BY <1>1, <1>2

\* What is needed to tell the end of a print from the end of another.
LEMMA NextBegun ==
    NoBulk /\ NoMidPass /\ NoLate /\ NoOffline /\ OnceIInv /\ BegunInv /\ [Next]_vars
      => OnceIInv' /\ BegunInv'
  <1> SUFFICES ASSUME NoBulk, NoMidPass, NoLate, NoOffline, OnceIInv, BegunInv,
                      [Next]_vars
               PROVE  OnceIInv' /\ BegunInv'
    OBVIOUS
  <1>1. OnceIInv' BY NextOnce
  <1>2. CASE UNCHANGED vars BY <1>1, <1>2 DEF vars, BegunInv, Begun
  <1>3. CASE Next BY <1>1, <1>3, BegunStep
  <1> QED BY <1>1, <1>2, <1>3

\* A command goes out only for a row that was marked printing, and only a stop, or
\* a cancel or delete overtaken by the mark, can have taken the mark away since:
\* through crashes, lost and refused commands, failing writes and every such
\* request, as long as no two rows share the name of their file; for copies of
\* one file as well, as long as no print is stopped and no late cancel or delete
\* comes. Left out are bulk edits, edits of a row in a pass's hands, late printers
\* and dropped connections, which end a print under another row's name or after
\* its watchdog (the compare-and-set of _start_print, #1853).
THEOREM SendsAreLive ==
    ASSUME NoBulk, NoMidPass, NoLate, NoOffline, SingleBatch \/ Clean
    PROVE  Spec => OnlyLiveRowsAreSent
  <1>1. CASE SingleBatch
    <2>1. SingleBatch => OwnEndings BY DEF OwnEndings, NamesAgree, SingleBatch, PrintingOn
    <2>2. Init => OnceIInv /\ BegunInv BY InitMark DEF MarkIInv
    <2>3. NoBulk /\ NoLate /\ SingleBatch /\ OnceIInv /\ BegunInv /\ [Next]_vars
            => [SendsAreOfMarked]_vars
      BY <2>1, SendStep
    <2> QED
      BY NoBulk, NoMidPass, NoLate, NoOffline, <1>1, <2>2, <2>3, NextBegun, PTL
      DEF Spec, OnlyLiveRowsAreSent
  <1>2. CASE Clean
    <2>1. Clean /\ MarkIInv => OwnEndings /\ OnceIInv /\ BegunInv
      BY EndingsAreOwn DEF MarkIInv
    <2>2. NoBulk /\ NoLate /\ Clean /\ MarkIInv /\ [Next]_vars => [SendsAreOfMarked]_vars
      BY <2>1, SendStep
    <2> QED
      BY NoBulk, NoLate, <1>2, <2>2, InitMark, NextMark, PTL
      DEF Spec, OnlyLiveRowsAreSent
  <1> QED BY <1>1, <1>2

OwnClose ==
    \A p \in Printers : \A i \in Items :
        ending[p].phase = "gateUp" /\ ending'[p].phase = "none"
          /\ row'[i].status # row[i].status
        => ending[p].job = i

LEMMA ClosesOwn == OwnEndings /\ IInv /\ [Next]_vars => [OwnClose]_vars
  <1> SUFFICES ASSUME OwnEndings, IInv, Next, NEW p \in Printers, NEW i \in Items,
                      ending[p].phase = "gateUp", ending'[p].phase = "none",
                      row'[i].status # row[i].status
               PROVE  ending[p].job = i
    BY DEF OwnClose
  <1>1. row \in [Items -> Row] /\ ending \in [Printers -> Ending] BY DEF IInv, TypeOK
  <1>2. ~Restart BY DEF Restart
  <1>3. ASSUME NEW q \in Printers, HearEnd(q) \/ RaiseGate(q) PROVE FALSE
    BY <1>3 DEF HearEnd, RaiseGate, queueVars
  <1>4. PICK q \in Printers : CloseRow(q) BY <1>2, <1>3, Writers
  <1>5. q = p BY <1>1, <1>4 DEF CloseRow
  <1>6. PICK j \in PrintingOn(p) :
          /\ NamesAgree(j, ending[p].job)
          /\ row' = [row EXCEPT ![j].status = TerminalQueueStatus(ending[p].result)]
    BY <1>4, <1>5 DEF CloseRow
  <1>7. j = i BY <1>1, <1>6 DEF PrintingOn
  <1> QED BY <1>6, <1>7 DEF OwnEndings

\* The completion callback closes the row of the job that ended: whatever else is
\* requested or fails, as long as no two rows share the name of their file, and
\* for copies of one file as well, as long as no print is stopped
\* (_completion_belongs_to_queue_item, on_print_complete).
THEOREM CompletionsAreOwn == ASSUME SingleBatch \/ Clean PROVE Spec => CompletionIsOwn
  <1>1. CASE SingleBatch
    <2>1. SingleBatch => OwnEndings BY DEF OwnEndings, NamesAgree, SingleBatch, PrintingOn
    <2>2. SingleBatch /\ IInv /\ [Next]_vars => [OwnClose]_vars BY <2>1, ClosesOwn
    <2> QED BY <1>1, <2>2, InitHolds, NextHolds, PTL DEF Spec, CompletionIsOwn, OwnClose
  <1>2. CASE Clean
    <2>1. Clean /\ MarkIInv => OwnEndings /\ IInv
      BY EndingsAreOwn DEF MarkIInv, OnceIInv, SoleIInv, PinIInv
    <2>2. Clean /\ MarkIInv /\ [Next]_vars => [OwnClose]_vars BY <2>1, ClosesOwn
    <2> QED BY <1>2, <2>2, InitMark, NextMark, PTL DEF Spec, CompletionIsOwn, OwnClose
  <1> QED BY <1>1, <1>2

-----------------------------------------------------------------------------
(* How a row's status changes.                                             *)

Closed == {"completed", "failed", "cancelled", "skipped", "deleted"}

Same(k) == /\ row'[k].status = row[k].status
           /\ row[k].status = "printing" => row'[k].printer = row[k].printer

\* A row is closed, and if it was not printing, by whom.
Closes(k) ==
    /\ Exists(k) /\ row'[k].status \in Closed
    /\ \/ row[k].status = "printing"
       \/ row'[k].status \in {"cancelled", "deleted"}
       \/ row'[k].status \in {"failed", "skipped"} /\
          (\/ SkipItem(k) \/ RejectEarly(k) \/ UploadFails(k) \/ RackPickStale(k)
           \/ AfterRefusal(k) \/ \E p \in Printers : FailUnmappable(k, p))

\* A row that has been tried goes back in line.
Returns(k) == /\ AfterRefusal(k) \/ (StartTimeout(k) /\ row[k].status = "printing")
              /\ row'[k].status = "pending"

Enters(k) == \/ \E p \in MaybePrinter : Enqueue(k, p)
             \/ \E p \in Printers : Resume(p) /\ row[k].status = "skipped"
                                    /\ row'[k].status = "pending"

LEMMA RowSteps ==
    ASSUME NoBulk, SoleIInv, Next, NEW k \in Items
    PROVE  Same(k) \/ Closes(k) \/ Enters(k) \/ Returns(k) \/ (Uploaded(k) /\ WinsCas(k))
  <1>1. row \in [Items -> Row] /\ task \in [Items -> Task] BY Types
  <1>2. row'[k] = row[k] => Same(k) BY DEF Same
  <1>3. CASE Request
    <2>1. ASSUME NEW i \in Items, Cancel(i) \/ Delete(i) \/ Stop(i)
          PROVE  row'[k] = row[k] \/ Closes(k)
      <3>1. /\ Exists(i)
            /\ \E s \in {"cancelled", "deleted"} : row' = [row EXCEPT ![i].status = s]
        BY <2>1 DEF Cancel, Delete, Stop, Exists
      <3>2. CASE i = k
        <4>1. row'[k].status \in {"cancelled", "deleted"} BY <1>1, <3>1, <3>2 DEF Row
        <4> QED BY <3>1, <3>2, <4>1 DEF Closes, Closed
      <3>3. CASE i # k BY <1>1, <3>1, <3>3
      <3> QED BY <3>2, <3>3
    <2>2. ASSUME NEW i \in Items, NEW p \in MaybePrinter, Enqueue(i, p)
          PROVE  row'[k] = row[k] \/ Enters(k)
      BY <1>1, <2>2 DEF Enqueue, Enters
    <2>3. ASSUME NEW i \in Items, NEW p, StartStaged(i) \/ Edit(i, p) PROVE Same(k)
      BY <1>1, <2>3 DEF StartStaged, Edit, Editable, Same, Row
    <2>4. ASSUME NEW p \in Printers, Resume(p) PROVE row'[k] = row[k] \/ Enters(k)
      <3>1. CASE row[k].status = "skipped" /\ row[k].printer = p
        <4>1. row'[k] = [row[k] EXCEPT !.status = "pending"] BY <2>4, <3>1 DEF Resume
        <4>2. row'[k].status = "pending" BY <1>1, <4>1 DEF Row
        <4> QED BY <2>4, <3>1, <4>2 DEF Enters
      <3>2. CASE ~(row[k].status = "skipped" /\ row[k].printer = p)
        BY <2>4, <3>2 DEF Resume
      <3> QED BY <3>1, <3>2
    <2>5. ASSUME NEW p \in Printers, ClearPlate(p) PROVE row' = row
      BY <2>5 DEF ClearPlate, queueVars
    <2>6. \A i \in Items, p \in Printers : ~BulkWrite(i, p)
      BY NoBulkWrite DEF SoleIInv, PinIInv
    <2>7. Printers \subseteq MaybePrinter BY DEF MaybePrinter
    <2>8. ASSUME NEW i \in Items, NEW ask \in Slow, Check(ask, i) PROVE row' = row
      BY <2>8 DEF Check
    <2>9. ASSUME NEW i \in Items, LateCancel(i) \/ LateDelete(i)
          PROVE  row'[k] = row[k] \/ Closes(k)
      <3>1. CASE row' = row BY <3>1
      <3>2. ASSUME Exists(i), NEW s \in {"cancelled", "deleted"},
                   row' = [row EXCEPT ![i].status = s]
            PROVE  row'[k] = row[k] \/ Closes(k)
        <4>1. i # k => row'[k] = row[k] BY <1>1, <3>2
        <4>2. i = k => row'[k].status = s BY <1>1, <3>2 DEF Row
        <4> QED BY <3>2, <4>1, <4>2 DEF Closes, Closed
      <3> QED BY <2>9, <3>1, <3>2, LateShape
    <2> QED BY <1>2, <1>3, <2>1, <2>2, <2>3, <2>4, <2>5, <2>6, <2>7, <2>8, <2>9 DEF Request
  <1>4. CASE Scheduler
    <2>1. CASE Startup \/ ClearStaleClaims
      <3>1. row' = row \/ row' = Unclaimed
        BY <2>1 DEF Startup, ClearStaleClaims, ReleaseClaims
      <3> QED BY <1>1, <3>1 DEF Unclaimed, Same, Row
    <2>2. CASE PassRead \/ PassPools \/ LaunchUploads
      BY <1>2, <2>2 DEF PassRead, PassPools, LaunchUploads
    <2>3. ASSUME NEW S \in SUBSET Items, CloseStranded(S)
          PROVE  row'[k] = row[k] \/ Closes(k)
      <3> DEFINE s == TerminalQueueStatus(seen[row[k].printer])
      <3>1. s \in {"completed", "failed", "cancelled"} BY DEF TerminalQueueStatus
      <3>2. CASE k \in S
        <4>1. row[k].status = "printing" BY <2>3, <3>2 DEF CloseStranded, LongTerminal
        <4>2. row'[k] = [row[k] EXCEPT !.status = s] BY <2>3, <3>2 DEF CloseStranded
        <4> HIDE DEF s
        <4>3. row'[k].status = s BY <1>1, <4>2 DEF Row
        <4> QED BY <3>1, <4>1, <4>3 DEF Closes, Closed, Exists
      <3>3. CASE k \notin S BY <2>3, <3>3 DEF CloseStranded
      <3> QED BY <3>2, <3>3
    <2>4. ASSUME NEW i \in Items, HoldItem(i) \/ PassAborts(i) PROVE row' = row
      BY <2>4 DEF HoldItem, PassAborts
    <2>5. ASSUME NEW i \in Items, SkipItem(i) PROVE row'[k] = row[k] \/ Closes(k)
      <3>1. Exists(i) /\ row' = [row EXCEPT ![i] = [row[i] EXCEPT !.status = "skipped"]]
        BY <2>5 DEF SkipItem, Blind, Write
      <3>2. CASE i = k
        <4>1. row'[k].status = "skipped" BY <1>1, <3>1, <3>2 DEF Row
        <4> QED BY <2>5, <3>1, <3>2, <4>1 DEF Closes, Closed
      <3>3. CASE i # k BY <1>1, <3>1, <3>3
      <3> QED BY <3>2, <3>3
    <2>6. ASSUME NEW i \in Items, NEW p \in Printers,
                 FailUnmappable(i, p) \/ BlockOnDeficit(i, p) \/ SelectItem(i, p)
          PROVE  Same(k) \/ Closes(k)
      <3>1. Assigned(i, p) \in Row /\ Assigned(i, p).status = row[i].status
        BY <1>1 DEF Assigned, Row, MaybePrinter
      <3>2. row[i].status # "printing"
        BY <2>6 DEF FailUnmappable, BlockOnDeficit, SelectItem, Considers, Selected,
                    SoleIInv, SlotInv
      <3>3. CASE i # k
        BY <1>1, <1>2, <2>6, <3>3 DEF FailUnmappable, BlockOnDeficit, SelectItem, Write
      <3>4. CASE i = k /\ FailUnmappable(i, p)
        <4>1. /\ Exists(k)
              /\ row' = [row EXCEPT ![k] = [Assigned(k, p) EXCEPT !.status = "failed"]]
          BY <3>4 DEF FailUnmappable, Write
        <4>2. row'[k].status = "failed" BY <1>1, <3>1, <3>4, <4>1 DEF Row
        <4> QED BY <3>4, <4>1, <4>2 DEF Closes, Closed
      <3>5. CASE i = k /\ (BlockOnDeficit(i, p) \/ SelectItem(i, p))
        <4>1. \/ row' = [row EXCEPT ![k] = [Assigned(k, p) EXCEPT !.staged = TRUE]]
              \/ row' = [row EXCEPT ![k] = Assigned(k, p)]
              \/ row' = row
          BY <3>5 DEF BlockOnDeficit, SelectItem, Write
        <4>2. row'[k].status = row[k].status BY <1>1, <3>1, <3>5, <4>1 DEF Row
        <4> QED BY <3>2, <3>5, <4>2 DEF Same
      <3> QED BY <2>6, <3>3, <3>4, <3>5
    <2> QED BY <1>2, <1>4, <2>1, <2>2, <2>3, <2>4, <2>5, <2>6 DEF Scheduler
  <1>5. CASE Restart BY <1>2, <1>5 DEF Restart
  <1>6. ASSUME NEW i \in Items, UploadTask(i)
        PROVE  Same(k) \/ Closes(k) \/ Returns(k) \/ (Uploaded(k) /\ WinsCas(k))
    <2>1. CASE i # k
      BY <1>1, <1>2, <1>6, <2>1
      DEF UploadTask, Claim, RejectEarly, Recheck, UploadFails, Uploaded, RackPickStale,
          Send, Refused, AfterRefusal, Finish, Blind, Write, WinsCas, Marked
    <2>2. CASE i = k /\ (Claim(i) \/ Finish(i))
      <3>1. \/ row' = row \/ row' = [row EXCEPT ![k].claimed = TRUE]
            \/ row' = [row EXCEPT ![k].claimed = FALSE]
        BY <2>2 DEF Claim, Finish
      <3> QED BY <1>1, <3>1 DEF Same, Row
    <2>3. CASE i = k /\ (RejectEarly(i) \/ UploadFails(i) \/ RackPickStale(i))
      <3>1. \/ Exists(k) /\ row' = [row EXCEPT ![k] = [row[k] EXCEPT !.status = "failed"]]
            \/ row' = row
        BY <2>3 DEF RejectEarly, UploadFails, RackPickStale, Blind, Write
      <3>2. row' # row => row'[k].status = "failed" BY <1>1, <3>1 DEF Row
      <3> QED BY <1>2, <2>3, <3>1, <3>2 DEF Closes, Closed
    <2>4. CASE i = k /\ (Recheck(i) \/ Send(i) \/ Refused(i))
      BY <1>2, <2>4 DEF Recheck, Send, Refused
    <2>5. CASE i = k /\ Uploaded(i) BY <1>2, <2>5 DEF Uploaded
    <2>6. CASE i = k /\ AfterRefusal(i)
      <3>1. \/ row' = row
            \/ /\ Exists(k)
               /\ \/ row' = [row EXCEPT ![k] = [row[k] EXCEPT !.status = "pending"]]
                  \/ row' = [row EXCEPT ![k] = [row[k] EXCEPT !.status = "failed"]]
                  \/ row' = [row EXCEPT ![k] = [row[k] EXCEPT !.status = "pending",
                                                   !.attempts = @ + 1]]
        BY <2>6 DEF AfterRefusal, Blind, Write
      <3>2. row' # row => Exists(k) /\ row'[k].status \in {"pending", "failed"}
        BY <1>1, <3>1 DEF Row
      <3> QED BY <1>2, <2>6, <3>1, <3>2 DEF Closes, Closed, Returns
    <2> QED BY <1>6, <2>1, <2>2, <2>3, <2>4, <2>5, <2>6 DEF UploadTask
  <1>7. ASSUME NEW i \in Items, Watchdog(i)
        PROVE  row'[k] = row[k] \/ Closes(k) \/ Returns(k)
    <2>1. CASE row' = row BY <2>1
    <2>2. CASE row' # row
      <3>1. /\ CommandRejected(i) \/ StartTimeout(i)
            /\ row[i].status = "printing"
        BY <1>7, <2>2
        DEF Watchdog, SeesActive, SeesSubtask, CommandRejected, StartTimeout
      <3>2. CASE i # k
        BY <1>1, <3>1, <3>2 DEF CommandRejected, StartTimeout
      <3>3. CASE i = k /\ CommandRejected(i)
        <4>1. row' = [row EXCEPT ![k].status = "failed", ![k].attempts = @ + 1]
          BY <2>2, <3>3 DEF CommandRejected
        <4>2. row'[k].status = "failed" BY <1>1, <4>1 DEF Row
        <4> QED BY <3>1, <3>3, <4>2 DEF Closes, Closed, Exists
      <3>4. CASE i = k /\ StartTimeout(i)
        <4>1. \E n : \E s \in {"failed", "pending"} :
                row' = [row EXCEPT ![k].attempts = n, ![k].status = s]
          BY <2>2, <3>4 DEF StartTimeout
        <4>2. row'[k].status \in {"failed", "pending"} BY <1>1, <4>1 DEF Row
        <4> QED BY <3>1, <3>4, <4>2 DEF Closes, Closed, Exists, Returns
      <3> QED BY <3>1, <3>2, <3>3, <3>4
    <2> QED BY <2>1, <2>2
  <1>8. ASSUME NEW p \in Printers, Printer(p) PROVE row' = row
    BY <1>8 DEF Printer, Begin, DropJob, HearActive, HearEnd, Dismiss, Disconnect,
                Reconnect, EndPrint, queueVars
  <1>9. ASSUME NEW p \in Printers, Completion(p) PROVE row'[k] = row[k] \/ Closes(k)
    <2>1. TerminalQueueStatus(ending[p].result) \in {"completed", "failed", "cancelled"}
      BY DEF TerminalQueueStatus
    <2>2. row' = row \/ \E i \in PrintingOn(p) :
            row' = [row EXCEPT ![i].status = TerminalQueueStatus(ending[p].result)]
      BY <1>9 DEF Completion, RaiseGate, CloseRow, queueVars
    <2>3. CASE row' = row BY <2>3
    <2>4. ASSUME NEW i \in PrintingOn(p),
                 row' = [row EXCEPT ![i].status = TerminalQueueStatus(ending[p].result)]
          PROVE  row'[k] = row[k] \/ Closes(k)
      BY <1>1, <2>1, <2>4 DEF PrintingOn, Closes, Closed, Exists, Row
    <2> QED BY <2>2, <2>3, <2>4
  <1> QED BY <1>2, <1>3, <1>4, <1>5, <1>6, <1>7, <1>8, <1>9 DEF Next

\* A row comes to print by winning the compare-and-set.
LEMMA Marks ==
    ASSUME NoBulk, SoleIInv, Next, NEW k \in Items,
           row'[k].status = "printing", row[k].status # "printing"
    PROVE  Uploaded(k) /\ WinsCas(k)
  <1>1. row \in [Items -> Row] BY Types
  <1>2. ~Same(k) /\ ~Closes(k) /\ ~Returns(k) BY DEF Same, Closes, Closed, Returns
  <1>3. ~Enters(k) BY <1>1 DEF Enters, Enqueue, Row
  <1> QED BY <1>2, <1>3, RowSteps

-----------------------------------------------------------------------------
(* A completed row was printed.                                            *)

NoCrash     == "crash" \notin Faults
NoClearFail == "clearFail" \notin Faults

\* The watchdog that sees its printer active sees its own print, and until then
\* a row that prints is in the hands of its task or its watchdog.
SeenInv == \A k \in Items : Watched(k) /\ seen[watch[k].on] = "ACTIVE" => prints[k] = 1
LedInv  == \A k \in Items : row[k].status = "printing" /\ prints[k] = 0
                              => task[k].pc \in {"send", "refused"} \/ watch[k].phase # "off"

DoneIInv == MarkIInv /\ SeenInv /\ LedInv /\ CompletedWasPrinted

LEMMA SeenStep ==
    ASSUME Clean, NoCrash, DoneIInv, Next
    PROVE  SeenInv'
  <1>0. OnceIInv /\ SoleIInv /\ MarkIInv BY DEF DoneIInv, MarkIInv, OnceIInv
  <1>1. /\ row \in [Items -> Row] /\ watch \in [Items -> Watch]
        /\ machine \in [Printers -> Machine] /\ online \subseteq Printers
        /\ seen \in [Printers -> Results \union {"ACTIVE"}]
    BY <1>0, Types
  <1>2. ~Restart BY DEF Restart, NoCrash, May
  <1> SUFFICES ASSUME NEW k \in Items, Watched(k)', seen'[watch'[k].on] = "ACTIVE"
               PROVE  prints'[k] = 1
    BY DEF SeenInv
  <1>3. CASE Send(k)
    <2>1. seen' = seen /\ watch'[k].on = task[k].on /\ seen[task[k].on] # "ACTIVE"
      BY <1>1, <1>3 DEF Send
    <2> QED BY <2>1
  <1>4. CASE ~Send(k)
    <2>1. watch[k].phase # "off" /\ watch'[k].on = watch[k].on
      <3>1. CASE watch' = watch BY <3>1 DEF Watched
      <3>2. ASSUME NEW i \in Items, Send(i)
            PROVE  watch[k].phase # "off" /\ watch'[k].on = watch[k].on
        BY <1>1, <1>4, <3>2 DEF Send, Watched
      <3>3. ASSUME NEW i \in Items, Watchdog(i)
            PROVE  watch[k].phase # "off" /\ watch'[k].on = watch[k].on
        BY <1>1, <3>3
        DEF Watchdog, SeesActive, SeesSubtask, CommandRejected, StartTimeout, EndWatch,
            NoWatch, Watched, Watch
      <3> QED BY <1>2, <3>1, <3>2, <3>3, Writers
    <2>2. Watched(k)
      <3>1. ASSUME row[k].status # "printing" PROVE FALSE
        <4>1. Uploaded(k) BY <1>0, <3>1, Marks DEF Watched, Clean
        <4>2. task[k].pc = "upload" BY <4>1 DEF Uploaded
        <4> QED BY <1>0, <2>1, <4>2 DEF SoleIInv, PinIInv, IInv, OneActor
      <3> QED BY <2>1, <3>1 DEF Watched
    <2> DEFINE p == watch[k].on
    <2>3. p = row[k].printer /\ p \in online /\ p \in Printers
      BY <1>0, <1>1, <2>2 DEF OnceIInv, OnceInv
    <2>4. CASE seen[p] = "ACTIVE"
      <3>1. prints[k] = 1 BY <2>2, <2>4 DEF DoneIInv, SeenInv
      <3> QED BY <1>0, <3>1, StaysBegun
    <2>5. CASE seen[p] # "ACTIVE"
      <3>1. HearActive(p)
        <4>1. ASSUME NEW q \in Printers, HearActive(q) PROVE q = p
          BY <1>1, <2>1, <2>3, <2>5, <4>1 DEF HearActive
        <4>2. ASSUME NEW q \in Printers, HearEnd(q) \/ Dismiss(q) \/ Reconnect(q)
              PROVE  FALSE
          BY <1>1, <2>1, <2>3, <2>5, <4>2 DEF HearEnd, Dismiss, Reconnect
        <4> QED BY <1>2, <2>1, <2>5, <4>1, <4>2, Writers
      <3>2. machine[p].phase = "running" /\ prints' = prints BY <3>1 DEF HearActive
      <3>3. /\ row[machine[p].job].status = "printing" /\ row[machine[p].job].printer = p
            /\ prints[machine[p].job] = 1
        BY <1>0, <2>3, <3>2 DEF MarkIInv, WorkInv, BegunInv, Working, Begun
      <3>4. machine[p].job \in Items BY <1>0, <2>3, <3>2, JobsAreItems
      <3>5. machine[p].job = k
        BY <1>0, <2>2, <2>3, <3>3, <3>4 DEF SoleIInv, SoleHolder, Has, Watched
      <3> QED BY <3>2, <3>3, <3>5
    <2> QED BY <2>4, <2>5
  <1> QED BY <1>3, <1>4

LEMMA LedStep ==
    ASSUME Clean, NoCrash, NoClearFail, DoneIInv, OnceIInv', Next
    PROVE  LedInv'
  <1>0. OnceIInv /\ SoleIInv /\ MarkIInv BY DEF DoneIInv, MarkIInv, OnceIInv
  <1>1. /\ row \in [Items -> Row] /\ watch \in [Items -> Watch]
        /\ task \in [Items -> Task]
    BY <1>0, Types
  <1>2. ~Restart BY DEF Restart, NoCrash, May
  <1> SUFFICES ASSUME NEW k \in Items, row'[k].status = "printing", prints'[k] = 0
               PROVE  task'[k].pc \in {"send", "refused"} \/ watch'[k].phase # "off"
    BY DEF LedInv
  <1>3. CASE row[k].status # "printing"
    <2>1. Uploaded(k) /\ WinsCas(k) BY <1>0, <1>3, Marks DEF Clean
    <2> QED BY <1>1, <2>1 DEF Uploaded, AfterCas, Goto, Task
  <1>4. CASE row[k].status = "printing"
    <2>1. prints[k] = 0 BY <1>0, StaysBegun DEF OnceIInv, OnceInv
    <2>2. CASE task[k].pc \in {"send", "refused"}
      <3>1. CASE task' = task BY <2>2, <3>1
      <3>2. CASE LaunchUploads
        BY <1>0, <2>2, <3>2
        DEF LaunchUploads, SoleIInv, PinIInv, IInv, OneActor, InFlight, Selected
      <3>3. ASSUME NEW i \in Items \ {k}, UploadTask(i) PROVE task'[k] = task[k]
        BY <1>1, <3>3
        DEF UploadTask, Claim, RejectEarly, Recheck, UploadFails, Uploaded,
            RackPickStale, Send, Refused, AfterRefusal, Finish, Goto
      <3>4. CASE Send(k) BY <1>1, <3>4 DEF Send
      <3>5. CASE Refused(k) BY <1>1, <3>5 DEF Refused, Goto, Task
      <3>6. CASE RackPickStale(k) \/ AfterRefusal(k)
        <4>1. Exists(k) BY <1>4 DEF Exists
        <4>2. \/ \E s \in {"pending", "failed"} :
                   row' = [row EXCEPT ![k] = [row[k] EXCEPT !.status = s]]
              \/ row' = [row EXCEPT ![k] = [row[k] EXCEPT !.status = "pending",
                                                         !.attempts = @ + 1]]
          BY <3>6, <4>1 DEF RackPickStale, AfterRefusal, Blind, Write
        <4>3. row'[k].status \in {"pending", "failed"}
          <5>1. CASE \E s \in {"pending", "failed"} :
                         row' = [row EXCEPT ![k] = [row[k] EXCEPT !.status = s]]
            <6>1. PICK s \in {"pending", "failed"} :
                      row' = [row EXCEPT ![k] = [row[k] EXCEPT !.status = s]]
              BY <5>1
            <6>2. row'[k] = [row[k] EXCEPT !.status = s] BY <1>1, <6>1
            <6> QED BY <1>1, <6>2 DEF Row
          <5>2. CASE row' = [row EXCEPT ![k] = [row[k] EXCEPT !.status = "pending",
                                                              !.attempts = @ + 1]]
            <6>1. row'[k] = [row[k] EXCEPT !.status = "pending", !.attempts = @ + 1]
              BY <1>1, <5>2
            <6> QED BY <1>1, <6>1 DEF Row
          <5> QED BY <4>2, <5>1, <5>2
        <4> QED BY <4>3
      <3>7. CASE UploadTask(k)
        BY <2>2, <3>4, <3>5, <3>6, <3>7
        DEF UploadTask, Claim, RejectEarly, Recheck, UploadFails, Uploaded, Finish
      <3> QED BY <1>2, <2>2, <3>1, <3>2, <3>3, <3>7, Writers
    <2>3. CASE watch[k].phase # "off"
      <3>1. ASSUME watch'[k].phase = "off" PROVE FALSE
        <4>1. ASSUME NEW i \in Items, Send(i) PROVE FALSE
          BY <1>1, <2>3, <3>1, <4>1 DEF Send
        <4>2. PICK i \in Items : Watchdog(i) BY <1>2, <2>3, <3>1, <4>1, Writers
        <4>3. i = k
          BY <1>1, <2>3, <3>1, <4>2
          DEF Watchdog, SeesActive, SeesSubtask, CommandRejected, StartTimeout, EndWatch
        <4>4. CASE SeesActive(k)
          BY <1>4, <2>1, <4>4 DEF SeesActive, Watched, DoneIInv, SeenInv
        <4>5. CASE SeesSubtask(k) BY <1>1, <3>1, <4>5 DEF SeesSubtask, Watch
        <4>6. CASE CommandRejected(k)
          <5>1. row' = [row EXCEPT ![k].status = "failed", ![k].attempts = @ + 1]
            BY <1>4, <4>6 DEF CommandRejected, NoClearFail, May
          <5> QED BY <1>1, <5>1 DEF Row
        <4>7. CASE StartTimeout(k)
          <5>1. \E n : \E s \in {"failed", "pending"} :
                  row' = [row EXCEPT ![k].attempts = n, ![k].status = s]
            BY <1>4, <4>7 DEF StartTimeout, NoClearFail, May
          <5> QED BY <1>1, <5>1 DEF Row
        <4> QED BY <4>2, <4>3, <4>4, <4>5, <4>6, <4>7 DEF Watchdog
      <3> QED BY <3>1
    <2> QED BY <1>4, <2>1, <2>2, <2>3 DEF DoneIInv, LedInv
  <1> QED BY <1>3, <1>4

LEMMA DoneStep ==
    ASSUME Clean, DoneIInv, OnceIInv', Next
    PROVE  CompletedWasPrinted'
  <1>0. OnceIInv /\ SoleIInv /\ MarkIInv BY DEF DoneIInv, MarkIInv, OnceIInv
  <1>1. row \in [Items -> Row] /\ prints \in [Items -> 0..2] BY <1>0, Types
  <1> SUFFICES ASSUME NEW k \in Items, row'[k].status = "completed" PROVE prints'[k] >= 1
    BY DEF CompletedWasPrinted
  <1> SUFFICES prints[k] = 1
    BY <1>0, StaysBegun
  <1>2. prints[k] \in {0, 1} BY <1>0 DEF OnceIInv, OnceInv
  <1>3. CASE row[k].status = "completed"
    <2>1. prints[k] >= 1 BY <1>3 DEF DoneIInv, CompletedWasPrinted
    <2> QED BY <1>2, <2>1
  <1>4. CASE row[k].status # "completed"
    <2>1. ~Same(k) /\ ~Returns(k) BY <1>4 DEF Same, Returns
    <2>2. ~Enters(k) /\ ~(Uploaded(k) /\ WinsCas(k))
      BY <1>1 DEF Enters, Enqueue, Uploaded, Marked, Row
    <2>3. Closes(k) BY <1>0, <2>1, <2>2, RowSteps DEF Clean
    <2>4. row[k].status = "printing" BY <2>3 DEF Closes
    <2>5. ~Overruled(k) BY <1>0, <1>1, NeverLate DEF Overruled, Stop, Row
    <2>6. CASE \E p \in Printers : ending[p].phase = "gateUp" /\ ending[p].job = k
      BY <1>0, <2>6 DEF MarkIInv, BegunInv
    <2>7. ASSUME NEW S \in SUBSET Items, CloseStranded(S), k \in S PROVE prints[k] # 0
      <3>1. LongTerminal(k) BY <2>7 DEF CloseStranded
      <3> QED BY <3>1 DEF LongTerminal, InFlight, DoneIInv, LedInv
    <2>8. Leaves(k) BY DEF Leaves
    <2> QED BY <1>0, <1>2, <2>4, <2>5, <2>6, <2>7, <2>8, EndingsAreOwn,
           WhoCloses DEF Clean
  <1> QED BY <1>3, <1>4

\* A row is reported completed only if a printer began its job: a completion
\* closes the row whose print it ends, and the sweep finds no row that was marked
\* and never sent, as long as no restart and no failed write leaves one behind
\* (_close_stranded_printing_rows, _TERMINAL_STATE_QUEUE_STATUS).
THEOREM CompletedRowsWerePrinted ==
    ASSUME Clean, NoCrash, NoClearFail PROVE Spec => []CompletedWasPrinted
  <1>1. Init => DoneIInv
    <2> SUFFICES ASSUME Init PROVE DoneIInv
      OBVIOUS
    <2>1. SeenInv /\ LedInv /\ CompletedWasPrinted
      BY DEF Init, SeenInv, LedInv, CompletedWasPrinted, Watched
    <2> QED BY <2>1, InitMark DEF DoneIInv
  <1>2. Clean /\ NoCrash /\ NoClearFail /\ DoneIInv /\ [Next]_vars => DoneIInv'
    <2> SUFFICES ASSUME Clean, NoCrash, NoClearFail, DoneIInv, [Next]_vars PROVE DoneIInv'
      OBVIOUS
    <2>1. MarkIInv' /\ OnceIInv' BY NextMark DEF DoneIInv, MarkIInv
    <2>2. CASE UNCHANGED vars
      BY <2>1, <2>2 DEF vars, DoneIInv, SeenInv, LedInv, CompletedWasPrinted, Watched
    <2>3. CASE Next BY <2>1, <2>3, SeenStep, LedStep, DoneStep DEF DoneIInv
    <2> QED BY <2>2, <2>3
  <1> QED BY Clean, NoCrash, NoClearFail, <1>1, <1>2, PTL DEF Spec, DoneIInv

-----------------------------------------------------------------------------
(* What the pass and the pool have in hand.                                *)

\* Row k is picked for printer p, or its task may yet send to p.
InHand(k, p) == \/ Live(k) /\ task[k].slot = p
                \/ k \in pass.picked /\ pass.at[k] = p

\* A row in hand has its printer, and its job has not begun.
LEMMA HandHas ==
    ASSUME NEW k \in Items, NEW p \in Printers, InHand(k, p)
    PROVE  /\ Has(k, p) /\ Ready(k)
           /\ OnceIInv => Fresh(k)
  BY DEF InHand, Has, Ready, Selected, OnceIInv, OnceInv

\* The pass picks a row for a printer it finds idle; from then on the row is in
\* hand for that printer or for none.
LEMMA TakesInHand ==
    ASSUME SoleIInv, Next, NEW k \in Items, NEW p \in Printers, InHand(k, p)', ~InHand(k, p)
    PROVE  SelectItem(k, p)
  <1>1. task \in [Items -> Task] /\ pass \in Pass /\ NoPrinter \notin Printers BY Types
  <1>2. CASE Live(k)' /\ task'[k].slot = p
    <2>1. task' # task BY <1>2 DEF InHand, Live
    <2>2. ~Restart BY <1>2 DEF Restart, NoTask, Live
    <2>3. CASE LaunchUploads
      <3>1. PICK L \in SUBSET pass.picked :
              task' = [i \in Items |->
                         IF i \in L THEN [pc |-> "launched", slot |-> pass.at[i],
                                          on |-> NoPrinter]
                         ELSE task[i]]
        BY <2>3 DEF LaunchUploads
      <3>2. k \notin L BY <1>2, <3>1 DEF InHand
      <3>3. task'[k] = task[k] BY <3>1, <3>2
      <3> QED BY <1>2, <3>3 DEF InHand, Live
    <2>4. ASSUME NEW i \in Items, UploadTask(i) PROVE FALSE
      <3>1. task'[k].slot \in {task[k].slot, NoPrinter}
            /\ (Live(k)' => Live(k))
        BY <1>1, <2>4
        DEF UploadTask, Claim, RejectEarly, Recheck, UploadFails, Uploaded,
            RackPickStale, Send, Refused, AfterRefusal, Finish, Goto, AfterCas, NoTask,
            Task, Live
      <3> QED BY <1>1, <1>2, <3>1 DEF InHand
    <2> QED BY <2>1, <2>2, <2>3, <2>4, Writers
  <1>3. CASE k \in pass'.picked /\ pass'.at[k] = p
    <2>1. pass' # pass /\ pass' # AtSweep BY <1>3 DEF InHand, AtSweep
    <2>2. ~Restart BY <1>3 DEF Restart, AtBoot, AtSweep
    <2>3. ASSUME NEW S, \/ Startup \/ ClearStaleClaims \/ CloseStranded(S) \/ PassRead
                        \/ PassPools \/ LaunchUploads
          PROVE  FALSE
      <3>1. CASE Startup \/ ClearStaleClaims \/ CloseStranded(S) \/ PassPools
        <4>1. pass'.picked = pass.picked /\ pass'.at = pass.at
          BY <1>1, <3>1 DEF Startup, ClearStaleClaims, CloseStranded, PassPools, PassGoto,
                            Pass
        <4> QED BY <1>3, <4>1 DEF InHand
      <3>2. CASE PassRead
        <4>1. pass'.picked = {} BY <3>2 DEF PassRead, AtSweep
        <4> QED BY <1>3, <4>1
      <3>3. CASE LaunchUploads BY <2>1, <3>3 DEF LaunchUploads
      <3> QED BY <2>3, <3>1, <3>2, <3>3
    <2>4. ASSUME NEW i \in Items, HoldItem(i) \/ PassAborts(i) PROVE FALSE
      BY <1>1, <1>3, <2>1, <2>4 DEF HoldItem, PassAborts, Drop, InHand, Pass
    <2>5. ASSUME NEW i \in Items, Drop(i) PROVE FALSE
      BY <1>1, <1>3, <2>5 DEF Drop, InHand, Pass
    <2>6. ASSUME NEW i \in Items, NEW q \in Printers, SelectItem(i, q)
          PROVE  i = k /\ q = p
      BY <1>1, <1>3, <2>6 DEF SelectItem, InHand, Pass
    <2> QED
      BY <2>1, <2>2, <2>3, <2>4, <2>5, <2>6, Writers
      DEF Scheduler, SkipItem, FailUnmappable, BlockOnDeficit
  <1> QED BY <1>2, <1>3 DEF InHand, Live

\* Only a watchdog takes a printer off line, that of the row printing there.
LEMMA GoesOffline ==
    ASSUME NoOffline, OnceIInv, Next, NEW p \in online, p \notin online'
    PROVE  \E i \in Items : Watched(i) /\ row[i].printer = p
  <1>1. ASSUME NEW i \in Items, StartTimeout(i) PROVE Watched(i) /\ row[i].printer = p
    <2>1. Watched(i) /\ watch[i].on = p BY <1>1 DEF StartTimeout, Watched
    <2> QED BY <2>1 DEF OnceIInv, OnceInv
  <1>2. \A q \in Printers : ~Disconnect(q) BY DEF Disconnect, NoOffline, May
  <1>3. \A q \in Printers : Reconnect(q) => p \in online' BY DEF Reconnect
  <1> QED BY <1>1, <1>2, <1>3, Writers

-----------------------------------------------------------------------------
(* A cancel is final.                                                      *)

\* A printer a row is in hand for is connected, so no task finds it gone.
ReachInv ==
    \A k \in Items :
        /\ \A p \in Printers : InHand(k, p) => p \in online
        /\ task[k].pc = "claimed" => task[k].on = task[k].slot

LEMMA ReachStep ==
    ASSUME Clean, MarkIInv, ReachInv, Next
    PROVE  ReachInv'
  <1>0. OnceIInv /\ SoleIInv BY DEF MarkIInv, OnceIInv
  <1>1. task \in [Items -> Task] BY <1>0, Types
  <1> SUFFICES ASSUME NEW k \in Items
               PROVE  /\ \A p \in Printers : InHand(k, p)' => p \in online'
                      /\ task'[k].pc = "claimed" => task'[k].on = task'[k].slot
    BY DEF ReachInv
  <1>2. ASSUME NEW p \in Printers, InHand(k, p)' PROVE p \in online'
    <2>1. CASE SelectItem(k, p) BY <2>1 DEF SelectItem, Choices, Idle, printerVars
    <2>2. CASE InHand(k, p)
      <3>1. p \in online BY <2>2 DEF ReachInv
      <3>2. ASSUME NEW i \in Items, Watched(i), row[i].printer = p PROVE FALSE
        <4>1. Has(i, p) BY <3>2 DEF Has, Watched
        <4>2. i = k BY <1>0, <2>2, <4>1, HandHas DEF SoleIInv, SoleHolder
        <4>3. k \notin Selected BY <1>0, <3>2, <4>2 DEF Watched, SoleIInv, SlotInv
        <4>4. Live(k) => watch[k].phase = "off"
          BY <1>0 DEF Live, SoleIInv, PinIInv, IInv, OneActor
        <4> QED BY <2>2, <3>2, <4>2, <4>3, <4>4 DEF InHand, Selected, Watched
      <3> QED BY <1>0, <3>1, <3>2, GoesOffline DEF Clean
    <2> QED BY <1>0, <1>2, <2>1, <2>2, TakesInHand
  <1>3. ASSUME task'[k].pc = "claimed" PROVE task'[k].on = task'[k].slot
    <2>1. CASE task' = task BY <1>3, <2>1 DEF ReachInv
    <2>2. CASE Restart BY <1>3, <2>2 DEF Restart, NoTask
    <2>3. CASE LaunchUploads
      BY <1>3, <2>3 DEF LaunchUploads, ReachInv
    <2>4. CASE Claim(k)
      <3>1. row[k].status = "pending" /\ task'[k].on = row[k].printer
            /\ task'[k].slot = task[k].slot
        BY <1>1, <1>3, <2>4 DEF Claim, NoTask, Task
      <3> QED BY <1>0, <2>4, <3>1 DEF Claim, Live, Exists, SoleIInv, SlotInv
    <2>5. ASSUME NEW i \in Items, UploadTask(i), ~Claim(k) PROVE task'[k] = task[k]
      BY <1>1, <1>3, <2>5
      DEF UploadTask, Claim, RejectEarly, Recheck, UploadFails, Uploaded, RackPickStale,
          Send, Refused, AfterRefusal, Finish, Goto, AfterCas, NoTask, Task
    <2> QED BY <1>3, <2>1, <2>2, <2>3, <2>4, <2>5, Writers DEF ReachInv
  <1> QED BY <1>2, <1>3

NoGate == Gated = {}
NoFailure == "uploadFail" \notin Faults /\ "budget" \notin Faults /\ "unmappable" \notin Faults

StaysCancelled ==
    \A i \in Items : row[i].status = "cancelled"
        => row'[i].status \in {"cancelled", "deleted"}

\* A cancelled row stays cancelled: a pass, an upload, a watchdog, a completion
\* or the sweep that has it in hand finds it so before it writes, unless it is
\* about to write a skip or a failure of its own, which it does without looking
\* (require_previous_success, _fail_unmappable_item and the failing ends of
\* _start_print; section 6 of the README).
THEOREM CancelledRowsStay ==
    ASSUME Clean, NoGate, NoFailure PROVE Spec => CancelIsFinal
  <1>1. Init => ReachInv
    BY DEF Init, ReachInv, InHand, Live, AtBoot, AtSweep, NoTask
  <1>2. Clean /\ MarkIInv /\ ReachInv /\ [Next]_vars => MarkIInv' /\ ReachInv'
    <2> SUFFICES ASSUME Clean, MarkIInv, ReachInv, [Next]_vars PROVE ReachInv'
      BY NextMark
    <2>1. CASE UNCHANGED vars BY <2>1 DEF vars, ReachInv, InHand, Live
    <2> QED BY <2>1, ReachStep
  <1>3. Clean /\ NoGate /\ NoFailure /\ MarkIInv /\ ReachInv /\ [Next]_vars
          => [StaysCancelled]_vars
    <2> SUFFICES ASSUME Clean, NoGate, NoFailure, MarkIInv, ReachInv, Next,
                        NEW k \in Items, row[k].status = "cancelled"
                 PROVE  row'[k].status \in {"cancelled", "deleted"}
      BY DEF StaysCancelled
    <2>0. SoleIInv BY DEF MarkIInv, OnceIInv
    <2>1. ~Enters(k) /\ ~(Uploaded(k) /\ WinsCas(k)) BY DEF Enters, Enqueue, WinsCas
    <2>2. task[k].pc \notin {"send", "refused"} BY DEF MarkIInv, SentInv
    <2>3. ~Returns(k) BY <2>2 DEF Returns, AfterRefusal
    <2>4. ~RejectEarly(k)
      <3> SUFFICES ASSUME task[k].pc = "claimed" PROVE task[k].on \in online
        BY DEF RejectEarly, NoFailure, May
      <3>1. task[k].on = task[k].slot /\ task[k].slot \in Printers /\ Live(k)
        BY <2>0 DEF ReachInv, SoleIInv, SlotInv, Live
      <3> QED BY <3>1 DEF ReachInv, InHand
    <2>5. ~SkipItem(k) /\ \A p \in Printers : ~FailUnmappable(k, p)
      BY DEF SkipItem, FailUnmappable, NoGate, NoFailure, May
    <2>6. ~UploadFails(k) /\ ~RackPickStale(k) /\ ~AfterRefusal(k)
      BY <2>2 DEF UploadFails, RackPickStale, AfterRefusal, NoFailure, May
    <2>7. CASE Same(k) BY <2>7 DEF Same
    <2>8. CASE Closes(k) BY <2>4, <2>5, <2>6, <2>8 DEF Closes, Closed
    <2> QED BY <2>0, <2>1, <2>3, <2>7, <2>8, RowSteps DEF Clean
  <1> QED
    BY Clean, NoGate, NoFailure, InitMark, <1>1, <1>2, <1>3, PTL
    DEF Spec, CancelIsFinal, StaysCancelled

-----------------------------------------------------------------------------
(* A command finds its printer free and its plate clear.                   *)

\* A print that ends was heard to begin, so its end will be heard as well.
HeardInv == \A p \in Printers : machine[p].phase \in {"FINISH", "FAILED"}
                                  => seen[p] = "ACTIVE"

\* A printer a row is in hand for has been cleared, and a printer with material
\* on it waits for that, or will once the end of its print is told.
ClearInv ==
    PlateGate => \A p \in Printers :
        /\ \A k \in Items : InHand(k, p) => p \notin awaiting
        /\ p \in dirty => p \in awaiting \/ Begun(p) \/ ending[p].phase = "raised"

FreeIInv == MarkIInv /\ OursInv /\ HeardInv /\ ClearInv

LEMMA HeardStep ==
    ASSUME Clean, NoStop, FreeIInv, Next
    PROVE  HeardInv'
  <1>0. OnceIInv /\ SoleIInv /\ MarkIInv BY DEF FreeIInv, MarkIInv, OnceIInv
  <1>1. /\ machine \in [Printers -> Machine]
        /\ seen \in [Printers -> Results \union {"ACTIVE"}]
    BY <1>0, Types
  <1> SUFFICES ASSUME NEW p \in Printers, machine'[p].phase \in {"FINISH", "FAILED"}
               PROVE  seen'[p] = "ACTIVE"
    BY DEF HeardInv
  <1>2. CASE machine'[p] = machine[p]
    <2>1. seen[p] = "ACTIVE" BY <1>2 DEF FreeIInv, HeardInv
    <2>2. ASSUME NEW q \in Printers,
                 HearActive(q) \/ HearEnd(q) \/ Dismiss(q) \/ Reconnect(q)
          PROVE  seen'[p] = "ACTIVE"
      BY <1>1, <1>2, <2>1, <2>2 DEF HearActive, HearEnd, Dismiss, Reconnect, Free
    <2>3. ~Restart BY <1>1, <1>2 DEF Restart, Free
    <2> QED BY <2>1, <2>2, <2>3, Writers
  <1>3. ASSUME NEW r \in {"FINISH", "FAILED"}, EndPrint(p, r) PROVE seen'[p] = "ACTIVE"
    <2>1. p \in online BY <1>0, <1>3 DEF EndPrint, MarkIInv, WorkInv, Working
    <2> QED BY <1>3, <2>1 DEF EndPrint
  <1>4. ASSUME NEW q \in Printers, NEW r \in {"FINISH", "FAILED"}, EndPrint(q, r), q # p
        PROVE  machine'[p] = machine[p]
    BY <1>1, <1>4 DEF EndPrint
  <1>5. CASE machine[p].phase = "running" /\ machine'[p] # machine[p]
    <2>1. \A i \in Items : ~Stop(i)
      BY NeverStops DEF FreeIInv, MarkIInv, OnceIInv
    <2>2. \E r \in {"FINISH", "FAILED"} : EndPrint(p, r)
      <3>1. machine'[p] # Free BY DEF Free
      <3>2. machine[p].phase # "free" /\ machine[p].phase # "loaded" BY <1>5
      <3> QED BY <1>0, <1>5, <2>1, <3>1, <3>2, HandSteps
    <2> QED BY <1>3, <2>2
  <1>6. machine'[p] = machine[p] \/ machine[p].phase = "running"
    <2>1. ASSUME NEW i \in Items, machine'[p] = [phase |-> "loaded", job |-> i]
          PROVE  FALSE
      <3>1. machine'[p].phase = "loaded" BY <2>1
      <3> QED BY <3>1
    <2>2. machine'[p] # Free BY DEF Free
    <2> QED BY <1>0, <2>1, <2>2, HandSteps
  <1> QED BY <1>2, <1>5, <1>6

LEMMA ClearStep ==
    ASSUME Clean, NoStop, FreeIInv, Next
    PROVE  ClearInv'
  <1>0. OnceIInv /\ SoleIInv /\ MarkIInv BY DEF FreeIInv, MarkIInv, OnceIInv
  <1>1. /\ machine \in [Printers -> Machine] /\ ending \in [Printers -> Ending]
        /\ awaiting \subseteq Printers /\ dirty \subseteq Printers
        /\ seen \in [Printers -> Results \union {"ACTIVE"}]
    BY <1>0, Types
  <1> SUFFICES ASSUME PlateGate, NEW p \in Printers
               PROVE  /\ \A k \in Items : InHand(k, p)' => p \notin awaiting'
                      /\ p \in dirty' => \/ p \in awaiting' \/ Begun(p)'
                                         \/ ending'[p].phase = "raised"
    BY DEF ClearInv
  <1>2. ASSUME NEW k \in Items, InHand(k, p)' PROVE p \notin awaiting'
    <2>1. CASE SelectItem(k, p) BY <2>1 DEF SelectItem, Choices, Idle, printerVars
    <2>2. CASE InHand(k, p)
      <3>1. p \notin awaiting BY <2>2 DEF FreeIInv, ClearInv
      <3>2. Has(k, p) /\ Fresh(k) BY <1>0, <2>2, HandHas
      <3>3. ending[p].phase = "none"
        <4> SUFFICES ASSUME ending[p].phase # "none" PROVE FALSE
          OBVIOUS
        <4>1. /\ row[ending[p].job].status = "printing" /\ row[ending[p].job].printer = p
              /\ ending[p].job \in Items /\ prints[ending[p].job] = 1
          BY DEF FreeIInv, OursInv, MarkIInv, BegunInv
        <4>2. ending[p].job = k BY <1>0, <3>2, <4>1, OneJob
        <4> QED BY <3>2, <4>1, <4>2 DEF Fresh
      <3>4. ASSUME NEW q \in Printers, RaiseGate(q) \/ ClearPlate(q)
            PROVE  p \notin awaiting'
        BY <3>1, <3>3, <3>4 DEF RaiseGate, ClearPlate
      <3>5. ASSUME NEW i \in Items, Uploaded(i) PROVE p \notin awaiting'
        BY <3>1, <3>5 DEF Uploaded
      <3> QED BY <3>1, <3>4, <3>5, Writers DEF Restart
    <2> QED BY <1>0, <1>2, <2>1, <2>2, TakesInHand
  <1>3. ASSUME p \in dirty'
        PROVE  p \in awaiting' \/ Begun(p)' \/ ending'[p].phase = "raised"
    <2>1. CASE Begin(p)
      <3>1. machine'[p].phase = "running" BY <1>1, <2>1 DEF Begin, Machine
      <3> QED BY <3>1 DEF Begun
    <2>2. CASE ~Begin(p)
      <3>1. p \in dirty /\ ~ClearPlate(p)
        <4>1. ASSUME NEW q \in Printers, Begin(q) PROVE q # p /\ dirty' = dirty \union {q}
          BY <2>2, <4>1 DEF Begin
        <4>2. ASSUME NEW q \in Printers, ClearPlate(q) PROVE dirty' = dirty \ {q}
          BY <4>2 DEF ClearPlate
        <4> QED BY <1>3, <4>1, <4>2, Writers
      <3>2. CASE p \in awaiting
        <4>1. ASSUME NEW i \in Items, Uploaded(i) PROVE p \in awaiting'
          <5>1. CASE WinsCas(i)
            <6>1. Exists(i) BY <5>1 DEF WinsCas, Exists
            <6>2. InHand(i, task[i].on) /\ task[i].on \in Printers
              BY <1>0, <4>1, <6>1
              DEF Uploaded, InHand, Live, SoleIInv, SlotInv, PinIInv, PinInv
            <6>3. task[i].on \notin awaiting BY <6>2 DEF FreeIInv, ClearInv
            <6> QED BY <3>2, <4>1, <6>3 DEF Uploaded
          <5>2. CASE ~WinsCas(i) BY <3>2, <4>1, <5>2 DEF Uploaded
          <5> QED BY <5>1, <5>2
        <4>2. ASSUME NEW q \in Printers, RaiseGate(q) \/ ClearPlate(q)
              PROVE  p \in awaiting'
          BY <3>1, <3>2, <4>2 DEF RaiseGate, ClearPlate
        <4> QED BY <3>2, <4>1, <4>2, Writers DEF Restart
      <3>3. CASE Begun(p)
        <4>1. CASE machine'[p] = Free
          <5>1. /\ Restart \/ HearEnd(p)
                /\ machine[p].phase \in {"FINISH", "FAILED"}
            BY <1>0, <3>3, <4>1, LetsGo
          <5>2. seen[p] = "ACTIVE" BY <5>1 DEF FreeIInv, HeardInv
          <5>3. CASE HearEnd(p) BY <1>1, <5>2, <5>3 DEF HearEnd
          <5>4. CASE Restart
            <6>1. Missed(p) BY <5>1, <5>2 DEF Missed
            <6> QED BY <5>4, <6>1 DEF Restart
          <5> QED BY <5>1, <5>3, <5>4
        <4>2. CASE machine'[p] # Free
          <5>1. machine[p].phase # "free" BY <3>3 DEF Begun
          <5> QED BY <1>0, <3>3, <4>2, <5>1, HandSteps DEF Begun
        <4> QED BY <4>1, <4>2
      <3>4. CASE ending[p].phase = "raised"
        <4>1. CASE Restart
          <5>1. /\ row[ending[p].job].status = "printing" /\ row[ending[p].job].printer = p
                /\ ending[p].job \in Items /\ machine[p].job # ending[p].job
            BY <1>0, <3>4 DEF FreeIInv, OursInv, MarkIInv, BegunInv
          <5>2. machine[p].phase = "free"
            <6> SUFFICES ASSUME machine[p].phase # "free" PROVE FALSE
              OBVIOUS
            <6>1. machine[p].job \in Items BY <1>0, JobsAreItems
            <6>2. /\ row[machine[p].job].status = "printing"
                  /\ row[machine[p].job].printer = p
              BY DEF FreeIInv, OursInv
            <6>3. Has(ending[p].job, p) BY <5>1 DEF Has
            <6> QED BY <1>0, <5>1, <6>1, <6>2, <6>3, OneJob
          <5>3. Missed(p) BY <3>4, <5>2 DEF Missed
          <5> QED BY <4>1, <5>3 DEF Restart
        <4>2. ASSUME NEW q \in Printers, HearEnd(q) \/ CloseRow(q)
              PROVE  ending'[p].phase = "raised"
          BY <1>1, <3>4, <4>2 DEF HearEnd, CloseRow
        <4>3. ASSUME NEW q \in Printers, RaiseGate(q)
              PROVE  p \in awaiting' \/ ending'[p].phase = "raised"
          BY <1>1, <3>4, <4>3 DEF RaiseGate
        <4> QED BY <3>4, <4>1, <4>2, <4>3, Writers
      <3> QED BY <3>1, <3>2, <3>3, <3>4 DEF FreeIInv, ClearInv
    <2> QED BY <2>1, <2>2
  <1> QED BY <1>2, <1>3

LEMMA InitFree == Init => FreeIInv
  <1> SUFFICES ASSUME Init PROVE FreeIInv
    OBVIOUS
  <1>1. OursInv /\ HeardInv BY DEF Init, OursInv, HeardInv, Free, NoEnding
  <1>2. ClearInv BY DEF Init, ClearInv
  <1> QED BY <1>1, <1>2, InitMark DEF FreeIInv

LEMMA NextFree == Clean /\ NoStop /\ FreeIInv /\ [Next]_vars => FreeIInv'
  <1> SUFFICES ASSUME Clean, NoStop, FreeIInv, [Next]_vars PROVE FreeIInv'
    OBVIOUS
  <1>1. MarkIInv' /\ OnceIInv' BY NextMark DEF FreeIInv, MarkIInv
  <1>2. CASE UNCHANGED vars
    BY <1>1, <1>2
    DEF vars, FreeIInv, OursInv, HeardInv, ClearInv, InHand, Live, Begun
  <1>3. CASE Next BY <1>1, <1>3, HeardStep, ClearStep DEF FreeIInv, MarkIInv, NoStop
  <1> QED BY <1>2, <1>3

\* A row about to be sent is printing on the printer it is sent to, which has no
\* other row and holds and ends nothing of this one.
LEMMA SendsFree ==
    ASSUME FreeIInv, NEW k \in Items, Sends(k)
    PROVE  /\ task[k].on \in Printers /\ InHand(k, task[k].on)
           /\ machine[task[k].on].phase = "free" /\ ending[task[k].on].phase = "none"
  <1> DEFINE p == task[k].on
  <1>0. OnceIInv /\ SoleIInv /\ MarkIInv BY DEF FreeIInv, MarkIInv, OnceIInv
  <1>1. task[k].pc = "send" BY DEF Sends
  <1>2. row[k].status = "printing" BY <1>0, <1>1 DEF MarkIInv, SentInv
  <1>3. row[k].printer = p /\ p \in Printers /\ task[k].slot = p /\ Live(k)
    BY <1>0, <1>1, <1>2 DEF SoleIInv, SlotInv, PinIInv, PinInv, Exists, Live
  <1>4. Has(k, p) /\ Fresh(k) /\ InHand(k, p) BY <1>0, <1>3, HandHas DEF InHand
  <1>5. machine[p].phase = "free"
    <2> SUFFICES ASSUME machine[p].phase # "free" PROVE FALSE
      OBVIOUS
    <2>1. machine[p].job \in Items BY <1>0, <1>3, JobsAreItems
    <2>2. row[machine[p].job].status = "printing" /\ row[machine[p].job].printer = p
      BY <1>3 DEF FreeIInv, OursInv
    <2>3. machine[p].job = k BY <1>0, <1>3, <1>4, <2>1, <2>2, OneJob
    <2> QED BY <1>3, <1>4, <2>3 DEF Fresh
  <1>6. ending[p].phase = "none"
    <2> SUFFICES ASSUME ending[p].phase # "none" PROVE FALSE
      OBVIOUS
    <2>1. /\ row[ending[p].job].status = "printing" /\ row[ending[p].job].printer = p
          /\ ending[p].job \in Items /\ prints[ending[p].job] = 1
      BY <1>0, <1>3 DEF FreeIInv, OursInv, MarkIInv, BegunInv
    <2>2. ending[p].job = k BY <1>0, <1>3, <1>4, <2>1, OneJob
    <2> QED BY <1>4, <2>1, <2>2 DEF Fresh
  <1> QED BY <1>3, <1>4, <1>5, <1>6

FreeSend == \A i \in Items : Sends(i) => machine[task[i].on].phase = "free"

\* A print command finds its printer holding no job, even after commands were
\* lost, refused or rejected, uploads have failed and the backend has crashed, in
\* any number of rows, where no user stops a print: a stop frees the row while
\* the printer may keep the job, and with three rows the hold that protects the
\* printer can be dropped by the watchdog of the stopped one
\* (_hold_printer_after_dispatch, _release_dispatch_hold).
THEOREM CommandsFindPrinterFree == ASSUME Clean, NoStop PROVE Spec => NoCollision
  <1>1. Clean /\ NoStop /\ FreeIInv /\ [Next]_vars => FreeIInv' BY NextFree
  <1>2. FreeIInv /\ [Next]_vars => [FreeSend]_vars BY SendsFree DEF FreeSend
  <1> QED BY Clean, NoStop, InitFree, <1>1, <1>2, PTL DEF Spec, NoCollision, FreeSend

ClearSend == \A i \in Items : PlateGate /\ Sends(i) => task[i].on \notin dirty

\* With require_plate_clear, no command goes to a printer whose last print nobody
\* has confirmed removed: the end of a print raises the gate before its row is
\* closed, so the gate is up before another row can have the printer, and the
\* flag an upload clears belongs to a printer that was already clear. It assumes
\* no stop for the reason above (_is_printer_idle, set_awaiting_plate_clear).
THEOREM PlatesAreClear == ASSUME Clean, NoStop PROVE Spec => PlateIsClear
  <1>1. Clean /\ NoStop /\ FreeIInv /\ [Next]_vars => FreeIInv' BY NextFree
  <1>2. FreeIInv /\ [Next]_vars => [ClearSend]_vars
    <2> SUFFICES ASSUME FreeIInv, NEW k \in Items, PlateGate, Sends(k)
                 PROVE  task[k].on \notin dirty
      BY DEF ClearSend
    <2>1. /\ task[k].on \in Printers /\ InHand(k, task[k].on)
          /\ machine[task[k].on].phase = "free" /\ ending[task[k].on].phase = "none"
      BY SendsFree
    <2> QED BY <2>1 DEF FreeIInv, ClearInv, Begun
  <1> QED BY Clean, NoStop, InitFree, <1>1, <1>2, PTL DEF Spec, PlateIsClear, ClearSend

-----------------------------------------------------------------------------
(* The queue implements the board of jobs.                                 *)

PlaceOf(r) == IF r.status = "printing" THEN r.printer ELSE NoPrinter

LEMMA StateIs ==
    ASSUME NEW s
    PROVE  /\ StateOf(s) = "new" <=> s = "absent"
           /\ StateOf(s) = "waiting" <=> s = "pending"
           /\ StateOf(s) = "assigned" <=> s = "printing"
           /\ StateOf(s) = "closed" <=> s \notin {"absent", "pending", "printing"}
  BY DEF StateOf

\* A row the board sees unchanged, and one it sees closed.
Unmoved(k) == /\ StateOf(row'[k].status) = StateOf(row[k].status)
              /\ PlaceOf(row'[k]) = PlaceOf(row[k])

Shut(k) == /\ StateOf(row[k].status) \in {"waiting", "assigned"}
           /\ StateOf(row'[k].status) = "closed" /\ PlaceOf(row'[k]) = NoPrinter

LEMMA SeenClosed ==
    ASSUME UNCHANGED prints, \A k \in Items : Unmoved(k) \/ Shut(k)
    PROVE  Board!Next
  <1>1. PICK S \in SUBSET Items : S = {k \in Items : Shut(k)} OBVIOUS
  <1>2. \A k \in S : StateOf(row[k].status) \in {"waiting", "assigned"}
    BY <1>1 DEF Shut
  <1>3. \A k \in Items : StateOf(row'[k].status) =
          IF k \in S THEN "closed" ELSE StateOf(row[k].status)
    BY <1>1 DEF Shut, Unmoved
  <1>4. \A k \in Items : PlaceOf(row'[k]) =
          IF k \in S THEN NoPrinter ELSE PlaceOf(row[k])
    BY <1>1 DEF Shut, Unmoved
  <1>5. Board!Close(S) BY <1>2, <1>3, <1>4 DEF Board!Close, PlaceOf
  <1> QED BY <1>5 DEF Board!Next

LEMMA SeenAsClosed ==
    ASSUME SoleIInv, NEW k \in Items, Same(k) \/ Closes(k)
    PROVE  Unmoved(k) \/ Shut(k)
  <1>1. CASE Same(k) BY <1>1 DEF Same, Unmoved, PlaceOf
  <1>2. CASE Closes(k)
    <2>1. StateOf(row'[k].status) = "closed" /\ PlaceOf(row'[k]) = NoPrinter
      BY <1>2, StateIs DEF Closes, Closed, PlaceOf
    <2>2. CASE row[k].status \in {"pending", "printing"}
      BY <2>1, <2>2, StateIs DEF Shut
    <2>3. CASE row[k].status \notin {"pending", "printing"}
      <3>1. StateOf(row[k].status) = "closed" /\ PlaceOf(row[k]) = NoPrinter
        BY <1>2, <2>3, StateIs DEF Closes, Exists, PlaceOf
      <3> QED BY <2>1, <3>1 DEF Unmoved
    <2> QED BY <2>2, <2>3
  <1> QED BY <1>1, <1>2

LEMMA SeenSubmitted ==
    ASSUME SoleIInv, NEW i \in Items, NEW p \in MaybePrinter, Enqueue(i, p)
    PROVE  Board!Next
  <1>1. row \in [Items -> Row] BY Types
  <1>2. /\ row[i].status = "absent" /\ row'[i].status = "pending" /\ prints' = prints
        /\ \A k \in Items \ {i} : row'[k] = row[k]
    BY <1>1 DEF Enqueue, printerVars, Row
  <1>3. /\ StateOf(row[i].status) = "new" /\ StateOf(row'[i].status) = "waiting"
        /\ PlaceOf(row'[i]) = NoPrinter /\ PlaceOf(row[i]) = NoPrinter
    BY <1>2, StateIs DEF PlaceOf
  <1>4. Board!Submit(i) BY <1>2, <1>3 DEF Board!Submit, PlaceOf
  <1> QED BY <1>4 DEF Board!Next

\* Only a skipped row is put back by a resume, and it has not begun.
LEMMA SeenReopened ==
    ASSUME OnceIInv, NEW p \in Printers, Resume(p)
    PROVE  Board!Next
  <1> DEFINE S == {i \in Items : row[i].status = "skipped" /\ row[i].printer = p}
  <1>1. row \in [Items -> Row] BY Types DEF OnceIInv
  <1>2. row' = [i \in Items |-> IF i \in S THEN [row[i] EXCEPT !.status = "pending"]
                                ELSE row[i]]
    BY DEF Resume
  <1>3. prints' = prints BY DEF Resume, printerVars
  <1>4. ASSUME NEW k \in S
        PROVE  /\ StateOf(row[k].status) = "closed" /\ prints[k] = 0
               /\ StateOf(row'[k].status) = "waiting"
               /\ PlaceOf(row'[k]) = NoPrinter /\ PlaceOf(row[k]) = NoPrinter
    <2>1. row[k].status = "skipped" OBVIOUS
    <2>2. row'[k].status = "pending"
      <3>1. row'[k] = [row[k] EXCEPT !.status = "pending"] BY <1>2
      <3> QED BY <1>1, <3>1 DEF Row
    <2>3. prints[k] = 0 BY <2>1 DEF OnceIInv, OnceInv, Ready, Waitable, Fresh
    <2> QED BY <2>1, <2>2, <2>3, StateIs DEF PlaceOf
  <1>5. \A k \in Items \ S : row'[k] = row[k] BY <1>2
  <1>6. S \subseteq Items OBVIOUS
  <1>7. Board!Reopen(S)
    <2> HIDE DEF S
    <2> QED BY <1>3, <1>4, <1>5, <1>6 DEF Board!Reopen, PlaceOf
  <1> QED BY <1>6, <1>7 DEF Board!Next

\* The compare-and-set assigns a fresh job to a printer nobody else has.
LEMMA SeenAssigned ==
    ASSUME OnceIInv, NEW i \in Items, Uploaded(i), WinsCas(i)
    PROVE  Board!Next
  <1>0. SoleIInv BY DEF OnceIInv
  <1>1. row \in [Items -> Row] /\ NoPrinter \notin Printers BY <1>0, Types
  <1>2. /\ row[i].status = "pending" /\ row'[i].status = "printing"
        /\ row'[i].printer = row[i].printer /\ prints' = prints
        /\ \A k \in Items \ {i} : row'[k] = row[k]
    BY <1>1 DEF Uploaded, WinsCas, Marked, Row
  <1>3. PICK p \in Printers : row[i].printer = p /\ task[i].slot = p /\ prints[i] = 0
    BY <1>0, <1>2
    DEF Uploaded, Exists, Live, SoleIInv, SlotInv, PinIInv, PinInv, OnceIInv, OnceInv,
        Ready, Fresh
  <1>4. ASSUME NEW j \in Items PROVE PlaceOf(row[j]) # p
    <2> SUFFICES ASSUME row[j].status = "printing", row[j].printer = p PROVE FALSE
      BY <1>1, <1>3 DEF PlaceOf
    <2>1. j = i BY <1>0, <1>3 DEF SoleIInv, SoleHolder, Has
    <2> QED BY <1>2, <2>1
  <1>5. /\ StateOf(row[i].status) = "waiting" /\ StateOf(row'[i].status) = "assigned"
        /\ PlaceOf(row'[i]) = p
    BY <1>2, <1>3, StateIs DEF PlaceOf
  <1>6. Board!Assign(i, p) BY <1>2, <1>3, <1>4, <1>5 DEF Board!Assign, PlaceOf
  <1> QED BY <1>6 DEF Board!Next

\* A printer begins the job of the row that is printing on it.
LEMMA SeenBegun ==
    ASSUME MarkIInv, NEW p \in Printers, Begin(p)
    PROVE  Board!Next
  <1> DEFINE j == machine[p].job
  <1>0. OnceIInv /\ SoleIInv BY DEF MarkIInv, OnceIInv
  <1>1. prints \in [Items -> 0..2] BY <1>0, Types
  <1>2. machine[p].phase = "loaded" /\ row' = row BY DEF Begin, queueVars
  <1>3. j \in Items BY <1>0, <1>2, JobsAreItems
  <1>4. row[j].status = "printing" /\ prints[j] = 0
    BY <1>0, <1>2 DEF MarkIInv, WorkInv, Working, OnceIInv, HeldInv
  <1>5. prints' = [prints EXCEPT ![j] = 1] BY <1>1, <1>3, <1>4 DEF Begin
  <1>6. StateOf(row[j].status) = "assigned" BY <1>4, StateIs
  <1>7. Board!Begin(j)
    <2> HIDE DEF j
    <2> QED BY <1>2, <1>3, <1>4, <1>5, <1>6 DEF Board!Begin
  <1> QED BY <1>3, <1>7 DEF Board!Next

\* A row goes back in line from a printer that has not begun it.
LEMMA SeenReturned ==
    ASSUME Clean, MarkIInv, Next, NEW i \in Items, Returns(i)
    PROVE  Board!Next
  <1>0. OnceIInv /\ SoleIInv BY DEF MarkIInv, OnceIInv
  <1>1. row \in [Items -> Row] BY <1>0, Types
  <1>2. row[i].status = "printing"
    BY DEF Returns, AfterRefusal, MarkIInv, SentInv
  <1>3. prints' = prints /\ \A k \in Items \ {i} : row'[k] = row[k]
    <2>1. CASE AfterRefusal(i)
      BY <1>1, <2>1 DEF AfterRefusal, Blind, Write, printerVars
    <2>2. CASE StartTimeout(i) BY <1>1, <2>2 DEF StartTimeout
    <2> QED BY <2>1, <2>2 DEF Returns
  <1>4. row'[i].status = "pending" BY DEF Returns
  <1>5. Fresh(i)
    <2>1. ~Overruled(i) BY <1>0, <1>1, <1>4, NeverLate DEF Overruled, Stop, Row
    <2>2. \A p \in Printers : row'[i].status # TerminalQueueStatus(ending[p].result)
      BY <1>4 DEF TerminalQueueStatus
    <2>3. ASSUME NEW S \in SUBSET Items, CloseStranded(S), i \in S PROVE FALSE
      <3> DEFINE s == TerminalQueueStatus(seen[row[i].printer])
      <3>1. row'[i] = [row[i] EXCEPT !.status = s] BY <2>3 DEF CloseStranded
      <3>2. s # "pending" BY DEF TerminalQueueStatus
      <3> HIDE DEF s
      <3> QED BY <1>1, <1>4, <3>1, <3>2 DEF Row
    <2> QED BY <1>0, <1>2, <1>4, <2>1, <2>2, <2>3, EndingsAreOwn, WhoCloses
         DEF Leaves, Clean
  <1>6. /\ StateOf(row[i].status) = "assigned" /\ StateOf(row'[i].status) = "waiting"
        /\ PlaceOf(row'[i]) = NoPrinter /\ prints[i] = 0
    BY <1>2, <1>4, <1>5, StateIs DEF PlaceOf, Fresh
  <1>7. \A k \in Items \ {i} : /\ StateOf(row'[k].status) = StateOf(row[k].status)
                              /\ PlaceOf(row'[k]) = PlaceOf(row[k])
    BY <1>3
  <1>8. Board!Return(i)
    <2>1. [k \in Items |-> PlaceOf(row'[k])]
            = [[k \in Items |-> PlaceOf(row[k])] EXCEPT ![i] = NoPrinter]
      BY <1>6, <1>7
    <2>2. [k \in Items |-> StateOf(row'[k].status)]
            = [[k \in Items |-> StateOf(row[k].status)] EXCEPT ![i] = "waiting"]
      BY <1>6, <1>7
    <2> QED BY <1>3, <1>6, <2>1, <2>2 DEF Board!Return, PlaceOf
  <1> QED BY <1>8 DEF Board!Next

LEMMA StepOnBoard ==
    ASSUME Clean, MarkIInv, Next
    PROVE  Board!Next
  <1>0. OnceIInv /\ SoleIInv BY DEF MarkIInv, OnceIInv
  <1>1. CASE prints' # prints BY <1>1, SeenBegun, Writers
  <1>2. CASE \E k \in Items : Enters(k)
    BY <1>0, <1>2, SeenSubmitted, SeenReopened DEF Enters
  <1>3. CASE \E k \in Items : Returns(k) BY <1>3, SeenReturned
  <1>4. CASE \E k \in Items : Uploaded(k) /\ WinsCas(k) BY <1>0, <1>4, SeenAssigned
  <1>5. CASE /\ prints' = prints
             /\ \A k \in Items : /\ ~Enters(k) /\ ~Returns(k)
                                 /\ ~(Uploaded(k) /\ WinsCas(k))
    <2>1. \A k \in Items : Same(k) \/ Closes(k) BY <1>0, <1>5, RowSteps DEF Clean
    <2>2. \A k \in Items : Unmoved(k) \/ Shut(k) BY <1>0, <2>1, SeenAsClosed
    <2> QED BY <1>5, <2>2, SeenClosed
  <1> QED BY <1>1, <1>2, <1>3, <1>4, <1>5

\* The dispatch path implements the board of jobs: whatever passes, uploads,
\* watchdogs, callbacks, crashes and failing writes do, a printer is assigned to a
\* row that nobody shares it with, begins its job once, and gives it back only
\* unbegun. With BoardKeepsPromises, the board's promises are the queue's.
THEOREM QueueImplementsBoard == ASSUME Clean PROVE Spec => ImplementsBoard
  <1>1. Init => Board!Init
    BY StateIs DEF Init, Board!Init, StateOf
  <1>2. Clean /\ MarkIInv /\ [Next]_vars => [Board!Next]_(Board!vars)
    <2> SUFFICES ASSUME Clean, MarkIInv, [Next]_vars PROVE [Board!Next]_(Board!vars)
      OBVIOUS
    <2>1. CASE UNCHANGED vars BY <2>1 DEF vars, Board!vars
    <2>2. CASE Next BY <2>2, StepOnBoard
    <2> QED BY <2>1, <2>2
  <1>3. Clean /\ MarkIInv /\ [Next]_vars => MarkIInv' BY NextMark
  <1> QED
    BY Clean, InitMark, <1>1, <1>2, <1>3, PTL DEF Spec, ImplementsBoard, Board!Spec

Promised == INSTANCE JobBoardProofs WITH
    Jobs    <- Items,
    Nowhere <- NoPrinter,
    state   <- [i \in Items |-> StateOf(row[i].status)],
    place   <- [i \in Items |-> IF row[i].status = "printing" THEN row[i].printer
                                ELSE NoPrinter],
    runs    <- prints

\* What the board promises holds of the queue: a printer is never given to two
\* rows, a job that has begun never waits again, a row has a printer exactly while
\* it is printing, and a job begins at most once.
THEOREM QueueKeepsPromises == ASSUME Clean PROVE Spec => []Board!BoardInv
  <1>1. Spec => ImplementsBoard BY Clean, QueueImplementsBoard
  <1>2. Promised!Spec => []Promised!BoardInv
    BY ConstantsAssumption, Promised!BoardKeepsPromises
  <1>3. Board!Init <=> Promised!Init BY DEF Board!Init, Promised!Init
  <1>4. [Board!Next]_(Board!vars) <=> [Promised!Next]_(Promised!vars)
    BY DEF Board!Next, Board!Submit, Board!Begin, Board!Return, Board!Assign,
           Board!Close, Board!Reopen, Board!vars,
           Promised!Next, Promised!Submit, Promised!Begin, Promised!Return,
           Promised!Assign, Promised!Close, Promised!Reopen, Promised!vars
  <1>5. Promised!BoardInv <=> Board!BoardInv
    BY DEF Board!BoardInv, Board!BoardTypeOK, Board!States, Board!Exclusive,
           Board!NeverAgain, Board!Placed,
           Promised!BoardInv, Promised!BoardTypeOK, Promised!States, Promised!Exclusive,
           Promised!NeverAgain, Promised!Placed
  <1> QED
    BY <1>1, <1>2, <1>3, <1>4, <1>5, PTL DEF ImplementsBoard, Board!Spec, Promised!Spec

=============================================================================
