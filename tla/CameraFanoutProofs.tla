------------------------- MODULE CameraFanoutProofs -------------------------
(***************************************************************************)
(* Proofs about CameraFanout, for every set of viewers, number of          *)
(* broadcasters, queue size and choice of faults.                          *)
(***************************************************************************)
EXTENDS CameraFanout, TLAPS

-----------------------------------------------------------------------------
(* Type correctness.                                                       *)

\* What a viewer's queue may be.
Queues == {q \in Seq({"frame", "gone"}) : Len(q) <= QueueSize}

\* Copying an item to some viewers respects every queue's size.
LEMMA PutKeepsQueues ==
    ASSUME NEW q \in [Viewers -> Queues], NEW vs, NEW item \in {"frame", "gone"}
    PROVE  Put(q, vs, item) \in [Viewers -> Queues]
<1>1. ASSUME NEW v \in Viewers
      PROVE  (IF v \in vs /\ Len(q[v]) < QueueSize
              THEN Append(q[v], item) ELSE q[v]) \in Queues
  BY <1>1, FanoutAssumption DEF Queues
<1> QED BY <1>1 DEF Put

\* A stop leaves pumps, teardowns, timers and history well typed.
LEMMA StopIsTyped ==
    ASSUME TypeOK, NEW b \in Ids, StopBroadcaster(b)
    PROVE  /\ pump' \in [Ids -> PumpStates]
           /\ teardown' \in [Ids -> {"no", "pending", "complete"}]
           /\ grace' \subseteq Ids
           /\ lingering' \subseteq Ids
           /\ gaveUp' \subseteq Ids
<1>1. Cancelled(pump[b]) \in PumpStates
  BY DEF TypeOK, Cancelled, PumpStates
<1> QED BY <1>1 DEF TypeOK, StopBroadcaster

LEMMA TypeInit == Init => TypeOK
<1> SUFFICES ASSUME Init PROVE TypeOK
  OBVIOUS
<1>1. /\ registry \in 0..MaxBroadcasters
      /\ made \in 0..MaxBroadcasters
      /\ pred \in [Ids -> 0..MaxBroadcasters]
      /\ at \in [Viewers -> 0..MaxBroadcasters]
  BY FanoutAssumption DEF Init
<1>2. <<>> \in Seq({"frame", "gone"}) /\ Len(<<>>) <= QueueSize
  BY FanoutAssumption
<1>3. \A v \in Viewers : queue[v] = <<>>
  BY DEF Init
<1>4. queue \in [Viewers -> Seq({"frame", "gone"})]
  BY <1>2 DEF Init
<1>5. \A v \in Viewers : Len(queue[v]) <= QueueSize
  BY <1>2, <1>3
<1>6. /\ down \in BOOLEAN
      /\ pump \in [Ids -> PumpStates]
      /\ teardown \in [Ids -> {"no", "pending", "complete"}]
      /\ subs \in [Ids -> SUBSET Viewers]
      /\ grace \subseteq Ids /\ primed \subseteq Ids /\ stopping \subseteq Ids
      /\ lingering \subseteq Ids
      /\ gone \subseteq Viewers /\ overrun \subseteq Viewers
      /\ gaveUp \subseteq Ids
  BY DEF Init, PumpStates
<1> QED BY <1>1, <1>4, <1>5, <1>6 DEF TypeOK

\* A subscription is well typed, whichever broadcaster takes it.
LEMMA SubscribeIsTyped ==
    ASSUME TypeOK, NEW v \in Viewers, NEW b \in Ids, Subscribe(v, b)
    PROVE  /\ subs' \in [Ids -> SUBSET Viewers]
           /\ grace' \subseteq Ids
           /\ pump' \in [Ids -> PumpStates]
           /\ at' \in [Viewers -> 0..MaxBroadcasters]
           /\ queue' \in [Viewers -> Queues]
<1>1. b \in 0..MaxBroadcasters
  BY FanoutAssumption DEF Ids
<1>2. <<>> \in Queues /\ <<"frame">> \in Queues
  BY FanoutAssumption DEF Queues
<1>3. queue \in [Viewers -> Queues]
  BY DEF TypeOK, Queues
<1> QED BY <1>1, <1>2, <1>3 DEF TypeOK, Subscribe, PumpStates

LEMMA TypeStep ==
    ASSUME TypeOK, [Next]_vars
    PROVE  TypeOK'
<1> USE DEF Queues
<1>q. queue \in [Viewers -> Queues]
  BY DEF TypeOK
<1>1. ASSUME NEW v \in Viewers, Join(v) PROVE TypeOK'
  <2>1. registry \in Ids
    BY <1>1, FanoutAssumption DEF Join, Registered, TypeOK, Ids
  <2>2. Subscribe(v, registry)
    BY <1>1 DEF Join
  <2> QED BY <1>1, <2>1, <2>2, SubscribeIsTyped DEF Join, TypeOK
<1>2. ASSUME NEW v \in Viewers, Replace(v) PROVE TypeOK'
  <2>1. made + 1 \in Ids
    BY <1>2, FanoutAssumption DEF Replace, TypeOK, Ids
  <2>2. Subscribe(v, made + 1)
    BY <1>2 DEF Replace
  <2>3. made + 1 \in 0..MaxBroadcasters
    BY <2>1, FanoutAssumption DEF Ids
  <2> QED BY <1>2, <2>1, <2>2, <2>3, SubscribeIsTyped
          DEF Replace, Predecessor, TypeOK
<1>3. ASSUME NEW v \in Viewers, ClientGone(v) PROVE TypeOK'
  BY <1>3 DEF ClientGone, TypeOK, streamVars
<1>4. ASSUME NEW v \in Viewers, Watch(v) PROVE TypeOK'
  <2>1. /\ queue[v] \in Seq({"frame", "gone"}) /\ queue[v] # <<>>
        /\ Len(queue[v]) <= QueueSize
    BY <1>4, <1>q DEF Watch
  <2>2. /\ Tail(queue[v]) \in Seq({"frame", "gone"})
        /\ Len(Tail(queue[v])) = Len(queue[v]) - 1
    BY <2>1
  <2>3. Tail(queue[v]) \in Queues
    BY <2>1, <2>2, FanoutAssumption
  <2> QED BY <1>4, <1>q, <2>3 DEF Watch, TypeOK, streamVars
<1>5. ASSUME NEW v \in Viewers, Leave(v) PROVE TypeOK'
  <2>1. at[v] \in Ids
    BY <1>5, FanoutAssumption DEF Leave, TypeOK, Ids
  <2>2. <<>> \in Queues
    BY FanoutAssumption
  <2>3. 0 \in 0..MaxBroadcasters
    BY FanoutAssumption
  <2> QED BY <1>5, <1>q, <2>1, <2>2, <2>3 DEF Leave, Unsubscribe, TypeOK
<1>z. 0 \in 0..MaxBroadcasters
  BY FanoutAssumption
<1>6. ASSUME NEW b \in Ids, PumpStarts(b) \/ PumpProceeds(b) PROVE TypeOK'
  <2>1. pump' \in [Ids -> PumpStates] /\ pred' \in [Ids -> 0..MaxBroadcasters]
    <3>1. CASE PumpStarts(b)
      BY <3>1, <1>z DEF PumpStarts, TypeOK, PumpStates
    <3>2. CASE PumpProceeds(b)
      BY <3>2, <1>z DEF PumpProceeds, TypeOK, PumpStates
    <3> QED BY <1>6, <3>1, <3>2
  <2> QED BY <1>6, <2>1 DEF PumpStarts, PumpProceeds, TypeOK, viewerVars
<1>7. ASSUME NEW b \in Ids, WaitTimesOut(b) \/ UpstreamEnds(b) PROVE TypeOK'
  <2>1. pump' \in [Ids -> PumpStates] /\ pred' \in [Ids -> 0..MaxBroadcasters]
    <3>1. CASE WaitTimesOut(b)
      BY <3>1, <1>z DEF WaitTimesOut, TypeOK, PumpStates
    <3>2. CASE UpstreamEnds(b)
      BY <3>2 DEF UpstreamEnds, TypeOK, PumpStates
    <3> QED BY <1>7, <3>1, <3>2
  <2> QED BY <1>7, <2>1 DEF WaitTimesOut, UpstreamEnds, TypeOK, viewerVars
<1>8. ASSUME NEW b \in Ids, Frame(b) PROVE TypeOK'
  <2>1. Put(queue, subs[b], "frame") \in [Viewers -> Queues]
    BY <1>q, PutKeepsQueues
  <2> QED BY <1>8, <2>1 DEF Frame, TypeOK
<1>9. ASSUME NEW b \in Ids, Closed(b) PROVE TypeOK'
  <2>1. Put(queue, subs[b], "gone") \in [Viewers -> Queues]
    BY <1>q, PutKeepsQueues
  <2>2. pump' \in [Ids -> PumpStates]
    BY <1>9 DEF Closed, KillStreams, TypeOK, PumpStates
  <2>3. overrun' \subseteq Viewers
    BY <1>9 DEF Closed, Full, TypeOK
  <2> QED BY <1>9, <2>1, <2>2, <2>3 DEF Closed, Told, TypeOK
<1>10. ASSUME NEW b \in Ids, GraceFires(b) PROVE TypeOK'
  BY <1>10, StopIsTyped DEF GraceFires, TypeOK, viewerVars
<1>11. ASSUME StopRequest PROVE TypeOK'
  <2>1. registry \in Ids
    BY <1>11, FanoutAssumption DEF StopRequest, Registered, TypeOK, Ids
  <2> QED BY <1>11, <2>1, StopIsTyped DEF StopRequest, TypeOK, viewerVars
<1>12. ASSUME AppStops PROVE TypeOK'
  <2>1. 0 \in 0..MaxBroadcasters
    BY FanoutAssumption
  <2>2. CASE registry = 0
    BY <1>12, <2>1, <2>2 DEF AppStops, TypeOK
  <2>3. CASE registry # 0
    <3>1. registry \in Ids
      BY <2>3, FanoutAssumption DEF TypeOK, Ids
    <3>2. Put(queue, subs[registry], "gone") \in [Viewers -> Queues]
      BY <1>q, PutKeepsQueues
    <3>3. overrun' \subseteq Viewers
      BY <1>12, <2>3, <3>1 DEF AppStops, Full, TypeOK
    <3>4. CASE Stopped(registry)
      BY <1>12, <2>1, <2>3, <3>1, <3>3, <3>4 DEF AppStops, TypeOK
    <3>5. CASE ~Stopped(registry)
      BY <1>12, <2>1, <2>3, <3>1, <3>2, <3>3, <3>5, StopIsTyped
         DEF AppStops, Told, TypeOK
    <3> QED BY <3>4, <3>5
  <2> QED BY <2>2, <2>3
<1>13. CASE UNCHANGED vars
  BY <1>13 DEF vars, TypeOK
<1>14. ASSUME NEW b \in Ids, SocketCloses(b) PROVE TypeOK'
  BY <1>14 DEF SocketCloses, TypeOK, viewerVars
<1> QED BY <1>1, <1>2, <1>3, <1>4, <1>5, <1>6, <1>7, <1>8, <1>9, <1>10, <1>11,
           <1>12, <1>13, <1>14 DEF Next

\* Every reachable state is well typed, and no viewer's queue outgrows its
\* bound.
THEOREM StreamTypes == Spec => []TypeOK
<1>1. TypeOK /\ [Next]_vars => TypeOK'
  BY TypeStep
<1> QED BY TypeInit, <1>1, PTL DEF Spec

-----------------------------------------------------------------------------
(* The handover of the printer's one camera socket.                        *)

\* Steps that touch no pump, no predecessor and no teardown.
LEMMA QuietSteps ==
    ASSUME HandoverInv, TypeOK', \A c \in Ids : Unmade(c)',
           lingering' \subseteq lingering,
           UNCHANGED <<registry, made, down, pump, pred, teardown, gaveUp>>
    PROVE  HandoverInv'
BY DEF HandoverInv, NewestRegistered, Placed, Behind, Passed, Streams, Stopped

\* Only the newest broadcaster can still be running.
LEMMA RunningIsNewest ==
    ASSUME HandoverInv, NEW b \in Ids, ~Stopped(b), pump[b] # "none"
    PROVE  b = made
BY DEF HandoverInv, Placed, TypeOK, Ids

\* A pump moves on while no broadcaster stops: only the newest may be the one,
\* and then Behind has to be shown of it alone, as the younger one.
LEMMA NewestMoves ==
    ASSUME HandoverInv, TypeOK', \A c \in Ids : Unmade(c)',
           NEW b \in Ids, b = made, ~Stopped(b),
           UNCHANGED <<registry, made, down, teardown, lingering>>,
           \A c \in Ids : c # b => pump'[c] = pump[c] /\ pred'[c] = pred[c],
           pump'[b] # "none", pred'[b] \in {0, b - 1},
           pump'[b] = "wait" => pred'[b] # 0,
           gaveUp \subseteq gaveUp',
           \A a \in Ids : Behind(a, b)'
    PROVE  HandoverInv'
<1>1. NewestRegistered'
  BY DEF HandoverInv, NewestRegistered
<1>2. ASSUME NEW c \in Ids PROVE Placed(c)'
  <2>1. CASE c = b
    BY <2>1 DEF HandoverInv, Placed, Stopped, TypeOK, Ids
  <2>2. CASE c # b
    BY <2>2 DEF HandoverInv, Placed, Stopped, TypeOK, Ids
  <2> QED BY <2>1, <2>2
<1>3. ASSUME NEW a \in Ids, NEW c \in Ids PROVE Behind(a, c)'
  <2>1. CASE c = b
    BY <2>1
  <2>2. CASE c # b /\ a # b
    BY <2>2 DEF HandoverInv, Behind, Passed, Streams
  <2>3. CASE c # b /\ a = b
    BY <2>3 DEF HandoverInv, Placed, Behind, Passed, TypeOK, Ids
  <2> QED BY <2>1, <2>2, <2>3
<1> QED BY <1>1, <1>2, <1>3 DEF HandoverInv

\* A pump that dials because the broadcaster before it is torn down leaves no
\* socket open behind it that an earlier one did not already excuse.
LEMMA DialsBehindAClosedSocket ==
    ASSUME HandoverInv, TypeOK', NEW b \in Ids, ~Stopped(b), b = made,
           pump[b] \in {"new", "wait"}, pred[b] # 0,
           teardown[pred[b]] = "complete",
           pump' = [pump EXCEPT ![b] = "live"], gaveUp' = gaveUp,
           NEW a \in Ids
    PROVE  Behind(a, b)'
<1> SUFFICES ASSUME a < b, Streams(a)'
             PROVE  \E c \in (a + 1)..b : c \in gaveUp'
  BY DEF Behind
<1>0. Placed(b) /\ pred[b] \in 0..MaxBroadcasters
  BY DEF HandoverInv, TypeOK
<1>1. pred[b] = b - 1 /\ b - 1 \in Ids /\ b \in Nat /\ a \in Nat
  BY <1>0, FanoutAssumption DEF Placed, Ids
<1>2. pump[b - 1] = "done"
  BY <1>1 DEF HandoverInv, Placed, TypeOK, Ids
<1>3. Streams(a)
  BY DEF Streams, HandoverInv, TypeOK
<1>4. a < b - 1
  BY <1>1, <1>2, <1>3 DEF Streams
<1>5. Behind(a, b - 1) /\ Passed(b - 1)
  BY <1>1, <1>2 DEF HandoverInv, Passed
<1>6. PICK c \in (a + 1)..(b - 1) : c \in gaveUp
  BY <1>3, <1>4, <1>5 DEF Behind
<1> QED BY <1>1, <1>6

\* A stop keeps the order: the stopped pump closes, or never dialed and counts
\* as having given up.
LEMMA StopKeepsHandover ==
    ASSUME HandoverInv, TypeOK', \A c \in Ids : Unmade(c)',
           NEW b \in Ids, b = made, ~Stopped(b),
           StopBroadcaster(b), UNCHANGED <<made, pred>>,
           down' = down \/ down' = TRUE,
           registry' \in {0, made}, registry' = 0 => made = 0 \/ down'
    PROVE  HandoverInv'
<1>1. NewestRegistered'
  BY DEF NewestRegistered
<1>2. pump[b] # "none" /\ pump[b] \in PumpStates
  BY DEF HandoverInv, Placed, TypeOK, Ids
<1>3. /\ pump'[b] \in {"closing", "done"}
      /\ pump'[b] = "closing" <=> pump[b] = "live"
      /\ lingering' \subseteq lingering \union {b}
      /\ b \in lingering' => pump'[b] = "done"
      /\ teardown'[b] = IF pump'[b] = "closing" THEN "pending" ELSE "complete"
      /\ \A c \in Ids : c # b => pump'[c] = pump[c] /\ teardown'[c] = teardown[c]
      /\ gaveUp \subseteq gaveUp'
      /\ pump[b] \in {"new", "wait"} /\ pred[b] # 0 => b \in gaveUp'
  BY <1>2 DEF StopBroadcaster, Cancelled, PumpStates, HandoverInv, Placed, TypeOK
<1>4. ASSUME NEW c \in Ids PROVE Placed(c)'
  <2>1. CASE c = b
    BY <1>3, <2>1 DEF HandoverInv, Placed, Stopped, TypeOK, Ids
  <2>2. CASE c # b
    BY <1>3, <2>2 DEF HandoverInv, Placed, Stopped, TypeOK, Ids
  <2> QED BY <2>1, <2>2
<1>5. ASSUME NEW a \in Ids, NEW c \in Ids PROVE Behind(a, c)'
  <2> SUFFICES ASSUME a < c, Passed(c)', Streams(a)'
               PROVE  \E d \in (a + 1)..c : d \in gaveUp'
    BY DEF Behind
  <2>1. Streams(a)
    BY <1>3 DEF Streams
  <2>2. Behind(a, c) /\ a \in Nat /\ c \in Nat
    BY DEF HandoverInv, Ids
  <2>3. CASE Passed(c)
    BY <1>3, <2>1, <2>2, <2>3 DEF Behind
  <2>4. CASE ~Passed(c)
    <3>1. c = b
      BY <1>3, <2>4 DEF Passed
    <3>2. pump[b] \in {"new", "wait"} /\ pred[b] # 0
      BY <1>2, <2>4, <3>1 DEF Passed, PumpStates, HandoverInv, Placed
    <3> QED BY <1>3, <2>2, <3>1, <3>2
  <2> QED BY <2>3, <2>4
<1> QED BY <1>1, <1>4, <1>5 DEF HandoverInv

LEMMA HandoverInit == Init => HandoverInv
BY TypeInit DEF Init, HandoverInv, NewestRegistered, Placed, Unmade, Behind,
                Passed, Streams, Stopped, Ids

\* A broadcaster not made yet has no viewer and no timer.
LEMMA UnmadeStep ==
    ASSUME HandoverInv, [Next]_vars, NEW c \in Ids
    PROVE  Unmade(c)'
<1> USE DEF viewerVars, streamVars
<1>1. Unmade(c) /\ c \in Nat /\ made \in Nat /\ registry \in {0, made}
      /\ subs \in [Ids -> SUBSET Viewers]
  BY DEF HandoverInv, NewestRegistered, TypeOK, Ids
<1>2. ASSUME NEW v \in Viewers, Join(v) PROVE Unmade(c)'
  BY <1>1, <1>2 DEF Join, Registered, Subscribe, Unmade
<1>3. ASSUME NEW v \in Viewers, Replace(v) PROVE Unmade(c)'
  BY <1>1, <1>3 DEF Replace, Subscribe, Unmade
<1>4. ASSUME NEW v \in Viewers, Leave(v) PROVE Unmade(c)'
  BY <1>1, <1>4 DEF Leave, Unsubscribe, LastLeaves, Unmade
<1>5. ASSUME NEW b \in Ids, GraceFires(b) PROVE Unmade(c)'
  BY <1>1, <1>5 DEF GraceFires, StopBroadcaster, Unmade
<1>6. CASE StopRequest
  BY <1>1, <1>6 DEF StopRequest, StopBroadcaster, Unmade
<1>7. CASE AppStops
  BY <1>1, <1>7 DEF AppStops, StopBroadcaster, Unmade
<1>8. ASSUME NEW v \in Viewers, ClientGone(v) \/ Watch(v) PROVE Unmade(c)'
  BY <1>1, <1>8 DEF ClientGone, Watch, Unmade
<1>9. ASSUME NEW b \in Ids, \/ PumpStarts(b) \/ PumpProceeds(b) \/ WaitTimesOut(b)
                            \/ Frame(b) \/ UpstreamEnds(b) \/ Closed(b)
                            \/ SocketCloses(b)
      PROVE  Unmade(c)'
  BY <1>1, <1>9 DEF PumpStarts, PumpProceeds, WaitTimesOut, Frame, UpstreamEnds,
                   Closed, SocketCloses, Unmade
<1>10. CASE UNCHANGED vars
  BY <1>1, <1>10 DEF vars, Unmade
<1> QED BY <1>2, <1>3, <1>4, <1>5, <1>6, <1>7, <1>8, <1>9, <1>10 DEF Next

LEMMA HandoverStep ==
    ASSUME HandoverInv, [Next]_vars
    PROVE  HandoverInv'
<1> USE DEF viewerVars, streamVars
<1>0. TypeOK' /\ \A c \in Ids : Unmade(c)'
  BY TypeStep, UnmadeStep DEF HandoverInv
<1>1. ASSUME NEW v \in Viewers, Join(v) PROVE HandoverInv'
  <2>1. registry \in Ids /\ registry = made /\ ~Stopped(registry)
    BY <1>1, FanoutAssumption
       DEF Join, Registered, HandoverInv, NewestRegistered, TypeOK, Ids
  <2>2. UNCHANGED <<registry, made, down, pred, teardown, lingering, gaveUp>>
    BY <1>1 DEF Join
  <2>3. CASE ~NeedsPump(registry)
    <3>1. pump' = pump
      BY <1>1, <2>1, <2>3 DEF Join, Subscribe, HandoverInv, TypeOK
    <3> QED BY <1>0, <2>2, <3>1, QuietSteps
  <2>4. CASE NeedsPump(registry)
    <3>0. Placed(registry) /\ registry <= made
      BY <2>1 DEF HandoverInv, Ids
    <3>1. pump[registry] = "done" /\ pump' = [pump EXCEPT ![registry] = "new"]
      BY <1>1, <2>4, <3>0 DEF Join, Subscribe, NeedsPump, Placed
    <3>2. ASSUME NEW a \in Ids PROVE Behind(a, registry)'
      <4>1. Behind(a, registry) /\ Passed(registry)
        BY <2>1, <3>1 DEF HandoverInv, Passed
      <4>2. Streams(a)' => Streams(a)
        BY <2>1, <3>1 DEF Streams, HandoverInv, TypeOK
      <4> QED BY <2>2, <4>1, <4>2 DEF Behind
    <3>3. \A c \in Ids : c # registry => pump'[c] = pump[c] /\ pred'[c] = pred[c]
      BY <2>2, <3>1 DEF HandoverInv, TypeOK
    <3>4. pump'[registry] = "new" /\ pred'[registry] \in {0, registry - 1}
      BY <2>1, <2>2, <3>1 DEF HandoverInv, Placed, TypeOK
    <3> QED BY <1>0, <2>1, <2>2, <3>2, <3>3, <3>4, NewestMoves
  <2> QED BY <2>3, <2>4
<1>2. ASSUME NEW v \in Viewers, Replace(v) PROVE HandoverInv'
  <2> DEFINE b == made + 1
  <2>1. /\ b \in Ids /\ made \in Nat /\ ~down /\ made' = b /\ registry' = b
        /\ registry = made
    BY <1>2, FanoutAssumption
       DEF Replace, HandoverInv, NewestRegistered, TypeOK, Ids
  <2>2. Placed(b) /\ b > made
    BY <2>1 DEF HandoverInv
  <2>3. /\ pump' = [pump EXCEPT ![b] = "new"]
        /\ pred' = [pred EXCEPT ![b] = made]
        /\ UNCHANGED <<down, teardown, lingering, gaveUp>>
    BY <1>2, <2>1, <2>2
       DEF Replace, Subscribe, NeedsPump, Predecessor, Placed
  <2>4. made # 0 => Stopped(made)
    BY <1>2, <2>1 DEF Replace, Registered
  <2>5. ASSUME NEW c \in Ids PROVE Placed(c)'
    <3>1. Placed(c) /\ c \in Nat \ {0}
      BY DEF HandoverInv, Ids
    <3>2. CASE c = b
      <4>1. /\ pump'[c] = "new" /\ pred'[c] = c - 1 /\ teardown'[c] = "no"
            /\ made' = c /\ c \notin lingering'
        BY <2>1, <2>2, <2>3, <3>2 DEF Placed, Stopped, HandoverInv, TypeOK
      <4> QED BY <3>1, <4>1 DEF Placed, Stopped
    <3>3. CASE c # b
      <4>1. UNCHANGED <<pump[c], pred[c], teardown[c], down, lingering>>
        BY <2>3, <3>3 DEF HandoverInv, TypeOK
      <4> QED BY <2>1, <2>4, <3>1, <3>3, <4>1 DEF Placed, Stopped
    <3> QED BY <3>2, <3>3
  <2>6. ASSUME NEW a \in Ids, NEW c \in Ids PROVE Behind(a, c)'
    <3>1. Behind(a, c) /\ Placed(c) /\ a \in Nat /\ c \in Nat
      BY DEF HandoverInv, Ids
    <3>2. CASE c = b
      <4>1. CASE made = 0
        BY <2>1, <3>1, <3>2, <4>1 DEF Behind, Ids
      <4>2. CASE made # 0
        BY <2>1, <2>3, <3>2, <4>2 DEF Behind, Passed, HandoverInv, TypeOK
      <4> QED BY <4>1, <4>2
    <3>3. CASE c # b
      <4>1. Passed(c)' => Passed(c)
        BY <2>1, <2>3, <3>3 DEF Passed, HandoverInv, TypeOK
      <4>2. Streams(a)' => Streams(a)
        BY <2>1, <2>3 DEF Streams, HandoverInv, TypeOK
      <4> QED BY <2>3, <3>1, <4>1, <4>2 DEF Behind
    <3> QED BY <3>2, <3>3
  <2>7. NewestRegistered'
    BY <2>1 DEF NewestRegistered
  <2> QED BY <1>0, <2>5, <2>6, <2>7 DEF HandoverInv
<1>3. ASSUME NEW v \in Viewers, ClientGone(v) \/ Watch(v) \/ Leave(v)
      PROVE  HandoverInv'
  BY <1>0, <1>3, QuietSteps DEF ClientGone, Watch, Leave
<1>4. ASSUME NEW b \in Ids, PumpStarts(b) PROVE HandoverInv'
  <2>1. ~Stopped(b) /\ b = made /\ pump[b] = "new"
    BY <1>4, RunningIsNewest DEF PumpStarts, HandoverInv, Placed
  <2>2. CASE pred[b] = 0 \/ teardown[pred[b]] = "complete"
    <3>1. /\ pump' = [pump EXCEPT ![b] = "live"] /\ pred' = [pred EXCEPT ![b] = 0]
          /\ UNCHANGED <<registry, made, down, teardown, lingering, gaveUp>>
      BY <1>4, <2>2 DEF PumpStarts
    <3>2. ASSUME NEW a \in Ids PROVE Behind(a, b)'
      <4>1. CASE pred[b] = 0
        <5>1. Behind(a, b) /\ Passed(b) /\ a \in Nat /\ b \in Nat
          BY <2>1, <4>1 DEF HandoverInv, Passed, Ids
        <5>2. a < b /\ Streams(a)' => Streams(a)
          BY <3>1, <5>1 DEF Streams, HandoverInv, TypeOK
        <5> QED BY <3>1, <5>1, <5>2 DEF Behind
      <4>2. CASE pred[b] # 0
        BY <1>0, <2>1, <2>2, <3>1, <4>2, DialsBehindAClosedSocket
      <4> QED BY <4>1, <4>2
    <3>3. /\ \A c \in Ids : c # b => pump'[c] = pump[c] /\ pred'[c] = pred[c]
          /\ pump'[b] = "live" /\ pred'[b] = 0
      BY <3>1 DEF HandoverInv, TypeOK
    <3> QED BY <1>0, <2>1, <3>1, <3>2, <3>3, NewestMoves
  <2>3. CASE ~(pred[b] = 0 \/ teardown[pred[b]] = "complete")
    <3>1. /\ pump' = [pump EXCEPT ![b] = "wait"] /\ pred'[b] = pred[b]
          /\ pred' = pred
          /\ UNCHANGED <<registry, made, down, teardown, lingering, gaveUp>>
      BY <1>4, <2>3 DEF PumpStarts, HandoverInv, TypeOK
    <3>2. /\ \A c \in Ids : c # b => pump'[c] = pump[c] /\ pred'[c] = pred[c]
          /\ pump'[b] = "wait" /\ pred'[b] \in {0, b - 1} /\ pred'[b] # 0
      BY <2>3, <3>1 DEF HandoverInv, Placed, TypeOK
    <3>3. ASSUME NEW a \in Ids PROVE Behind(a, b)'
      BY <3>2 DEF Behind, Passed
    <3> QED BY <1>0, <2>1, <3>1, <3>2, <3>3, NewestMoves
  <2> QED BY <2>2, <2>3
<1>5. ASSUME NEW b \in Ids, PumpProceeds(b) PROVE HandoverInv'
  <2>1. ~Stopped(b) /\ b = made /\ pump[b] = "wait" /\ pred[b] # 0
    BY <1>5, RunningIsNewest DEF PumpProceeds, HandoverInv, Placed
  <2>2. /\ pump' = [pump EXCEPT ![b] = "live"] /\ pred' = [pred EXCEPT ![b] = 0]
        /\ teardown[pred[b]] = "complete"
        /\ UNCHANGED <<registry, made, down, teardown, lingering, gaveUp>>
    BY <1>5 DEF PumpProceeds
  <2>3. ASSUME NEW a \in Ids PROVE Behind(a, b)'
    BY <1>0, <2>1, <2>2, DialsBehindAClosedSocket
  <2>4. /\ \A c \in Ids : c # b => pump'[c] = pump[c] /\ pred'[c] = pred[c]
        /\ pump'[b] = "live" /\ pred'[b] = 0
    BY <2>2 DEF HandoverInv, TypeOK
  <2> QED BY <1>0, <2>1, <2>2, <2>3, <2>4, NewestMoves
<1>6. ASSUME NEW b \in Ids, WaitTimesOut(b) PROVE HandoverInv'
  <2>1. ~Stopped(b) /\ b = made /\ pump[b] = "wait"
    BY <1>6, RunningIsNewest DEF WaitTimesOut, HandoverInv, Placed
  <2>2. /\ pump' = [pump EXCEPT ![b] = "live"] /\ pred' = [pred EXCEPT ![b] = 0]
        /\ gaveUp' = gaveUp \union {b}
        /\ UNCHANGED <<registry, made, down, teardown, lingering>>
    BY <1>6 DEF WaitTimesOut
  <2>3. ASSUME NEW a \in Ids PROVE Behind(a, b)'
    BY <2>2 DEF Behind, Ids
  <2>4. /\ \A c \in Ids : c # b => pump'[c] = pump[c] /\ pred'[c] = pred[c]
        /\ pump'[b] = "live" /\ pred'[b] = 0
    BY <2>2 DEF HandoverInv, TypeOK
  <2> QED BY <1>0, <2>1, <2>2, <2>3, <2>4, NewestMoves
<1>7. ASSUME NEW b \in Ids, Frame(b) PROVE HandoverInv'
  BY <1>0, <1>7, QuietSteps DEF Frame
<1>8. ASSUME NEW b \in Ids, UpstreamEnds(b) PROVE HandoverInv'
  BY <1>0, <1>8 DEF UpstreamEnds, HandoverInv, NewestRegistered, Placed, Behind,
                   Passed, Streams, Stopped, TypeOK
<1>9. ASSUME NEW b \in Ids, Closed(b) PROVE HandoverInv'
  <2>1. /\ UNCHANGED <<registry, made, down, pred, lingering, gaveUp>>
        /\ teardown' = [teardown EXCEPT ![b] = IF @ = "no" THEN "no"
                                               ELSE "complete"]
    BY <1>9 DEF Closed
  <2>2. ASSUME NEW c \in Ids
        PROVE  /\ c = b => pump[c] = "closing" /\ pump'[c] = "done"
               /\ c # b => \/ pump'[c] = pump[c]
                           \/ pump[c] = "live" /\ pump'[c] = "closing"
    <3>1. /\ pump[b] = "closing"
          /\ \/ pump' = [pump EXCEPT ![b] = "done"]
             \/ pump' = KillStreams([pump EXCEPT ![b] = "done"])
      BY <1>9 DEF Closed
    <3>2. pump \in [Ids -> PumpStates]
      BY DEF HandoverInv, TypeOK
    <3>3. CASE pump' = [pump EXCEPT ![b] = "done"]
      BY <3>1, <3>2, <3>3
    <3>4. CASE pump' = KillStreams([pump EXCEPT ![b] = "done"])
      <4>1. pump'[c] = IF [pump EXCEPT ![b] = "done"][c] = "live" THEN "closing"
                       ELSE [pump EXCEPT ![b] = "done"][c]
        BY <3>4 DEF KillStreams
      <4> QED BY <3>1, <3>2, <4>1
    <3> QED BY <3>1, <3>3, <3>4
  <2>3. ASSUME NEW c \in Ids PROVE Placed(c)'
    <3>1. CASE c = b
      BY <2>1, <2>2, <3>1 DEF Placed, Stopped, HandoverInv, TypeOK
    <3>2. CASE c # b
      BY <2>1, <2>2, <3>2 DEF Placed, Stopped, HandoverInv, TypeOK
    <3> QED BY <3>1, <3>2
  <2>4. ASSUME NEW a \in Ids, NEW c \in Ids PROVE Behind(a, c)'
    <3>1. (Passed(c)' => Passed(c)) /\ (Streams(a)' => Streams(a))
      BY <2>1, <2>2 DEF Passed, Streams
    <3> QED BY <2>1, <3>1 DEF Behind, HandoverInv
  <2>5. NewestRegistered'
    BY <2>1 DEF NewestRegistered, HandoverInv
  <2> QED BY <1>0, <2>3, <2>4, <2>5 DEF HandoverInv
<1>10. ASSUME NEW b \in Ids, GraceFires(b) PROVE HandoverInv'
  <2>1. CASE Watched(b) \/ Stopped(b)
    BY <1>0, <1>10, <2>1, QuietSteps DEF GraceFires
  <2>2. CASE ~(Watched(b) \/ Stopped(b))
    <3>1. b = made
      <4>1. Placed(b) /\ Unmade(b) /\ b \in grace /\ b \in Nat /\ made \in Nat
        BY <1>10 DEF GraceFires, HandoverInv, TypeOK, Ids
      <4>2. pump[b] # "none"
        BY <4>1 DEF Placed, Unmade
      <4> QED BY <2>2, <4>2, RunningIsNewest
    <3> QED BY <1>0, <1>10, <2>2, <3>1, StopKeepsHandover
            DEF GraceFires, HandoverInv, NewestRegistered
  <2> QED BY <2>1, <2>2
<1>11. ASSUME StopRequest PROVE HandoverInv'
  <2>1. registry \in Ids /\ registry = made /\ ~Stopped(registry)
    BY <1>11, FanoutAssumption
       DEF StopRequest, Registered, HandoverInv, NewestRegistered, TypeOK, Ids
  <2> QED BY <1>0, <1>11, <2>1, StopKeepsHandover
          DEF StopRequest, HandoverInv, NewestRegistered
<1>12. ASSUME AppStops PROVE HandoverInv'
  <2>1. /\ registry' = 0 /\ down' = TRUE /\ made' = made /\ pred' = pred
    BY <1>12 DEF AppStops
  <2>2. CASE registry = 0
    BY <1>0, <1>12, <2>1, <2>2
       DEF AppStops, HandoverInv, NewestRegistered, Placed, Behind, Passed,
           Streams, Stopped
  <2>3. CASE registry # 0 /\ Stopped(registry)
    <3>1. registry = made /\ made \in Ids
      BY <2>3, FanoutAssumption DEF HandoverInv, NewestRegistered, TypeOK, Ids
    <3>2. /\ teardown' = [teardown EXCEPT ![made] = "complete"]
          /\ UNCHANGED <<pump, lingering, gaveUp>>
      BY <1>12, <2>3, <3>1 DEF AppStops
    <3>3. ASSUME NEW c \in Ids PROVE Placed(c)'
      BY <2>1, <2>3, <3>1, <3>2 DEF Placed, Stopped, HandoverInv, TypeOK
    <3> QED BY <1>0, <2>1, <3>2, <3>3
            DEF HandoverInv, NewestRegistered, Behind, Passed, Streams
  <2>4. CASE registry # 0 /\ ~Stopped(registry)
    <3>1. registry = made /\ made \in Ids
      BY <2>4, FanoutAssumption DEF HandoverInv, NewestRegistered, TypeOK, Ids
    <3>2. StopBroadcaster(made)
      BY <1>12, <2>4, <3>1 DEF AppStops
    <3> QED BY <1>0, <2>1, <2>4, <3>1, <3>2, StopKeepsHandover
  <2> QED BY <2>2, <2>3, <2>4
<1>13. CASE UNCHANGED vars
  BY <1>0, <1>13, QuietSteps DEF vars
<1>14. ASSUME NEW b \in Ids, SocketCloses(b) PROVE HandoverInv'
  BY <1>0, <1>14, QuietSteps DEF SocketCloses
<1> QED BY <1>1, <1>2, <1>3, <1>4, <1>5, <1>6, <1>7, <1>8, <1>9, <1>10, <1>11,
           <1>12, <1>13, <1>14 DEF Next

\* Whenever the printer sees two sockets, the older one's pump was stopped in its
\* own cleanup, or a broadcaster after the older one, up to the younger one, gave
\* up waiting.  All other handovers are clean.
THEOREM HandoverIsClean == Spec => []OverlapNeedsAnAbandonedWait
<1>1. HandoverInv => OverlapNeedsAnAbandonedWait
  <2> SUFFICES ASSUME HandoverInv, NEW a \in Ids, NEW b \in Ids, a < b,
                      Socket(a), Socket(b), a \notin lingering
               PROVE  \E c \in (a + 1)..b : c \in gaveUp
    BY DEF OverlapNeedsAnAbandonedWait
  <2>1. Passed(b)
    BY DEF HandoverInv, Placed, Passed, Socket, Streams
  <2>2. Streams(a) /\ Behind(a, b)
    BY DEF HandoverInv, Socket
  <2> QED BY <2>1, <2>2 DEF Behind
<1>2. HandoverInv /\ [Next]_vars => HandoverInv'
  BY HandoverStep
<1> QED BY <1>1, <1>2, HandoverInit, PTL DEF Spec

-----------------------------------------------------------------------------
(* Viewers are not cut off, and not left listening to nothing.             *)

\* A viewer is one of its broadcaster's subscribers until that stops.
Listed == \A v \in Viewers : at[v] # 0 => v \in subs[at[v]] \/ Stopped(at[v])

LEMMA ListedStep ==
    ASSUME HandoverInv, Listed, [Next]_vars
    PROVE  Listed'
<1> USE DEF viewerVars, streamVars
<1>0. /\ at \in [Viewers -> 0..MaxBroadcasters]
      /\ subs \in [Ids -> SUBSET Viewers]
      /\ teardown \in [Ids -> {"no", "pending", "complete"}]
      /\ \A w \in Viewers : at[w] # 0 => at[w] \in Ids
  BY FanoutAssumption DEF HandoverInv, TypeOK, Ids
<1>1. ASSUME NEW v \in Viewers, Join(v) PROVE Listed'
  <2>1. registry \in Ids
    BY <1>1, FanoutAssumption DEF Join, Registered, HandoverInv, TypeOK, Ids
  <2> QED BY <1>0, <1>1, <2>1 DEF Join, Subscribe, Listed, Stopped
<1>2. ASSUME NEW v \in Viewers, Replace(v) PROVE Listed'
  <2>1. made + 1 \in Ids
    BY <1>2, FanoutAssumption DEF Replace, HandoverInv, TypeOK, Ids
  <2> QED BY <1>0, <1>2, <2>1 DEF Replace, Subscribe, Listed, Stopped
<1>3. ASSUME NEW v \in Viewers, Leave(v) PROVE Listed'
  BY <1>0, <1>3 DEF Leave, Unsubscribe, Listed, Stopped
<1>4. ASSUME NEW b \in Ids, GraceFires(b) PROVE Listed'
  BY <1>0, <1>4 DEF GraceFires, StopBroadcaster, Listed, Stopped
<1>5. ASSUME NEW b \in Ids, Closed(b) PROVE Listed'
  BY <1>0, <1>5 DEF Closed, Listed, Stopped
<1>6. CASE StopRequest
  BY <1>0, <1>6 DEF StopRequest, StopBroadcaster, Listed, Stopped
<1>7. CASE AppStops
  <2>1. registry # 0 => registry \in Ids
    BY FanoutAssumption DEF HandoverInv, TypeOK, Ids
  <2> QED BY <1>0, <1>7, <2>1 DEF AppStops, StopBroadcaster, Listed, Stopped
<1>8. ASSUME NEW v \in Viewers, ClientGone(v) \/ Watch(v) PROVE Listed'
  BY <1>8 DEF ClientGone, Watch, Listed, Stopped
<1>9. ASSUME NEW b \in Ids, \/ PumpStarts(b) \/ PumpProceeds(b) \/ WaitTimesOut(b)
                            \/ Frame(b) \/ UpstreamEnds(b) \/ SocketCloses(b)
      PROVE  Listed'
  BY <1>9 DEF PumpStarts, PumpProceeds, WaitTimesOut, Frame, UpstreamEnds, SocketCloses,
              Listed, Stopped
<1>10. CASE UNCHANGED vars
  BY <1>10 DEF vars, Listed, Stopped
<1> QED BY <1>1, <1>2, <1>3, <1>4, <1>5, <1>6, <1>7, <1>8, <1>9, <1>10 DEF Next

\* A step that stops a broadcaster finds it with no viewer, unless the app
\* itself is going down.
LEMMA StopsAreUnwatched ==
    ASSUME HandoverInv, Listed, Next, NEW b \in Ids, NEW v \in Viewers,
           at[v] = b, ~Stopped(b), ~down'
    PROVE  ~Stopped(b)'
<1> USE DEF viewerVars, streamVars
<1>0. teardown \in [Ids -> {"no", "pending", "complete"}] /\ subs[b] # {}
  BY DEF HandoverInv, TypeOK, Listed, Ids
<1>1. ~AppStops
  BY DEF AppStops
<1>2. CASE \E c \in Ids : GraceFires(c)
  BY <1>0, <1>2 DEF GraceFires, Watched, StopBroadcaster, Stopped
<1>3. CASE StopRequest
  BY <1>0, <1>3 DEF StopRequest, Counted, Watched, StopBroadcaster, Stopped
<1>4. CASE \E c \in Ids : Closed(c)
  BY <1>0, <1>4 DEF Closed, Stopped
<1>5. CASE teardown' = teardown
  BY <1>5 DEF Stopped
<1> QED BY <1>1, <1>2, <1>3, <1>4, <1>5
        DEF Next, Join, Replace, ClientGone, Watch, Leave, Unsubscribe,
            PumpStarts, PumpProceeds, WaitTimesOut, Frame, UpstreamEnds, SocketCloses

\* A watched pump that stops streaming was ended by its camera, or by a stop that
\* had waited for an older one, behind which somebody gave up waiting.
LEMMA EndsAreExcused ==
    ASSUME HandoverInv, Listed, Next, NEW b \in Ids, NEW v \in Viewers,
           at[v] = b, ~Stopped(b), ~Stopped(b)', ~down',
           pump[b] = "live", pump'[b] # "live"
    PROVE  \/ UpstreamEnds(b)
           \/ \E a \in stopping : /\ a < b /\ Closed(a)
                                  /\ \E c \in (a + 1)..b : c \in gaveUp
<1> USE DEF viewerVars, streamVars
<1>0. /\ pump \in [Ids -> PumpStates] /\ b = made /\ stopping \subseteq Ids
      /\ teardown \in [Ids -> {"no", "pending", "complete"}]
  BY RunningIsNewest DEF HandoverInv, TypeOK
<1>1. ~AppStops
  BY DEF AppStops
<1>2. CASE \E c \in Ids : GraceFires(c)
  BY <1>0, <1>2 DEF GraceFires, StopBroadcaster, Stopped
<1>3. CASE StopRequest
  <2>1. registry \in Ids
    BY <1>3, FanoutAssumption DEF StopRequest, Registered, HandoverInv, TypeOK, Ids
  <2> QED BY <1>0, <1>3, <2>1 DEF StopRequest, StopBroadcaster, Stopped
<1>4. ASSUME NEW a \in Ids, Closed(a)
      PROVE  a \in stopping /\ a < b /\ \E c \in (a + 1)..b : c \in gaveUp
  <2>1. pump[a] = "closing" /\ a # b
    BY <1>4 DEF Closed
  <2>2. a \in stopping
    BY <1>0, <1>4, <2>1 DEF Closed
  <2>3. a < b
    <3>1. Placed(a) /\ a \in Nat /\ b \in Nat
      BY DEF HandoverInv, Ids
    <3> QED BY <1>0, <2>1, <3>1 DEF Placed
  <2>4. Behind(a, b) /\ Passed(b) /\ Streams(a)
    BY <2>1 DEF HandoverInv, Passed, Streams
  <2> QED BY <2>2, <2>3, <2>4 DEF Behind
<1>5. ASSUME NEW w \in Viewers, Join(w) \/ Replace(w) PROVE FALSE
  <2>1. registry \in 0..MaxBroadcasters /\ made \in Nat
    BY DEF HandoverInv, TypeOK
  <2> QED BY <1>0, <1>5, <2>1
          DEF Join, Replace, Registered, Subscribe, NeedsPump, Ids
<1>6. ASSUME NEW c \in Ids,
             \/ PumpStarts(c) \/ PumpProceeds(c) \/ WaitTimesOut(c) \/ Frame(c)
             \/ SocketCloses(c)
      PROVE  FALSE
  BY <1>0, <1>6 DEF PumpStarts, PumpProceeds, WaitTimesOut, Frame, SocketCloses
<1>7. ASSUME NEW c \in Ids, UpstreamEnds(c) PROVE UpstreamEnds(b)
  <2>1. c = b
    BY <1>0, <1>7 DEF UpstreamEnds
  <2> QED BY <1>7, <2>1
<1> QED BY <1>1, <1>2, <1>3, <1>4, <1>5, <1>6, <1>7
        DEF Next, ClientGone, Watch, Leave

\* While the app runs no stop, whether from a leaving viewer's request or a
\* grace timer that lapsed late, takes away an upstream somebody watches, unless
\* a wait for an older broadcaster was given up.
THEOREM NobodyIsCutOff == Spec => NobodyWatchingIsCutOff
<1>1. Init => HandoverInv /\ Listed
  BY HandoverInit DEF Init, Listed
<1>2. HandoverInv /\ Listed /\ [Next]_vars => (HandoverInv /\ Listed)'
  BY HandoverStep, ListedStep
<1>3. HandoverInv /\ Listed /\ [Next]_vars => [NoWatchedEnd]_vars
  BY StopsAreUnwatched, EndsAreExcused DEF NoWatchedEnd
<1> QED BY <1>1, <1>2, <1>3, PTL DEF Spec, NobodyWatchingIsCutOff

Ended(q) == \E i \in 1..Len(q) : q[i] = "gone"

\* Nothing put into a queue, and nothing but the sentinel taken from it,
\* removes a sentinel; a sentinel put into a queue with room is there.
LEMMA SentinelStays ==
    ASSUME NEW q \in Seq({"frame", "gone"}), Ended(q), NEW x \in {"frame", "gone"}
    PROVE  /\ Ended(Append(q, x))
           /\ q # <<>> /\ (Head(q) = "frame" => Ended(Tail(q)))
<1>1. PICK i \in 1..Len(q) : q[i] = "gone"
  BY DEF Ended
<1>2. Ended(Append(q, x))
  BY <1>1 DEF Ended
<1>3. q # <<>>
  BY <1>1
<1>4. ASSUME Head(q) = "frame" PROVE Ended(Tail(q))
  <2>1. i # 1
    BY <1>1, <1>3, <1>4
  <2>2. i - 1 \in 1..Len(Tail(q)) /\ Tail(q)[i - 1] = "gone"
    BY <1>1, <1>3, <2>1
  <2> QED BY <2>2 DEF Ended
<1> QED BY <1>2, <1>3, <1>4

LEMMA SentinelArrives ==
    ASSUME NEW q \in Seq({"frame", "gone"})
    PROVE  Ended(Append(q, "gone"))
<1>1. Len(q) + 1 \in 1..Len(Append(q, "gone"))
      /\ Append(q, "gone")[Len(q) + 1] = "gone"
  OBVIOUS
<1> QED BY <1>1 DEF Ended

LEMMA PutKeepsSentinels ==
    ASSUME TypeOK, NEW vs, NEW x \in {"frame", "gone"}, NEW v \in Viewers
    PROVE  /\ Ended(queue[v]) => Ended(Put(queue, vs, x)[v])
           /\ v \in vs /\ x = "gone" => \/ Ended(Put(queue, vs, x)[v])
                                        \/ v \in Full(vs)
<1>1. /\ queue[v] \in Seq({"frame", "gone"}) /\ Len(queue[v]) <= QueueSize
      /\ Len(queue[v]) \in Nat
  BY DEF TypeOK
<1>2. Put(queue, vs, x)[v] = IF v \in vs /\ Len(queue[v]) < QueueSize
                             THEN Append(queue[v], x) ELSE queue[v]
  BY DEF Put
<1>3. Ended(queue[v]) => Ended(Put(queue, vs, x)[v])
  BY <1>1, <1>2, SentinelStays
<1>4. ASSUME v \in vs, x = "gone", v \notin Full(vs)
      PROVE  Ended(Put(queue, vs, x)[v])
  <2>1. Len(queue[v]) < QueueSize
    BY <1>1, <1>4, FanoutAssumption DEF Full
  <2> QED BY <1>1, <1>2, <1>4, <2>1, SentinelArrives
<1> QED BY <1>3, <1>4

\* What NoSilentViewer says of one viewer.
Heard(v) ==
    at[v] # 0 => \/ v \in subs[at[v]] /\ ~NeedsPump(at[v])
                 \/ Ended(queue[v])
                 \/ v \in overrun

LEMMA HeardIsNoSilence == NoSilentViewer <=> \A v \in Viewers : Heard(v)
BY DEF NoSilentViewer, Heard, Ended

LEMMA HeardStep ==
    ASSUME HandoverInv, \A w \in Viewers : Heard(w), [Next]_vars, NEW v \in Viewers
    PROVE  Heard(v)'
<1> USE DEF viewerVars, streamVars
<1>0. /\ TypeOK /\ Heard(v)
      /\ at \in [Viewers -> 0..MaxBroadcasters]
      /\ queue \in [Viewers -> Seq({"frame", "gone"})]
      /\ subs \in [Ids -> SUBSET Viewers]
      /\ pump \in [Ids -> PumpStates]
      /\ at[v] # 0 => at[v] \in Ids
  <2>1. TypeOK /\ Heard(v)
    BY DEF HandoverInv
  <2>2. at[v] \in 0..MaxBroadcasters
    BY <2>1 DEF TypeOK
  <2>3. at[v] # 0 => at[v] \in Ids
    BY <2>2, FanoutAssumption DEF Ids
  <2> QED BY <2>1, <2>3 DEF TypeOK
<1>1. ASSUME NEW b \in Ids, NEW w \in Viewers, Subscribe(w, b), overrun' = overrun
      PROVE  Heard(v)'
  <2>1. CASE w = v
    <3>1. at'[v] = b /\ v \in subs'[b] /\ ~(pump'[b] \in {"none", "done"})
      BY <1>0, <1>1, <2>1 DEF Subscribe, NeedsPump
    <3> QED BY <3>1 DEF Heard, NeedsPump
  <2>2. CASE w # v
    <3>1. at'[v] = at[v] /\ queue'[v] = queue[v]
      BY <1>0, <1>1, <2>2 DEF Subscribe
    <3>2. at[v] # 0 /\ v \in subs[at[v]] => v \in subs'[at[v]]
      BY <1>0, <1>1 DEF Subscribe
    <3>3. at[v] # 0 /\ ~NeedsPump(at[v]) => ~NeedsPump(at[v])'
      BY <1>0, <1>1, <3>1 DEF Subscribe, NeedsPump
    <3> QED BY <1>0, <1>1, <3>1, <3>2, <3>3 DEF Heard, NeedsPump
  <2> QED BY <2>1, <2>2
<1>2. ASSUME NEW w \in Viewers, Join(w) PROVE Heard(v)'
  <2>1. registry \in Ids
    BY <1>0, <1>2, FanoutAssumption DEF Join, Registered, TypeOK, Ids
  <2> QED BY <1>1, <1>2, <2>1 DEF Join
<1>3. ASSUME NEW w \in Viewers, Replace(w) PROVE Heard(v)'
  <2>1. made + 1 \in Ids
    BY <1>0, <1>3, FanoutAssumption DEF Replace, TypeOK, Ids
  <2> QED BY <1>1, <1>3, <2>1 DEF Replace
<1>4. ASSUME NEW w \in Viewers, ClientGone(w) PROVE Heard(v)'
  BY <1>0, <1>4 DEF ClientGone, Heard, NeedsPump
<1>5. ASSUME NEW w \in Viewers, Watch(w) PROVE Heard(v)'
  <2>1. UNCHANGED <<at, subs, pump, overrun>>
    BY <1>5 DEF Watch
  <2>2. CASE w # v
    BY <1>0, <1>5, <2>1, <2>2 DEF Watch, Heard, NeedsPump
  <2>3. CASE w = v
    <3>1. queue'[v] = Tail(queue[v]) /\ Head(queue[v]) = "frame"
      BY <1>0, <1>5, <2>3 DEF Watch
    <3>2. Ended(queue[v]) => Ended(queue'[v])
      BY <1>0, <3>1, SentinelStays
    <3> QED BY <1>0, <2>1, <3>2 DEF Heard, NeedsPump, Ended
  <2> QED BY <2>2, <2>3
<1>6. ASSUME NEW w \in Viewers, Leave(w) PROVE Heard(v)'
  <2>1. CASE w = v
    BY <1>0, <1>6, <2>1 DEF Leave, Unsubscribe, Heard
  <2>2. CASE w # v
    <3>1. UNCHANGED <<at[v], queue[v], pump>>
      BY <1>0, <1>6, <2>2 DEF Leave, Unsubscribe
    <3>2. at[v] # 0 /\ v \in subs[at[v]] => v \in subs'[at[v]]
      BY <1>0, <1>6, <2>2 DEF Leave, Unsubscribe
    <3>3. v \in overrun => v \in overrun'
      BY <1>6, <2>2 DEF Leave, Unsubscribe
    <3> QED BY <1>0, <3>1, <3>2, <3>3 DEF Heard, NeedsPump
  <2> QED BY <2>1, <2>2
<1>7. ASSUME NEW b \in Ids,
             \/ PumpStarts(b) \/ PumpProceeds(b) \/ WaitTimesOut(b)
             \/ UpstreamEnds(b) \/ SocketCloses(b)
      PROVE  Heard(v)'
  <2>1. UNCHANGED <<at, queue, overrun, subs>>
    BY <1>7 DEF PumpStarts, PumpProceeds, WaitTimesOut, UpstreamEnds, SocketCloses
  <2>2. at[v] # 0 /\ ~NeedsPump(at[v]) => ~NeedsPump(at[v])'
    BY <1>0, <1>7, <2>1
       DEF PumpStarts, PumpProceeds, WaitTimesOut, UpstreamEnds, SocketCloses,
           NeedsPump
  <2> QED BY <1>0, <2>1, <2>2 DEF Heard, NeedsPump
<1>8. ASSUME NEW b \in Ids, Frame(b) PROVE Heard(v)'
  <2>1. Ended(queue[v]) => Ended(queue'[v])
    BY <1>0, <1>8, PutKeepsSentinels DEF Frame
  <2> QED BY <1>0, <1>8, <2>1 DEF Frame, Heard, NeedsPump, Ended
<1>9. ASSUME NEW b \in Ids, Closed(b) PROVE Heard(v)'
  <2>1. queue' = Put(queue, subs[b], "gone") /\ overrun' = overrun \union Full(subs[b])
        /\ UNCHANGED <<at, subs>>
    BY <1>9 DEF Closed, Told
  <2>2. Ended(queue[v]) => Ended(queue'[v])
    BY <1>0, <2>1, PutKeepsSentinels
  <2>3. v \in subs[b] => Ended(queue'[v]) \/ v \in overrun'
    BY <1>0, <2>1, PutKeepsSentinels
  <2>4. at[v] # 0 /\ at[v] # b /\ ~NeedsPump(at[v]) => ~NeedsPump(at[v])'
    BY <1>0, <1>9, <2>1 DEF Closed, KillStreams, NeedsPump
  <2> QED BY <1>0, <2>1, <2>2, <2>3, <2>4 DEF Heard, NeedsPump, Ended
<1>10. ASSUME NEW b \in Ids, StopBroadcaster(b), subs[b] = {},
              UNCHANGED <<at, subs, queue, overrun>>
       PROVE  Heard(v)'
  BY <1>0, <1>10 DEF StopBroadcaster, Heard, NeedsPump, Ended
<1>11. ASSUME NEW b \in Ids, GraceFires(b) PROVE Heard(v)'
  <2>1. CASE Watched(b) \/ Stopped(b)
    BY <1>0, <1>11, <2>1 DEF GraceFires, Heard, NeedsPump
  <2>2. CASE ~(Watched(b) \/ Stopped(b))
    BY <1>10, <1>11, <2>2 DEF GraceFires, Watched
  <2> QED BY <2>1, <2>2
<1>12. ASSUME StopRequest PROVE Heard(v)'
  <2>1. registry \in Ids
    BY <1>0, <1>12, FanoutAssumption DEF StopRequest, Registered, TypeOK, Ids
  <2> QED BY <1>10, <1>12, <2>1 DEF StopRequest, Counted, Watched
<1>13. ASSUME AppStops PROVE Heard(v)'
  <2>1. CASE registry = 0 \/ Stopped(registry)
    BY <1>0, <1>13, <2>1 DEF AppStops, Heard, NeedsPump
  <2>2. CASE ~(registry = 0 \/ Stopped(registry))
    <3>1. registry \in Ids
      BY <1>0, <2>2, FanoutAssumption DEF TypeOK, Ids
    <3>2. /\ StopBroadcaster(registry) /\ at' = at
          /\ queue' = Put(queue, subs[registry], "gone")
          /\ overrun' = overrun \union Full(subs[registry])
          /\ subs' = [subs EXCEPT ![registry] = {}]
      BY <1>13, <2>2 DEF AppStops, Told
    <3>3. Ended(queue[v]) => Ended(queue'[v])
      BY <1>0, <3>2, PutKeepsSentinels
    <3>4. v \in subs[registry] => Ended(queue'[v]) \/ v \in overrun'
      BY <1>0, <3>2, PutKeepsSentinels
    <3>5. at[v] # 0 /\ at[v] # registry => UNCHANGED <<subs[at[v]], pump[at[v]]>>
      BY <1>0, <3>1, <3>2 DEF StopBroadcaster
    <3> QED BY <1>0, <3>2, <3>3, <3>4, <3>5 DEF Heard, NeedsPump, Ended
  <2> QED BY <2>1, <2>2
<1>14. CASE UNCHANGED vars
  BY <1>0, <1>14 DEF vars, Heard, NeedsPump
<1> QED BY <1>2, <1>3, <1>4, <1>5, <1>6, <1>7, <1>8, <1>9, <1>11, <1>12, <1>13,
           <1>14 DEF Next

\* A viewer is attached to a pump that runs, or finds the sentinel, or had a
\* full queue when its pump ended.
THEOREM NobodyIsLeftSilent == Spec => []NoSilentViewer
<1>1. Init => HandoverInv /\ NoSilentViewer
  BY HandoverInit DEF Init, NoSilentViewer
<1>2. HandoverInv /\ NoSilentViewer /\ [Next]_vars => (HandoverInv /\ NoSilentViewer)'
  <2> SUFFICES ASSUME HandoverInv, NoSilentViewer, [Next]_vars
               PROVE  HandoverInv' /\ NoSilentViewer'
    OBVIOUS
  <2>1. \A v \in Viewers : Heard(v)'
    BY HeardStep, HeardIsNoSilence
  <2>2. NoSilentViewer'
    BY <2>1, HeardIsNoSilence DEF Heard, NoSilentViewer, Ended
  <2> QED BY <2>2, HandoverStep
<1> QED BY <1>1, <1>2, PTL DEF Spec

=============================================================================
