---------------------------- MODULE CameraFanout ----------------------------
(***************************************************************************)
(* camera_fanout.py and the two camera routes that drive it, for one       *)
(* printer: broadcasters that own the printer's only camera socket and     *)
(* copy its frames to every viewer, the registry that replaces a stopped   *)
(* broadcaster by a fresh one, and the chain that makes the fresh one wait *)
(* for the old socket to close.                                            *)
(*                                                                         *)
(* Both locks of camera_fanout.py guard sections that never await, so they *)
(* are never contended and an acquire never suspends: what a coroutine     *)
(* does between two real suspension points is one step here.  Frames carry *)
(* no content.                                                             *)
(***************************************************************************)
EXTENDS Integers, Sequences

CONSTANTS
    Viewers,          \* browser tabs with /camera/stream open, or not
    MaxBroadcasters,  \* bound: broadcasters ever made for this printer
    QueueSize,        \* _SUBSCRIBER_QUEUE_SIZE
    Faults            \* what may happen: "slowClose", "ends", "appStop"

ASSUME FanoutAssumption ==
    /\ MaxBroadcasters \in Nat \ {0}
    /\ QueueSize \in Nat \ {0}

Ids == 1..MaxBroadcasters   \* broadcasters, numbered as they are made

VARIABLES
    registry,  \* _broadcasters: the printer's entry, 0 when there is none
    made,      \* how many broadcasters were made
    down,      \* the app is shutting down
    pump,      \* where the _pump of each broadcaster stands
    pred,      \* _predecessor, until the pump has waited for it; 0 is None
    teardown,  \* "no" until _stopped; "complete" once _teardown_complete is set
    grace,     \* broadcasters with a _grace_task asleep
    primed,    \* broadcasters with a _last_chunk
    subs,      \* _subscribers of each broadcaster
    lingering, \* broadcasters whose pump a stop ended before its socket closed
    stopping,  \* broadcasters a /camera/stop request waits for
    at,        \* the broadcaster each viewer's iter_subscriber reads, 0: none
    queue,     \* the viewer's queue
    gone,      \* viewers whose client has left
    overrun,   \* history: viewers whose full queue lost the sentinel
    gaveUp     \* history: broadcasters that did not wait out their predecessor

streamVars == <<pump, pred, teardown, grace, primed, subs, lingering>>
viewerVars == <<at, queue, gone, overrun>>
vars == <<registry, made, down, pump, pred, teardown, grace, primed, subs,
          lingering, stopping, at, queue, gone, overrun, gaveUp>>

\* "new" is a created task that has not run yet, "wait" the wait for the
\* predecessor, "live" the upstream generator from its dial on, "closing" that
\* generator's own cleanup.
PumpStates == {"none", "new", "wait", "live", "closing", "done"}

Stopped(b) == teardown[b] # "no"
Streams(b) == pump[b] \in {"live", "closing"}
Socket(b)  == Streams(b) \/ b \in lingering
Watched(b) == subs[b] # {}
Registered == registry # 0 /\ ~Stopped(registry)   \* a live entry

TypeOK ==
    /\ registry \in 0..MaxBroadcasters
    /\ made \in 0..MaxBroadcasters
    /\ down \in BOOLEAN
    /\ pump \in [Ids -> PumpStates]
    /\ pred \in [Ids -> 0..MaxBroadcasters]
    /\ teardown \in [Ids -> {"no", "pending", "complete"}]
    /\ grace \subseteq Ids
    /\ primed \subseteq Ids
    /\ subs \in [Ids -> SUBSET Viewers]
    /\ lingering \subseteq Ids
    /\ stopping \subseteq Ids
    /\ at \in [Viewers -> 0..MaxBroadcasters]
    /\ queue \in [Viewers -> Seq({"frame", "gone"})]
    /\ \A v \in Viewers : Len(queue[v]) <= QueueSize
    /\ gone \subseteq Viewers
    /\ overrun \subseteq Viewers
    /\ gaveUp \subseteq Ids

Init ==
    /\ registry = 0 /\ made = 0 /\ down = FALSE
    /\ pump = [b \in Ids |-> "none"]
    /\ pred = [b \in Ids |-> 0]
    /\ teardown = [b \in Ids |-> "no"]
    /\ grace = {} /\ primed = {} /\ lingering = {} /\ stopping = {}
    /\ subs = [b \in Ids |-> {}]
    /\ at = [v \in Viewers |-> 0]
    /\ queue = [v \in Viewers |-> <<>>]
    /\ gone = {} /\ overrun = {} /\ gaveUp = {}

-----------------------------------------------------------------------------
(* Viewers.                                                                *)

\* As it would be with queues made without a maxsize.
PutUnbounded(q, vs, item) ==
    [v \in Viewers |-> IF v \in vs THEN Append(q[v], item) ELSE q[v]]

\* put_nowait to every viewer of vs; a full queue drops the item.
Put(q, vs, item) ==
    [v \in Viewers |-> IF v \in vs /\ Len(q[v]) < QueueSize
                       THEN Append(q[v], item) ELSE q[v]]

Full(vs) == {v \in vs : Len(queue[v]) = QueueSize}

\* As it would be if subscribe only asked whether there ever was a pump.
NeedsFirstPump(b) == pump[b] = "none"

\* subscribe starts a pump when there is none, or the last one has ended.
NeedsPump(b) == pump[b] \in {"none", "done"}

\* MjpegBroadcaster.subscribe on a broadcaster that is not stopped.
Subscribe(v, b) ==
    /\ subs' = [subs EXCEPT ![b] = @ \union {v}]
    /\ grace' = grace \ {b}
    /\ pump' = [pump EXCEPT ![b] = IF NeedsPump(b) THEN "new" ELSE @]
    /\ at' = [at EXCEPT ![v] = b]
    /\ queue' = [queue EXCEPT ![v] = IF b \in primed THEN <<"frame">> ELSE <<>>]

\* GET /camera/stream joins the registered broadcaster while it lives.
Join(v) ==
    /\ at[v] = 0 /\ ~down
    /\ Registered
    /\ Subscribe(v, registry)
    /\ UNCHANGED <<registry, made, down, pred, teardown, primed, lingering,
                   stopping, gone, overrun, gaveUp>>

\* As it would be if a stopped broadcaster were popped from the registry.
NoPredecessor == 0

\* What a new broadcaster waits for: the stopped entry it replaces.
Predecessor == registry

\* Otherwise it registers a new one, chained behind the entry it replaces.
Replace(v) ==
    /\ at[v] = 0 /\ ~down
    /\ ~Registered
    /\ made < MaxBroadcasters
    /\ made' = made + 1
    /\ registry' = made + 1
    /\ pred' = [pred EXCEPT ![made + 1] = Predecessor]
    /\ Subscribe(v, made + 1)
    /\ UNCHANGED <<down, teardown, primed, lingering, stopping, gone, overrun,
                   gaveUp>>

\* The browser tab closes.  The viewer stays counted until its generator runs.
ClientGone(v) ==
    /\ at[v] # 0 /\ v \notin gone
    /\ gone' = gone \union {v}
    /\ UNCHANGED <<registry, made, down, streamVars, stopping,
                   at, queue, overrun, gaveUp>>

\* iter_subscriber takes a chunk from its queue and yields it.
Watch(v) ==
    /\ at[v] # 0 /\ queue[v] # <<>> /\ Head(queue[v]) = "frame"
    /\ queue' = [queue EXCEPT ![v] = Tail(@)]
    /\ UNCHANGED <<registry, made, down, streamVars, stopping,
                   at, gone, overrun, gaveUp>>

\* As it would be if the subscribers were counted before the removal.
AlreadyEmpty(v, b) == v \in subs[b] /\ subs[b] = {} /\ ~Stopped(b)

\* This unsubscribe empties a broadcaster that still runs.
LastLeaves(v, b) == subs[b] = {v} /\ ~Stopped(b)

\* The finally of iter_subscriber: unsubscribe, and the last one to leave a
\* live broadcaster starts its grace window.
Unsubscribe(v, b) ==
    /\ subs' = [subs EXCEPT ![b] = @ \ {v}]
    /\ grace' = IF LastLeaves(v, b) THEN grace \union {b} ELSE grace
    /\ at' = [at EXCEPT ![v] = 0]
    /\ queue' = [queue EXCEPT ![v] = <<>>]
    /\ gone' = gone \ {v}
    /\ overrun' = overrun \ {v}

\* The generator ends on the sentinel, or on finding its client disconnected.
Leave(v) ==
    /\ at[v] # 0
    /\ \/ v \in gone
       \/ queue[v] # <<>> /\ Head(queue[v]) = "gone"
    /\ Unsubscribe(v, at[v])
    /\ UNCHANGED <<registry, made, down, pump, pred, teardown, primed,
                   lingering, stopping, gaveUp>>

-----------------------------------------------------------------------------
(* The pump.                                                               *)

\* Its first step: no predecessor, or one already torn down, and it dials.
PumpStarts(b) ==
    /\ pump[b] = "new"
    /\ LET clear == pred[b] = 0 \/ teardown[pred[b]] = "complete"
       IN  /\ pump' = [pump EXCEPT ![b] = IF clear THEN "live" ELSE "wait"]
           /\ pred' = [pred EXCEPT ![b] = IF clear THEN 0 ELSE @]
    /\ UNCHANGED <<registry, made, down, teardown, grace, primed, subs,
                   lingering, stopping, viewerVars, gaveUp>>

\* wait_until_torn_down returns, and the pump dials.
PumpProceeds(b) ==
    /\ pump[b] = "wait" /\ teardown[pred[b]] = "complete"
    /\ pump' = [pump EXCEPT ![b] = "live"]
    /\ pred' = [pred EXCEPT ![b] = 0]
    /\ UNCHANGED <<registry, made, down, teardown, grace, primed, subs,
                   lingering, stopping, viewerVars, gaveUp>>

\* The close takes longer than _TEARDOWN_WAIT_SECONDS: the pump dials anyway.
WaitTimesOut(b) ==
    /\ "slowClose" \in Faults
    /\ pump[b] = "wait" /\ teardown[pred[b]] # "complete"
    /\ pump' = [pump EXCEPT ![b] = "live"]
    /\ pred' = [pred EXCEPT ![b] = 0]
    /\ gaveUp' = gaveUp \union {b}
    /\ UNCHANGED <<registry, made, down, teardown, grace, primed, subs,
                   lingering, stopping, viewerVars>>

\* A chunk arrives and is copied to the subscribers that have room.
Frame(b) ==
    /\ pump[b] = "live"
    /\ primed' = primed \union {b}
    /\ queue' = Put(queue, subs[b], "frame")
    /\ UNCHANGED <<registry, made, down, pump, pred, teardown, grace, subs,
                   lingering, stopping, at, gone, overrun, gaveUp>>

\* The camera drops the connection, a read times out, or the dial fails.
UpstreamEnds(b) ==
    /\ "ends" \in Faults
    /\ pump[b] = "live"
    /\ pump' = [pump EXCEPT ![b] = "closing"]
    /\ UNCHANGED <<registry, made, down, pred, teardown, grace, primed, subs,
                   lingering, stopping, viewerVars, gaveUp>>

\* Ending every upstream of the printer that /camera/stop finds listed.
KillStreams(p) == [b \in Ids |-> IF p[b] = "live" THEN "closing" ELSE p[b]]

\* As it would be without the wake-up in the pump's finally.
Untold(b) == queue

\* The sentinel, for every subscriber left.
Told(b) == Put(queue, subs[b], "gone")

\* The socket is closed.  The pump's finally puts the sentinel into the queues
\* that have room and the task ends; a stop that awaited it sets
\* _teardown_complete, and a /camera/stop goes on to kill what still streams,
\* which misses a successor that is dialing and not listed yet.
Closed(b) ==
    /\ pump[b] = "closing"
    /\ LET ended == [pump EXCEPT ![b] = "done"]
       IN  \/ pump' = ended
           \/ b \in stopping /\ pump' = KillStreams(ended)
    /\ queue' = Told(b)
    /\ overrun' = overrun \union Full(subs[b])
    /\ teardown' = [teardown EXCEPT ![b] = IF @ = "no" THEN "no" ELSE "complete"]
    /\ stopping' = stopping \ {b}
    /\ UNCHANGED <<registry, made, down, pred, grace, primed, subs, lingering,
                   at, gone, gaveUp>>

\* The operating system is done with a socket whose pump did not wait for it.
SocketCloses(b) ==
    /\ b \in lingering
    /\ lingering' = lingering \ {b}
    /\ UNCHANGED <<registry, made, down, pump, pred, teardown, grace, primed,
                   subs, stopping, viewerVars, gaveUp>>

-----------------------------------------------------------------------------
(* Teardown.                                                               *)

\* A cancelled pump: one that streams runs its generator's cleanup first, one
\* that has not dialed simply ends, and so does one in that cleanup already:
\* the second cancellation breaks off its wait for the socket to close.
Cancelled(p) == CASE p \in {"new", "wait", "closing"} -> "done"
                  [] p = "live"                       -> "closing"
                  [] OTHER                            -> p

\* The locked section of a stop, and the cancellation of the pump.
StopBroadcaster(b) ==
    /\ pump' = [pump EXCEPT ![b] = Cancelled(@)]
    /\ teardown' = [teardown EXCEPT ![b] =
           IF pump[b] = "live" THEN "pending" ELSE "complete"]
    /\ lingering' = IF pump[b] = "closing" THEN lingering \union {b} ELSE lingering
    /\ grace' = grace \ {b}
    /\ gaveUp' = IF pump[b] \in {"new", "wait"} /\ pred[b] # 0
                 THEN gaveUp \union {b} ELSE gaveUp

\* _grace_then_stop wakes, and looks again under the lock.
GraceFires(b) ==
    /\ b \in grace
    /\ IF Watched(b) \/ Stopped(b)
       THEN /\ grace' = grace \ {b}
            /\ UNCHANGED <<pump, teardown, lingering, gaveUp>>
       ELSE StopBroadcaster(b)
    /\ UNCHANGED <<registry, made, down, pred, primed, subs, stopping,
                   viewerVars>>

\* As it would be if the leaving viewer were taken to be still counted.
CountedTwice(b) == \E v, w \in subs[b] : v # w

\* get_subscriber_count is at least one.
Counted(b) == Watched(b)

\* POST /camera/stop from a leaving viewer, counted out already: it tears down
\* the registered broadcaster and waits for that.  With subscribers left, or
\* nothing running, the request changes nothing: a stopped broadcaster never
\* streams again, so there is no stream to kill.
StopRequest ==
    /\ ~down /\ Registered /\ ~Counted(registry)
    /\ StopBroadcaster(registry)
    /\ stopping' = IF teardown'[registry] = "pending"
                   THEN stopping \union {registry} ELSE stopping
    /\ UNCHANGED <<registry, made, down, pred, primed, subs, viewerVars>>

\* shutdown_all_broadcasters: the app stops.  The registered broadcaster, if it
\* still runs, kicks its viewers; one already stopped is reported torn down.
AppStops ==
    /\ "appStop" \in Faults /\ ~down
    /\ down' = TRUE
    /\ registry' = 0
    /\ IF registry = 0
       THEN UNCHANGED <<pump, teardown, lingering, grace, subs, queue, overrun,
                        gaveUp>>
       ELSE IF Stopped(registry)
       THEN /\ teardown' = [teardown EXCEPT ![registry] = "complete"]
            /\ UNCHANGED <<pump, lingering, grace, subs, queue, overrun, gaveUp>>
       ELSE /\ StopBroadcaster(registry)
            /\ queue' = Told(registry)
            /\ overrun' = overrun \union Full(subs[registry])
            /\ subs' = [subs EXCEPT ![registry] = {}]
    /\ UNCHANGED <<made, pred, primed, stopping, at, gone>>

-----------------------------------------------------------------------------
Next ==
    \/ \E v \in Viewers : Join(v) \/ Replace(v) \/ ClientGone(v) \/ Watch(v)
                          \/ Leave(v)
    \/ \E b \in Ids : PumpStarts(b) \/ PumpProceeds(b) \/ WaitTimesOut(b)
                      \/ Frame(b) \/ UpstreamEnds(b) \/ Closed(b)
                      \/ SocketCloses(b) \/ GraceFires(b)
    \/ StopRequest \/ AppStops

Spec == Init /\ [][Next]_vars

\* The steps a pump takes by itself: where it stands, one of them at most.
PumpRuns(b) == PumpStarts(b) \/ PumpProceeds(b) \/ Frame(b) \/ Closed(b)

\* The event loop runs every coroutine that is ready, a close ends within the
\* operating system's limits, and a dialed camera sends a frame or fails its
\* read timeout.  What users do, and a grace window's length, is left open
\* except that a sleep ends.
Fairness ==
    /\ \A b \in Ids : WF_vars(PumpRuns(b)) /\ WF_vars(GraceFires(b))
    /\ \A v \in Viewers : WF_vars(Watch(v)) /\ WF_vars(Leave(v))

FairSpec == Spec /\ Fairness

-----------------------------------------------------------------------------
(* Properties.                                                             *)

\* A camera that accepts one connection never sees two: a successor waits for
\* its predecessor's socket before dialing (#2521).
OneSocket == \A a, b \in Ids : Socket(a) /\ Socket(b) => a = b

\* Two sockets overlap only when the older one's pump was stopped in its own
\* cleanup, or when a broadcaster after the older one, up to the younger one
\* itself, never finished waiting for its predecessor: it timed out or was
\* stopped while waiting.  Every other handover is clean, however viewers,
\* grace windows and stop requests fall.
OverlapNeedsAnAbandonedWait ==
    \A a, b \in Ids : a < b /\ Socket(a) /\ Socket(b)
                        => a \in lingering \/ \E c \in (a + 1)..b : c \in gaveUp

\* The inductive invariant behind it.  Only the newest broadcaster can be
\* running, each waits for the one just before it, a pump that got past its
\* wait has left no open socket behind unless somebody after that gave up.
Passed(b) == \/ pump[b] \in {"live", "closing", "done"}
             \/ pump[b] = "new" /\ pred[b] = 0

NewestRegistered == registry \in {0, made} /\ (registry = 0 => made = 0 \/ down)

Placed(b) ==
    /\ b > made => pump[b] = "none" /\ pred[b] = 0 /\ teardown[b] = "no"
    /\ b <= made => pump[b] # "none"
    /\ b < made => Stopped(b)
    /\ Stopped(b) => pump[b] \in {"closing", "done"}
    /\ b \in lingering => Stopped(b) /\ pump[b] = "done"
    /\ teardown[b] = "complete" => pump[b] = "done" \/ (b = made /\ down)
    /\ pred[b] \in {0, b - 1}
    /\ pump[b] = "wait" => pred[b] # 0

Unmade(b) == b > made => subs[b] = {} /\ b \notin grace

Behind(a, b) ==
    a < b /\ Passed(b) /\ Streams(a) => \E c \in (a + 1)..b : c \in gaveUp

HandoverInv ==
    /\ TypeOK
    /\ NewestRegistered
    /\ \A b \in Ids : Placed(b) /\ Unmade(b)
    /\ \A a, b \in Ids : Behind(a, b)

\* A viewer is never left listening to nothing: its broadcaster's pump runs, or
\* the sentinel is in its queue, or its queue was full when the pump ended.
NoSilentViewer ==
    \A v \in Viewers : at[v] # 0 =>
        \/ v \in subs[at[v]] /\ ~NeedsPump(at[v])
        \/ \E i \in 1..Len(queue[v]) : queue[v][i] = "gone"
        \/ v \in overrun

\* What NobodyWatchingIsCutOff asks of a step.
NoWatchedEnd ==
    \A b \in Ids : (\E v \in Viewers : at[v] = b) /\ ~Stopped(b) /\ ~down' =>
        /\ ~Stopped(b)'
        /\ pump[b] = "live" /\ pump'[b] # "live" =>
             \/ UpstreamEnds(b)
             \/ \E a \in stopping : /\ a < b /\ Closed(a)
                                    /\ \E c \in (a + 1)..b : c \in gaveUp

\* While the app runs, a viewer's stream is ended by the camera and by nobody
\* else: no leaving viewer's stop and no late grace timer takes away an upstream
\* somebody watches.  Only a stop that waited for an older broadcaster, which
\* somebody after it has given up waiting for, ends the stream that has begun
\* meanwhile.
NobodyWatchingIsCutOff == [][NoWatchedEnd]_vars

\* An upstream nobody watches is let go: the printer's one camera connection is
\* not kept after the last viewer has left.  Only one can be running at a time.
Unwatched == \E b \in Ids : pump[b] \in {"new", "wait", "live"} /\ subs[b] = {}

UnwatchedStreamsEnd == Unwatched ~> ~Unwatched

\* A viewer with an empty queue gets a frame or an end, unless its queue was
\* full when the sentinel was put.
WaitingViewerIsServed ==
    \A v \in Viewers : (at[v] # 0 /\ queue[v] = <<>> /\ v \notin overrun)
                         ~> (at[v] = 0 \/ queue[v] # <<>> \/ v \in overrun)

=============================================================================
