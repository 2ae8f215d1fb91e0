SPECIFICATION FairSpec
CONSTANTS
    v1 = v1
    v2 = v2
    Viewers = {v1, v2}
    MaxBroadcasters = 3
    QueueSize = 2
    Faults = {"slowClose", "ends", "appStop"}
INVARIANTS
    TypeOK
    OverlapNeedsAnAbandonedWait
    NoSilentViewer
PROPERTIES
    NobodyWatchingIsCutOff
    UnwatchedStreamsEnd
    WaitingViewerIsServed
CHECK_DEADLOCK FALSE
