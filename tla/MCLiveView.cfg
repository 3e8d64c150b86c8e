SPECIFICATION Spec
CONSTANTS
    page = page
    p = p
    Products = {p}
    Clients = {page}
    Watches <- MCWatches
    Streams = {s1, s2}
    QueueMax = 2
    SocketBuffer = 1
    MaxChanges <- MCChanges
    MaxBreaks = 1
INVARIANTS
    QueueHoldsTheNewest
    NoQueueIsOrphaned
    RowsAreShownOnce
PROPERTIES
    DeadStreamsLeave
    AFrameBringsItsQueryUpToDate
CHECK_DEADLOCK FALSE
