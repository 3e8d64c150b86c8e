SPECIFICATION Spec
CONSTANTS
    page = page
    p = p
    Products = {p}
    Clients = {page}
    Watches <- MCWatches
    Streams = {s1, s2}
    QueueMax = 1
    SocketBuffer = 1
    MaxChanges <- MCTwoChanges
    MaxBreaks = 0
PROPERTY
    DroppedFramesAreMadeUpFor
CHECK_DEADLOCK FALSE
