SPECIFICATION Spec
CONSTANTS
    page = page
    p = p
    Products = {p}
    Clients = {page}
    Watches <- MCWatches
    Streams = {s1, s2}
    QueueMax = 2
    SocketBuffer = 1
    MaxChanges <- MCOneChange
    MaxBreaks = 1
PROPERTY
    MissedEventsAreResynced
CHECK_DEADLOCK FALSE
