\* Two pushers, two connections, three events on a ring of 2 that wraps, channels of 1;
\* five bytes read up to two at a time; three processes and a ps that fails; every host,
\* two troubles of the panel and two clients.
SPECIFICATION MCSpec
CONSTANTS
    p1 = p1
    p2 = p2
    c1 = c1
    c2 = c2
    Pushers <- MCPushers
    Connections <- MCConnections
    Size = 2
    Capacity = 1
    MaxEvents = 3
    ReadSize = 2
    MaxBytes = 5
    Pids <- MCPids
    MaxFails = 1
    Clients = {t1, t2}
    t1 = t1
    t2 = t2
    Passed <- MCPassed
    MaxCrashes = 2
INVARIANTS TypeOK RecentIsLatest DeliveredOnce TailTypeOK WholeLines NoneHeldBack
PROPERTIES PushReturns LinesArrive NoOrphan Surfaced StopEnds Serves
\* Pushers, tails and the panel come to an end.
CHECK_DEADLOCK FALSE
