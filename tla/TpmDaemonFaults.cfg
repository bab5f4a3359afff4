\* Crashes and restarts: two daemons started in any order, three clients.
SPECIFICATION Spec
CONSTANTS
    p1 = p1  p2 = p2  p3 = p3
    c1 = c1  c2 = c2  c3 = c3  c4 = c4
    d1 = d1  d2 = d2
    n1 = n1  n2 = n2  n3 = n3
    Procs = {p1, p2, p3}
    Calls = {c1, c2, c3}
    Daemons = {d1, d2}
    Owner <- OneEach
    Kind <- Mixed
    Pids = {n1, n2, n3}
    Pid <- OwnNumbers
    None = None
    Junk = Junk
    Absent = Absent
    MaxFd = 2
    Backlog = 2
    BufLen = 1
    Lens = {1, 2}
    Faults = {"client", "daemon", "alloc"}
INVARIANTS TypeOK InStep NoneAbandoned DeadNameWasKilled
\* Clients and daemons may all have ended.
CHECK_DEADLOCK FALSE
