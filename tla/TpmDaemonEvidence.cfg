\* Four calls of three processes, two with one number; whatever the daemon asks for
\* may fail, and the daemon be killed.  Clients that are not killed.
SPECIFICATION FairSpec
CONSTANTS
    p1 = p1  p2 = p2  p3 = p3
    c1 = c1  c2 = c2  c3 = c3  c4 = c4
    d1 = d1  d2 = d2
    n1 = n1  n2 = n2  n3 = n3
    Procs = {p1, p2, p3}
    Calls = {c1, c2, c3, c4}
    Daemons = {d1}
    Owner <- Twice
    Kind <- PicaAttest
    Pids = {n1, n2, n3}
    Pid <- NumberAgain
    None = None
    Junk = Junk
    Absent = Absent
    MaxFd = 3
    Backlog = 2
    BufLen = 1
    Lens = {1, 2}
    Faults = {"tpm", "measure", "unseal", "walk", "daemon"}
INVARIANTS AnswersMatch
PROPERTIES ServiceSpec EveryCallReturns
\* Clients and daemons may all have ended.
CHECK_DEADLOCK FALSE
