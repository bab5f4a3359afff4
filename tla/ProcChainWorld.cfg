SPECIFICATION Spec
CONSTANTS
    p1 = p1
    p2 = p2
    p3 = p3
    Pids = {p1, p2, p3}
    Exes = {"sh", "nc"}
    Uids = {"root"}
    FirstExes = {"sh"}
    FirstUids = {"root"}
    InitPid = init
    Outside = outside
    MaxBirths = 3
    MaxExecs = 1
    MaxChain = 3
    None = None
    Garbage = Garbage
    Minus1 = Minus1
    Absent = Absent
    Zero = Zero
    Faults = {"exit", "reuse", "read", "outside"}
INVARIANTS
    TypeOK
    Lineage
    
    VisitedOnce
CHECK_DEADLOCK FALSE
SYMMETRY Symmetric
