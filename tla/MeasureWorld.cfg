\* Every kind of fault.
SPECIFICATION Spec
CONSTANTS
    p1 = p1  p2 = p2  x1 = x1  x2 = x2  l1 = l1  v1 = v1  v2 = v2
    Pids = {p1, p2}
    Exes = {x1, x2}
    Libs = {l1}
    Contents = {v1, v2}
    Initial <- Different
    Needs <- Shared
    MaxStarts = 2
    MaxUpgrades = 1
    None = None
    Absent = Absent
    Zero = Zero
    Garbage = Garbage
    Faults = {"exit", "reuse", "upgrade", "read"}
INVARIANTS TypeOK ExeTrue FreshIsTrue
\* The starts are bounded.
CHECK_DEADLOCK FALSE
