\* Three writers with every fault, and a reader at any time; a reader changes nothing.
SPECIFICATION Spec
CONSTANTS
    Writers = {w1, w2, w3}
    Readers = {r1}
    Data <- MCData
    Size <- MCSize
    Trials = {"library", "sealtest"}
    Room = 2
    Absent = Absent
    Nothing = Nothing
    Wild = Wild
    Faults = {"kill", "short", "overlap"}
SYMMETRY Alike
INVARIANT QuietRead
\* Writers and readers end.
CHECK_DEADLOCK FALSE
