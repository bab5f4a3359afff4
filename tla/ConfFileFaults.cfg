\* Three writers of each kind, killed and overlapping.
SPECIFICATION Spec
CONSTANTS
    Writers = {w1, w2, w3}
    Kinds = {"conftool", "picatest", "library"}
    Names <- MCNames
    Digests <- MCDigests
    Measured <- MCMeasured
    Commands <- MCCommands
    BufLens = {4}
    Scraps <- MCScraps
    MaxEntries = 3
    NoFile = NoFile
    Zeros = Zeros
    Absent = Absent
    Garbage = Garbage
    Faults = {"kill", "overlap"}
SYMMETRY Alike
INVARIANTS TypeOK WholeIsVersion HalfIsRefused
\* Writers end.
CHECK_DEADLOCK FALSE
