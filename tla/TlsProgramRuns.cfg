\* One pair of programs with every option and fault, or a third beside it.
SPECIFICATION MCSpec
CONSTANTS
    Servers = {s1,s2}
    Clients = {c1,c2}
    ServerRuns <- MCServerRuns
    ClientRuns <- MCClientRuns
    Certificates = {"self", "signed", "mismatch", "missing"}
    Nobody = Nobody
    ProgramFaults = {"kill", "reset"}
    s1 = s1
    s2 = s2
    c1 = c1
    c2 = c2
INVARIANTS ProgramTypeOK SuccessIsWhole
PROPERTY ExchangeEnds
\* Programs end, and a client spins.
CHECK_DEADLOCK FALSE
