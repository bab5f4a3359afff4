SPECIFICATION Spec
CONSTANTS
    S = S
    A = A
    B = B
    C = C
    Server = S
    Clients = {A, B}
    Handshakes = {1, 2, 3}
    ClientOf <- TwoClientOf
    BuildOf <- TwoBuildOf
    PlatformOf <- TwoPlatformOf
    MachineOf <- TwoMachineOf
    AtFlag = {S}
    Flags = {0, 1, 2}
    FileCerts <- FileKinds
    VerifierFiles <- OwnFiles
    Plain <- PlainKinds
    Faults = {"keys", "cbor", "qe", "tpm", "long", "daemon", "kill"}
INVARIANTS
    TypeOK
    AcceptedIsOwn
    AcceptedInDate
    OwnNotRefused
CHECK_DEADLOCK FALSE
