SPECIFICATION FairSpec
CONSTANTS
    S = S
    A = A
    B = B
    C = C
    Server = S
    Clients = {A, B, C}
    Handshakes = {1, 2, 3}
    ClientOf <- ThreeClientOf
    BuildOf <- ThreeBuildOf
    PlatformOf <- ThreePlatformOf
    MachineOf <- ThreeMachineOf
    AtFlag = {A, B}
    Flags = {0, 1, 2}
    FileCerts <- FileKinds
    VerifierFiles <- SomeFiles
    Plain <- SelfFile
    Faults = {"tpm", "long", "daemon"}
PROPERTY
    Settles
CHECK_DEADLOCK FALSE
