\* A writer that may go away at any byte, and calls that may fail.
SPECIFICATION FairSpec
CONSTANTS
    N = 3
    Start <- SmallBounds
    SizeMax = 7
    MaxStream = 8
    Junk = Junk
    Faults = {"close", "reset", "nobufs"}
INVARIANTS TypeOK Delivered DamageIsLast
PROPERTIES AllDelivered
\* Both ends may be done.
CHECK_DEADLOCK FALSE
