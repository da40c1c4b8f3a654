\* Up to three lost datagrams, and a client that may die at any moment.
CONSTANTS
    PollEvery = 4
    ResendAfter = 3
    DropAfter = 16
    Window = 2
    NonceLimit = 99
    MaxTicks = 44
    MaxSends = 2
    MaxLost = 3
    MayDie = TRUE
SPECIFICATION Spec
INVARIANTS
    TypeOK
    RespondingIsKept
    ReliablyRecorded
    DeadIsRemoved
CHECK_DEADLOCK FALSE
