\* One call at a time: nothing overlaps.
CONSTANTS
    c1 = c1
    c2 = c2
    c3 = c3
    c4 = c4
    Nobody = Nobody
    Client = {c1, c2, c3, c4}
    MaxPlayers = 3
    MaxPending = 1
SYMMETRY Symmetry
SPECIFICATION Spec
INVARIANTS
    TypeOK
    WaitingIsMember
    NoGhost
    HostIsPlayer
    Capacity
    AskedIsAnswered
    MembersAreKnown
PROPERTIES
    DestroyedIsFinal
CHECK_DEADLOCK FALSE
