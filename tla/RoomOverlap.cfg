\* Two calls overlap: what holds nevertheless.
CONSTANTS
    c1 = c1
    c2 = c2
    c3 = c3
    c4 = c4
    Nobody = Nobody
    Client = {c1, c2, c3}
    MaxPlayers = 2
    MaxPending = 2
SYMMETRY Symmetry
SPECIFICATION Spec
INVARIANTS
    PlayersAreInRoom
    DestroyedIsUnregistered
CHECK_DEADLOCK FALSE
