\* One call at a time: the room is destroyed between two games.
CONSTANTS
    c1 = c1
    c2 = c2
    c3 = c3
    c4 = c4
    Nobody = Nobody
    Client = {c1, c2}
    MaxPlayers = 2
    MaxPending = 1
SYMMETRY Symmetry
SPECIFICATION Spec
INVARIANTS
    EndedCanRejoin
CHECK_DEADLOCK FALSE
