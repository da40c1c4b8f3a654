CONSTANTS
    Player = {1, 2, 3}
    Impostor = {1}
    Tasks = 1
    MaxGone = 1
    MaxMurders = 2
    MaxIntents = 2
    MaxUpdates = 2
    MaxCancels = 1
SPECIFICATION FairSpec
INVARIANTS
    TypeOK
    StateIsHonest
PROPERTIES
    OutnumberedEnds
    NoEndIsLost
CHECK_DEADLOCK FALSE
