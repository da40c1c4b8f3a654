CONSTANTS
    Player = {0, 1, 2}
    Impostor = {2}
    Order <- ReusedId
    Skipped = Skipped
    Missed = Missed
    NotVoted = NotVoted
    Nobody = Nobody
    MaxMissing = 1
    MaxCasting = 2
    MaxGone = 1
SPECIFICATION FairSpec
INVARIANTS
    TypeOK
    VotesForPresent
    NoResultIsMissed
PROPERTIES
    ExiledWonTheVote
    MeetingEnds
CHECK_DEADLOCK FALSE
