\* Two consoles, two overlapping calls, any number of sabotages.
SPECIFICATION FairSpec
CONSTANTS
    Console = {0, 1}
    Time = 2
    MaxCalls = 2
INVARIANTS
    TypeOK
    ClientsAgree
    RepairedByTwo
PROPERTIES
    CriticalEnds
