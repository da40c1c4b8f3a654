\* Three listeners of any kinds, two emissions at a time.
CONSTANTS
    MaxListeners = 3
    MaxEmissions = 2
SPECIFICATION FairSpec
INVARIANTS
    TypeOK
    OnceIsOnce
    CalledOnce
PROPERTIES
    OnStays
    EverybodyHears
