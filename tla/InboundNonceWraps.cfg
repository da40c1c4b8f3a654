\* The nonces of the client start again: nothing is handled any more.
CONSTANTS
    t1 = t1
    t2 = t2
    Invocation = {t1}
    MaxSent = 3
    NonceLimit = 2
    MessageOrdering = TRUE
    StrayDatagram = FALSE
    HandlersThrow = FALSE
SPECIFICATION FairSpec
PROPERTIES
    SentIsHandled
CHECK_DEADLOCK FALSE
