\* Message ordering is on and datagrams are dealt with one at a time, fairly.
CONSTANTS
    t1 = t1
    t2 = t2
    Invocation = {t1}
    MaxSent = 4
    NonceLimit = 5
    MessageOrdering = TRUE
    StrayDatagram = FALSE
    HandlersThrow = FALSE
SPECIFICATION FairSpec
INVARIANTS
    TypeOK
    AckedIsKept
PROPERTIES
    DeliveredInOrder
    AllDeliveredInOrder
CHECK_DEADLOCK FALSE
