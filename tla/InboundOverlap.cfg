\* Message ordering is off and invocations of handleMessage overlap.
CONSTANTS
    t1 = t1
    t2 = t2
    Invocation = {t1, t2}
    MaxSent = 4
    NonceLimit = 4
    MessageOrdering = FALSE
    StrayDatagram = TRUE
    HandlersThrow = TRUE
SPECIFICATION Spec
SYMMETRY Symmetry
INVARIANTS
    HandledInOrder
CHECK_DEADLOCK FALSE
