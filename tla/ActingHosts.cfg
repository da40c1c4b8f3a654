CONSTANTS
    Client = {c1, c2}
    Server = Server
    Nobody = Nobody
    MaxCalls = 2
    MaxSwitches = 2
SPECIFICATION Spec
SYMMETRY Clients
INVARIANTS
    TypeOK
    ClaimIsGranted
    HostIsNotMisled
\* Everybody may have left.
CHECK_DEADLOCK FALSE
