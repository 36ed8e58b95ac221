SPECIFICATION Spec
CONSTANTS
    U64Max = 127
    MaxMapping = 48
    SpamCount = 2
    Lens <- MCLens
    Requests <- MCRequests
    Senders <- MCSenders
    MaxBuffers = 4
INVARIANTS
    Tiled
    AsyncAccounting
    EnospcIsHonest
