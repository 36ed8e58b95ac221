SPECIFICATION FairSpec
CONSTANTS
    Byte = {0, 1}
    Size = 3
    Messages <- Short
    ReadLens = {1, 2}
    MaxPos = 5
INVARIANT NoLostWake
PROPERTIES ImplementsFifo BlockedCallsEnd
