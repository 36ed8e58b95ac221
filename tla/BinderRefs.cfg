SPECIFICATION Spec
CONSTANTS
    p1 = p1
    p2 = p2
    p3 = p3
    t1 = t1
    a1 = a1
    a2 = a2
    None = None
    ProcList = ProcList
    Proc = {p1, p2, p3}
    Tid = {t1}
    Ptr = {a1}
    NodeId = {n1}
    BufId = {b1, b2}
    MaxStrong = 1
    MaxWeak = 0
    Euid <- MCEuid
    Parcels <- MCParcels
SYMMETRY Sym
CHECK_DEADLOCK FALSE
INVARIANTS BuffersPinNodes CountsExact OwnerTold
