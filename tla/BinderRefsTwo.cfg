SPECIFICATION Spec
CONSTANTS
    p1 = p1
    p2 = p2
    p3 = p3
    t1 = t1
    a1 = a1
    a2 = a2
    None = None
    ProcList = ProcList
    Proc = {p1, p2}
    Tid = {t1}
    Ptr = {a1, a2}
    NodeId = {n1, n2}
    BufId = {b1}
    MaxStrong = 1
    MaxWeak = 1
    Euid <- MCEuid
    Parcels <- TwoObjects
SYMMETRY Sym
CHECK_DEADLOCK FALSE
INVARIANTS HandlesNameNodes
PROPERTIES ReleaseIsSound NoSilentRemoval
