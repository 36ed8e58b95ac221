SPECIFICATION FairSpec
CONSTANTS
    p1 = p1  p2 = p2  t1 = t1  t2 = t2  t3 = t3  n1 = n1  n2 = n2  c1 = c1  None = None
    Proc = {p1, p2}
    Thread = {t1, t2, t3}
    ProcOf <- Both
    Node = {n1, n2}
    Owner <- Crossed
    Cookie = {c1}
    DeathId = {1, 2}
INVARIANTS LocationsExact HandlesAgree ToldInOrder
CHECK_DEADLOCK FALSE
PROPERTY NoticesEnd
