SPECIFICATION Spec
CONSTANTS
    p1 = p1
    p2 = p2
    t1 = t1
    t2 = t2
    t3 = t3
    None = None
    Proc = {p1, p2}
    Thread = {t1, t2, t3}
    ProcOf <- Pool
    TxnId = {1, 2, 3}
    BufId = {1, 2, 3}
    Calls = {}
    OneWays <- OneWay2Torn
    Fails = {t2}
    MaxTodo = 1
CHECK_DEADLOCK FALSE
INVARIANT OneWaySerial
