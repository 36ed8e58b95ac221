SPECIFICATION FairSpec
CONSTANTS
    p1 = p1
    p2 = p2
    t1 = t1
    t2 = t2
    t3 = t3
    None = None
    Proc = {p1, p2}
    Thread = {t1, t2}
    ProcOf <- Pair
    TxnId = {1, 2, 3}
    BufId = {1, 2}
    Calls <- PingPong
    OneWays = {}
    Fails = {}
    MaxTodo = 1
CHECK_DEADLOCK FALSE
PROPERTY CallsEnd
