SPECIFICATION Spec
CONSTANTS
    h1 = h1
    l1 = l1
    i1 = i1
    Ext = Ext
    Thread = {h1, l1}
    Hosted = {h1}
    Item = {i1}
    MaxTodo = 1
    MaxStack = 2
    Writes = {"none", "call", "reply", "fail", "send"}
    Events = {"queue", "direct", "node", "lazy", "nofds", "exit", "release"}
INVARIANTS NoLostWake ResumedOnce WorkFindsThread NoSpin
CHECK_DEADLOCK FALSE
