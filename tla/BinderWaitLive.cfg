SPECIFICATION FairSpec
CONSTANTS
    h1 = h1
    l1 = l1
    i1 = i1
    Ext = Ext
    Thread = {h1, l1}
    Hosted = {h1}
    Item = {i1}
    MaxTodo = 1
    MaxStack = 1
    Writes = {"none", "reply"}
    Events = {"queue", "flush", "interrupt"}
INVARIANTS NoLostWake WaitingExact
PROPERTY WorkIsRead
