SPECIFICATION Spec
CONSTANTS
    a = a
    b = b
    c = c
    t1 = t1
    t2 = t2
    o1 = o1
    Stores = {a, b, c}
    Links <- Relay
    Entities = 2
    Keys = {t1, t2, o1}
    Kind <- MCKind
    Parent <- MCParent
    Slots = 1
    Environments <- Apart
    MaxTime = 2
PROPERTY ReceivedAll
CHECK_DEADLOCK FALSE
