SPECIFICATION Spec
CONSTANTS
    a = a
    b = b
    c = c
    Ids = {a, b}
    Sessions = {1, 2}
    IdOf <- TwoClients
    After <- AnyTime
    MaxRequests <- FirstAsksTwice
    Targets <- AnyTarget
    Workers = {w1, w2}
    Acceptor = Acceptor
    Listener = Listener
    Free = Free
    NoTarget = NoTarget
    MaxFds = 4
    Crashes = {}
    Strangers = {}
    MayStop = FALSE
INVARIANTS TypeOK NoCircularWait ResponseToOrigin OneUnderWay
CHECK_DEADLOCK FALSE
