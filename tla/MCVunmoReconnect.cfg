SPECIFICATION Spec
CONSTANTS
    a = a
    b = b
    c = c
    Ids = {a, b}
    Sessions = {1, 2, 3}
    IdOf <- Return
    After <- AnyTime
    MaxRequests <- OneRequest
    Targets <- AnyTarget
    Workers = {w1, w2}
    Acceptor = Acceptor
    Listener = Listener
    Free = Free
    NoTarget = NoTarget
    MaxFds = 6
    Crashes = {1}
    Strangers = {3}
    MayStop = FALSE
PROPERTY ConnectionKept
CHECK_DEADLOCK FALSE
