SPECIFICATION Spec
CONSTANTS
    a = a
    b = b
    c = c
    Ids = {a, b}
    Sessions = {1, 2, 3}
    IdOf <- Return
    After <- InTurn
    MaxRequests <- RequestsOfReturn
    Targets <- PayA
    Workers = {w1}
    Acceptor = Acceptor
    Listener = Listener
    Free = Free
    NoTarget = NoTarget
    MaxFds = 6
    Crashes = {1}
    Strangers = {}
    MayStop = FALSE
INVARIANT NoHangUnderMapLock
CHECK_DEADLOCK FALSE
