SPECIFICATION FairSpec
CONSTANTS
    a = a
    b = b
    c = c
    Ids = {a, b}
    Sessions = {1, 2}
    IdOf <- TwoClients
    After <- AnyTime
    MaxRequests <- OneRequest
    Targets <- PayOther
    Workers = {w1}
    Acceptor = Acceptor
    Listener = Listener
    Free = Free
    NoTarget = NoTarget
    MaxFds = 4
    Crashes = {}
    Strangers = {}
    MayStop = TRUE
PROPERTIES RequestAnswered DisconnectCompletes StopCompletes
CHECK_DEADLOCK FALSE
