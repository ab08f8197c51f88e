SPECIFICATION Spec
CONSTANTS
    Clients = {1, 2}
    Nobody = 3
    Workers = {w1, w2}
    Modulus = 4
    Typed <- MCTyped
    Opening <- MCOpening
    MaxCommands = 1
INVARIANTS MoneyConserved
PROPERTIES RefinesLedger CommandsAnswered
CHECK_DEADLOCK FALSE
