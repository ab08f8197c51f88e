SPECIFICATION Spec
CONSTANTS
    BUFSIZ = 2
    MayFail = TRUE
    Impls = {"naive", "student", "stdio"}
    Sample <- MCSample
    MAX_BLOCK_SIZE = 4
    MaxStride = 4
    SIZE_T = 256
INVARIANTS OutputIsPrefix ExitStatusTrue NoUndefinedSwitch
PROPERTIES ImplementsFile Terminates
CHECK_DEADLOCK FALSE
