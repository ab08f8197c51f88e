SPECIFICATION Spec
CONSTANTS
    Addresses = {a1, a2, a3}
    NULL = NULL
    Counts = {0, 1, 2, 3}
    SizeModulus = 8
SYMMETRY Symmetry
INVARIANT BlocksSound
PROPERTY FreedKept
CHECK_DEADLOCK FALSE
