SPECIFICATION Spec
CONSTANTS
    FANOUT = 2
    TOP = 2
    NVA = 16
    NPAGES = 7
    DataPages = {6}
    Perms <- TestPerms
INVARIANTS TypeOK AgreesWithHardware PageTableIsTree LowPermExact FreesChildrenFirst MapsOnlyItsPage
PROPERTIES NextSkipsNoPresent FreesAll
CHECK_DEADLOCK FALSE
