SPECIFICATION Spec
CONSTANTS
    NPROC = 4
    NALLOCATORS = 2
    PROC_START_ADDR = 8
    PROC_SIZE = 4
    IMAGE_SIZE = 1
    MEMSIZE_PHYSICAL = 16
    KERNEL_START_ADDR = 4
    KERNEL_END = 5
    KERNEL_STACK_TOP = 7
    IOPHYSMEM = 7
    EXTPHYSMEM = 8
    HZ = 4
    Programs = {"allocators", "fork", "forkexit"}
    Faulting = {1, 2}
    Keys = {"a", "f", "e", "q"}
INVARIANTS TypeOK NoAssertFails PageAccounting PageOwnership PidIsOwn BoundedBypass
CHECK_DEADLOCK FALSE
