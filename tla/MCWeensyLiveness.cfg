SPECIFICATION TimerSpec
CONSTANTS
    NPROC = 4
    NALLOCATORS = 2
    PROC_START_ADDR = 8
    PROC_SIZE = 4
    IMAGE_SIZE = 1
    MEMSIZE_PHYSICAL = 16
    KERNEL_START_ADDR = 4
    KERNEL_END = 5
    KERNEL_STACK_TOP = 7
    IOPHYSMEM = 7
    EXTPHYSMEM = 8
    HZ = 2
    Programs = {"allocators"}
    Faulting = {1, 2}
    Keys = {}
PROPERTIES NoStarvation ViewerRotates AllocatorsFinish
