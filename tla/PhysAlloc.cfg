CONSTANTS
    Top = 256
    BITS = 3
    PAGE = 2
    TOTAL_SIZES = 4
    LEVEL_4M = 2
    MAX_PHYS_ADDR_4K = 108
    MAX_PHYS_ADDR = 200
    MemoryMaps <- MCMemoryMaps
    FirstFreePages = {2}
    BootLimit = 6
    MaxHeap = 1
    MaxGiven = 2
    MaxForgotten = 4

SPECIFICATION Spec
INVARIANTS GivenOnce MarksLast ClearMeansFree OwnerCanRelease FindsFreeBlocks

PROPERTY ImplementsFreePages

CHECK_DEADLOCK FALSE
