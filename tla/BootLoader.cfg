CONSTANTS
    N = 7
    FRAMES = 24
    EXTENDED_MEMORY = 2
    ksize = 3
    VGA_RAM = 2
    KERNEL_VSTART = 4
    KERNEL_TEMP_END = 6
    STACK_PAGES = 2
    MemoryMaps <- FlatMaps
    ModuleLists <- SomeModules
    Executables <- SomeExecutables

SPECIFICATION Spec
INVARIANTS TypeOK FramesApart LoadedAsLinked OnlyPlannedPages HandedOverFree
CHECK_DEADLOCK FALSE
