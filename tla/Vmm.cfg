CONSTANTS
    parent = parent
    child = child
    NULL = NULL
    first = parent
    Spaces <- TwoSpaces
    Programs <- SomePrograms
    PAGE_SIZE = 2
    Word = 64
    VM_USER_END = 18
    VM_USER_STACK = 16
    StackSize = 2
    MmapSizes = {2, 3, 17}
    Breaks <- SomeBreaks
    Hints = {5, 8, 18}
    Frames = {1, 2, 3, 4, 5, 6, 7, 8, 9, 10, 11, 12, 13, 14, 15, 16, 17, 18}
    Used = {1, 2, 3, 4, 5, 6, 7, 8, 9, 10, 11, 12, 13, 14, 15, 16, 17, 18}
    TableEntries = 2
    Garbage <- Stale
    MaxOdd = 1
    MaxCalls = 4
    Protections = {TRUE, FALSE}
SPECIFICATION Spec
INVARIANTS
    RegionsSorted
    FramesExclusive
    HeapCovered
    FaultsHonest
    KernelUntouched
PROPERTY
    ForkIsComplete
CHECK_DEADLOCK FALSE
