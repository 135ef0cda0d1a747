CONSTANTS
    parent = parent
    child = child
    NULL = NULL
    first = parent
    Spaces <- TwoSpaces
    Programs <- SomePrograms
    PAGE_SIZE = 2
    Word = 64
    VM_USER_END = 22
    VM_USER_STACK = 20
    StackSize = 2
    MmapSizes = {2, 6}
    Breaks = {}
    Hints = {}
    Frames = {1, 2, 3, 4, 5, 6, 7, 8, 9, 10, 11, 12, 13, 14, 15, 16, 17, 18}
    Used = {}
    TableEntries = 2
    Garbage <- Stale
    MaxOdd = 0
    MaxCalls = 6
    Protections = {TRUE}
SPECIFICATION Spec
INVARIANT MappedInRegions
CHECK_DEADLOCK FALSE
