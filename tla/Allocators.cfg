\* Nine frames, two of them reserved: pools of every size up to the whole
\* free memory, holes between held frames, and exhaustion all happen.
\* Requests of 32, 88 and 104 bytes take chunks of 48, 96 and 112 bytes: two
\* sizebins and a chunk that can be split, into a sizebin chunk (112 - 48) or
\* into one of the smallest size (112 - 96), which goes to the sortedbin.
CONSTANTS
    TotalFrames = 9
    ReservedFrames = 2
    Owners = {"kernel", "libc"}
    Gap = 16
    HeapStart = 16
    InitialSize = 320
    ExpandUnit = 64
    MaxVoid = 368
    Requests = {32, 88, 104}
    Word = 65536
SPECIFICATION MCSpec
INVARIANTS
    ExclusiveFrames
    Accounting
    RetryFindsFrame
    PanicOnlyWhenFull
    ChunksTile
    BinsExact
    SortedbinSorted
    DataFits
\* panic() halts the machine.
CHECK_DEADLOCK FALSE
