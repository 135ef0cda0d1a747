CONSTANTS
    s1 = s1
    s2 = s2
    s3 = s3
    s4 = s4
    None = None
    Kernel = Kernel
    Slots <- FourSlots
    MaxTid = 4
    Codes = {}
    Allowed <- Anything
SPECIFICATION Spec
SYMMETRY SlotSymmetry
VIEW KernelView
INVARIANTS
    QueuesMatchStates
    CountersExact
    CpuOwnerQueued
    TreeConsistent
    EntryConditions
CHECK_DEADLOCK FALSE
