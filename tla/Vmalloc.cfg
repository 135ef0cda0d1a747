\* An area of four pages behind two page tables, of which the first is made at boot;
\* requests of one and two pages; six frames, which run out.
CONSTANTS
    f1 = f1
    f2 = f2
    f3 = f3
    f4 = f4
    f5 = f5
    f6 = f6
    d1 = d1
    none = none
    kern_pd = kern_pd
    VM_VMALLOC_START = 1
    VM_VMALLOC_END = 5
    Sizes = {1, 2}
    PhyTypes = {"MAPPED", "ON_DEMAND"}
    TablePages = 3
    Frames <- SomeFrames
    Dirs <- TwoDirs
    Garbage <- ClearedOrNot
SPECIFICATION Spec
SYMMETRY FrameSymmetry
INVARIANTS
    RegionsApart
    UsedPagesExact
    RegionsBacked
PROPERTY
    ImplementsAreas
CHECK_DEADLOCK FALSE
