CONSTANTS
    s1 = s1
    s2 = s2
    s3 = s3
    s4 = s4
    None = None
    Kernel = Kernel
    Slots <- ThreeSlots
    MaxTid = 4
    Codes = {0}
    Allowed <- ShellHabits
SPECIFICATION Spec
SYMMETRY SlotSymmetry
INVARIANT
    ZombieWillBeReaped
CHECK_DEADLOCK FALSE
