CONSTANTS
    s1 = s1
    s2 = s2
    s3 = s3
    s4 = s4
    None = None
    Kernel = Kernel
    Slots <- ThreeSlots
    MaxTid = 5
    Codes = {}
    Allowed <- ShellHabits
SPECIFICATION FairSpec
INVARIANT
    ExitFindsRunnable
PROPERTIES
    RunnableRuns
    ParentResumes
CHECK_DEADLOCK FALSE
