CONSTANTS
    n1 = n1
    n2 = n2
    f1 = f1
    f2 = f2
    f3 = f3
    shell = shell
    init = init
    NULL = NULL
    MAX_FDS = 4
    FileSize = 1
    TarBlock = 2
    Word = 5
    NodePool <- TwoNodes
    FdPool <- ThreeFds
    Tasks <- TwoTasks
    Paths <- SomePaths
    Sizes = {1}
    Leftovers = {}
    MaxOdd = 1
    MaxCalls = 6
    Modes = {"O_RDWR"}
SPECIFICATION Spec
SYMMETRY Pools
INVARIANTS
    DescriptorsLive
    NothingLost
    PositionInFile
    TreeLinks
CHECK_DEADLOCK FALSE
