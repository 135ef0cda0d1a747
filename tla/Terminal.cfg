CONSTANTS
    VGA_WIDTH = 2
    VGA_HEIGHT = 2
    COMM_LEN = 3
    MaxTyped = 5
    MaxOdd = 0
SPECIFICATION Spec
INVARIANTS
    LineExact
    CursorTracks
CHECK_DEADLOCK FALSE
