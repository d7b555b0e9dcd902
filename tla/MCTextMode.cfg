\* terminal_buf of 5: the shell's request, which is larger, and others that
\* are negative, smaller or of exactly its size.
CONSTANTS
    MaxPresses = 4
    MAX_BUF_FILL = 5
    FNAME_MAX = 3
    Letters = {"a", "b"}
    ShellSize = 9
    Sizes <- SomeSizes
    MaxKeys = 6
    NUM_ROWS = 3
    NUM_COLS = 3
    Locations = {0, 1, 2}
    SCREEN = 2
    Phases <- MCPhases
    HALF = 2
    Addresses = {1, 2}
    LowZero = {2}
    MaxCalls = 4
SPECIFICATION TextModeSpec
INVARIANTS ModifiersFollowKeys TwiceAtMost LineSafety TextSafety BlinkSafety ProgramSafety
PROPERTIES TypedAsHeld LastKeyDelivered InTime FishSafety
