\* A game ends, a maze gets done, and who types stops after five characters.
CONSTANTS
    MAZE_MIN_X_DIM = 2
    MAZE_MAX_X_DIM = 2
    MAZE_MIN_Y_DIM = 1
    MAZE_MAX_Y_DIM = 2
    BLOCK_X_DIM = 3
    BLOCK_Y_DIM = 2
    SCROLL_X_DIM = 10
    SCROLL_Y_DIM = 4
    PAN_BORDER = 1
    SHOW_MIN = 1
    MAX_LEVEL = 2
    MaxTicks = 2
    Mazes <- MCMazes
    Keys = {96, 27, 91, 65, 66}
    Buttons = {64, 128}
    MAKE_X_DIM = 2
    MAKE_Y_DIM = 3
    StartFruits = 1
    Few = 2
    MaxTrials = 1
    BRIGHTEST = 2
    Chars = {96, 27, 91, 65, 68}
    Presses = {0, 1, 16, 32, 64, 128, 48}
    MaxRead = 5
SPECIFICATION MCSpec
INVARIANTS PlayerSafety WinsEarned MazeSafety EndsSafely
PROPERTIES AllEnds
CHECK_DEADLOCK FALSE
