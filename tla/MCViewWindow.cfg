\* A maze, minutes and texts are bounded: a behaviour may stop there.
CONSTANTS
    SCROLL_X_DIM = 8
    SCROLL_Y_DIM = 4
    EXTRA = 2
    BLOCK_X_DIM = 2
    BLOCK_Y_DIM = 2
    Mask <- MCMask
    TEXT_LEN = 3
    FONT_HEIGHT = 1
    CAPTION_X_OFF = 1
    CAPTION_Y_OFF = 1
    X_DIM = 3
    Y_DIM = 2
    PAN_BORDER = 1
    Exits <- MCExits
    SHOW_MIN = 1
    MaxTicks = 1
    MaxSeen = 1
    MaxAfter = 0
    GameTicks = 2
    Seconds = 1
    RTC_DIV = 1
    MINUTE = 3
    MaxMinutes = 1
    COLUMNS = 4
    CAPTION_TEXT_NUM = 2
    MaxText = 3
    LetterHeight = 2
    Letters <- MCLetters
SPECIFICATION MCSpec
INVARIANTS DrawnRight FramesTrue
PROPERTIES KeepsPicture
CHECK_DEADLOCK FALSE
