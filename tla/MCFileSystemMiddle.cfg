\* Reads of more than a block; the file system alone.
CONSTANTS
    BLOCK_SIZE = 2
    FNAME_MAX = 3
    FdMax = 2
    Entries <- SomeEntries
    InodeLength <- SomeLengths
    DataBlockNum <- SomeBlocks
    BadNames = {"nosuch"}
    Sizes = {1, 3}
    WORD = 32
    BUFSIZE = 3
    newline = "nl"
    BLANK = BLANK
    WALL = WALL
    NUL = "NUL"
    Directories = {}
    Searches = {}
    Parts = {"files"}
SPECIFICATION MCSpec
PROPERTIES ReadsFromPosition
