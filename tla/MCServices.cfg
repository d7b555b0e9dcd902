\* Reads of a byte and of a block, which is two names of the directory;
\* create_process reads whole files.  grep's buffer
\* is shorter than its files, and as short as its lines or shorter.
\* No deadlock is looked for: programs end, a routine returns,
\* and a kernel that was not loaded as it should be halts.
CHECK_DEADLOCK FALSE
CONSTANTS
    BLOCK_SIZE = 2
    FNAME_MAX = 1
    FdMax = 2
    Entries <- SomeEntries
    InodeLength <- SomeLengths
    DataBlockNum <- SomeBlocks
    BadNames = {"nosuch"}
    Sizes <- SomeSizes
    WORD = 32
    BUFSIZE = 3
    newline = newline
    BLANK = BLANK
    WALL = WALL
    NUL = NUL
    Directories <- MCDirectories
    Searches <- MCSearches
    Parts = {"files", "grep", "memory", "library", "programs", "display"}
SPECIFICATION MCSpec
INVARIANTS FilePosInFile NextReadExact ProgramsServed MemorySafety LibrarySafety DisplaySafety
PROPERTIES ImplementsStreams
