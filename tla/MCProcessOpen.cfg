\* A process that opens the clock until its table is full.
CONSTANTS
    MaxProcess = 2
    FdMax = 3
    StackFrames = 3
    MaxDepth = 1
    Programs = {shell}
    Shell = shell
    NoProgram = noProgram
    BadCommands = {badCommand}
    Args = {noArgs}
    NoArgs = noArgs
    RtcNames = {rtc}
    DirNames = {}
    FileNames = {}
    Statuses = {0, 200}
    UninitFd = {2, 7}
SPECIFICATION Spec
PROPERTIES OpenFailsFull
