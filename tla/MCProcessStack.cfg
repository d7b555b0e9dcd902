\* A process that executes as many programs as its stack holds frames.
CONSTANTS
    MaxProcess = 2
    FdMax = 3
    StackFrames = 2
    MaxDepth = 2
    Programs = {shell}
    Shell = shell
    NoProgram = noProgram
    BadCommands = {badCommand}
    Args = {noArgs}
    NoArgs = noArgs
    RtcNames = {rtc}
    DirNames = {}
    FileNames = {}
    Statuses = {0, 200}
    UninitFd = {2, 7}
SPECIFICATION Spec
INVARIANTS PcbFromStack
