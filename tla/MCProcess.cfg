\* Three slots, so that a process has both a parent and a child.
CONSTANTS
    MaxProcess = 3
    FdMax = 3
    StackFrames = 3
    MaxDepth = 1
    Programs = {shell, prog}
    Shell = shell
    NoProgram = noProgram
    BadCommands = {badCommand}
    Args = {noArgs, arg}
    NoArgs = noArgs
    RtcNames = {rtc}
    DirNames = {}
    FileNames = {}
    Statuses = {0, 200}
    UninitFd = {2, 7}
SPECIFICATION Spec
INVARIANTS WellFormed RunningContext ReturnPath VidPageOwned
PROPERTIES SuspendedFrozen ImplementsStack
