\* terminal_buf of 5, and the shell's request, which is larger.
CONSTANTS
    MAX_BUF_FILL = 5
    FNAME_MAX = 3
    Letters = {"a", "b"}
    ShellSize = 9
    Sizes = {}
    MaxKeys = 6
SPECIFICATION Spec
INVARIANTS NoArgsWithoutSpace
