SPECIFICATION FairShellSpec
CONSTANTS
    Shell = shell
    Kids = {kid}
    Pipes = {stdout, stderr}
    MaxChunks = 3
    Capacity = 2
    Buffered = 1
INVARIANTS
    ShellTypeOK
    OutputIsWhole
    NothingLeftBehind
PROPERTIES
    ToolEnds
CHECK_DEADLOCK FALSE
