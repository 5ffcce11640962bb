SPECIFICATION FairShellSpec
CONSTANTS
    Shell = shell
    Kids = {kid}
    Pipes = {stdout, stderr}
    MaxChunks = 3
    Capacity = 2
    Buffered = 1
PROPERTIES
    TimeoutHonored
CHECK_DEADLOCK FALSE
