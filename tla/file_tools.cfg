SPECIFICATION ToolSpec
CONSTANTS
    t = t
    u = u
    p = p
    q = q
    inner = inner
    here = here
    there = there
    NoFile = NoFile
    Tasks <- MCTasks
    Loops <- MCLoops
    Paths <- MCPaths
    Inside <- MCInside
    Jobs <- MCJobs
    Layouts <- MCLayouts
INVARIANTS
    ToolTypeOK
PROPERTIES
    NeverReplaces
    OneLoopIsAtomic
CHECK_DEADLOCK FALSE
