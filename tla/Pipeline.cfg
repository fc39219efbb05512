\* Three stages, pipes of one item, sources that write more than a pipe holds.
SPECIFICATION FairSpec
CONSTANTS
    N = 3
    Cap = 1
    Items = 2
    Code <- MCCode
    Plan <- MCPlan
INVARIANTS
    StageWired
    ShellClean
    EofAfterEnd
    SigpipeAfterEnd
PROPERTIES
    Refinement
    Returns
\* The shell is back at its prompt.
CHECK_DEADLOCK FALSE
