\* Scripts of one line and of two, and of three of the lines with lasting effects.
SPECIFICATION Spec
CONSTANTS
    Scripts <- MCScripts
    Block = 2
    Ints = 64
    Statuses = 8
    Home = TRUE
INVARIANTS
    TypeOK
    EchoLands
    MessageOnce
    CopiesCarried
    LinesOnce
    ExitStatus
    LastingEffects
\* Sessions end.
CHECK_DEADLOCK FALSE
