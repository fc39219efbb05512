\* An exit in a pipeline, and one behind a program that fails.
SPECIFICATION FairSpec
CONSTANTS
    Scripts <- MCExits
    Block = 2
    Ints = 64
    Statuses = 8
    Home = TRUE
PROPERTY
    ExitAsDocumented
\* Sessions end.
CHECK_DEADLOCK FALSE
