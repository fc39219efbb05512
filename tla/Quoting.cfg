\* Inputs of three characters of any kind, and some of four and five; the
\* words of those that are words alone go on to echo.
SPECIFICATION QFairSpec
CONSTANTS
    Letter <- MCLetter
    Alpha <- MCAlpha
    Numeric = {"digit"}
    Other <- Others
    Vars <- MCVars
    Env <- MCEnv
    Status <- MCStatus
    Slack = 1
    Short = 3
    Middle = 4
    Long = 5
    Quoted = 5
    Text <- MCText
INVARIANTS
    TextKept
    WordsCut
    OperatorsSeen
    TokensForParser
    ArgumentsMeant
    InBounds
    OutputRead
PROPERTIES
    Expanded
    ReadToEnd
\* Inputs end.
CHECK_DEADLOCK FALSE
