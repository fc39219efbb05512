\* Texts of up to four pieces, with quotes, a $, a semicolon and an &&.
SPECIFICATION QSpec
CONSTANTS
    Letter <- MCLetter
    Alpha <- MCAlpha
    Numeric = {"digit"}
    Other <- Others
    Vars <- MCVars
    Env <- MCEnv
    Status <- MCStatus
    Slack = 1
    Short = 4
    Middle = 4
    Long = 4
    Quoted = 4
    Text <- MCPieces
INVARIANT
    TextAsDocumented
CHECK_DEADLOCK FALSE
