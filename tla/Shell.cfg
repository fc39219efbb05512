\* Every input of at most five tokens.
SPECIFICATION FairSpec
CONSTANTS
    Token <- MCToken
    TypeOf <- MCTypeOf
    Eof = "eof"
    MaxTok = 5
    Var <- MCVar
    NameOf <- MCNameOf
    Unset = Unset
    Code <- MCCode
    Number <- MCNumber
INVARIANTS
    TypeOK
    FinalStatus
    DollarQuestion
    OperandsRunWhenDue
PROPERTIES
    ExitStops
    Ends
\* The shell ends.
CHECK_DEADLOCK FALSE
