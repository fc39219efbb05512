\* A line that ends in a pipe or in a redirection.
SPECIFICATION Spec
CONSTANTS
    Token <- MCToken
    TypeOf <- MCTypeOf
    Eof = "eof"
    MaxTok = 5
    Var <- MCVar
    NameOf <- MCNameOf
    Unset = Unset
    Code <- MCCode
    Number <- MCNumber
INVARIANT
    SyntaxErrorStatus
CHECK_DEADLOCK FALSE
