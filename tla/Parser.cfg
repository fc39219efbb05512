\* Every input of at most five tokens.
SPECIFICATION Spec
CONSTANTS
    Token <- MCToken
    TypeOf <- MCTypeOf
    Eof = "eof"
    MaxTok = 5
    Var <- MCVar
    NameOf <- MCNameOf
    Unset = Unset
INVARIANTS
    TreeIsReading
    OnlyMalformedDropped
    NullIsDeserved
    LastAssignmentWins
\* The shell stops at the first NULL.
CHECK_DEADLOCK FALSE
