\* Numbers at which exec_redir_builtin keeps its copies.
SPECIFICATION Spec
CONSTANTS
    NFd = 7
    Closed = Closed
    f = f
    d = d
    tty = tty
    script = script
    ChainLen = 1
    Path <- MCPath
    Locked <- MCLocked
    RedirNb <- MCHighNb
    Chain <- MCChain
    Inherited <- MCInherited
    Boot <- MCBoot
    Code <- MCCode
INVARIANT
    DescriptorsRestored
CHECK_DEADLOCK FALSE
