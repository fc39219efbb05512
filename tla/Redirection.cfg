\* Numbers 0 to 2 or none before < and >, at most two redirections.
SPECIFICATION Spec
CONSTANTS
    NFd = 7
    Closed = Closed
    f = f
    d = d
    tty = tty
    script = script
    ChainLen = 2
    Path <- MCPath
    Locked <- MCLocked
    RedirNb <- MCStdNb
    Chain <- MCChain
    Inherited <- MCInherited
    Boot <- MCBoot
    Code <- MCCode
INVARIANTS
    DescriptorsRestored
    RedirectionsInForce
    RefusedStops
    ExitTakesEffect
\* After exit the shell reads nothing more.
CHECK_DEADLOCK FALSE
