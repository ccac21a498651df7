CONSTANTS
    Commands <- EtherCommands
    Chars <- MCChars
    Resolve <- MCResolve
    Atoi <- MCAtoi
    IsMac <- MCIsMac
    SendMayFail = FALSE
    KeystoreMayFail = TRUE
    OptionSets <- MCOptionSets
    MaxCommands = 2
    Null = Null

SPECIFICATION Spec

INVARIANT NoAbortOnInput

CHECK_DEADLOCK FALSE
