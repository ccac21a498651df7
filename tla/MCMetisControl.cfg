CONSTANTS
    Commands <- MCCommands
    Chars <- MCChars
    Resolve <- MCResolve
    Atoi <- MCAtoi
    IsMac <- MCIsMac
    SendMayFail = TRUE
    KeystoreMayFail = TRUE
    OptionSets <- MCOptionSets
    MaxCommands = 2
    Null = Null

SPECIFICATION Spec

INVARIANT TypeOK
INVARIANT RequestsWellFormed

\* A trap or an assertion ends metis_control.
CHECK_DEADLOCK FALSE
