CONSTANTS
    Commands <- MCCommands
    Chars <- MCChars
    Resolve <- MCResolve
    Atoi <- MCAtoi
    IsMac <- MCIsMac
    SendMayFail = FALSE
    KeystoreMayFail = TRUE
    OptionSets <- MCOptionSets
    MaxCommands = 2
    Null = Null

SPECIFICATION Spec

PROPERTY DocumentedCommandsAccepted

CHECK_DEADLOCK FALSE
