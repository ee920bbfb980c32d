SPECIFICATION Spec
CONSTANTS
    NBasic = 1
    NAmp = 0
    NExt = 1
    BasicCmds <- PlainTable
    AmpCmds <- NoCommands
    ExtCmds <- AsyncTable
    ParamOffset <- MCParamOffset
    CmdlineSize <- MCCmdlineSize
    MaxCommandsPerLine = 1
    NumMax <- MCNumMax
    Asynchronous <- AsyncIds
    Alphabet <- AsyncAlphabet
    SupportedSOnly = TRUE
INVARIANTS
    ExecutesWholeCommands
    TypeOK
    WaitsForCommand
PROPERTIES
    ImplementsSession
