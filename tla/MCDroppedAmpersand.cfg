SPECIFICATION Spec
CONSTANTS
    NBasic = 0
    NAmp = 1
    NExt = 0
    BasicCmds <- NoCommands
    AmpCmds <- FactoryTable
    ExtCmds <- NoCommands
    ParamOffset <- MCParamOffset
    CmdlineSize <- MCCmdlineSize
    MaxCommandsPerLine = 1
    NumMax <- MCNumMax
    Asynchronous <- NoIds
    Alphabet <- FactoryAlphabet
    SupportedSOnly = TRUE
PROPERTIES
    NothingDropped
