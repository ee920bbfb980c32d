SPECIFICATION Spec
CONSTANTS
    NBasic = 2
    NAmp = 0
    NExt = 0
    BasicCmds <- TwoSizesTable
    AmpCmds <- NoCommands
    ExtCmds <- NoCommands
    ParamOffset <- MCParamOffset
    CmdlineSize <- MCCmdlineSize
    MaxCommandsPerLine = 1
    NumMax <- MCNumMax
    Asynchronous <- NoIds
    Alphabet <- TwoSizesAlphabet
    SupportedSOnly = TRUE
INVARIANTS
    WritesInside
CHECK_DEADLOCK FALSE
