SPECIFICATION Spec
CONSTANTS
    NBasic = 1
    NAmp = 0
    NExt = 0
    BasicCmds <- PlainTable
    AmpCmds <- NoCommands
    ExtCmds <- NoCommands
    ParamOffset <- MCParamOffset
    CmdlineSize <- MCCmdlineSize
    MaxCommandsPerLine = 1
    NumMax <- MCNumMax
    Asynchronous <- PlainAsync
    Alphabet <- PlainAlphabet
    SupportedSOnly = TRUE
INVARIANTS
    ExecutesWholeCommands
PROPERTIES
    TerminatorAnswered
    NothingDropped
