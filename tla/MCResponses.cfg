SPECIFICATION ResponsesSpec
CONSTANTS
    NBasic = 1
    NAmp = 0
    NExt = 1
    BasicCmds <- PlainTable
    AmpCmds <- NoCommands
    ExtCmds <- QueryTable
    ParamOffset <- MCParamOffset
    CmdlineSize <- MCCmdlineSize
    MaxCommandsPerLine = 1
    NumMax <- MCNumMax
    Asynchronous <- ReadX
    Alphabet <- QueryAlphabet
    SupportedSOnly = TRUE
    MaxTexts = 2
INVARIANTS
    ClientReadsBack
    ResultTextIsLast
