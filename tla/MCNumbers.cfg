SPECIFICATION LiveSpec
CONSTANTS
    NBasic = 1
    NAmp = 1
    NExt = 1
    BasicCmds <- NumberTable
    AmpCmds <- NumberAmpTable
    ExtCmds <- NumberExtTable
    ParamOffset <- MCParamOffset
    CmdlineSize <- MCCmdlineSize
    MaxCommandsPerLine = 3
    NumMax <- MCNumMax
    Asynchronous <- NumberAsync
    Alphabet <- NumberAlphabet
    SupportedSOnly = TRUE
INVARIANTS
    WritesFit
    NumberFits
PROPERTIES
    CommittedStable
    LineAnswered
