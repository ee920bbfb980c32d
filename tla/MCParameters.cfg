SPECIFICATION HandlesSpec
CONSTANTS
    NBasic = 1
    NAmp = 0
    NExt = 2
    BasicCmds <- AnswerTable
    AmpCmds <- NoCommands
    ExtCmds <- ParameterTable
    ParamOffset <- MCParamOffset
    CmdlineSize <- MCCmdlineSize
    MaxCommandsPerLine = 1
    NumMax <- MCNumMax
    Asynchronous <- MCWriteT
    Alphabet <- ParameterAlphabet
    SupportedSOnly = TRUE
INVARIANTS
    WritesFit
    FieldAligned
    ArgumentsAsTyped
    PrintedCanBeTyped
    WithinToldLimits
    LastCommandTold
PROPERTIES
    OptionalParametersMayBeOmitted
    EveryCallReturns
