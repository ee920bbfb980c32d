------------------------------- MODULE Server -------------------------------
(***************************************************************************)
(* The AT command server: a state machine fed one character at a time that *)
(* parses a command line into the buffer of ServerCmdline and then runs it *)
(* command by command.  Handlers of commands, the caller that feeds        *)
(* characters and the completions of asynchronous handlers are the         *)
(* environment.                                                            *)
(*                                                                         *)
(* A call of feed() or of an on...Update() is split into the steps in      *)
(* which it loops: the dispatch of the character to the state's handler,   *)
(* every further dispatch of the same character by a handler, every        *)
(* iteration of finalizeExtCmd and every iteration of continueCmdExec.     *)
(* Nothing interleaves with them; the split keeps each loop visible.       *)
(***************************************************************************)
EXTENDS ServerCmdline

CONSTANTS
    Alphabet,       \* the characters fed
    SupportedSOnly  \* the caller types only the S parameters S3 and S4

ASSUME AlphabetAssumption ==
    Alphabet \subseteq Char /\ SupportedSOnly \in BOOLEAN

VARIABLES
    m_state,  \* handler of the next character
    m_trie,   \* the part of an extended command name read so far
    pc,       \* "ret": in no loop; "fill", "exec": in finalizeExtCmd, in
              \* continueCmdExec
    redo,     \* dispatches of cur that handlers have still to make
    cur       \* the character being handled, while something is left to do

serverVars == <<m_state, m_trie, pc, redo, cur>>
vars == <<bufVars, paramVars, execVars, fault, serverVars>>

NumStart == [t \in NumTypes |-> CASE t = "NUM_DEC" -> "NumDecStart"
                                  [] t = "NUM_HEX" -> "NumHexStart"
                                  [] t = "NUM_BIN" -> "NumBinStart"]
NumState == [t \in NumTypes |-> CASE t = "NUM_DEC" -> "NumDec"
                                  [] t = "NUM_HEX" -> "NumHex"
                                  [] t = "NUM_BIN" -> "NumBin"]

NumStates   == {"NumDecStart", "NumHexStart", "NumBinStart",
                "NumDec", "NumHex", "NumBin"}
StartStates == {"NumDecStart", "NumHexStart", "NumBinStart",
                "StringStart", "HexStringStart"}
ParamStates == NumStates \cup StartStates \cup {"String", "HexString", "StringEnd"}
States == {"A", "T", "Body", "S", "SSet", "Ampersand", "BasicParameter",
           "Extended", "ExtendedEq", "ExtendedReadTest", "Error", "Executing"}
             \cup ParamStates

NoChar == -1

TypeOK ==
    /\ CmdlineTypeOK
    /\ m_state \in States
    /\ m_trie \in NamePrefixes
    /\ pc \in {"ret", "fill", "exec"}
    /\ redo \in Nat
    /\ cur \in Char \cup {NoChar}

Init ==
    /\ CmdlineInit
    /\ m_state = "A"
    /\ m_trie = <<>>
    /\ pc = "ret"
    /\ redo = 0
    /\ cur = NoChar

Idle == pc = "ret" /\ redo = 0 /\ fault = "none"

-----------------------------------------------------------------------------
(* How a handler ends.  left counts the dispatches of the character that   *)
(* its callers have still to make when it returns.                         *)
Keep == UNCHANGED <<bufVars, paramVars, m_trie>>

Goto(state, left) ==
    /\ m_state' = state
    /\ pc' = "ret"
    /\ redo' = left
    /\ UNCHANGED execVars

Stay(left) == Goto(m_state, left) /\ Keep
Fail(left) == Goto("Error", left) /\ Keep

Execute(error, left) ==
    /\ m_state' = "Executing"
    /\ pc' = "exec"
    /\ redo' = left
    /\ StartCmdExec(error)

(* Mutant of FailOn: the character that shows the error is not looked at. *)
FailSilently(c, left) == Fail(left)
(* stateError called with the character in hand. *)
FailOn(c, left) == IF c = m_s3 THEN Execute(TRUE, left) /\ Keep
                               ELSE Fail(left)

(* The loop of finalizeExtCmd starts. *)
Finalize(left) ==
    /\ pc' = "fill"
    /\ redo' = left
    /\ UNCHANGED <<m_state, m_trie, m_parse_ok_index, execVars>>

-----------------------------------------------------------------------------
(* Line prefix. *)
StateA(c, left) ==
    /\ m_state = "A"
    /\ Goto(IF c = 65 THEN "T" ELSE "A", left)
    /\ Keep

StateT(c, left) ==
    /\ m_state = "T"
    /\ \/ c = SPACE /\ Stay(left)
       \/ /\ c = 84
          /\ ResetCmdline
          /\ m_trie' = <<>>
          /\ Goto("Body", left)
          /\ UNCHANGED paramVars
       \/ c = SLASH /\ Execute(FALSE, left) /\ Keep
       \/ c \notin {SPACE, 84, SLASH} /\ Goto("A", left) /\ Keep

(* A basic or an ampersand command: its id and, unless it takes none, its  *)
(* number follow.  committed says whether finalizeBasicCmd is called for a *)
(* command without a number; entry is what m_basic_cmd_index gets.         *)
AddBasicCommand(def, index, entry, committed, left) ==
    /\ AddCmd(BasicId(index))
    /\ IF def.ranges = {}
       THEN /\ IF committed THEN Commit ELSE KeepCommit
            /\ Goto("Body", left)
            /\ UNCHANGED paramVars
       ELSE /\ KeepCommit
            /\ m_param_index' = entry
            /\ m_num' = 0
            /\ Goto("BasicParameter", left)
            /\ UNCHANGED m_nibble
    /\ UNCHANGED m_trie

BodyLetter(c, left) ==
    LET i == CmdIndex(BasicCmds, c)
    IN  IF c = 83
        THEN /\ m_num' = 0
             /\ Goto("S", left)
             /\ UNCHANGED <<bufVars, m_param_index, m_nibble, m_trie>>
        ELSE IF i = -1 \/ ~CommandFits
             THEN Fail(left)
             ELSE AddBasicCommand(BasicCmds[i], 1 + i, i, TRUE, left)

StateBody(c, left) ==
    /\ m_state = "Body"
    /\ \/ c = SPACE /\ Stay(left)
       \/ IsAlphabetic(c) /\ BodyLetter(c, left)
       \/ /\ c = AMP
          /\ Goto(IF NAmp > 0 THEN "Ampersand" ELSE "Error", left)
          /\ Keep
       \/ /\ c = PLUS
          /\ Goto(IF NExt > 0 THEN "Extended" ELSE "Error", left)
          /\ Keep
       \/ /\ c \notin {SPACE, AMP, PLUS} /\ ~IsAlphabetic(c)
          /\ IF c = m_s3 THEN Execute(FALSE, left) /\ Keep ELSE Fail(left)

-----------------------------------------------------------------------------
(* S parameters.  An unsupported number selects stateError, but only until *)
(* the same call selects the next state; its id is not written, its byte   *)
(* is.                                                                     *)
SRequest(c, left) ==
    LET supported == m_num \in {3, 4}
        id   == IF supported THEN IdBytes(BasicId(0)) ELSE <<>>
        byte == IF c = EQ THEN 128 + (m_num % 128) ELSE m_num % 256
    IN  CASE supported /\ ~CommandFits -> Fail(left)
          [] (supported => CommandFits) /\ Available < Len(id) + 1 ->
               /\ Put(id)
               /\ KeepCommit
               /\ Goto("Error", left)
               /\ UNCHANGED <<paramVars, m_trie>>
          [] Available >= Len(id) + 1 ->
               /\ Put(Append(id, byte))
               /\ m_num' = 0
               /\ IF c = EQ THEN KeepCommit /\ Goto("SSet", left)
                            ELSE Commit /\ Goto("Body", left)
               /\ UNCHANGED <<m_param_index, m_nibble, m_trie>>

NextDigit(next, left) ==
    /\ m_num' = next
    /\ Goto(m_state, left)
    /\ UNCHANGED <<bufVars, m_param_index, m_nibble, m_trie>>

StateS(c, left) ==
    /\ m_state = "S"
    /\ \/ c = SPACE /\ Stay(left)
       \/ c \in {EQ, QM} /\ SRequest(c, left)
       \/ /\ c \notin {SPACE, EQ, QM}
          /\ IF DecFits(m_num, c) THEN NextDigit(DecNext(m_num, c), left)
                                  ELSE FailOn(c, left)

StateSSet(c, left) ==
    /\ m_state = "SSet"
    /\ \/ c = SPACE /\ Stay(left)
       \/ /\ c # SPACE
          /\ DecFits(m_num, c)
          /\ NextDigit(DecNext(m_num, c), left)
       \/ /\ c # SPACE
          /\ ~DecFits(m_num, c)
          /\ IF m_num > 127 \/ Available = 0
             THEN Fail(left + 1)
             ELSE /\ Put(<<m_num>>)
                  /\ Commit
                  /\ Goto("Body", left + 1)
                  /\ UNCHANGED <<paramVars, m_trie>>

-----------------------------------------------------------------------------
(* Ampersand commands, and the number of a basic or an ampersand command.  *)
StateAmpersand(c, left) ==
    LET i == CmdIndex(AmpCmds, c)
        n == 1 + NBasic + i
    IN  /\ m_state = "Ampersand"
        /\ IF c = SPACE
           THEN Stay(left)
           ELSE IF i = -1 \/ ~CommandFits
                THEN Fail(left)
                ELSE AddBasicCommand(AmpCmds[i], n, n, FALSE, left)

BasicParameterDef ==
    IF m_param_index > NBasic THEN AmpCmds[m_param_index - 1 - NBasic]
                              ELSE BasicCmds[m_param_index]

(* The character that ends the number is handed to stateBody and then,     *)
(* once more, to whatever state that leaves.                               *)
StateBasicParameter(c, left) ==
    /\ m_state = "BasicParameter"
    /\ \/ c = SPACE /\ Stay(left)
       \/ /\ IsNumeric(c)
          /\ IF DecFits(m_num, c) THEN NextDigit(DecNext(m_num, c), left)
                                  ELSE Fail(left)
       \/ /\ c # SPACE /\ ~IsNumeric(c)
          /\ IF ValidateRanges(BasicParameterDef.ranges, m_num)
             THEN /\ AddNumericParameter(m_num)
                  /\ Commit
                  /\ Goto("Body", left + 2)
                  /\ UNCHANGED m_trie
             ELSE Fail(left + 1)

-----------------------------------------------------------------------------
(* Extended commands. *)
Command == CommandIndex(m_trie)
Cmd     == ExtCmds[Command]
CmdParam == Cmd.params[m_param_index]

AddReadTest(type, left) ==
    /\ AddCmd(ExtId(Command, type))
    /\ KeepCommit
    /\ Goto("ExtendedReadTest", left)
    /\ UNCHANGED <<paramVars, m_trie>>

(* "+NAME" alone: a write command with every parameter left out. *)
ExtendedEnd(c, left) ==
    CASE ~IsLeaf(m_trie)                               -> Fail(left)
      [] IsLeaf(m_trie) /\ ~Cmd.write                  -> FailOn(c, left)
      [] IsLeaf(m_trie) /\ Cmd.write /\ ~CommandFits   -> Fail(left)
      [] IsLeaf(m_trie) /\ Cmd.write /\ CommandFits    ->
           /\ AddCmd(ExtId(Command, "WRITE"))
           /\ m_param_index' = 0
           /\ Finalize(left)
           /\ UNCHANGED <<m_num, m_nibble>>

(* Mutant of TrieAccepts: every character of a name is taken. *)
TrieAcceptsAll(c) == TRUE
TrieAccepts(c) == Append(m_trie, c) \in NamePrefixes

StateExtended(c, left) ==
    /\ m_state = "Extended"
    /\ \/ c = SPACE /\ Stay(left)
       \/ c = EQ /\ Goto("ExtendedEq", left) /\ Keep
       \/ /\ c = QM
          /\ IF IsLeaf(m_trie) /\ Cmd.read /\ CommandFits
             THEN AddReadTest("READ", left)
             ELSE Fail(left)
       \/ /\ c \in {SEMI, m_s3} \ {SPACE, EQ, QM}
          /\ ExtendedEnd(c, left)
       \/ /\ c \notin {SPACE, EQ, QM, SEMI, m_s3}
          /\ IF TrieAccepts(c)
             THEN /\ m_trie' = Append(m_trie, c)
                  /\ Goto("Extended", left)
                  /\ UNCHANGED <<bufVars, paramVars>>
             ELSE Fail(left)

(* setupParameterParser, after the parse index and the parameter index     *)
(* have moved.                                                             *)
ParameterState(index, available) ==
    IF index >= Cmd.count \/ available < FieldSize(Cmd.params[index])
    THEN "Error"
    ELSE LET t == Cmd.params[index].type
         IN  CASE t \in NumTypes  -> NumStart[t]
               [] t = "STR"       -> "StringStart"
               [] t = "STR_HEX"   -> "HexStringStart"

SetupParameterParser(left) ==
    Goto(ParameterState(m_param_index', CmdlineSize - m_parse_index'), left)

StateExtendedEq(c, left) ==
    /\ m_state = "ExtendedEq"
    /\ \/ c = SPACE /\ Stay(left)
       \/ /\ c = QM
          /\ IF IsLeaf(m_trie) /\ CommandFits THEN AddReadTest("TEST", left)
                                              ELSE Fail(left)
       \/ /\ c \notin {SPACE, QM}
          /\ IF IsLeaf(m_trie) /\ Cmd.write /\ CommandFits
             THEN /\ AddCmd(ExtId(Command, "WRITE"))
                  /\ KeepCommit
                  /\ m_param_index' = 0
                  /\ SetupParameterParser(left + 1)
                  /\ UNCHANGED <<m_num, m_nibble, m_trie>>
             ELSE Fail(left)

(* The command is complete: back to the body, or run the line. *)
NextCommand(left) == m_trie' = <<>> /\ Goto("Body", left)

StateExtendedReadTest(c, left) ==
    /\ m_state = "ExtendedReadTest"
    /\ \/ c = SPACE /\ Stay(left)
       \/ /\ c \in {SEMI, m_s3} \ {SPACE}
          /\ UNCHANGED <<m_cmdline, m_parse_index, paramVars>>
          /\ Commit
          /\ IF c = m_s3 THEN Execute(FALSE, left) /\ UNCHANGED m_trie
                         ELSE NextCommand(left)
       \/ c \notin {SPACE, SEMI, m_s3} /\ Fail(left)

-----------------------------------------------------------------------------
(* Parameters of an extended command. *)
EndsParameter(c) == c \in {COMMA, SEMI, m_s3}

(* processDefaultParameter: nothing, or only spaces, where a value was     *)
(* expected.                                                               *)
ProcessDefaultParameter(c, left) ==
    \/ c = SPACE /\ Stay(left)
    \/ /\ c = COMMA
       /\ IF m_param_index + 1 # Cmd.count /\ CmdParam.optional
          THEN /\ AddDefault(CmdParam)
               /\ SetupParameterParser(left)
               /\ UNCHANGED <<m_parse_ok_index, m_trie>>
          ELSE Fail(left)
    \/ /\ c \in {SEMI, m_s3} \ {SPACE, COMMA}
       /\ Finalize(left)
       /\ UNCHANGED <<m_cmdline, m_parse_index, paramVars>>

DigitFits(type, n, c) == CASE type = "NUM_DEC" -> DecFits(n, c)
                           [] type = "NUM_HEX" -> HexFits(n, c)
                           [] type = "NUM_BIN" -> BinFits(n, c)
DigitNext(type, n, c) == CASE type = "NUM_DEC" -> DecNext(n, c)
                           [] type = "NUM_HEX" -> HexNext(n, c)
                           [] type = "NUM_BIN" -> BinNext(n, c)

ProcessDigit(type, n, c, left) ==
    IF DigitFits(type, n, c)
    THEN /\ m_num' = DigitNext(type, n, c)
         /\ Goto(NumState[type], left)
         /\ UNCHANGED <<bufVars, m_param_index, m_nibble, m_trie>>
    ELSE Fail(left)

(* processNumericParameterEnd_. *)
NumericParameterEnd(c, left) ==
    LET valid == ValidateRanges(CmdParam.ranges, m_num)
    IN  \/ /\ c = COMMA
           /\ IF m_param_index + 1 # Cmd.count /\ valid
              THEN /\ AddNumericParameter(m_num)
                   /\ SetupParameterParser(left)
                   /\ UNCHANGED <<m_parse_ok_index, m_trie>>
              ELSE Fail(left)
        \/ /\ c \in {SEMI, m_s3} \ {COMMA}
           /\ IF valid
              THEN AddNumericParameter(m_num) /\ Finalize(left)
              ELSE IF c = SEMI THEN Fail(left) ELSE Execute(TRUE, left) /\ Keep

StateNumStart(type, c, left) ==
    /\ m_state = NumStart[type]
    /\ IF c = SPACE \/ EndsParameter(c)
       THEN ProcessDefaultParameter(c, left)
       ELSE ProcessDigit(type, 0, c, left)

StateNum(type, c, left) ==
    /\ m_state = NumState[type]
    /\ IF EndsParameter(c) THEN NumericParameterEnd(c, left)
                           ELSE ProcessDigit(type, m_num, c, left)

(* Mutant of OpenString: one cell too many. *)
OpenStringWide(state, left) ==
    /\ m_num' = CmdParam.size + 1
    /\ m_nibble' = NoNibble
    /\ Goto(state, left)
    /\ UNCHANGED <<bufVars, m_param_index, m_trie>>

OpenString(state, left) ==
    /\ m_num' = CmdParam.size
    /\ m_nibble' = NoNibble
    /\ Goto(state, left)
    /\ UNCHANGED <<bufVars, m_param_index, m_trie>>

StateQuote(start, state, c, left) ==
    /\ m_state = start
    /\ IF c = SPACE \/ EndsParameter(c)
       THEN ProcessDefaultParameter(c, left)
       ELSE IF c = DQUOTE THEN OpenString(state, left) ELSE Fail(left)

StateStringStart(c, left)    == StateQuote("StringStart", "String", c, left)
StateHexStringStart(c, left) == StateQuote("HexStringStart", "HexString", c, left)

(* One character of the quoted text; the last cell is kept for the NUL. *)
StateString(c, left) ==
    /\ m_state = "String"
    /\ \/ /\ c = DQUOTE
          /\ FinalizeString(m_num)
          /\ Goto("StringEnd", left)
          /\ UNCHANGED <<m_parse_ok_index, m_trie>>
       \/ /\ c # DQUOTE
          /\ IF m_num = 1
             THEN Fail(left)
             ELSE /\ Put(<<c>>)
                  /\ m_num' = m_num - 1
                  /\ Goto("String", left)
                  /\ UNCHANGED <<m_parse_ok_index, m_param_index, m_nibble, m_trie>>

HexDigit(c, left) ==
    CASE GetHex(c) = -1 -> FailOn(c, left)
      [] GetHex(c) # -1 /\ m_nibble = NoNibble ->
           IF m_num = 0
           THEN Fail(left)
           ELSE /\ m_nibble' = GetHex(c)
                /\ Goto("HexString", left)
                /\ UNCHANGED <<bufVars, m_param_index, m_num, m_trie>>
      [] GetHex(c) # -1 /\ m_nibble # NoNibble ->
           /\ Put(<<16 * m_nibble + GetHex(c)>>)
           /\ m_num' = m_num - 1
           /\ m_nibble' = NoNibble
           /\ Goto("HexString", left)
           /\ UNCHANGED <<m_parse_ok_index, m_param_index, m_trie>>

StateHexString(c, left) ==
    /\ m_state = "HexString"
    /\ \/ c \in {SPACE, DASH} /\ Stay(left)
       \/ /\ c = DQUOTE
          /\ IF m_nibble # NoNibble
             THEN Fail(left)
             ELSE /\ FinalizeHexString(m_num, CmdParam.size)
                  /\ Goto("StringEnd", left)
                  /\ UNCHANGED <<m_parse_ok_index, m_trie>>
       \/ c \notin {SPACE, DASH, DQUOTE} /\ HexDigit(c, left)

StateStringEnd(c, left) ==
    /\ m_state = "StringEnd"
    /\ \/ /\ c = COMMA
          /\ UNCHANGED <<bufVars, paramVars, m_trie>>
          /\ SetupParameterParser(left)
       \/ /\ c \in {SEMI, m_s3} \ {COMMA}
          /\ Finalize(left)
          /\ UNCHANGED <<m_cmdline, m_parse_index, paramVars>>
       \/ ~EndsParameter(c) /\ Fail(left)

-----------------------------------------------------------------------------
(* The rest of a bad line, and characters that arrive while a line runs.   *)
StateError(c, left)     == m_state = "Error" /\ FailOn(c, left)
StateExecuting(c, left) == m_state = "Executing" /\ Stay(left)

Dispatch(c, left) ==
    /\ \/ StateA(c, left) \/ StateT(c, left) \/ StateBody(c, left)
       \/ StateS(c, left) \/ StateSSet(c, left)
       \/ StateAmpersand(c, left) \/ StateBasicParameter(c, left)
       \/ StateExtended(c, left) \/ StateExtendedEq(c, left)
       \/ StateExtendedReadTest(c, left)
       \/ \E t \in NumTypes : StateNumStart(t, c, left) \/ StateNum(t, c, left)
       \/ StateStringStart(c, left) \/ StateString(c, left)
       \/ StateHexStringStart(c, left) \/ StateHexString(c, left)
       \/ StateStringEnd(c, left)
       \/ StateError(c, left) \/ StateExecuting(c, left)
    /\ cur' = IF pc' = "fill" \/ redo' > 0 THEN c ELSE NoChar
    /\ fault' = IF m_parse_index' > CmdlineSize THEN "overrun" ELSE fault

(* The caller's discipline, when it keeps one. *)
Typed(c) == SupportedSOnly /\ m_state = "S" /\ c \in {EQ, QM} => m_num \in {3, 4}

(* feed(): letters are folded to upper case, except inside a string. *)
Feed(c) ==
    /\ Idle
    /\ Typed(c)
    /\ Dispatch(IF m_state = "String" THEN c ELSE ToUpper(c), 0)

Redispatch ==
    /\ pc = "ret" /\ redo > 0 /\ fault = "none"
    /\ Dispatch(cur, redo - 1)

(* One iteration of finalizeExtCmd, and what its caller does with the      *)
(* result.  stateExtended looks for the terminator first, the others for   *)
(* the semicolon; only the others answer a failed line at once.            *)
FinalizeExtCmd ==
    /\ pc = "fill" /\ fault = "none"
    /\ \/ /\ m_param_index = Cmd.count
          /\ UNCHANGED <<m_cmdline, m_parse_index, paramVars>>
          /\ Commit
          /\ IF cur = m_s3 /\ (m_state = "Extended" \/ cur # SEMI)
             THEN Execute(FALSE, redo) /\ UNCHANGED m_trie
             ELSE NextCommand(redo)
       \/ /\ m_param_index # Cmd.count
          /\ ~CmdParam.optional \/ ParameterOverflows(CmdParam)
          /\ IF m_state = "Extended" \/ cur = SEMI
             THEN Fail(redo)
             ELSE Execute(TRUE, redo) /\ Keep
       \/ /\ m_param_index # Cmd.count
          /\ CmdParam.optional /\ ~ParameterOverflows(CmdParam)
          /\ AddDefault(CmdParam)
          /\ Finalize(redo)
    /\ cur' = IF pc' = "fill" \/ redo' > 0 THEN cur ELSE NoChar
    /\ UNCHANGED fault

-----------------------------------------------------------------------------
(* The executor. *)
ParserVars == <<bufVars, paramVars, m_trie, redo, cur, fault>>

(* Mutant of Answer: the server does not leave stateExecuting. *)
AnswerInPlace(code) ==
    /\ reply' = code
    /\ m_last_result_code' = code
    /\ pc' = "ret"
    /\ UNCHANGED m_state

(* The line is answered; the server waits for the next one. *)
Answer(code) ==
    /\ reply' = code
    /\ m_last_result_code' = code
    /\ m_state' = "A"
    /\ pc' = "ret"

(* What the loop does with the result of the command that ends at next. *)
HandleResult(code, next) ==
    \/ /\ code = "ASYNC"
       /\ m_last_result_code' = code
       /\ pc' = "ret"
       /\ UNCHANGED <<m_exec_index, m_error, m_state, reply>>
    \/ /\ code = "ERROR"
       /\ m_exec_index' = next
       /\ m_error' = TRUE
       /\ Answer(code)
    \/ /\ code \notin {"ASYNC", "ERROR"}
       /\ m_exec_index' = next
       /\ m_last_result_code' = code
       /\ UNCHANGED <<m_error, m_state, pc, reply>>

(* One iteration of continueCmdExec.  With neither basic, ampersand nor    *)
(* extended commands the body of the loop is empty: there is no step that  *)
(* leaves it.  Nor is there one where the bytes are no command (AtCommand  *)
(* fails): what the code does then is undefined, and the model stops.      *)
ExecCommand ==
    LET id   == CurrentCmdId
        next == m_exec_index + CmdLength(id)
    IN  /\ pc = "exec" /\ fault = "none"
        /\ m_exec_index # m_parse_ok_index
        /\ AtCommand
        /\ \/ /\ IsSCmd(id)
              /\ m_s3' = IF SParameter = 131 THEN m_cmdline[m_exec_index + 3] ELSE m_s3
              /\ HandleResult("OK", next)
           \/ IsTest(id) /\ HandleResult("OK", next) /\ UNCHANGED m_s3
           \/ /\ ~IsSCmd(id) /\ ~IsTest(id)
              /\ \E code \in MayReturn(id) : HandleResult(code, next)
              /\ UNCHANGED m_s3
        /\ UNCHANGED ParserVars

(* Mutant of FinalCode: the error of the line is forgotten. *)
LastCode == m_last_result_code
FinalCode == IF m_error THEN "ERROR" ELSE m_last_result_code

ExecEnd ==
    /\ pc = "exec" /\ fault = "none"
    /\ m_exec_index = m_parse_ok_index
    /\ Answer(FinalCode)
    /\ UNCHANGED <<m_exec_index, m_error, m_s3, ParserVars>>

(* feed() of any character while a line runs, with permission to abort it: *)
(* the handler is called once more and its result is the answer, unless it *)
(* cannot be aborted.                                                      *)
Abort ==
    /\ Idle
    /\ m_state = "Executing"
    /\ \E code \in MayReturn(CurrentCmdId) :
          IF code = "ASYNC"
          THEN /\ m_last_result_code' = code
               /\ UNCHANGED <<m_state, pc, reply>>
          ELSE Answer(code)
    /\ UNCHANGED <<m_exec_index, m_error, m_s3, ParserVars>>

(* Mutant of Update: ids computed without the place of the S parameter. *)
UpdateWithoutS(id) ==
    /\ Idle
    /\ m_state = "Executing"
    /\ id - 1 = CurrentCmdId
    /\ pc' = "exec"
    /\ UNCHANGED <<execVars, m_state, ParserVars>>

(* on...Update() for command id: resumes the line if it waits for that     *)
(* command, and is ignored otherwise.                                      *)
Update(id) ==
    /\ Idle
    /\ m_state = "Executing"
    /\ id = CurrentCmdId
    /\ pc' = "exec"
    /\ UNCHANGED <<execVars, m_state, ParserVars>>

-----------------------------------------------------------------------------
Environment == \/ \E c \in Alphabet : Feed(c)
               \/ Abort
               \/ \E id \in Asynchronous : Update(id)

Internal == Redispatch \/ FinalizeExtCmd \/ ExecCommand \/ ExecEnd

Next == Environment \/ Internal

Spec == Init /\ [][Next]_vars

(* feed() and on...Update() run to completion once called. *)
CallsReturn == WF_vars(Internal)
FairSpec == Spec /\ CallsReturn
-----------------------------------------------------------------------------
(* Safety. *)

(* No write passes the end of the buffer. *)
WritesInside == fault # "overrun"

(* Each state that writes without looking at the space left (the number of *)
(* a basic command, the fields of an extended one) is entered only with    *)
(* the space it can use up, and so no write passes the end of the buffer.  *)
SpaceReserved ==
    /\ m_state \in NumStates \cup {"BasicParameter"} => Available >= 4
    /\ m_state \in {"StringStart", "HexStringStart"} =>
          Available >= FieldSize(CmdParam)
    /\ m_state = "String" => m_num > 0 /\ Available >= m_num
    /\ m_state = "HexString" =>
          /\ Available >= m_num + 2
          /\ m_nibble # NoNibble => m_num > 0
WritesFit ==
    /\ WritesInside
    /\ fault = "none" => m_parse_index <= CmdlineSize
    /\ fault = "none" /\ pc = "ret" => SpaceReserved

(* The accumulator has 32 bits: a digit that would carry a number past     *)
(* them is refused, in every base and wherever a number is typed, so what  *)
(* is compared with the ranges and written is the number that was typed.   *)
NumberFits ==
    m_state \in {"S", "SSet", "BasicParameter", "NumDec", "NumHex", "NumBin"} =>
        m_num \in Value

(* Parser and executor agree on the layout: while parameter k of a command *)
(* is read, the parse index is where the handler will look for it.         *)
FieldStart == m_parse_ok_index + ParamOffset[Command][m_param_index]
FieldAligned ==
    fault = "none" =>
      IF m_state \in {"String", "HexString"}
      THEN m_parse_index = FieldStart + CmdParam.size - m_num
      ELSE m_state \in ParamStates \/ pc = "fill" => m_parse_index = FieldStart

(* The executor decodes nothing but the commands the parser completed, one *)
(* after the other, and never runs past the last of them.                  *)
ExecutesWholeCommands ==
    pc = "exec" /\ fault = "none" /\ NBasic + NAmp + NExt > 0
      => m_exec_index = m_parse_ok_index \/ AtCommand

(* A line that is suspended waits for a command that may be asynchronous   *)
(* and has not been passed: its completion will find it.                   *)
WaitsForCommand ==
    Idle /\ m_state = "Executing" =>
      /\ m_last_result_code = "ASYNC"
      /\ m_exec_index < m_parse_ok_index
      /\ CurrentCmdId \in Asynchronous

-----------------------------------------------------------------------------
(* Action properties. *)

Entry == States \ {"A", "T", "Executing"}
Submitted == m_state \in Entry /\ m_state' = "Executing"

(* A line run without an error is run in full: every command typed on it   *)
(* is part of what the executor walks through.                             *)
NothingDropped ==
    [][Submitted /\ ~m_error' => m_parse_ok_index' = m_parse_index']_vars

(* Parsing a command never touches the commands completed before it.       *)
CommittedStable ==
    [][m_state # "T" =>
         /\ m_parse_ok_index' >= m_parse_ok_index
         /\ \A i \in 0 .. m_parse_ok_index - 1 : m_cmdline'[i] = m_cmdline[i]]_vars

(* The first command of a line has the whole buffer, so if all its         *)
(* parameters are optional any number of them can be left out at its end.  *)
OptionalParametersMayBeOmitted ==
    [][pc = "fill" /\ m_parse_ok_index = 0 /\ (\A k \in Params(Command) :
            ExtCmds[Command].params[k].optional)
         => m_state' # "Error" /\ (m_state' = "Executing" => ~m_error')]_vars

(* Outside a string the terminator ends the line, whatever is wrong with   *)
(* it: when the call that fed it returns, the line is answered or running. *)
(* S3 may be set to a character with another meaning; that one is not a    *)
(* terminator everywhere.                                                  *)
Syntax(c) == \/ IsAlphabetic(c) \/ IsNumeric(c)
             \/ c \in {SPACE, DQUOTE, AMP, PLUS, COMMA, DASH, SLASH, SEMI, EQ, QM}
TerminatorHandled ==
    /\ \/ m_state \in Entry \ {"String"} /\ Feed(m_s3)
       \/ (Redispatch \/ FinalizeExtCmd) /\ cur = m_s3
    /\ pc' = "ret" /\ redo' = 0 /\ fault' = "none"
    /\ ~Syntax(m_s3)
TerminatorAnswered ==
    [][TerminatorHandled => m_state' \in {"A", "Executing"}]_vars

(* The server implements the line protocol. *)
SessionPhase ==
    CASE pc = "exec"                                        -> "run"
      [] pc # "exec" /\ m_state = "Executing"               -> "wait"
      [] pc # "exec" /\ m_state \in {"A", "T"}              -> "idle"
      [] pc # "exec" /\ m_state \notin {"A", "T", "Executing"} -> "entry"
SessionFailed == m_state = "Error" \/ (m_state = "Executing" /\ m_error)
Session == INSTANCE LineSession WITH
    Results <- ResultCodes \ {"ASYNC"},
    Error   <- "ERROR",
    NoReply <- NoReply,
    phase   <- SessionPhase,
    failed  <- SessionFailed,
    reply   <- reply
ImplementsSession == Session!SessionSpec

-----------------------------------------------------------------------------
(* Liveness. *)

(* feed() and on...Update() return: the loops in them end. *)
EveryCallReturns == ~Idle ~> (Idle \/ fault # "none")

(* Handlers that went asynchronous are completed, and not forever with     *)
(* ASYNC again.                                                            *)
HandlersComplete ==
    /\ \A id \in Asynchronous : WF_vars(Update(id))
    /\ SF_vars(ExecCommand /\ m_last_result_code' # "ASYNC")
LiveSpec == FairSpec /\ HandlersComplete

(* A line that runs is answered. *)
LineAnswered == m_state = "Executing" ~> m_state = "A"
=============================================================================
