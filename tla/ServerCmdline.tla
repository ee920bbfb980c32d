---------------------------- MODULE ServerCmdline ----------------------------
(***************************************************************************)
(* The command-line buffer shared by the parser, which encodes commands    *)
(* into it, and by the executor, which decodes and runs them.  The         *)
(* operators below are the member functions of the class: each says what   *)
(* one call does to the variables declared here.                           *)
(***************************************************************************)
EXTENDS CommandTable

CONSTANT
    Asynchronous     \* ids of the commands whose handlers may return ASYNC

(* "OK" stands for every final result but ERROR that has a text.  Handlers *)
(* that return RESULT_CODE::CUSTOM, which has none, are left out.          *)
ResultCodes == {"OK", "ERROR", "ASYNC"}

ASSUME HandlerAssumption == Asynchronous \subseteq CmdIds

VARIABLES
    m_cmdline,         \* the buffer, Stale where this line wrote nothing
    m_parse_index,     \* where the parser writes next
    m_parse_ok_index,  \* end of the last complete command
    m_exec_index,      \* start of the command being executed
    m_last_result_code,
    m_error,           \* the line is answered with ERROR
    m_s3,              \* command line termination character
    m_param_index,     \* parameter (or basic command) being parsed
    m_num,             \* m_param_value_num / m_param_string_size /
                       \* m_param_hex_string.size, one union in the code
    m_nibble,          \* pending upper half of a hex byte (NoNibble if none)
    reply,             \* result code printed for the last execution
    fault              \* undefined behaviour reached; the model stops there

bufVars   == <<m_cmdline, m_parse_index, m_parse_ok_index>>
paramVars == <<m_param_index, m_num, m_nibble>>
execVars  == <<m_exec_index, m_last_result_code, m_error, m_s3, reply>>

(* The bytes an earlier line left are never meant to be read again.        *)
Stale    == 256
NoNibble == 16
NoReply  == "none"

(* overrun: an index or a write passes the end of m_cmdline. *)
Faults == {"none", "overrun"}

CmdlineTypeOK ==
    /\ m_cmdline \in [0 .. CmdlineSize - 1 -> Byte \cup {Stale}]
    /\ m_parse_index \in Nat
    /\ m_parse_ok_index \in Nat
    /\ m_exec_index \in Nat
    /\ m_last_result_code \in ResultCodes
    /\ m_error \in BOOLEAN
    /\ m_s3 \in Byte
    /\ m_param_index \in Nat
    /\ m_num \in Nat
    /\ m_nibble \in 0 .. NoNibble
    /\ reply \in ResultCodes \cup {NoReply}
    /\ fault \in Faults

CmdlineInit ==
    /\ m_cmdline = [i \in 0 .. CmdlineSize - 1 |-> Stale]
    /\ m_parse_index = 0
    /\ m_parse_ok_index = 0
    /\ m_exec_index = 0
    /\ m_last_result_code = "OK"
    /\ m_error = FALSE
    /\ m_s3 = CR
    /\ m_param_index = 0
    /\ m_num = 0
    /\ m_nibble = NoNibble
    /\ reply = NoReply
    /\ fault = "none"

-----------------------------------------------------------------------------
(* Encoding.  Available is std::size_t arithmetic, but a parse index past  *)
(* the end is a fault already, so the subtraction never wraps here.        *)
Available == CmdlineSize - m_parse_index

(* Mutant of ParameterOverflows: counts the two bytes of the id as free. *)
ParameterOverflowsLate(p) == Available + 2 < FieldSize(p)
ParameterOverflows(p) == Available < FieldSize(p)

(* Mutant of PutAt: the offset is taken from the start of the buffer. *)
PutAtStart(offset, bytes, advance) ==
    /\ m_cmdline' = [i \in 0 .. CmdlineSize - 1 |->
          IF i \in offset .. offset + Len(bytes) - 1 THEN bytes[i - offset + 1]
                                                     ELSE m_cmdline[i]]
    /\ m_parse_index' = m_parse_index + advance

(* Write bytes at an offset from the parse index, then move the index.     *)
PutAt(offset, bytes, advance) ==
    LET at == m_parse_index + offset
    IN  /\ m_cmdline' = [i \in 0 .. CmdlineSize - 1 |->
               IF i \in at .. at + Len(bytes) - 1 THEN bytes[i - at + 1]
                                                  ELSE m_cmdline[i]]
        /\ m_parse_index' = m_parse_index + advance

Put(bytes) == PutAt(0, bytes, Len(bytes))

(* Mutant of Commit: the index before the last write. *)
CommitEarly == m_parse_ok_index' = m_parse_index
Commit     == m_parse_ok_index' = m_parse_index'     \* finalizeBasicCmd
KeepCommit == UNCHANGED m_parse_ok_index

ResetCmdline ==
    /\ m_parse_ok_index' = 0
    /\ m_parse_index' = 0
    /\ m_cmdline' = [i \in 0 .. CmdlineSize - 1 |-> Stale]

(* Mutant of CommandFits: the check is left out. *)
CommandAlwaysFits == TRUE
CommandFits == Available >= 2
AddCmd(id)  == Put(IdBytes(id))

(* addNumericParameter_ shifts the accumulator down to 0 as it writes and  *)
(* does not look at the space left.                                        *)
AddNumericParameter(n) ==
    /\ Put(NumBytes(n))
    /\ m_num' = 0
    /\ m_param_index' = m_param_index + 1
    /\ UNCHANGED m_nibble

(* Mutant of FinalizeString: steps over the unused cells but not the NUL. *)
FinalizeStringShort(left) ==
    /\ PutAt(0, <<0>>, left - 1)
    /\ m_param_index' = m_param_index + 1
    /\ UNCHANGED <<m_num, m_nibble>>

(* The NUL, then over the unused rest of the field. *)
FinalizeString(left) ==
    /\ PutAt(0, <<0>>, left)
    /\ m_param_index' = m_param_index + 1
    /\ UNCHANGED <<m_num, m_nibble>>

(* Mutant of FinalizeHexString: writes how much is left for the size. *)
FinalizeHexStringLeft(left, full) ==
    /\ PutAt(left, IdBytes(left), left + 2)
    /\ m_param_index' = m_param_index + 1
    /\ UNCHANGED <<m_num, m_nibble>>

(* The size goes behind the unused rest of the field. *)
FinalizeHexString(left, full) ==
    /\ PutAt(left, IdBytes(full - left), left + 2)
    /\ m_param_index' = m_param_index + 1
    /\ UNCHANGED <<m_num, m_nibble>>

(* Mutant of AddDefaultString: the parameter index stays. *)
AddDefaultStringTwice(p) == PutAt(0, p.text \o <<0>>, p.size) /\ UNCHANGED paramVars
AddDefaultString(p) ==
    /\ PutAt(0, p.text \o <<0>>, p.size)
    /\ m_param_index' = m_param_index + 1
    /\ UNCHANGED <<m_num, m_nibble>>

(* The bytes and their size, but neither the rest of the field nor the     *)
(* parameter index: the same parameter comes next.                         *)
AddDefaultHexString(p) ==
    /\ Put(p.text \o IdBytes(Len(p.text)))
    /\ UNCHANGED paramVars

(* Mutant of AddDefault: nothing is written. *)
AddDefaultNothing(p) == UNCHANGED <<m_cmdline, m_parse_index, paramVars>>
AddDefault(p) == CASE p.type \in NumTypes -> AddNumericParameter(p.default)
                   [] p.type = "STR"      -> AddDefaultString(p)
                   [] p.type = "STR_HEX"  -> AddDefaultHexString(p)

-----------------------------------------------------------------------------
(* Execution. *)
CurrentCmdId == m_cmdline[m_exec_index] + 256 * m_cmdline[m_exec_index + 1]

IsSCmd(id) == id = BasicId(0)
IsTest(id) == \E c \in ExtIndices : id = ExtId(c, "TEST")

SParameter == m_cmdline[m_exec_index + 2]   \* bit 7: a write request

(* Mutant of SLength: a request always has its value byte. *)
SLengthFixed == 4
SLength == IF SParameter < 128 THEN 3 ELSE 4

(* Mutant of CmdLength: the parameters are not counted. *)
CmdLengthBare(id) == IF IsSCmd(id) THEN SLength ELSE 2

(* The bytes the current command occupies. *)
CmdLength(id) ==
    CASE IsSCmd(id)                       -> SLength
      [] id > BasicOffset                 -> IF BasicDef(id - BasicOffset).ranges = {}
                                             THEN 2 ELSE 6
      [] \E c \in ExtIndices : id = ExtId(c, "WRITE") -> WriteSize(id \div 4)
      [] OTHER                            -> 2

(* Mutant of IsLastCommand: the parameters are not counted. *)
IsLastCommandBare == m_parse_index = m_exec_index + 2

(* Mutant of IsLastCommand: the end of the command is compared, not met. *)
IsLastCommandWithin == m_parse_index >= m_exec_index + CmdLength(CurrentCmdId)

(* is_last_command, for the command about to be executed. *)
IsLastCommand == m_parse_index = m_exec_index + CmdLength(CurrentCmdId)

(* The executor is at a command the parser wrote and completed, and the    *)
(* tables have a method for it.  S and ampersand ids are decoded as such   *)
(* only if the server has a basic or an ampersand command: without one     *)
(* every id is looked up among the extended commands.                      *)
AtCommand ==
    /\ m_exec_index + 2 <= m_parse_ok_index
    /\ m_cmdline[m_exec_index] # Stale
    /\ m_cmdline[m_exec_index + 1] # Stale
    /\ CurrentCmdId \in CmdIds
    /\ CurrentCmdId >= BasicOffset => NBasic + NAmp > 0
    /\ \A c \in ExtIndices :
          /\ CurrentCmdId = ExtId(c, "READ")  => ExtCmds[c].read
          /\ CurrentCmdId = ExtId(c, "WRITE") => ExtCmds[c].write
    /\ IsSCmd(CurrentCmdId) => m_exec_index + 3 <= m_parse_ok_index
    /\ m_exec_index + CmdLength(CurrentCmdId) <= m_parse_ok_index
    /\ IsSCmd(CurrentCmdId) =>
          m_cmdline[m_exec_index + CmdLength(CurrentCmdId) - 1] # Stale

(* What the handler of a command may return. *)
MayReturn(id) == IF id \in Asynchronous THEN ResultCodes
                                        ELSE ResultCodes \ {"ASYNC"}

StartCmdExec(error) ==
    /\ m_exec_index' = 0
    /\ m_last_result_code' = "OK"
    /\ m_error' = error
    /\ reply' = NoReply
    /\ UNCHANGED m_s3
=============================================================================
