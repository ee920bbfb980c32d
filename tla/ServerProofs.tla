---------------------------- MODULE ServerProofs ----------------------------
(***************************************************************************)
(* Proofs about the server for every command table, buffer and alphabet.   *)
(*                                                                         *)
(* Typing is not inductive by itself.  What keeps the counters natural and *)
(* the looked-up parameters inside their tables is the parser's position:  *)
(* in a parameter state a writable command and one of its parameters are   *)
(* in hand (ParameterInHand), a quoted text still has room for what it is  *)
(* about to take (RoomInField), and the committed end of the line is at or *)
(* below the parse index, which is inside the buffer (IndicesOrdered).     *)
(* A line that waits keeps what it waits for (Suspended).                  *)
(*                                                                         *)
(* Numbers: the overflow tests refuse exactly the digits that would carry  *)
(* the accumulator past its width, so it never wraps (NumbersFit).         *)
(***************************************************************************)
EXTENDS Server, FiniteSetTheorems, TLAPS

(* finalizeExtCmd is never called inside quotes. *)
FillStates == (ParamStates \cup {"Extended"}) \ {"String", "HexString"}

ControlOK ==
    /\ pc = "exec" => m_state = "Executing"
    /\ pc = "fill" => m_state \in FillStates
    /\ pc = "fill" \/ redo > 0 => cur \in Char

(* The command and the parameter a parameter state is about. *)
ParameterInHand ==
    /\ m_state \in ParamStates \/ pc = "fill" =>
          IsLeaf(m_trie) /\ Cmd.write /\ m_param_index <= Cmd.count
    /\ pc = "ret" /\ m_state \in ParamStates \ {"StringEnd"} =>
          m_param_index < Cmd.count
    /\ pc = "ret" /\ m_state \in NumStates => CmdParam.type \in NumTypes
    /\ pc = "ret" /\ m_state \in {"StringStart", "String"} => CmdParam.type = "STR"
    /\ pc = "ret" /\ m_state \in {"HexStringStart", "HexString"} =>
          CmdParam.type = "STR_HEX"

RoomInField ==
    /\ m_state = "String" => m_num > 0
    /\ m_state = "HexString" =>
          m_num <= CmdParam.size /\ (m_nibble # NoNibble => m_num > 0)

IndicesOrdered ==
    /\ m_parse_ok_index <= m_parse_index
    /\ fault = "none" => m_parse_index <= CmdlineSize

Suspended ==
    m_state = "Executing" /\ pc = "ret" =>
      /\ m_last_result_code = "ASYNC"
      /\ m_exec_index < m_parse_ok_index
      /\ CurrentCmdId \in Asynchronous

IInv == /\ TypeOK /\ ControlOK /\ ParameterInHand /\ RoomInField /\ IndicesOrdered
        /\ Suspended

(* The committed part of the line only grows, and what is in it stays. *)
Grows ==
    /\ m_parse_ok_index' >= m_parse_ok_index
    /\ \A i \in 0 .. m_parse_ok_index - 1 : m_cmdline'[i] = m_cmdline[i]

(* What a suspended line waits with. *)
lineVars == <<m_cmdline, m_parse_ok_index, m_exec_index, m_last_result_code>>

(* What one handler establishes, apart from the bookkeeping of Dispatch. *)
BufferPost ==
    /\ m_cmdline' \in [0 .. CmdlineSize - 1 -> Byte \cup {Stale}]
    /\ m_parse_index' \in Nat
    /\ m_parse_ok_index' \in Nat
    /\ m_parse_ok_index' <= m_parse_index'
    /\ m_state = "T" \/ Grows
ParamPost ==
    /\ m_param_index' \in Nat
    /\ m_num' \in Nat
    /\ m_nibble' \in 0 .. NoNibble
    /\ ParameterInHand'
    /\ RoomInField'
ExecPost ==
    /\ m_exec_index' \in Nat
    /\ m_last_result_code' \in ResultCodes
    /\ m_error' \in BOOLEAN
    /\ m_s3' \in Byte
    /\ reply' \in ResultCodes \cup {NoReply}
ControlPost ==
    /\ m_state' \in States
    /\ m_trie' \in NamePrefixes
    /\ pc' \in {"ret", "fill", "exec"}
    /\ redo' \in Nat
    /\ pc' = "exec" => m_state' = "Executing"
    /\ pc' = "fill" => m_state' \in FillStates
    /\ m_state' = "Executing" /\ pc' = "ret" =>
          m_state = "Executing" /\ UNCHANGED lineVars
HandlerPost == BufferPost /\ ParamPost /\ ExecPost /\ ControlPost

(* Where a step starts. *)
Ready == IInv /\ fault = "none"
-----------------------------------------------------------------------------
(* Operators.                                                              *)

(* A written byte is a byte, and writing leaves what lies below the parse  *)
(* index alone. *)
LEMMA PutAtLemma ==
    ASSUME TypeOK, IndicesOrdered, fault = "none",
           NEW bytes \in Seq(Byte), NEW offset \in Nat, NEW advance \in Nat,
           PutAt(offset, bytes, advance)
    PROVE  /\ m_cmdline' \in [0 .. CmdlineSize - 1 -> Byte \cup {Stale}]
           /\ m_parse_index' = m_parse_index + advance
           /\ \A i \in 0 .. m_parse_ok_index - 1 : m_cmdline'[i] = m_cmdline[i]
<1> DEFINE at == m_parse_index + offset
           write == [i \in 0 .. CmdlineSize - 1 |->
                       IF i \in at .. at + Len(bytes) - 1 THEN bytes[i - at + 1]
                                                          ELSE m_cmdline[i]]
<1>1. m_parse_index \in Nat /\ m_parse_ok_index \in Nat /\ at \in Nat
      /\ CmdlineSize \in Nat /\ Len(bytes) \in Nat
  BY CmdlineSizeAssumption DEF TypeOK, CmdlineTypeOK
<1>2. m_cmdline' = write /\ m_parse_index' = m_parse_index + advance
  BY DEF PutAt
<1>3. ASSUME NEW i \in 0 .. CmdlineSize - 1
      PROVE  write[i] \in Byte \cup {Stale}
  <2>1. CASE i \in at .. at + Len(bytes) - 1
    <3>1. i - at + 1 \in 1 .. Len(bytes)
      BY <1>1, <2>1
    <3>2. bytes[i - at + 1] \in Byte
      BY <3>1
    <3> QED BY <2>1, <3>2
  <2>2. CASE i \notin at .. at + Len(bytes) - 1
    BY <2>2 DEF TypeOK, CmdlineTypeOK
  <2> QED BY <2>1, <2>2
<1>4. ASSUME NEW i \in 0 .. m_parse_ok_index - 1
      PROVE  write[i] = m_cmdline[i]
  <2>1. i \in 0 .. CmdlineSize - 1 /\ i < at
    BY <1>1 DEF IndicesOrdered
  <2> QED BY <1>1, <2>1
<1> QED BY <1>2, <1>3, <1>4

LEMMA ConcatLemma ==
    ASSUME NEW s \in Seq(Byte), NEW t \in Seq(Byte)
    PROVE  s \o t \in Seq(Byte) /\ Len(s \o t) = Len(s) + Len(t)
OBVIOUS

LEMMA IdBytesLemma ==
    ASSUME NEW id \in Nat, id < 65536
    PROVE  IdBytes(id) \in Seq(Byte) /\ Len(IdBytes(id)) = 2
<1>1. id % 256 \in Byte /\ id \div 256 \in Byte
  BY DEF Byte
<1> QED BY <1>1 DEF IdBytes

LEMMA NumBytesLemma ==
    ASSUME NEW n \in Nat
    PROVE  NumBytes(n) \in Seq(Byte) /\ Len(NumBytes(n)) = 4
<1>1. n % 256 \in Byte /\ (n \div 256) % 256 \in Byte
      /\ (n \div 65536) % 256 \in Byte /\ (n \div 16777216) % 256 \in Byte
  BY DEF Byte
<1> QED BY <1>1 DEF NumBytes

(* Ids are 16-bit values. *)
LEMMA IdsLemma ==
    /\ \A c \in ExtIndices, t \in CmdTypes : ExtId(c, t) \in Nat /\ ExtId(c, t) < 65536
    /\ \A i \in 0 .. NBasic + NAmp : BasicId(i) \in Nat /\ BasicId(i) < 65536
<1>1. ASSUME NEW c \in ExtIndices, NEW t \in CmdTypes
      PROVE  ExtId(c, t) \in Nat /\ ExtId(c, t) < 65536
  <2>1. c \in Nat /\ c + 1 <= NExt /\ NExt \in Nat /\ 4 * NExt < 65536
    BY SizesAssumption DEF ExtIndices
  <2>2. CmdTypeCode[t] \in 0 .. 2
    BY DEF CmdTypes, CmdTypeCode
  <2> QED BY <2>1, <2>2 DEF ExtId
<1>2. ASSUME NEW i \in 0 .. NBasic + NAmp
      PROVE  BasicId(i) \in Nat /\ BasicId(i) < 65536
  BY SizesAssumption DEF BasicId, BasicOffset
<1> QED BY <1>1, <1>2

LEMMA CmdIndexLemma ==
    ASSUME NEW cmds, NEW n \in Nat, DOMAIN cmds = 0 .. n - 1, NEW ch
    PROVE  CmdIndex(cmds, ch) = -1 \/ CmdIndex(cmds, ch) \in 0 .. n - 1
BY DEF CmdIndex

LEMMA CommandLemma ==
    ASSUME IsLeaf(m_trie)
    PROVE  /\ Command \in ExtIndices
           /\ Cmd.count \in Nat
           /\ Cmd.write => Cmd.count > 0
BY ExtAssumption DEF IsLeaf, Command, CommandIndex, Cmd

(* The parameters of the command in hand. *)
LEMMA ParameterLemma ==
    ASSUME IsLeaf(m_trie), NEW k \in Nat, k < Cmd.count
    PROVE  LET p == Cmd.params[k]
           IN  /\ p.type \in ParamTypes
               /\ p.size \in Nat /\ p.size < 65536
               /\ p.default \in Nat
               /\ p.text \in Seq(Byte)
               /\ p.type = "STR" => p.size > 0 /\ Len(p.text) < p.size
               /\ p.type = "STR_HEX" => Len(p.text) <= p.size
               /\ FieldSize(p) \in Nat
<1>1. Command \in ExtIndices /\ Cmd.count \in Nat
  BY CommandLemma
<1>2. k \in Params(Command)
  BY <1>1 DEF Params, Cmd
<1> DEFINE p == Cmd.params[k]
<1>3. /\ p.type \in ParamTypes
      /\ p.size \in Nat /\ p.size < 65536
      /\ p.default \in Value
      /\ p.text \in Seq(Byte)
      /\ p.type = "STR" => p.size > 0 /\ Len(p.text) < p.size
      /\ p.type = "STR_HEX" => Len(p.text) <= p.size
  BY <1>1, <1>2, ParamAssumption DEF Cmd
<1>4. p.default \in Nat
  BY <1>3, NumMaxAssumption DEF Value
<1>5. FieldSize(p) \in Nat
  BY <1>3 DEF FieldSize, ParamTypes, NumTypes
<1> QED BY <1>3, <1>4, <1>5

LEMMA ToUpperLemma == \A c \in Char : ToUpper(c) \in Char
BY DEF ToUpper, IsLower, Char

LEMMA DigitLemma ==
    ASSUME NEW n \in Nat, NEW c \in Char
    PROVE  /\ DecFits(n, c) => DecNext(n, c) \in Nat
           /\ HexFits(n, c) => HexNext(n, c) \in Nat
           /\ BinFits(n, c) => BinNext(n, c) \in Nat
           /\ GetHex(c) # -1 => GetHex(c) \in 0 .. 15
BY DEF DecFits, DecNext, HexFits, HexNext, BinFits, BinNext, GetNumeric, GetHex,
       IsNumeric, Char
-----------------------------------------------------------------------------
(* The ways a handler ends. *)

LEMMA SameCommand ==
    ASSUME m_trie' = m_trie
    PROVE  Cmd' = Cmd /\ IsLeaf(m_trie)' = IsLeaf(m_trie)
BY DEF Cmd, Command

LEMMA BufferKept ==
    ASSUME Ready, UNCHANGED bufVars
    PROVE  BufferPost
BY DEF Ready, IInv, TypeOK, CmdlineTypeOK, IndicesOrdered, bufVars, BufferPost, Grows

LEMMA BufferWritten ==
    ASSUME Ready, NEW bytes \in Seq(Byte), NEW offset \in Nat, NEW advance \in Nat,
           PutAt(offset, bytes, advance), KeepCommit \/ Commit
    PROVE  BufferPost /\ m_parse_index' = m_parse_index + advance
<1>1. /\ m_cmdline' \in [0 .. CmdlineSize - 1 -> Byte \cup {Stale}]
      /\ m_parse_index' = m_parse_index + advance
      /\ \A i \in 0 .. m_parse_ok_index - 1 : m_cmdline'[i] = m_cmdline[i]
  BY PutAtLemma DEF Ready, IInv
<1>2. /\ m_parse_index \in Nat /\ m_parse_ok_index \in Nat
      /\ m_parse_ok_index <= m_parse_index
  BY DEF Ready, IInv, TypeOK, CmdlineTypeOK, IndicesOrdered
<1>3. m_parse_ok_index' \in {m_parse_ok_index, m_parse_index'}
  BY DEF KeepCommit, Commit
<1> QED BY <1>1, <1>2, <1>3 DEF BufferPost, Grows

LEMMA GotoLemma ==
    ASSUME Ready, NEW state \in States, NEW left \in Nat, Goto(state, left)
    PROVE  /\ ExecPost
           /\ m_state' = state /\ pc' = "ret" /\ redo' = left
BY DEF Ready, IInv, TypeOK, CmdlineTypeOK, Goto, execVars, ExecPost

(* Outside the states of parameters nothing is said of the parameter. *)
LEMMA OutsideLemma ==
    ASSUME m_state' \notin ParamStates, pc' # "fill"
    PROVE  ParameterInHand' /\ RoomInField'
BY DEF ParameterInHand, RoomInField, ParamStates, NumStates, StartStates

(* To a state outside the parameters, whatever was written. *)
LEMMA LeaveLemma ==
    ASSUME Ready, NEW state \in States \ ParamStates, state # "Executing",
           NEW left \in Nat, Goto(state, left), BufferPost,
           m_param_index' \in Nat, m_num' \in Nat, m_nibble' \in 0 .. NoNibble,
           m_trie' \in NamePrefixes
    PROVE  HandlerPost
<1>1. ExecPost /\ m_state' = state /\ pc' = "ret" /\ redo' = left
  BY GotoLemma
<1>2. ParameterInHand' /\ RoomInField'
  BY <1>1, OutsideLemma
<1> QED BY <1>1, <1>2 DEF HandlerPost, ParamPost, ControlPost

LEMMA ExecuteLemma ==
    ASSUME Ready, NEW error \in BOOLEAN, NEW left \in Nat,
           Execute(error, left), BufferPost,
           m_param_index' \in Nat, m_num' \in Nat, m_nibble' \in 0 .. NoNibble,
           m_trie' \in NamePrefixes
    PROVE  HandlerPost
<1>1. ExecPost
  BY DEF Ready, IInv, TypeOK, CmdlineTypeOK, Execute, StartCmdExec, ExecPost,
         ResultCodes
<1>2. m_state' = "Executing" /\ pc' = "exec" /\ redo' = left
  BY DEF Execute
<1>3. ParameterInHand' /\ RoomInField'
  BY <1>2, OutsideLemma DEF ParamStates, NumStates, StartStates
<1>4. ControlPost
  BY <1>2 DEF ControlPost, States
<1> QED BY <1>1, <1>3, <1>4 DEF HandlerPost, ParamPost

LEMMA KeepLemma ==
    ASSUME Ready, Keep
    PROVE  /\ BufferPost
           /\ m_param_index' \in Nat /\ m_num' \in Nat
           /\ m_nibble' \in 0 .. NoNibble /\ m_trie' \in NamePrefixes
BY BufferKept DEF Keep, Ready, IInv, TypeOK, CmdlineTypeOK, paramVars

LEMMA StayLemma ==
    ASSUME Ready, pc = "ret", NEW left \in Nat, Stay(left)
    PROVE  HandlerPost
<1>1. Keep /\ Goto(m_state, left) /\ m_state \in States
  BY DEF Stay, Ready, IInv, TypeOK
<1>2. BufferPost /\ m_trie' \in NamePrefixes
  BY <1>1, KeepLemma
<1>3. ExecPost /\ m_state' = m_state /\ pc' = "ret" /\ redo' = left
  BY <1>1, GotoLemma
<1>4. m_trie' = m_trie /\ UNCHANGED paramVars
  BY <1>1 DEF Keep
<1>5. Cmd' = Cmd /\ IsLeaf(m_trie)' = IsLeaf(m_trie)
  BY <1>4, SameCommand
<1>6. ParameterInHand'
  BY <1>3, <1>4, <1>5 DEF Ready, IInv, ParameterInHand, CmdParam, paramVars
<1>7. RoomInField'
  BY <1>3, <1>4, <1>5 DEF Ready, IInv, RoomInField, CmdParam, paramVars
<1>8. ParamPost
  BY <1>1, <1>6, <1>7, KeepLemma DEF ParamPost
<1>9. UNCHANGED lineVars
  BY <1>1 DEF Keep, Goto, bufVars, execVars, lineVars
<1> QED BY <1>1, <1>2, <1>3, <1>8, <1>9 DEF HandlerPost, ControlPost

LEMMA FailLemma ==
    ASSUME Ready, NEW left \in Nat, Fail(left)
    PROVE  HandlerPost
<1>1. Keep /\ Goto("Error", left)
  BY DEF Fail
<1>2. "Error" \in States \ ParamStates
  BY DEF States, ParamStates, NumStates, StartStates
<1> QED BY <1>1, <1>2, KeepLemma, LeaveLemma

LEMMA ExecuteKeepLemma ==
    ASSUME Ready, NEW error \in BOOLEAN, NEW left \in Nat,
           Execute(error, left), Keep
    PROVE  HandlerPost
BY KeepLemma, ExecuteLemma

LEMMA FailOnLemma ==
    ASSUME Ready, NEW left \in Nat, NEW c, FailOn(c, left)
    PROVE  HandlerPost
BY FailLemma, ExecuteKeepLemma DEF FailOn

(* setupParameterParser goes to a state that awaits a value, or fails. *)
LEMMA SetupState ==
    ASSUME IsLeaf(m_trie), m_trie' = m_trie, m_param_index' \in Nat, NEW left,
           SetupParameterParser(left)
    PROVE  /\ m_state' \in StartStates \cup {"Error"} /\ m_state' # "Executing"
           /\ pc' = "ret" /\ Goto(m_state', left)
<1> DEFINE state == ParameterState(m_param_index', CmdlineSize - m_parse_index')
           p == Cmd.params[m_param_index']
<1>1. Goto(state, left) /\ m_state' = state /\ pc' = "ret" /\ Cmd' = Cmd
  BY DEF SetupParameterParser, Goto, Cmd, Command
<1>2. CASE state # "Error"
  <2>1. m_param_index' < Cmd.count
    BY <1>2, CommandLemma DEF ParameterState
  <2>2. p.type \in ParamTypes
    BY <2>1, ParameterLemma
  <2>3. /\ p.type \in NumTypes => state = NumStart[p.type]
        /\ p.type = "STR" => state = "StringStart"
        /\ p.type = "STR_HEX" => state = "HexStringStart"
    BY <1>2, <2>1 DEF ParameterState, NumTypes
  <2>4. state \in StartStates
    BY <2>2, <2>3 DEF ParamTypes, NumTypes, NumStart, StartStates
  <2> QED BY <1>1, <2>4 DEF StartStates
<1> QED BY <1>1, <1>2

(* A command is in hand and the parameter index within its parameters.     *)
LEMMA SetupLemma ==
    ASSUME Ready, IsLeaf(m_trie), Cmd.write, m_trie' = m_trie,
           NEW left \in Nat, SetupParameterParser(left), BufferPost,
           m_param_index' \in Nat, m_param_index' <= Cmd.count,
           m_num' \in Nat, m_nibble' \in 0 .. NoNibble
    PROVE  HandlerPost
<1> DEFINE state == ParameterState(m_param_index', CmdlineSize - m_parse_index')
<1>1. Goto(state, left) /\ Cmd' = Cmd /\ IsLeaf(m_trie)' = IsLeaf(m_trie)
  <2>1. Goto(state, left)
    BY DEF SetupParameterParser
  <2> QED BY <2>1, SameCommand
<1>2. CASE state = "Error"
  <2>1. "Error" \in States \ ParamStates /\ m_trie' \in NamePrefixes
    BY DEF States, ParamStates, NumStates, StartStates, Ready, IInv, TypeOK
  <2> QED BY <1>1, <1>2, <2>1, LeaveLemma
<1>3. CASE state # "Error"
  <2> DEFINE p == Cmd.params[m_param_index']
  <2>1. m_param_index' < Cmd.count
    BY <1>3, CommandLemma DEF ParameterState
  <2>2. p.type \in ParamTypes
    BY <2>1, ParameterLemma
  <2>3. /\ p.type \in NumTypes => state = NumStart[p.type]
        /\ p.type = "STR" => state = "StringStart"
        /\ p.type = "STR_HEX" => state = "HexStringStart"
    BY <1>3, <2>1 DEF ParameterState, NumTypes
  <2>4. /\ state \in StartStates
        /\ state \in NumStates => p.type \in NumTypes
        /\ state = "StringStart" => p.type = "STR"
        /\ state = "HexStringStart" => p.type = "STR_HEX"
    BY <2>2, <2>3 DEF ParamTypes, NumTypes, NumStart, StartStates, NumStates
  <2>5. StartStates \subseteq States /\ StartStates \subseteq ParamStates
        /\ "String" \notin StartStates /\ "HexString" \notin StartStates
        /\ "Executing" \notin StartStates
    BY DEF StartStates, States, ParamStates
  <2>6. ExecPost /\ m_state' = state /\ pc' = "ret" /\ redo' = left
    BY <1>1, <2>4, <2>5, GotoLemma
  <2>7. CmdParam' = p
    BY <1>1 DEF CmdParam
  <2>8. ParameterInHand'
    BY <1>1, <2>1, <2>4, <2>5, <2>6, <2>7 DEF ParameterInHand
  <2>9. RoomInField'
    BY <2>4, <2>5, <2>6 DEF RoomInField
  <2>10. m_trie' \in NamePrefixes
    BY DEF Ready, IInv, TypeOK
  <2> QED BY <2>4, <2>5, <2>6, <2>8, <2>9, <2>10 DEF HandlerPost, ParamPost, ControlPost
<1> QED BY <1>2, <1>3

(* The same for the loop of finalizeExtCmd. *)
LEMMA FinalizeLemma ==
    ASSUME Ready, IsLeaf(m_trie), Cmd.write,
           NEW left \in Nat, Finalize(left), BufferPost,
           m_state \in FillStates,
           m_param_index' \in Nat, m_param_index' <= Cmd.count,
           m_num' \in Nat, m_nibble' \in 0 .. NoNibble
    PROVE  HandlerPost
<1>1. /\ m_state' = m_state /\ m_trie' = m_trie
      /\ pc' = "fill" /\ redo' = left /\ UNCHANGED execVars
  BY DEF Finalize
<1>2. Cmd' = Cmd /\ IsLeaf(m_trie)' = IsLeaf(m_trie)
  BY <1>1, SameCommand
<1>3. ExecPost /\ m_state' \in States /\ m_trie' \in NamePrefixes
  BY <1>1 DEF Ready, IInv, TypeOK, CmdlineTypeOK, execVars, ExecPost
<1>4. ParameterInHand' /\ RoomInField'
  BY <1>1, <1>2 DEF ParameterInHand, RoomInField, FillStates
<1> QED BY <1>1, <1>3, <1>4 DEF HandlerPost, ParamPost, ControlPost

(* Bytes put at the parse index. *)
LEMMA PutLemma ==
    ASSUME Ready, NEW bytes \in Seq(Byte), Put(bytes), KeepCommit \/ Commit
    PROVE  BufferPost /\ m_parse_index' = m_parse_index + Len(bytes)
<1>1. Len(bytes) \in Nat
  OBVIOUS
<1> QED BY <1>1, BufferWritten DEF Put

LEMMA AddNumericLemma ==
    ASSUME Ready, NEW n \in Nat, AddNumericParameter(n), KeepCommit \/ Commit
    PROVE  /\ BufferPost /\ m_parse_index' = m_parse_index + 4
           /\ m_param_index' = m_param_index + 1 /\ m_param_index' \in Nat
           /\ m_num' \in Nat /\ m_nibble' \in 0 .. NoNibble
<1>1. BufferPost /\ m_parse_index' = m_parse_index + 4
  BY NumBytesLemma, PutLemma DEF AddNumericParameter
<1> QED BY <1>1 DEF AddNumericParameter, Ready, IInv, TypeOK, CmdlineTypeOK

(* A parameter left out leaves the index at this parameter or the next.    *)
LEMMA AddDefaultLemma ==
    ASSUME Ready, IsLeaf(m_trie), m_param_index < Cmd.count,
           AddDefault(CmdParam), KeepCommit
    PROVE  /\ BufferPost
           /\ m_param_index' \in Nat /\ m_param_index' <= Cmd.count
           /\ m_num' \in Nat /\ m_nibble' \in 0 .. NoNibble
           /\ m_parse_index' <= m_parse_index + FieldSize(CmdParam)
<1> DEFINE p == CmdParam
<1>1. /\ m_param_index \in Nat /\ m_num \in Nat /\ m_nibble \in 0 .. NoNibble
      /\ Cmd.count \in Nat /\ m_parse_index \in Nat
  BY CommandLemma DEF Ready, IInv, TypeOK, CmdlineTypeOK
<1>2. /\ p.type \in ParamTypes /\ p.default \in Nat
      /\ p.size \in Nat /\ p.size < 65536
      /\ p.text \in Seq(Byte)
      /\ p.type = "STR_HEX" => Len(p.text) <= p.size
  BY <1>1, ParameterLemma DEF CmdParam
<1>3. CASE p.type \in NumTypes
  <2>1. AddNumericParameter(p.default) /\ FieldSize(p) = 4
    BY <1>3 DEF AddDefault, FieldSize, NumTypes
  <2> QED BY <1>1, <1>2, <2>1, AddNumericLemma
<1>4. CASE p.type = "STR"
  <2>1. AddDefaultString(p) /\ FieldSize(p) = p.size
    BY <1>4 DEF AddDefault, FieldSize, NumTypes
  <2>2. p.text \o <<0>> \in Seq(Byte)
    BY <1>2 DEF Byte
  <2>3. PutAt(0, p.text \o <<0>>, p.size) /\ p.size \in Nat /\ 0 \in Nat
    BY <1>2, <2>1 DEF AddDefaultString
  <2>4. BufferPost /\ m_parse_index' = m_parse_index + p.size
    BY <2>2, <2>3, BufferWritten
  <2>5. m_param_index' = m_param_index + 1 /\ UNCHANGED <<m_num, m_nibble>>
    BY <2>1 DEF AddDefaultString
  <2> QED BY <1>1, <1>2, <2>1, <2>4, <2>5
<1>5. CASE p.type = "STR_HEX"
  <2>1. AddDefaultHexString(p) /\ FieldSize(p) = p.size + 2
    BY <1>5 DEF AddDefault, FieldSize, NumTypes
  <2>2. Len(p.text) \in Nat /\ Len(p.text) <= p.size /\ Len(p.text) < 65536
    BY <1>2, <1>5
  <2> DEFINE text == p.text
             size == IdBytes(Len(text))
  <2>3. text \in Seq(Byte) /\ size \in Seq(Byte) /\ Len(size) = 2
    BY <1>2, <2>2, IdBytesLemma
  <2>4. Put(text \o size)
    BY <2>1 DEF AddDefaultHexString
  <2>5. BufferPost /\ m_parse_index' = m_parse_index + (Len(text) + 2)
    <3> HIDE DEF text, size
    <3>1. text \o size \in Seq(Byte) /\ Len(text \o size) = Len(text) + 2
      BY <2>3, ConcatLemma, Zenon
    <3> QED BY <2>4, <3>1, PutLemma
  <2>6. UNCHANGED paramVars
    BY <2>1 DEF AddDefaultHexString
  <2>7. UNCHANGED <<m_param_index, m_num, m_nibble>>
    BY <2>6 DEF paramVars
  <2> QED BY <1>1, <1>2, <2>1, <2>2, <2>5, <2>7
<1> QED BY <1>2, <1>3, <1>4, <1>5 DEF ParamTypes

-----------------------------------------------------------------------------
(* The handlers, state by state. *)

LEMMA TypedLemma ==
    ASSUME Ready
    PROVE  /\ m_parse_index \in Nat /\ m_parse_index <= CmdlineSize
           /\ m_param_index \in Nat /\ m_num \in Nat /\ m_nibble \in 0 .. NoNibble
           /\ m_trie \in NamePrefixes /\ m_state \in States /\ m_s3 \in Byte
BY DEF Ready, IInv, TypeOK, CmdlineTypeOK, IndicesOrdered

LEMMA StatesLemma ==
    {"A", "T", "Body", "S", "SSet", "Ampersand", "BasicParameter", "Extended",
     "ExtendedEq", "ExtendedReadTest", "Error", "Executing"} = States \ ParamStates
BY DEF States, ParamStates, NumStates, StartStates

LEMMA StateALemma ==
    ASSUME Ready, pc = "ret", NEW c, NEW left \in Nat, StateA(c, left)
    PROVE  HandlerPost
BY StatesLemma, KeepLemma, LeaveLemma DEF StateA

LEMMA ResetLemma ==
    ASSUME ResetCmdline, m_state = "T"
    PROVE  BufferPost
BY DEF ResetCmdline, BufferPost, Stale

LEMMA StateTLemma ==
    ASSUME Ready, pc = "ret", NEW c, NEW left \in Nat, StateT(c, left)
    PROVE  HandlerPost
<1>1. CASE c = SPACE /\ Stay(left)
  BY <1>1, StayLemma
<1>2. CASE /\ c = 84 /\ ResetCmdline /\ m_trie' = <<>> /\ Goto("Body", left)
           /\ UNCHANGED paramVars
  <2>1. BufferPost
    BY <1>2, ResetLemma DEF StateT
  <2>2. m_trie' \in NamePrefixes
    BY <1>2 DEF NamePrefixes
  <2> QED BY <1>2, <2>1, <2>2, StatesLemma, TypedLemma, LeaveLemma DEF paramVars
<1>3. CASE c = SLASH /\ Execute(FALSE, left) /\ Keep
  BY <1>3, ExecuteKeepLemma
<1>4. CASE Goto("A", left) /\ Keep
  BY <1>4, StatesLemma, KeepLemma, LeaveLemma
<1> QED BY <1>1, <1>2, <1>3, <1>4 DEF StateT

LEMMA AddCmdLemma ==
    ASSUME Ready, NEW id \in Nat, id < 65536, AddCmd(id), KeepCommit \/ Commit
    PROVE  BufferPost
BY IdBytesLemma, PutLemma DEF AddCmd

LEMMA AddBasicCommandLemma ==
    ASSUME Ready, NEW def, NEW index \in 0 .. NBasic + NAmp, NEW entry \in Nat,
           NEW committed \in BOOLEAN, NEW left \in Nat,
           AddBasicCommand(def, index, entry, committed, left)
    PROVE  HandlerPost
<1>1. BasicId(index) \in Nat /\ BasicId(index) < 65536
  BY IdsLemma
<1>2. AddCmd(BasicId(index)) /\ (KeepCommit \/ Commit)
  BY DEF AddBasicCommand
<1>3. BufferPost
  BY <1>1, <1>2, AddCmdLemma
<1>4. \/ Goto("Body", left) /\ UNCHANGED paramVars
      \/ /\ m_param_index' = entry /\ m_num' = 0 /\ UNCHANGED m_nibble
         /\ Goto("BasicParameter", left)
  BY DEF AddBasicCommand
<1>5. m_trie' \in NamePrefixes /\ m_param_index' \in Nat /\ m_num' \in Nat
      /\ m_nibble' \in 0 .. NoNibble
  BY <1>4, TypedLemma DEF AddBasicCommand, paramVars
<1> QED BY <1>3, <1>4, <1>5, StatesLemma, LeaveLemma

LEMMA StateBodyLemma ==
    ASSUME Ready, pc = "ret", NEW c, NEW left \in Nat, StateBody(c, left)
    PROVE  HandlerPost
<1>1. CASE c = SPACE /\ Stay(left)
  BY <1>1, StayLemma
<1>2. CASE BodyLetter(c, left)
  <2> DEFINE i == CmdIndex(BasicCmds, c)
  <2>1. CASE c = 83
    <3>1. /\ m_num' = 0 /\ Goto("S", left)
          /\ UNCHANGED <<bufVars, m_param_index, m_nibble, m_trie>>
      BY <1>2, <2>1 DEF BodyLetter
    <3>2. BufferPost
      BY <3>1, BufferKept
    <3> QED BY <3>1, <3>2, StatesLemma, TypedLemma, LeaveLemma
  <2>2. CASE c # 83 /\ Fail(left)
    BY <2>2, FailLemma
  <2>3. CASE i # -1 /\ AddBasicCommand(BasicCmds[i], 1 + i, i, TRUE, left)
    <3>1. i \in 0 .. NBasic - 1
      BY <2>3, CmdIndexLemma, SizesAssumption, BasicAssumption
    <3>2. 1 + i \in 0 .. NBasic + NAmp /\ i \in Nat
      BY <3>1, SizesAssumption
    <3> QED BY <2>3, <3>2, AddBasicCommandLemma
  <2> QED BY <1>2, <2>1, <2>2, <2>3 DEF BodyLetter
<1>3. CASE c = AMP /\ Goto(IF NAmp > 0 THEN "Ampersand" ELSE "Error", left) /\ Keep
  BY <1>3, StatesLemma, KeepLemma, LeaveLemma
<1>4. CASE c = PLUS /\ Goto(IF NExt > 0 THEN "Extended" ELSE "Error", left) /\ Keep
  BY <1>4, StatesLemma, KeepLemma, LeaveLemma
<1>5. CASE Execute(FALSE, left) /\ Keep
  BY <1>5, ExecuteKeepLemma
<1>6. CASE Fail(left)
  BY <1>6, FailLemma
<1> QED BY <1>1, <1>2, <1>3, <1>4, <1>5, <1>6 DEF StateBody

LEMMA NextDigitLemma ==
    ASSUME Ready, NEW next \in Nat, NEW left \in Nat, NextDigit(next, left),
           m_state \notin ParamStates, m_state # "Executing"
    PROVE  HandlerPost
<1>1. m_num' = next /\ Goto(m_state, left)
      /\ UNCHANGED <<bufVars, m_param_index, m_nibble, m_trie>>
  BY DEF NextDigit
<1>2. BufferPost
  BY <1>1, BufferKept
<1> QED BY <1>1, <1>2, TypedLemma, LeaveLemma

LEMMA SRequestLemma ==
    ASSUME Ready, NEW c, NEW left \in Nat, SRequest(c, left)
    PROVE  HandlerPost
<1> DEFINE supported == m_num \in {3, 4}
           id   == IF supported THEN IdBytes(BasicId(0)) ELSE <<>>
           byte == IF c = EQ THEN 128 + (m_num % 128) ELSE m_num % 256
<1>1. BasicId(0) \in Nat /\ BasicId(0) < 65536
  BY IdsLemma, SizesAssumption
<1>2. id \in Seq(Byte) /\ Len(id) \in {0, 2}
  BY <1>1, IdBytesLemma
<1>3. byte \in Byte
  BY TypedLemma DEF Byte
<1>4. CASE Fail(left)
  BY <1>4, FailLemma
<1>5. CASE /\ Put(id) /\ KeepCommit /\ Goto("Error", left)
           /\ UNCHANGED <<paramVars, m_trie>>
  <2>1. BufferPost
    BY <1>2, <1>5, PutLemma
  <2> QED BY <1>5, <2>1, StatesLemma, TypedLemma, LeaveLemma DEF paramVars
<1>6. CASE /\ Put(Append(id, byte)) /\ m_num' = 0
           /\ IF c = EQ THEN KeepCommit /\ Goto("SSet", left)
                        ELSE Commit /\ Goto("Body", left)
           /\ UNCHANGED <<m_param_index, m_nibble, m_trie>>
  <2>1. Append(id, byte) \in Seq(Byte)
    BY <1>2, <1>3
  <2>2. BufferPost
    BY <1>6, <2>1, PutLemma
  <2> QED BY <1>6, <2>2, StatesLemma, TypedLemma, LeaveLemma
<1>7. \/ supported /\ ~CommandFits
      \/ (supported => CommandFits) /\ Available < Len(id) + 1
      \/ Available >= Len(id) + 1
  BY <1>2, TypedLemma, CmdlineSizeAssumption DEF Available
<1> QED BY <1>4, <1>5, <1>6, <1>7 DEF SRequest

LEMMA StateSLemma ==
    ASSUME Ready, pc = "ret", NEW c \in Char, NEW left \in Nat, StateS(c, left)
    PROVE  HandlerPost
<1>1. CASE Stay(left)
  BY <1>1, StayLemma
<1>2. CASE SRequest(c, left)
  BY <1>2, SRequestLemma
<1>3. CASE FailOn(c, left)
  BY <1>3, FailOnLemma
<1>4. CASE m_state = "S" /\ DecFits(m_num, c) /\ NextDigit(DecNext(m_num, c), left)
  BY <1>4, TypedLemma, DigitLemma, StatesLemma, NextDigitLemma
<1> QED BY <1>1, <1>2, <1>3, <1>4 DEF StateS

LEMMA StateSSetLemma ==
    ASSUME Ready, pc = "ret", NEW c \in Char, NEW left \in Nat, StateSSet(c, left)
    PROVE  HandlerPost
<1>1. CASE Stay(left)
  BY <1>1, StayLemma
<1>2. CASE m_state = "SSet" /\ DecFits(m_num, c) /\ NextDigit(DecNext(m_num, c), left)
  BY <1>2, TypedLemma, DigitLemma, StatesLemma, NextDigitLemma
<1>3. CASE Fail(left + 1)
  BY <1>3, FailLemma
<1>4. CASE /\ ~(m_num > 127) /\ Put(<<m_num>>) /\ Commit /\ Goto("Body", left + 1)
           /\ UNCHANGED <<paramVars, m_trie>>
  <2>1. <<m_num>> \in Seq(Byte)
    BY <1>4, TypedLemma DEF Byte
  <2>2. BufferPost
    BY <1>4, <2>1, PutLemma
  <2> QED BY <1>4, <2>2, StatesLemma, TypedLemma, LeaveLemma DEF paramVars
<1> QED BY <1>1, <1>2, <1>3, <1>4 DEF StateSSet

LEMMA StateAmpersandLemma ==
    ASSUME Ready, pc = "ret", NEW c, NEW left \in Nat, StateAmpersand(c, left)
    PROVE  HandlerPost
<1> DEFINE i == CmdIndex(AmpCmds, c)
           n == 1 + NBasic + i
<1>1. CASE Stay(left)
  BY <1>1, StayLemma
<1>2. CASE Fail(left)
  BY <1>2, FailLemma
<1>3. CASE i # -1 /\ AddBasicCommand(AmpCmds[i], n, n, FALSE, left)
  <2>1. i \in 0 .. NAmp - 1
    BY <1>3, CmdIndexLemma, SizesAssumption, BasicAssumption
  <2>2. n \in 0 .. NBasic + NAmp /\ n \in Nat
    BY <2>1, SizesAssumption
  <2> QED BY <1>3, <2>2, AddBasicCommandLemma
<1> QED BY <1>1, <1>2, <1>3 DEF StateAmpersand

LEMMA StateBasicParameterLemma ==
    ASSUME Ready, pc = "ret", NEW c \in Char, NEW left \in Nat,
           StateBasicParameter(c, left)
    PROVE  HandlerPost
<1>1. CASE Stay(left)
  BY <1>1, StayLemma
<1>2. CASE /\ m_state = "BasicParameter" /\ DecFits(m_num, c)
           /\ NextDigit(DecNext(m_num, c), left)
  BY <1>2, TypedLemma, DigitLemma, StatesLemma, NextDigitLemma
<1>3. CASE Fail(left) \/ Fail(left + 1)
  BY <1>3, FailLemma
<1>4. CASE /\ AddNumericParameter(m_num) /\ Commit /\ Goto("Body", left + 2)
           /\ UNCHANGED m_trie
  BY <1>4, AddNumericLemma, StatesLemma, TypedLemma, LeaveLemma
<1> QED BY <1>1, <1>2, <1>3, <1>4 DEF StateBasicParameter

(* The id of a request and the state in which its end is awaited. *)
LEMMA AddReadTestLemma ==
    ASSUME Ready, IsLeaf(m_trie), NEW type \in CmdTypes, NEW left \in Nat,
           AddReadTest(type, left)
    PROVE  HandlerPost
<1>1. ExtId(Command, type) \in Nat /\ ExtId(Command, type) < 65536
  BY CommandLemma, IdsLemma
<1>2. BufferPost
  BY <1>1, AddCmdLemma DEF AddReadTest
<1> QED BY <1>2, StatesLemma, TypedLemma, LeaveLemma DEF AddReadTest, paramVars

LEMMA AddWriteLemma ==
    ASSUME Ready, IsLeaf(m_trie), AddCmd(ExtId(Command, "WRITE")), KeepCommit
    PROVE  BufferPost
<1>1. "WRITE" \in CmdTypes
  BY DEF CmdTypes
<1>2. ExtId(Command, "WRITE") \in Nat /\ ExtId(Command, "WRITE") < 65536
  BY <1>1, CommandLemma, IdsLemma
<1> QED BY <1>2, AddCmdLemma

LEMMA ExtendedEndLemma ==
    ASSUME Ready, m_state = "Extended", NEW c, NEW left \in Nat, ExtendedEnd(c, left)
    PROVE  HandlerPost
<1>1. CASE Fail(left)
  BY <1>1, FailLemma
<1>2. CASE FailOn(c, left)
  BY <1>2, FailOnLemma
<1>3. CASE /\ IsLeaf(m_trie) /\ Cmd.write
           /\ AddCmd(ExtId(Command, "WRITE")) /\ m_param_index' = 0
           /\ Finalize(left) /\ UNCHANGED <<m_num, m_nibble>>
  <2>1. BufferPost
    BY <1>3, AddWriteLemma DEF Finalize, KeepCommit
  <2>2. m_param_index' \in Nat /\ m_param_index' <= Cmd.count
    BY <1>3, CommandLemma
  <2>3. "Extended" \in FillStates
    BY DEF FillStates
  <2> QED BY <1>3, <2>1, <2>2, <2>3, TypedLemma, FinalizeLemma
<1> QED BY <1>1, <1>2, <1>3 DEF ExtendedEnd

LEMMA StateExtendedLemma ==
    ASSUME Ready, pc = "ret", NEW c, NEW left \in Nat, StateExtended(c, left)
    PROVE  HandlerPost
<1>1. CASE Stay(left)
  BY <1>1, StayLemma
<1>2. CASE Goto("ExtendedEq", left) /\ Keep
  BY <1>2, StatesLemma, KeepLemma, LeaveLemma
<1>3. CASE IsLeaf(m_trie) /\ AddReadTest("READ", left)
  BY <1>3, AddReadTestLemma DEF CmdTypes
<1>4. CASE m_state = "Extended" /\ ExtendedEnd(c, left)
  BY <1>4, ExtendedEndLemma
<1>5. CASE /\ TrieAccepts(c) /\ m_trie' = Append(m_trie, c)
           /\ Goto("Extended", left) /\ UNCHANGED <<bufVars, paramVars>>
  <2>1. BufferPost
    BY <1>5, BufferKept
  <2> QED BY <1>5, <2>1, StatesLemma, TypedLemma, LeaveLemma
          DEF TrieAccepts, paramVars
<1>6. CASE Fail(left)
  BY <1>6, FailLemma
<1> QED BY <1>1, <1>2, <1>3, <1>4, <1>5, <1>6 DEF StateExtended

LEMMA StateExtendedEqLemma ==
    ASSUME Ready, pc = "ret", NEW c, NEW left \in Nat, StateExtendedEq(c, left)
    PROVE  HandlerPost
<1>1. CASE Stay(left)
  BY <1>1, StayLemma
<1>2. CASE IsLeaf(m_trie) /\ AddReadTest("TEST", left)
  BY <1>2, AddReadTestLemma DEF CmdTypes
<1>3. CASE Fail(left)
  BY <1>3, FailLemma
<1>4. CASE /\ IsLeaf(m_trie) /\ Cmd.write
           /\ AddCmd(ExtId(Command, "WRITE")) /\ KeepCommit /\ m_param_index' = 0
           /\ SetupParameterParser(left + 1)
           /\ UNCHANGED <<m_num, m_nibble, m_trie>>
  <2>1. BufferPost
    BY <1>4, AddWriteLemma
  <2>2. m_param_index' \in Nat /\ m_param_index' <= Cmd.count
    BY <1>4, CommandLemma
  <2>3. left + 1 \in Nat
    OBVIOUS
  <2> QED BY <1>4, <2>1, <2>2, <2>3, TypedLemma, SetupLemma
<1> QED BY <1>1, <1>2, <1>3, <1>4 DEF StateExtendedEq

LEMMA NextCommandLemma ==
    ASSUME Ready, NEW left \in Nat, NextCommand(left), BufferPost, UNCHANGED paramVars
    PROVE  HandlerPost
<1>1. m_trie' \in NamePrefixes
  BY DEF NextCommand, NamePrefixes
<1> QED BY <1>1, StatesLemma, TypedLemma, LeaveLemma DEF NextCommand, paramVars

LEMMA CommitLemma ==
    ASSUME Ready, UNCHANGED <<m_cmdline, m_parse_index>>, Commit
    PROVE  BufferPost
BY DEF Ready, IInv, TypeOK, CmdlineTypeOK, IndicesOrdered, Commit, BufferPost, Grows

LEMMA StateExtendedReadTestLemma ==
    ASSUME Ready, pc = "ret", NEW c, NEW left \in Nat, StateExtendedReadTest(c, left)
    PROVE  HandlerPost
<1>1. CASE Stay(left)
  BY <1>1, StayLemma
<1>2. CASE /\ UNCHANGED <<m_cmdline, m_parse_index, paramVars>> /\ Commit
           /\ IF c = m_s3 THEN Execute(FALSE, left) /\ UNCHANGED m_trie
                          ELSE NextCommand(left)
  BY <1>2, CommitLemma, NextCommandLemma, ExecuteLemma, TypedLemma DEF paramVars
<1>3. CASE Fail(left)
  BY <1>3, FailLemma
<1> QED BY <1>1, <1>2, <1>3 DEF StateExtendedReadTest

(* What a parameter state knows of its command. *)
LEMMA InHandLemma ==
    ASSUME Ready, pc = "ret", m_state \in ParamStates
    PROVE  /\ IsLeaf(m_trie) /\ Cmd.write
           /\ m_param_index \in Nat /\ Cmd.count \in Nat
           /\ m_param_index <= Cmd.count
           /\ m_state # "StringEnd" => m_param_index < Cmd.count
<1>1. IsLeaf(m_trie) /\ Cmd.write /\ m_param_index <= Cmd.count
      /\ (m_state # "StringEnd" => m_param_index < Cmd.count)
  BY DEF Ready, IInv, ParameterInHand
<1> QED BY <1>1, CommandLemma, TypedLemma

LEMMA ParamStatesLemma ==
    /\ \A s \in NumStates \cup StartStates :
          /\ s \in FillStates /\ s \in ParamStates /\ s \in States
          /\ s # "String" /\ s # "HexString" /\ s # "StringEnd"
          /\ s # "Executing"
    /\ "StringEnd" \in FillStates
    /\ \A s \in {"String", "HexString", "StringEnd"} : s \in ParamStates /\ s \in States
    /\ \A t \in NumTypes : /\ NumStart[t] \in NumStates /\ NumStart[t] \in StartStates
                           /\ NumState[t] \in NumStates
BY DEF NumStates, StartStates, FillStates, ParamStates, States, NumTypes,
       NumStart, NumState

LEMMA DefaultParameterLemma ==
    ASSUME Ready, pc = "ret", m_state \in StartStates, NEW c, NEW left \in Nat,
           ProcessDefaultParameter(c, left)
    PROVE  HandlerPost
<1>1. /\ IsLeaf(m_trie) /\ Cmd.write /\ m_state \in FillStates
      /\ m_param_index < Cmd.count /\ m_param_index <= Cmd.count
  BY InHandLemma, ParamStatesLemma
<1>2. CASE Stay(left)
  BY <1>2, StayLemma
<1>3. CASE /\ AddDefault(CmdParam) /\ SetupParameterParser(left)
           /\ UNCHANGED <<m_parse_ok_index, m_trie>>
  <2>1. KeepCommit
    BY <1>3 DEF KeepCommit
  <2>2. /\ BufferPost
        /\ m_param_index' \in Nat /\ m_param_index' <= Cmd.count
        /\ m_num' \in Nat /\ m_nibble' \in 0 .. NoNibble
    BY <1>1, <1>3, <2>1, AddDefaultLemma
  <2> QED BY <1>1, <1>3, <2>2, SetupLemma
<1>4. CASE Fail(left)
  BY <1>4, FailLemma
<1>5. CASE Finalize(left) /\ UNCHANGED <<m_cmdline, m_parse_index, paramVars>>
  <2>1. BufferPost
    BY <1>5, BufferKept DEF Finalize, bufVars
  <2> QED BY <1>1, <1>5, <2>1, TypedLemma, FinalizeLemma DEF paramVars
<1> QED BY <1>2, <1>3, <1>4, <1>5 DEF ProcessDefaultParameter

LEMMA ProcessDigitLemma ==
    ASSUME Ready, pc = "ret", NEW type \in NumTypes, NEW n \in Nat, NEW c \in Char,
           NEW left \in Nat, m_state \in NumStates, ProcessDigit(type, n, c, left)
    PROVE  HandlerPost
<1>1. CASE Fail(left)
  BY <1>1, FailLemma
<1>2. CASE /\ DigitFits(type, n, c) /\ m_num' = DigitNext(type, n, c)
           /\ Goto(NumState[type], left)
           /\ UNCHANGED <<bufVars, m_param_index, m_nibble, m_trie>>
  <2>1. DigitNext(type, n, c) \in Nat
    BY <1>2, DigitLemma DEF DigitFits, DigitNext, NumTypes
  <2>2. NumState[type] \in NumStates \ {"StringStart", "HexStringStart"}
    BY DEF NumState, NumTypes, NumStates
  <2>3. /\ ExecPost
        /\ m_state' = NumState[type] /\ pc' = "ret" /\ redo' = left
    BY <1>2, <2>2, ParamStatesLemma, GotoLemma
  <2>4. BufferPost
    BY <1>2, BufferKept
  <2>5. Cmd' = Cmd /\ IsLeaf(m_trie)' = IsLeaf(m_trie) /\ CmdParam' = CmdParam
    BY <1>2, SameCommand DEF CmdParam
  <2>6. m_state \in ParamStates /\ m_state # "StringEnd"
    BY ParamStatesLemma
  <2>7. CmdParam.type \in NumTypes
    BY DEF Ready, IInv, ParameterInHand
  <2>8. m_param_index' = m_param_index
    BY <1>2
  <2>9. ParameterInHand'
    BY <2>2, <2>3, <2>5, <2>6, <2>7, <2>8, ParamStatesLemma, InHandLemma
       DEF ParameterInHand
  <2>10. RoomInField'
    BY <2>2, <2>3, ParamStatesLemma DEF RoomInField
  <2>11. ParamPost
    BY <1>2, <2>1, <2>9, <2>10, TypedLemma DEF ParamPost
  <2>12. ControlPost
    BY <1>2, <2>2, <2>3, ParamStatesLemma, TypedLemma DEF ControlPost
  <2> QED BY <2>3, <2>4, <2>11, <2>12 DEF HandlerPost
<1> QED BY <1>1, <1>2 DEF ProcessDigit

LEMMA NumericParameterEndLemma ==
    ASSUME Ready, pc = "ret", m_state \in NumStates, NEW c, NEW left \in Nat,
           NumericParameterEnd(c, left)
    PROVE  HandlerPost
<1>1. /\ IsLeaf(m_trie) /\ Cmd.write /\ m_state \in FillStates
      /\ m_param_index \in Nat /\ Cmd.count \in Nat /\ m_param_index < Cmd.count
  BY InHandLemma, ParamStatesLemma
<1>2. CASE AddNumericParameter(m_num) /\ SetupParameterParser(left)
           /\ UNCHANGED <<m_parse_ok_index, m_trie>>
  <2>1. KeepCommit
    BY <1>2 DEF KeepCommit
  <2>2. /\ BufferPost
        /\ m_param_index' = m_param_index + 1 /\ m_param_index' \in Nat
        /\ m_num' \in Nat /\ m_nibble' \in 0 .. NoNibble
    BY <1>2, <2>1, TypedLemma, AddNumericLemma
  <2> QED BY <1>1, <1>2, <2>2, SetupLemma
<1>3. CASE Fail(left)
  BY <1>3, FailLemma
<1>4. CASE AddNumericParameter(m_num) /\ Finalize(left)
  <2>1. KeepCommit
    BY <1>4 DEF Finalize, KeepCommit
  <2>2. /\ BufferPost
        /\ m_param_index' = m_param_index + 1 /\ m_param_index' \in Nat
        /\ m_num' \in Nat /\ m_nibble' \in 0 .. NoNibble
    BY <1>4, <2>1, TypedLemma, AddNumericLemma
  <2> QED BY <1>1, <1>4, <2>2, FinalizeLemma
<1>5. CASE Execute(TRUE, left) /\ Keep
  BY <1>5, ExecuteKeepLemma
<1> QED BY <1>2, <1>3, <1>4, <1>5 DEF NumericParameterEnd

LEMMA StateNumStartLemma ==
    ASSUME Ready, pc = "ret", NEW t \in NumTypes, NEW c \in Char, NEW left \in Nat,
           StateNumStart(t, c, left)
    PROVE  HandlerPost
<1>1. m_state \in NumStates \cap StartStates
  BY ParamStatesLemma DEF StateNumStart
<1> QED BY <1>1, DefaultParameterLemma, ProcessDigitLemma DEF StateNumStart

LEMMA StateNumLemma ==
    ASSUME Ready, pc = "ret", NEW t \in NumTypes, NEW c \in Char, NEW left \in Nat,
           StateNum(t, c, left)
    PROVE  HandlerPost
<1>1. m_state \in NumStates
  BY ParamStatesLemma DEF StateNum
<1> QED BY <1>1, TypedLemma, NumericParameterEndLemma, ProcessDigitLemma DEF StateNum

(* Between a quote and the next: to a parameter state for the same         *)
(* parameter, with the room in its field as given.                         *)
LEMMA QuotedLemma ==
    ASSUME Ready, IsLeaf(m_trie), Cmd.write, m_param_index < Cmd.count,
           BufferPost, m_trie' = m_trie, m_param_index' = m_param_index,
           NEW state \in {"String", "HexString"}, NEW left \in Nat,
           Goto(state, left), m_num' \in Nat, m_nibble' \in 0 .. NoNibble,
           state = "String" => CmdParam.type = "STR" /\ m_num' > 0,
           state = "HexString" =>
              /\ CmdParam.type = "STR_HEX" /\ m_num' <= CmdParam.size
              /\ m_nibble' # NoNibble => m_num' > 0
    PROVE  HandlerPost
<1>1. state \in States /\ state \notin NumStates
      /\ state # "StringStart" /\ state # "HexStringStart"
  BY ParamStatesLemma
<1>2. ExecPost /\ m_state' = state /\ pc' = "ret" /\ redo' = left
  BY <1>1, GotoLemma
<1>3. Cmd' = Cmd /\ IsLeaf(m_trie)' = IsLeaf(m_trie) /\ CmdParam' = CmdParam
  BY SameCommand DEF CmdParam
<1>4. Cmd.count \in Nat /\ m_param_index \in Nat
  BY CommandLemma, TypedLemma
<1>5. ParameterInHand'
  BY <1>1, <1>2, <1>3, <1>4 DEF ParameterInHand
<1>6. RoomInField'
  BY <1>2, <1>3 DEF RoomInField
<1>7. ParamPost
  BY <1>4, <1>5, <1>6 DEF ParamPost
<1>8. ControlPost
  BY <1>1, <1>2, TypedLemma DEF ControlPost
<1> QED BY <1>2, <1>7, <1>8 DEF HandlerPost

(* Past the closing quote. *)
LEMMA ClosedLemma ==
    ASSUME Ready, IsLeaf(m_trie), Cmd.write, m_param_index < Cmd.count,
           BufferPost, m_trie' = m_trie, m_param_index' = m_param_index + 1,
           NEW left \in Nat, Goto("StringEnd", left), UNCHANGED <<m_num, m_nibble>>
    PROVE  HandlerPost
<1>1. "StringEnd" \in States /\ "StringEnd" \notin NumStates
  BY ParamStatesLemma
<1>2. ExecPost /\ m_state' = "StringEnd" /\ pc' = "ret" /\ redo' = left
  BY <1>1, GotoLemma
<1>3. Cmd' = Cmd /\ IsLeaf(m_trie)' = IsLeaf(m_trie)
  BY SameCommand
<1>4. Cmd.count \in Nat /\ m_param_index \in Nat
  BY CommandLemma, TypedLemma
<1>5. ParameterInHand'
  BY <1>1, <1>2, <1>3, <1>4 DEF ParameterInHand
<1>6. RoomInField'
  BY <1>2 DEF RoomInField
<1>7. ParamPost
  BY <1>4, <1>5, <1>6, TypedLemma DEF ParamPost
<1>8. ControlPost
  BY <1>1, <1>2, TypedLemma DEF ControlPost
<1> QED BY <1>2, <1>7, <1>8 DEF HandlerPost

LEMMA StateQuoteLemma ==
    ASSUME Ready, pc = "ret", NEW c, NEW left \in Nat,
           StateStringStart(c, left) \/ StateHexStringStart(c, left)
    PROVE  HandlerPost
<1>1. m_state \in {"StringStart", "HexStringStart"} /\ m_state \in StartStates
  BY DEF StateStringStart, StateHexStringStart, StateQuote, StartStates
<1>2. /\ IsLeaf(m_trie) /\ Cmd.write /\ m_param_index \in Nat
      /\ m_param_index < Cmd.count
  BY <1>1, ParamStatesLemma, InHandLemma
<1>3. CASE ProcessDefaultParameter(c, left)
  BY <1>1, <1>3, DefaultParameterLemma
<1>4. CASE Fail(left)
  BY <1>4, FailLemma
<1>5. CASE \/ m_state = "StringStart" /\ OpenString("String", left)
           \/ m_state = "HexStringStart" /\ OpenString("HexString", left)
  <2>1. /\ m_num' = CmdParam.size /\ m_nibble' = NoNibble
        /\ UNCHANGED <<bufVars, m_param_index, m_trie>>
    BY <1>5 DEF OpenString
  <2>2. CmdParam.size \in Nat /\ (CmdParam.type = "STR" => CmdParam.size > 0)
    BY <1>2, ParameterLemma DEF CmdParam
  <2>3. NoNibble \in 0 .. NoNibble
    BY DEF NoNibble
  <2>4. BufferPost
    BY <2>1, BufferKept
  <2>5. CASE m_state = "StringStart" /\ Goto("String", left)
    <3>1. CmdParam.type = "STR"
      BY <2>5 DEF Ready, IInv, ParameterInHand
    <3> QED BY <1>2, <2>1, <2>2, <2>3, <2>4, <2>5, <3>1, QuotedLemma
  <2>6. CASE m_state = "HexStringStart" /\ Goto("HexString", left)
    <3>1. CmdParam.type = "STR_HEX"
      BY <2>6 DEF Ready, IInv, ParameterInHand
    <3> QED BY <1>2, <2>1, <2>2, <2>3, <2>4, <2>6, <3>1, QuotedLemma
  <2> QED BY <1>5, <2>5, <2>6 DEF OpenString
<1> QED BY <1>3, <1>4, <1>5
        DEF StateStringStart, StateHexStringStart, StateQuote

LEMMA StateStringLemma ==
    ASSUME Ready, pc = "ret", NEW c \in Char, NEW left \in Nat, StateString(c, left)
    PROVE  HandlerPost
<1>1. m_state = "String"
  BY DEF StateString
<1>2. /\ IsLeaf(m_trie) /\ Cmd.write /\ m_param_index < Cmd.count
      /\ CmdParam.type = "STR" /\ m_num > 0 /\ m_num \in Nat
  BY <1>1, ParamStatesLemma, InHandLemma, TypedLemma
     DEF Ready, IInv, ParameterInHand, RoomInField
<1>3. CASE FinalizeString(m_num) /\ Goto("StringEnd", left)
           /\ UNCHANGED <<m_parse_ok_index, m_trie>>
  <2>1. <<0>> \in Seq(Byte)
    BY DEF Byte
  <2>2. PutAt(0, <<0>>, m_num) /\ 0 \in Nat /\ KeepCommit
    BY <1>3 DEF FinalizeString, KeepCommit
  <2>3. BufferPost
    BY <1>2, <2>1, <2>2, BufferWritten
  <2> QED BY <1>2, <1>3, <2>3, ClosedLemma DEF FinalizeString
<1>4. CASE Fail(left)
  BY <1>4, FailLemma
<1>5. CASE /\ m_num # 1 /\ Put(<<c>>) /\ m_num' = m_num - 1 /\ Goto("String", left)
           /\ UNCHANGED <<m_parse_ok_index, m_param_index, m_nibble, m_trie>>
  <2>1. <<c>> \in Seq(Byte)
    BY DEF Char, Byte
  <2>2. BufferPost
    BY <1>5, <2>1, PutLemma DEF KeepCommit
  <2>3. m_num' \in Nat /\ m_num' > 0 /\ m_nibble' \in 0 .. NoNibble
    BY <1>2, <1>5, TypedLemma
  <2> QED BY <1>2, <1>5, <2>2, <2>3, QuotedLemma
<1> QED BY <1>3, <1>4, <1>5 DEF StateString

LEMMA HexDigitLemma ==
    ASSUME Ready, pc = "ret", m_state = "HexString", NEW c \in Char,
           NEW left \in Nat, HexDigit(c, left)
    PROVE  HandlerPost
<1>1. /\ IsLeaf(m_trie) /\ Cmd.write /\ m_param_index < Cmd.count
      /\ CmdParam.type = "STR_HEX"
      /\ m_num \in Nat /\ m_num <= CmdParam.size
      /\ m_nibble # NoNibble => m_num > 0
      /\ m_nibble \in 0 .. NoNibble
  BY ParamStatesLemma, InHandLemma, TypedLemma
     DEF Ready, IInv, ParameterInHand, RoomInField
<1>2. CmdParam.size \in Nat
  BY <1>1, ParameterLemma, TypedLemma DEF CmdParam
<1>3. CASE FailOn(c, left) \/ Fail(left)
  BY <1>3, FailOnLemma, FailLemma
<1>4. CASE /\ GetHex(c) # -1 /\ m_num # 0 /\ m_nibble' = GetHex(c)
           /\ Goto("HexString", left)
           /\ UNCHANGED <<bufVars, m_param_index, m_num, m_trie>>
  <2>1. m_nibble' \in 0 .. NoNibble /\ m_num' \in Nat /\ m_num' <= CmdParam.size
        /\ m_num' > 0
    BY <1>1, <1>4, DigitLemma DEF NoNibble
  <2>2. BufferPost
    BY <1>4, BufferKept
  <2> QED BY <1>1, <1>4, <2>1, <2>2, QuotedLemma
<1>5. CASE /\ GetHex(c) # -1 /\ m_nibble # NoNibble
           /\ Put(<<16 * m_nibble + GetHex(c)>>)
           /\ m_num' = m_num - 1 /\ m_nibble' = NoNibble
           /\ Goto("HexString", left)
           /\ UNCHANGED <<m_parse_ok_index, m_param_index, m_trie>>
  <2>1. 16 * m_nibble + GetHex(c) \in Byte
    BY <1>1, <1>5, DigitLemma DEF NoNibble, Byte
  <2>2. BufferPost
    <3>1. <<16 * m_nibble + GetHex(c)>> \in Seq(Byte)
      BY <2>1
    <3>2. KeepCommit
      BY <1>5 DEF KeepCommit
    <3> QED BY <1>5, <3>1, <3>2, PutLemma
  <2>3. m_num' \in Nat /\ m_num' <= CmdParam.size /\ NoNibble \in 0 .. NoNibble
    BY <1>1, <1>2, <1>5 DEF NoNibble
  <2> QED BY <1>1, <1>5, <2>2, <2>3, QuotedLemma
<1> QED BY <1>3, <1>4, <1>5 DEF HexDigit

LEMMA StateHexStringLemma ==
    ASSUME Ready, pc = "ret", NEW c \in Char, NEW left \in Nat, StateHexString(c, left)
    PROVE  HandlerPost
<1>1. m_state = "HexString"
  BY DEF StateHexString
<1>2. /\ IsLeaf(m_trie) /\ Cmd.write /\ m_param_index < Cmd.count
      /\ m_num \in Nat /\ m_num <= CmdParam.size
  BY <1>1, ParamStatesLemma, InHandLemma, TypedLemma DEF Ready, IInv, RoomInField
<1>3. CmdParam.size \in Nat /\ CmdParam.size < 65536
  BY <1>2, ParameterLemma, TypedLemma DEF CmdParam
<1>4. CASE Stay(left)
  BY <1>4, StayLemma
<1>5. CASE Fail(left)
  BY <1>5, FailLemma
<1>6. CASE FinalizeHexString(m_num, CmdParam.size) /\ Goto("StringEnd", left)
           /\ UNCHANGED <<m_parse_ok_index, m_trie>>
  <2>1. CmdParam.size - m_num \in Nat /\ CmdParam.size - m_num < 65536
    BY <1>2, <1>3
  <2>2. IdBytes(CmdParam.size - m_num) \in Seq(Byte)
    BY <2>1, IdBytesLemma
  <2>3. /\ PutAt(m_num, IdBytes(CmdParam.size - m_num), m_num + 2)
        /\ m_num + 2 \in Nat /\ KeepCommit
    BY <1>2, <1>6 DEF FinalizeHexString, KeepCommit
  <2>4. BufferPost
    BY <1>2, <2>2, <2>3, BufferWritten
  <2> QED BY <1>2, <1>6, <2>4, ClosedLemma DEF FinalizeHexString
<1>7. CASE HexDigit(c, left)
  BY <1>1, <1>7, HexDigitLemma
<1> QED BY <1>4, <1>5, <1>6, <1>7 DEF StateHexString

LEMMA StateStringEndLemma ==
    ASSUME Ready, pc = "ret", NEW c, NEW left \in Nat, StateStringEnd(c, left)
    PROVE  HandlerPost
<1>1. m_state = "StringEnd" /\ m_state \in FillStates /\ m_state \in ParamStates
  BY ParamStatesLemma DEF StateStringEnd
<1>2. IsLeaf(m_trie) /\ Cmd.write /\ m_param_index <= Cmd.count
  BY <1>1, InHandLemma
<1>3. CASE UNCHANGED <<bufVars, paramVars, m_trie>> /\ SetupParameterParser(left)
  <2>1. BufferPost
    BY <1>3, BufferKept
  <2> QED BY <1>2, <1>3, <2>1, TypedLemma, SetupLemma DEF paramVars
<1>4. CASE Finalize(left) /\ UNCHANGED <<m_cmdline, m_parse_index, paramVars>>
  <2>1. BufferPost
    BY <1>4, BufferKept DEF Finalize, bufVars
  <2> QED BY <1>1, <1>2, <1>4, <2>1, TypedLemma, FinalizeLemma DEF paramVars
<1>5. CASE Fail(left)
  BY <1>5, FailLemma
<1> QED BY <1>3, <1>4, <1>5 DEF StateStringEnd

LEMMA DispatchLemma ==
    ASSUME Ready, pc = "ret", NEW c \in Char, NEW left \in Nat, Dispatch(c, left)
    PROVE  HandlerPost
<1>1. CASE StateA(c, left) \/ StateT(c, left) \/ StateBody(c, left)
  BY <1>1, StateALemma, StateTLemma, StateBodyLemma
<1>2. CASE StateS(c, left) \/ StateSSet(c, left)
  BY <1>2, StateSLemma, StateSSetLemma
<1>3. CASE StateAmpersand(c, left) \/ StateBasicParameter(c, left)
  BY <1>3, StateAmpersandLemma, StateBasicParameterLemma
<1>4. CASE \/ StateExtended(c, left) \/ StateExtendedEq(c, left)
           \/ StateExtendedReadTest(c, left)
  BY <1>4, StateExtendedLemma, StateExtendedEqLemma, StateExtendedReadTestLemma
<1>5. CASE \E t \in NumTypes : StateNumStart(t, c, left) \/ StateNum(t, c, left)
  BY <1>5, StateNumStartLemma, StateNumLemma
<1>6. CASE StateStringStart(c, left) \/ StateHexStringStart(c, left)
  BY <1>6, StateQuoteLemma
<1>7. CASE \/ StateString(c, left) \/ StateHexString(c, left)
           \/ StateStringEnd(c, left)
  BY <1>7, StateStringLemma, StateHexStringLemma, StateStringEndLemma
<1>8. CASE StateError(c, left) \/ StateExecuting(c, left)
  BY <1>8, FailOnLemma, StayLemma DEF StateError, StateExecuting
<1> QED BY <1>1, <1>2, <1>3, <1>4, <1>5, <1>6, <1>7, <1>8 DEF Dispatch
-----------------------------------------------------------------------------
(* The steps. *)

(* What a handler establishes, with the bookkeeping, is the invariant.     *)
LEMMA PostLemma ==
    ASSUME Ready, pc # "exec", HandlerPost, cur' \in Char \cup {NoChar},
           pc' = "fill" \/ redo' > 0 => cur' \in Char,
           fault' \in Faults,
           fault' = "none" => m_parse_index' <= CmdlineSize
    PROVE  IInv' /\ (m_state = "T" \/ Grows)
<1>1. TypeOK'
  BY DEF HandlerPost, BufferPost, ParamPost, ExecPost, ControlPost, TypeOK,
         CmdlineTypeOK
<1>2. ControlOK'
  BY DEF HandlerPost, ControlPost, ControlOK
<1>3. IndicesOrdered'
  BY DEF HandlerPost, BufferPost, IndicesOrdered
<1>4. Suspended'
  <2> SUFFICES ASSUME m_state' = "Executing", pc' = "ret"
               PROVE  /\ m_last_result_code' = "ASYNC"
                      /\ m_exec_index' < m_parse_ok_index'
                      /\ CurrentCmdId' \in Asynchronous
    BY DEF Suspended
  <2>1. m_state = "Executing" /\ UNCHANGED lineVars
    BY DEF HandlerPost, ControlPost
  <2>2. pc = "ret"
    BY <2>1, StatesLemma DEF Ready, IInv, TypeOK, ControlOK, FillStates, ParamStates,
                             NumStates, StartStates
  <2>3. CurrentCmdId' = CurrentCmdId
    BY <2>1 DEF CurrentCmdId, lineVars
  <2> QED BY <2>1, <2>2, <2>3 DEF Ready, IInv, Suspended, lineVars
<1> QED BY <1>1, <1>2, <1>3, <1>4 DEF HandlerPost, BufferPost, ParamPost, IInv

LEMMA DispatchStep ==
    ASSUME Ready, pc = "ret", NEW c \in Char, NEW left \in Nat, Dispatch(c, left)
    PROVE  IInv' /\ (m_state = "T" \/ Grows)
<1>1. HandlerPost
  BY DispatchLemma
<1>2. m_parse_index' \in Nat /\ redo' \in Nat /\ CmdlineSize \in Nat
  BY <1>1, CmdlineSizeAssumption DEF HandlerPost, BufferPost, ControlPost
<1>3. /\ cur' = IF pc' = "fill" \/ redo' > 0 THEN c ELSE NoChar
      /\ fault' = IF m_parse_index' > CmdlineSize THEN "overrun" ELSE fault
  BY DEF Dispatch
<1>4. fault' \in Faults /\ (fault' = "none" => m_parse_index' <= CmdlineSize)
  BY <1>2, <1>3 DEF Ready, Faults
<1> QED BY <1>1, <1>3, <1>4, PostLemma

LEMMA FeedStep ==
    ASSUME Ready, NEW c \in Alphabet, Feed(c)
    PROVE  IInv' /\ (m_state = "T" \/ Grows)
<1> DEFINE d == IF m_state = "String" THEN c ELSE ToUpper(c)
<1>1. d \in Char
  BY AlphabetAssumption, ToUpperLemma
<1>2. Dispatch(d, 0) /\ pc = "ret"
  BY DEF Feed, Idle
<1> QED BY <1>1, <1>2, DispatchStep

LEMMA RedispatchStep ==
    ASSUME Ready, Redispatch
    PROVE  IInv' /\ (m_state = "T" \/ Grows)
<1>1. redo > 0 /\ redo \in Nat /\ cur \in Char /\ pc = "ret"
  BY DEF Redispatch, Ready, IInv, TypeOK, ControlOK
<1>2. Dispatch(cur, redo - 1) /\ redo - 1 \in Nat
  BY <1>1 DEF Redispatch
<1> QED BY <1>1, <1>2, DispatchStep

LEMMA FinalizeExtCmdStep ==
    ASSUME Ready, FinalizeExtCmd
    PROVE  IInv' /\ (m_state = "T" \/ Grows)
<1>1. /\ pc = "fill" /\ IsLeaf(m_trie) /\ Cmd.write
      /\ m_param_index \in Nat /\ Cmd.count \in Nat /\ m_param_index <= Cmd.count
      /\ m_state \in FillStates /\ cur \in Char /\ redo \in Nat
  BY CommandLemma, TypedLemma
     DEF FinalizeExtCmd, Ready, IInv, TypeOK, ControlOK, ParameterInHand
<1>2. HandlerPost /\ m_parse_index' <= CmdlineSize
  <2>1. CASE m_param_index = Cmd.count
    <3>1. UNCHANGED <<m_cmdline, m_parse_index, paramVars>> /\ Commit
      BY <2>1 DEF FinalizeExtCmd
    <3>2. BufferPost /\ m_parse_index' = m_parse_index
      BY <3>1, CommitLemma
    <3>3. CASE cur = m_s3 /\ (m_state = "Extended" \/ cur # SEMI)
      <4>1. Execute(FALSE, redo) /\ UNCHANGED m_trie
        BY <2>1, <3>3 DEF FinalizeExtCmd
      <4>2. HandlerPost
        BY <1>1, <3>1, <3>2, <4>1, ExecuteLemma, TypedLemma DEF paramVars
      <4> QED BY <3>2, <4>2, TypedLemma
    <3>4. CASE ~(cur = m_s3 /\ (m_state = "Extended" \/ cur # SEMI))
      <4>1. NextCommand(redo)
        BY <2>1, <3>4 DEF FinalizeExtCmd
      <4>2. HandlerPost
        BY <1>1, <3>1, <3>2, <4>1, NextCommandLemma
      <4> QED BY <3>2, <4>2, TypedLemma
    <3> QED BY <3>3, <3>4
  <2>2. CASE /\ m_param_index # Cmd.count
             /\ ~CmdParam.optional \/ ParameterOverflows(CmdParam)
    <3>1. Fail(redo) \/ (Execute(TRUE, redo) /\ Keep)
      BY <2>2 DEF FinalizeExtCmd
    <3>2. HandlerPost
      BY <1>1, <3>1, FailLemma, ExecuteKeepLemma
    <3>3. m_parse_index' = m_parse_index
      BY <3>1 DEF Fail, Keep, bufVars
    <3> QED BY <3>2, <3>3, TypedLemma
  <2>3. CASE /\ m_param_index # Cmd.count
             /\ CmdParam.optional /\ ~ParameterOverflows(CmdParam)
    <3>0. AddDefault(CmdParam) /\ Finalize(redo)
      BY <2>3 DEF FinalizeExtCmd
    <3>1. KeepCommit /\ m_param_index < Cmd.count
      BY <1>1, <2>3, <3>0 DEF Finalize, KeepCommit
    <3>2. /\ BufferPost
          /\ m_param_index' \in Nat /\ m_param_index' <= Cmd.count
          /\ m_num' \in Nat /\ m_nibble' \in 0 .. NoNibble
          /\ m_parse_index' <= m_parse_index + FieldSize(CmdParam)
      BY <1>1, <3>0, <3>1, AddDefaultLemma
    <3>3. HandlerPost
      BY <1>1, <3>0, <3>2, FinalizeLemma
    <3>4. FieldSize(CmdParam) \in Nat
      BY <1>1, <3>1, ParameterLemma DEF CmdParam
    <3>5. m_parse_index + FieldSize(CmdParam) <= CmdlineSize
      BY <2>3, <3>4, TypedLemma, CmdlineSizeAssumption
         DEF ParameterOverflows, Available
    <3>6. m_parse_index' \in Nat
      BY <3>2 DEF BufferPost
    <3> QED BY <3>2, <3>3, <3>4, <3>5, <3>6, TypedLemma, CmdlineSizeAssumption
  <2> QED BY <2>1, <2>2, <2>3
<1>3. /\ cur' = IF pc' = "fill" \/ redo' > 0 THEN cur ELSE NoChar
      /\ UNCHANGED fault
  BY DEF FinalizeExtCmd
<1> QED BY <1>1, <1>2, <1>3, PostLemma DEF Ready, Faults

(* Steps that leave the parser's variables alone. *)
LEMMA ExecutorStep ==
    ASSUME Ready, UNCHANGED ParserVars, ExecPost, m_state' \in {"A", "Executing"},
           pc' \in {"ret", "exec"}, pc' = "exec" => m_state' = "Executing",
           Suspended'
    PROVE  IInv' /\ Grows
<1>1. m_state' \in States \ ParamStates
  BY StatesLemma
<1>2. ParameterInHand' /\ RoomInField'
  BY <1>1, OutsideLemma
<1>3. TypeOK'
  BY <1>1 DEF Ready, IInv, TypeOK, CmdlineTypeOK, ExecPost, ParserVars, bufVars,
             paramVars
<1>4. IndicesOrdered' /\ Grows
  BY DEF Ready, IInv, TypeOK, CmdlineTypeOK, IndicesOrdered, Grows, ParserVars, bufVars
<1>5. ControlOK'
  BY DEF Ready, IInv, ControlOK, ParserVars
<1> QED BY <1>2, <1>3, <1>4, <1>5 DEF IInv

LEMMA CmdLengthLemma ==
    ASSUME NEW id \in CmdIds
    PROVE  CmdLength(id) \in Nat
<1>1. ASSUME NEW c \in ExtIndices, id = ExtId(c, "WRITE")
      PROVE  WriteSize(id \div 4) \in Nat
  <2>1. id \div 4 = c
    BY <1>1, SizesAssumption DEF ExtIndices, ExtId, CmdTypeCode, CmdTypes
  <2> QED BY <2>1, LayoutAssumption, ExtAssumption DEF WriteSize
<1>2. SLength \in Nat
  BY DEF SLength
<1> QED BY <1>1, <1>2 DEF CmdLength

(* The id of an S request is above those of the extended commands.         *)
LEMMA SIdLemma ==
    ASSUME NEW id, IsSCmd(id)
    PROVE  ~IsTest(id) /\ CmdLength(id) = SLength
<1>1. id = 4 * NExt /\ NExt \in Nat
  BY SizesAssumption DEF IsSCmd, BasicId, BasicOffset
<1>2. ASSUME NEW c \in ExtIndices, NEW t \in CmdTypes
      PROVE  id # ExtId(c, t)
  <2>1. CmdTypeCode[t] \in 0 .. 2 /\ c \in Nat /\ c + 1 <= NExt
    BY <1>1 DEF CmdTypes, CmdTypeCode, ExtIndices
  <2> QED BY <1>1, <2>1 DEF ExtId
<1>3. "TEST" \in CmdTypes /\ "WRITE" \in CmdTypes
  BY DEF CmdTypes
<1>4. ~IsTest(id) /\ ~\E c \in ExtIndices : id = ExtId(c, "WRITE")
  BY <1>2, <1>3 DEF IsTest
<1>5. ~(id > BasicOffset)
  BY <1>1 DEF BasicOffset
<1> QED BY <1>4, <1>5 DEF CmdLength

LEMMA ExecCommandStep ==
    ASSUME Ready, ExecCommand
    PROVE  IInv' /\ Grows
<1> DEFINE id   == CurrentCmdId
           next == m_exec_index + CmdLength(id)
<1>1. /\ m_exec_index \in Nat /\ m_parse_ok_index \in Nat
      /\ m_parse_ok_index <= CmdlineSize /\ CmdlineSize \in Nat
      /\ m_last_result_code \in ResultCodes /\ m_error \in BOOLEAN /\ m_s3 \in Byte
      /\ reply \in ResultCodes \cup {NoReply}
      /\ m_cmdline \in [0 .. CmdlineSize - 1 -> Byte \cup {Stale}]
  BY CmdlineSizeAssumption
     DEF Ready, IInv, TypeOK, CmdlineTypeOK, IndicesOrdered
<1>2. id \in CmdIds /\ next \in Nat /\ next <= m_parse_ok_index
  BY <1>1, CmdLengthLemma DEF ExecCommand, AtCommand
<1>3. m_state = "Executing" /\ pc = "exec"
  BY DEF ExecCommand, Ready, IInv, ControlOK
<1>4. m_s3' \in Byte
  <2>1. CASE IsSCmd(id) /\ SParameter = 131
    <3>1. SLength = 4
      BY <2>1 DEF SLength
    <3>2. CmdLength(id) = 4 /\ ~IsTest(id)
      BY <2>1, <3>1, SIdLemma
    <3>3. m_cmdline[m_exec_index + 4 - 1] # Stale /\ m_exec_index + 4 <= m_parse_ok_index
      BY <2>1, <3>2 DEF ExecCommand, AtCommand
    <3>4. m_cmdline[m_exec_index + 3] \in Byte
      BY <1>1, <3>3
    <3> QED BY <2>1, <3>2, <3>4 DEF ExecCommand
  <2>2. CASE ~(IsSCmd(id) /\ SParameter = 131)
    BY <1>1, <2>2 DEF ExecCommand
  <2> QED BY <2>1, <2>2
<1>5. PICK code \in ResultCodes : /\ HandleResult(code, next)
                                  /\ code = "ASYNC" => id \in Asynchronous
  BY DEF ExecCommand, MayReturn, ResultCodes
<1>6. /\ ExecPost /\ m_state' \in {"A", "Executing"} /\ pc' \in {"ret", "exec"}
      /\ pc' = "exec" => m_state' = "Executing"
  BY <1>1, <1>2, <1>3, <1>4, <1>5 DEF HandleResult, Answer, ExecPost, ResultCodes
<1>7. UNCHANGED ParserVars
  BY DEF ExecCommand
<1>8. Suspended'
  <2> SUFFICES ASSUME m_state' = "Executing", pc' = "ret"
               PROVE  /\ m_last_result_code' = "ASYNC"
                      /\ m_exec_index' < m_parse_ok_index'
                      /\ CurrentCmdId' \in Asynchronous
    BY DEF Suspended
  <2>1. /\ code = "ASYNC" /\ m_last_result_code' = "ASYNC"
        /\ m_exec_index' = m_exec_index
    BY <1>3, <1>5 DEF HandleResult, Answer
  <2>2. UNCHANGED <<m_cmdline, m_parse_ok_index>>
    BY <1>7 DEF ParserVars, bufVars
  <2>3. CurrentCmdId' = CurrentCmdId
    BY <2>1, <2>2 DEF CurrentCmdId
  <2>4. m_exec_index < m_parse_ok_index
    BY <1>1 DEF ExecCommand, AtCommand
  <2>5. CurrentCmdId \in Asynchronous
    BY <1>5, <2>1
  <2> QED BY <2>1, <2>2, <2>3, <2>4, <2>5
<1> QED BY <1>6, <1>7, <1>8, ExecutorStep

LEMMA OtherExecutorSteps ==
    ASSUME Ready, ExecEnd \/ Abort \/ \E id \in Asynchronous : Update(id)
    PROVE  IInv' /\ Grows
<1>1. /\ m_exec_index \in Nat /\ m_last_result_code \in ResultCodes
      /\ m_error \in BOOLEAN /\ m_s3 \in Byte
      /\ reply \in ResultCodes \cup {NoReply}
  BY DEF Ready, IInv, TypeOK, CmdlineTypeOK
<1>2. UNCHANGED ParserVars
  BY DEF ExecEnd, Abort, Update
<1>3. CASE ExecEnd
  <2>1. FinalCode \in ResultCodes
    BY <1>1 DEF FinalCode, ResultCodes
  <2>2. ExecPost /\ m_state' = "A" /\ pc' = "ret"
    BY <1>1, <1>3, <2>1 DEF ExecEnd, Answer, ExecPost
  <2>3. Suspended'
    BY <2>2 DEF Suspended
  <2> QED BY <1>2, <2>2, <2>3, ExecutorStep
<1>4. CASE Abort
  <2>1. /\ ExecPost /\ m_state' \in {"A", "Executing"} /\ pc' = "ret"
    BY <1>1, <1>4 DEF Abort, Idle, Answer, ExecPost, MayReturn, ResultCodes
  <2>2. m_state' = "Executing" =>
           pc = "ret" /\ m_state = "Executing" /\ m_last_result_code' = "ASYNC"
    BY <1>4 DEF Abort, Idle, Answer
  <2>3. UNCHANGED <<m_cmdline, m_parse_ok_index, m_exec_index>>
    BY <1>4 DEF Abort, ParserVars, bufVars
  <2>4. CurrentCmdId' = CurrentCmdId
    BY <2>3 DEF CurrentCmdId
  <2>5. Suspended'
    BY <2>2, <2>3, <2>4 DEF Ready, IInv, Suspended
  <2> QED BY <1>2, <2>1, <2>5, ExecutorStep
<1>5. CASE \E id \in Asynchronous : Update(id)
  <2>1. ExecPost /\ m_state' = "Executing" /\ pc' = "exec"
    BY <1>1, <1>5 DEF Update, execVars, ExecPost
  <2>2. Suspended'
    BY <2>1 DEF Suspended
  <2> QED BY <1>2, <2>1, <2>2, ExecutorStep
<1> QED BY <1>3, <1>4, <1>5

LEMMA InitLemma ==
    ASSUME Init
    PROVE  IInv
<1>1. TypeOK
  <2>1. m_cmdline \in [0 .. CmdlineSize - 1 -> Byte \cup {Stale}]
    BY DEF Init, CmdlineInit
  <2>2. m_s3 \in Byte /\ m_nibble \in 0 .. NoNibble
    BY DEF Init, CmdlineInit, CR, Byte, NoNibble
  <2>3. CmdlineTypeOK
    BY <2>1, <2>2 DEF Init, CmdlineInit, CmdlineTypeOK, ResultCodes, Faults
  <2>4. m_trie \in NamePrefixes /\ m_state \in States
    BY DEF Init, NamePrefixes, States
  <2> QED BY <2>3, <2>4 DEF Init, TypeOK
<1>2. ControlOK /\ ParameterInHand /\ RoomInField
  BY DEF Init, ControlOK, ParameterInHand, RoomInField, ParamStates, NumStates,
         StartStates
<1>3. IndicesOrdered
  BY CmdlineSizeAssumption DEF Init, CmdlineInit, IndicesOrdered
<1>4. Suspended
  BY DEF Init, Suspended
<1> QED BY <1>1, <1>2, <1>3, <1>4 DEF IInv

LEMMA NextLemma ==
    ASSUME IInv, Next
    PROVE  IInv' /\ (m_state = "T" \/ Grows)
<1>1. Ready
  BY DEF Ready, Next, Environment, Internal, Feed, Abort, Update, Idle, Redispatch,
         FinalizeExtCmd, ExecCommand, ExecEnd
<1>2. CASE \E c \in Alphabet : Feed(c)
  BY <1>1, <1>2, FeedStep
<1>3. CASE Redispatch
  BY <1>1, <1>3, RedispatchStep
<1>4. CASE FinalizeExtCmd
  BY <1>1, <1>4, FinalizeExtCmdStep
<1>5. CASE ExecCommand
  BY <1>1, <1>5, ExecCommandStep
<1>6. CASE ExecEnd \/ Abort \/ \E id \in Asynchronous : Update(id)
  BY <1>1, <1>6, OtherExecutorSteps
<1> QED BY <1>2, <1>3, <1>4, <1>5, <1>6 DEF Next, Environment, Internal

LEMMA StutterLemma ==
    ASSUME IInv, UNCHANGED vars
    PROVE  IInv' /\ Grows
BY DEF vars, serverVars, bufVars, paramVars, execVars, IInv, TypeOK, CmdlineTypeOK,
       ControlOK, ParameterInHand, RoomInField, IndicesOrdered, Grows, CmdParam, Cmd,
       Command, Suspended, CurrentCmdId
-----------------------------------------------------------------------------
(* The number being typed. *)

(* The overflow tests are exact: with a digit of the base in hand, each    *)
(* lets the digit through just when the number it makes still fits the     *)
(* accumulator.  The decimal one compares with a tenth of the largest      *)
(* number, 0x19999999, and a last digit of 5.                              *)
THEOREM OverflowTestsExact ==
    ASSUME NEW n \in Value, NEW c \in Char
    PROVE  /\ DecFits(n, c) <=> IsNumeric(c) /\ DecNext(n, c) \in Value
           /\ HexFits(n, c) <=> GetHex(c) # -1 /\ HexNext(n, c) \in Value
           /\ BinFits(n, c) <=> c \in {48, 49} /\ BinNext(n, c) \in Value
<1>1. n \in Nat /\ n <= NumMax /\ NumMax \in Nat
  BY NumMaxAssumption DEF Value
<1>2. DecFits(n, c) <=> IsNumeric(c) /\ DecNext(n, c) \in Value
  <2>1. PICK q \in Nat : NumMax = 10 * q + 5 /\ NumMax \div 10 = q
    <3>1. NumMax \div 10 \in Nat /\ NumMax = 10 * (NumMax \div 10) + 5
      BY NumMaxAssumption
    <3> QED BY <3>1
  <2>2. CASE IsNumeric(c)
    <3>1. GetNumeric(c) \in 0 .. 9
      BY <2>2 DEF GetNumeric, IsNumeric
    <3>2. PICK d \in 0 .. 9 : GetNumeric(c) = d
      BY <3>1
    <3>3. DecFits(n, c) <=> n < q \/ (n = q /\ d <= 5)
      BY <2>1, <3>2 DEF DecFits
    <3>4. DecNext(n, c) \in Value <=> 10 * n + d <= 10 * q + 5
      BY <1>1, <2>1, <3>2 DEF DecNext, Value
    <3>5. (n < q \/ (n = q /\ d <= 5)) <=> 10 * n + d <= 10 * q + 5
      BY <1>1
    <3> QED BY <2>2, <3>3, <3>4, <3>5
  <2>3. CASE ~IsNumeric(c)
    BY <2>3 DEF DecFits, GetNumeric
  <2> QED BY <2>2, <2>3
<1>3. HexFits(n, c) <=> GetHex(c) # -1 /\ HexNext(n, c) \in Value
  <2>1. PICK q \in Nat : NumMax = 16 * q + 15 /\ NumMax \div 16 = q
    <3>1. NumMax \div 16 \in Nat /\ NumMax = 16 * (NumMax \div 16) + 15
      BY NumMaxAssumption
    <3> QED BY <3>1
  <2>2. CASE GetHex(c) # -1
    <3>1. PICK d \in 0 .. 15 : GetHex(c) = d
      BY <2>2, DigitLemma, <1>1
    <3>2. HexNext(n, c) \in Value <=> 16 * n + d <= 16 * q + 15
      BY <1>1, <2>1, <3>1 DEF HexNext, Value
    <3> QED BY <1>1, <2>1, <2>2, <3>1, <3>2 DEF HexFits
  <2>3. CASE GetHex(c) = -1
    BY <2>3 DEF HexFits
  <2> QED BY <2>2, <2>3
<1>4. BinFits(n, c) <=> c \in {48, 49} /\ BinNext(n, c) \in Value
  <2>1. PICK q \in Nat : NumMax = 2 * q + 1 /\ NumMax \div 2 = q
    <3>1. NumMax \div 2 \in Nat /\ NumMax = 2 * (NumMax \div 2) + 1
      BY NumMaxAssumption
    <3> QED BY <3>1
  <2> QED BY <1>1, <2>1 DEF BinFits, BinNext, Value
<1> QED BY <1>2, <1>3, <1>4

NumberStates == {"S", "SSet", "BasicParameter", "NumDec", "NumHex", "NumBin"}

LEMMA NumberLeft ==
    ASSUME m_state' \notin NumberStates
    PROVE  NumberFits'
BY DEF NumberFits, NumberStates

LEMMA NumberReset ==
    ASSUME m_num' = 0
    PROVE  NumberFits'
BY NumMaxAssumption DEF NumberFits, Value

LEMMA NumberKept ==
    ASSUME NumberFits, m_num' = m_num, m_state' = m_state
    PROVE  NumberFits'
BY DEF NumberFits

LEMMA NumberEnd ==
    ASSUME NumberFits, NEW left, NEW c, NEW error,
           Stay(left) \/ Fail(left) \/ FailOn(c, left) \/ Execute(error, left)
             \/ NextCommand(left)
    PROVE  NumberFits'
<1>1. CASE Stay(left)
  BY <1>1, NumberKept DEF Stay, Goto, Keep, paramVars
<1>2. CASE Fail(left) \/ Execute(error, left) \/ NextCommand(left)
  BY <1>2, NumberLeft DEF Fail, Execute, NextCommand, Goto, NumberStates
<1>3. CASE FailOn(c, left)
  BY <1>3, NumberLeft DEF FailOn, Fail, Execute, Goto, NumberStates
<1> QED BY <1>1, <1>2, <1>3

LEMMA NumberSetup ==
    ASSUME Ready, IsLeaf(m_trie), m_trie' = m_trie, m_param_index' \in Nat, NEW left,
           SetupParameterParser(left)
    PROVE  NumberFits'
<1>1. m_state' \in StartStates \cup {"Error"}
  BY SetupState
<1> QED BY <1>1, NumberLeft DEF StartStates, NumberStates

(* Writing a default leaves the accumulator alone or empties it. *)
LEMMA NumberDefault ==
    ASSUME IsLeaf(m_trie), m_param_index \in Nat, m_param_index < Cmd.count,
           AddDefault(CmdParam)
    PROVE  m_num' \in {0, m_num}
<1>1. CmdParam.type \in ParamTypes
  BY ParameterLemma DEF CmdParam
<1> QED BY <1>1 DEF AddDefault, ParamTypes, NumTypes, AddNumericParameter,
                    AddDefaultString, AddDefaultHexString, paramVars

LEMMA NumberBasic ==
    ASSUME Ready, NumberFits, NEW c \in Char, NEW left,
           StateA(c, left) \/ StateT(c, left) \/ StateBody(c, left)
             \/ StateAmpersand(c, left) \/ StateBasicParameter(c, left)
    PROVE  NumberFits'
<1>1. ASSUME NEW def, NEW index, NEW entry, NEW committed,
             AddBasicCommand(def, index, entry, committed, left)
      PROVE  NumberFits'
  <2>1. m_state' = "Body" \/ m_num' = 0
    BY <1>1 DEF AddBasicCommand, Goto
  <2> QED BY <2>1, NumberLeft, NumberReset DEF NumberStates
<1>2. CASE StateA(c, left)
  BY <1>2, NumberLeft DEF StateA, Goto, NumberStates
<1>3. CASE StateT(c, left)
  BY <1>3, NumberEnd, NumberLeft DEF StateT, Goto, NumberStates
<1>4. CASE StateBody(c, left)
  <2>1. CASE IsAlphabetic(c) /\ BodyLetter(c, left)
    BY <2>1, <1>1, NumberEnd, NumberReset DEF BodyLetter
  <2>2. CASE ~(IsAlphabetic(c) /\ BodyLetter(c, left))
    <3>1. Stay(left) \/ Fail(left) \/ Execute(FALSE, left)
            \/ m_state' \in {"Ampersand", "Extended", "Error"}
      BY <1>4, <2>2 DEF StateBody, Goto
    <3> QED BY <3>1, NumberEnd, NumberLeft DEF NumberStates
  <2> QED BY <2>1, <2>2
<1>5. CASE StateAmpersand(c, left)
  BY <1>5, <1>1, NumberEnd DEF StateAmpersand
<1>6. CASE StateBasicParameter(c, left)
  <2>1. \/ Stay(left) \/ Fail(left) \/ Fail(left + 1)
        \/ m_state' = "Body"
        \/ DecFits(m_num, c) /\ NextDigit(DecNext(m_num, c), left)
    BY <1>6 DEF StateBasicParameter, Goto
  <2>2. CASE DecFits(m_num, c) /\ NextDigit(DecNext(m_num, c), left)
    <3>1. m_num \in Value
      BY <1>6 DEF StateBasicParameter, NumberFits
    <3>2. DecNext(m_num, c) \in Value
      BY <2>2, <3>1, OverflowTestsExact
    <3> QED BY <2>2, <3>2 DEF NextDigit, NumberFits
  <2> QED BY <2>1, <2>2, NumberEnd, NumberLeft DEF NumberStates
<1> QED BY <1>2, <1>3, <1>4, <1>5, <1>6

LEMMA NumberS ==
    ASSUME Ready, NumberFits, NEW c \in Char, NEW left,
           StateS(c, left) \/ StateSSet(c, left)
    PROVE  NumberFits'
<1>1. m_num \in Value
  BY DEF StateS, StateSSet, NumberFits
<1>2. ASSUME DecFits(m_num, c), NextDigit(DecNext(m_num, c), left)
      PROVE  NumberFits'
  <2>1. DecNext(m_num, c) \in Value
    BY <1>1, <1>2, OverflowTestsExact
  <2> QED BY <1>2, <2>1 DEF NextDigit, NumberFits
<1>3. ASSUME SRequest(c, left) PROVE NumberFits'
  <2>1. Fail(left) \/ m_state' = "Error" \/ m_num' = 0
    <3> DEFINE supported == m_num \in {3, 4}
               id == IF supported THEN IdBytes(BasicId(0)) ELSE <<>>
    <3>1. CASE supported /\ ~CommandFits
      BY <1>3, <3>1 DEF SRequest
    <3>2. CASE (supported => CommandFits) /\ Available < Len(id) + 1
      BY <1>3, <3>2 DEF SRequest, Goto
    <3>3. CASE (supported => CommandFits) /\ ~(Available < Len(id) + 1)
      <4>1. Available \in Int /\ Len(id) \in Nat
        BY CmdlineSizeAssumption, IdBytesLemma
           DEF Available, Ready, IInv, TypeOK, CmdlineTypeOK, IdBytes
      <4>2. Available >= Len(id) + 1
        BY <3>3, <4>1
      <4> HIDE DEF id, supported
      <4> QED BY <1>3, <3>3, <4>1, <4>2 DEF SRequest, id, supported
    <3> QED BY <3>1, <3>2, <3>3
  <2> QED BY <2>1, NumberEnd, NumberLeft, NumberReset DEF NumberStates
<1>4. CASE StateS(c, left)
  BY <1>2, <1>3, <1>4, NumberEnd DEF StateS
<1>5. CASE StateSSet(c, left)
  <2>1. \/ Stay(left) \/ Fail(left + 1) \/ m_state' = "Body"
        \/ DecFits(m_num, c) /\ NextDigit(DecNext(m_num, c), left)
    BY <1>5 DEF StateSSet, Goto
  <2> QED BY <1>2, <2>1, NumberEnd, NumberLeft DEF NumberStates
<1> QED BY <1>4, <1>5

LEMMA NumberExtended ==
    ASSUME Ready, IInv', NumberFits, NEW c \in Char, NEW left,
           StateExtended(c, left) \/ StateExtendedEq(c, left)
             \/ StateExtendedReadTest(c, left)
    PROVE  NumberFits'
<1>1. CASE StateExtended(c, left)
  <2>1. m_state = "Extended"
    BY <1>1 DEF StateExtended
  <2>2. m_state' \notin NumberStates
    BY <1>1, <2>1 DEF StateExtended, Stay, Goto, AddReadTest, Fail, ExtendedEnd, FailOn,
                      Execute, Finalize, NumberStates
  <2> QED BY <2>2, NumberLeft
<1>2. CASE StateExtendedEq(c, left)
  <2>1. \/ Stay(left) \/ Fail(left) \/ AddReadTest("TEST", left)
        \/ SetupParameterParser(left + 1) /\ IsLeaf(m_trie) /\ UNCHANGED m_trie
    BY <1>2 DEF StateExtendedEq
  <2>2. m_param_index' \in Nat
    BY DEF IInv, TypeOK, CmdlineTypeOK
  <2>3. AddReadTest("TEST", left) => m_state' \notin NumberStates
    BY DEF AddReadTest, Goto, NumberStates
  <2> QED BY <2>1, <2>2, <2>3, NumberEnd, NumberLeft, NumberSetup
<1>3. CASE StateExtendedReadTest(c, left)
  BY <1>3, NumberEnd DEF StateExtendedReadTest
<1> QED BY <1>1, <1>2, <1>3

LEMMA NumberParameter ==
    ASSUME Ready, pc = "ret", IInv', NumberFits, NEW t \in NumTypes, NEW c \in Char, NEW left,
           StateNumStart(t, c, left) \/ StateNum(t, c, left)
    PROVE  NumberFits'
<1>1. /\ IsLeaf(m_trie) /\ m_param_index \in Nat /\ m_param_index < Cmd.count
      /\ m_param_index' \in Nat
  BY InHandLemma, ParamStatesLemma
     DEF StateNumStart, StateNum, IInv, TypeOK, CmdlineTypeOK
<1>2. ASSUME NEW n \in Value, ProcessDigit(t, n, c, left)
      PROVE  NumberFits'
  <2>1. CASE DigitFits(t, n, c) /\ m_num' = DigitNext(t, n, c)
    <3>1. DigitNext(t, n, c) \in Value
      BY <2>1, OverflowTestsExact DEF DigitFits, DigitNext, NumTypes
    <3> QED BY <2>1, <3>1 DEF NumberFits
  <2>2. CASE Fail(left)
    BY <2>2, NumberEnd
  <2> QED BY <1>2, <2>1, <2>2 DEF ProcessDigit
<1>3. CASE StateNumStart(t, c, left)
  <2>1. 0 \in Value
    BY NumMaxAssumption DEF Value
  <2>2. ASSUME ProcessDefaultParameter(c, left) PROVE NumberFits'
    <3>1. \/ Stay(left) \/ Fail(left)
          \/ SetupParameterParser(left) /\ UNCHANGED m_trie
          \/ Finalize(left) /\ UNCHANGED paramVars
      BY <2>2 DEF ProcessDefaultParameter
    <3>2. CASE Finalize(left) /\ UNCHANGED paramVars
      BY <3>2, NumberKept DEF Finalize, paramVars
    <3> QED BY <1>1, <3>1, <3>2, NumberEnd, NumberSetup
  <2> QED BY <1>2, <1>3, <2>1, <2>2 DEF StateNumStart
<1>4. CASE StateNum(t, c, left)
  <2>1. m_num \in Value
    BY <1>4 DEF StateNum, NumState, NumTypes, NumberFits
  <2>2. ASSUME NumericParameterEnd(c, left) PROVE NumberFits'
    <3>1. \/ AddNumericParameter(m_num) \/ Fail(left) \/ Execute(TRUE, left)
      BY <2>2 DEF NumericParameterEnd
    <3> QED BY <3>1, NumberEnd, NumberReset DEF AddNumericParameter
  <2> QED BY <1>2, <1>4, <2>1, <2>2 DEF StateNum
<1> QED BY <1>3, <1>4

LEMMA NumberQuoted ==
    ASSUME Ready, pc = "ret", IInv', NumberFits, NEW c \in Char, NEW left,
           StateStringStart(c, left) \/ StateHexStringStart(c, left)
             \/ StateString(c, left) \/ StateHexString(c, left)
             \/ StateStringEnd(c, left)
    PROVE  NumberFits'
<1>1. IsLeaf(m_trie) /\ m_param_index' \in Nat
  BY InHandLemma, ParamStatesLemma
     DEF StateStringStart, StateHexStringStart, StateString, StateHexString, StateQuote,
         StateStringEnd, IInv, TypeOK, CmdlineTypeOK, StartStates
<1>2. m_state \notin NumberStates
  BY DEF StateStringStart, StateHexStringStart, StateString, StateHexString, StateQuote,
         StateStringEnd, NumberStates
<1>3. ASSUME SetupParameterParser(left), UNCHANGED m_trie PROVE NumberFits'
  BY <1>1, <1>3, NumberSetup
<1>4. ASSUME m_state' \in {"Error", "Executing", "String", "HexString", "StringEnd", m_state}
      PROVE  NumberFits'
  BY <1>2, <1>4, NumberLeft DEF NumberStates
<1>5. ASSUME NEW start, NEW state \in {"String", "HexString"},
             StateQuote(start, state, c, left)
      PROVE  NumberFits'
  BY <1>3, <1>4, <1>5 DEF StateQuote, ProcessDefaultParameter, Stay, Fail, Goto, Finalize,
                          OpenString
<1>6. CASE StateString(c, left)
  BY <1>4, <1>6 DEF StateString, Goto, Fail
<1>7. CASE StateHexString(c, left)
  BY <1>4, <1>7 DEF StateHexString, HexDigit, FailOn, Execute, Stay, Goto, Fail
<1>8. CASE StateStringEnd(c, left)
  BY <1>3, <1>4, <1>8 DEF StateStringEnd, Finalize, Goto, Fail
<1> QED BY <1>5, <1>6, <1>7, <1>8 DEF StateStringStart, StateHexStringStart

LEMMA NumberNext ==
    ASSUME IInv, IInv', Next, NumberFits
    PROVE  NumberFits'
<1>1. Ready
  BY DEF Ready, Next, Environment, Internal, Feed, Abort, Update, Idle, Redispatch,
         FinalizeExtCmd, ExecCommand, ExecEnd
<1>2. ASSUME NEW c \in Char, NEW left, Dispatch(c, left), pc = "ret" PROVE NumberFits'
  BY <1>1, <1>2, NumberBasic, NumberS, NumberExtended, NumberParameter, NumberQuoted, NumberEnd
     DEF Dispatch, StateError, StateExecuting
<1>3. CASE \E c \in Alphabet : Feed(c)
  BY <1>2, <1>3, AlphabetAssumption, ToUpperLemma DEF Feed, Idle
<1>4. CASE Redispatch
  BY <1>2, <1>4 DEF Redispatch, Ready, IInv, TypeOK, ControlOK
<1>5. CASE FinalizeExtCmd
  <2>1. CASE Fail(redo) \/ Execute(TRUE, redo) \/ Execute(FALSE, redo) \/ NextCommand(redo)
    BY <2>1, NumberEnd
  <2>2. CASE m_param_index # Cmd.count /\ AddDefault(CmdParam) /\ Finalize(redo)
    <3>1. /\ IsLeaf(m_trie) /\ m_param_index \in Nat /\ Cmd.count \in Nat
          /\ m_param_index <= Cmd.count
      BY <1>1, <1>5, CommandLemma, TypedLemma
         DEF FinalizeExtCmd, Ready, IInv, ParameterInHand
    <3>2. m_num' \in {0, m_num}
      BY <2>2, <3>1, NumberDefault
    <3>3. m_state' = m_state
      BY <2>2 DEF Finalize
    <3> QED BY <3>2, <3>3, NumberReset, NumberKept
  <2> QED BY <1>5, <2>1, <2>2 DEF FinalizeExtCmd
<1>6. CASE ExecCommand \/ ExecEnd \/ Abort \/ \E id \in Asynchronous : Update(id)
  <2>1. m_state' \in {m_state, "A"} /\ m_num' = m_num
    BY <1>6 DEF ExecCommand, ExecEnd, Abort, Update, HandleResult, Answer, ParserVars, paramVars
  <2> QED BY <2>1, NumberKept, NumberLeft DEF NumberStates
<1> QED BY <1>3, <1>4, <1>5, <1>6 DEF Next, Environment, Internal
-----------------------------------------------------------------------------
(* The theorems. *)

THEOREM InvariantHolds == Spec => []IInv
<1>1. Init => IInv
  BY InitLemma
<1>2. IInv /\ [Next]_vars => IInv'
  BY NextLemma, StutterLemma
<1> QED BY <1>1, <1>2, PTL DEF Spec

(* Whatever is fed and whatever handlers do, no counter of the server goes *)
(* negative, no state, command or parameter is looked up outside its       *)
(* table, and the buffer holds bytes only.                                 *)
THEOREM TypeCorrect == Spec => []TypeOK
<1>1. IInv => TypeOK
  BY DEF IInv
<1> QED BY <1>1, InvariantHolds, PTL

(* A suspended line waits for a command whose handler may be asynchronous  *)
(* and has not been passed yet, so the completion of that handler, which   *)
(* names the command by its id, resumes the line.                          *)
THEOREM SuspendedLineWaits == Spec => []WaitsForCommand
<1>1. IInv => WaitsForCommand
  BY DEF IInv, Suspended, WaitsForCommand, Idle
<1> QED BY <1>1, InvariantHolds, PTL

(* While a line is entered, run, suspended or aborted, the commands parsed *)
(* so far stay as they are: no handler of the parser writes below the end  *)
(* of the last complete command or takes that end back.                    *)
THEOREM CommittedStays == Spec => CommittedStable
<1> DEFINE Stable == m_state # "T" =>
             /\ m_parse_ok_index' >= m_parse_ok_index
             /\ \A i \in 0 .. m_parse_ok_index - 1 : m_cmdline'[i] = m_cmdline[i]
<1>1. IInv /\ [Next]_vars => [Stable]_vars
  BY NextLemma DEF Grows
<1>2. CommittedStable <=> [][Stable]_vars
  BY DEF CommittedStable
<1> QED BY <1>1, <1>2, InvariantHolds, PTL DEF Spec

(* Whatever is typed, and wherever a number is typed, the accumulator      *)
(* holds the number that was typed: it never wraps round at 32 bits.       *)
THEOREM NumbersFit == Spec => []NumberFits
<1>1. Init => NumberFits
  BY DEF Init, CmdlineInit, NumberFits
<1>2. IInv /\ NumberFits /\ [Next]_vars => NumberFits'
  <2>1. UNCHANGED vars /\ NumberFits => NumberFits'
    BY NumberKept DEF vars, paramVars, serverVars
  <2> QED BY <2>1, NumberNext, NextLemma
<1> QED BY <1>1, <1>2, InvariantHolds, PTL DEF Spec
=============================================================================
