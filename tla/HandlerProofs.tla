---------------------------- MODULE HandlerProofs ----------------------------
(***************************************************************************)
(* What handlers see, for every command table, buffer and alphabet.        *)
(* Handles adds what was typed to the state of the server and takes none   *)
(* of its steps away, so what is proved of Server holds of it.             *)
(*                                                                         *)
(* A handler is given what was typed because of TextInv, which follows the *)
(* text of a command into the buffer:                                      *)
(*  - TInv, while a command is entered: the parts of what was typed so far *)
(*    are held by the fields behind the command id (FieldsHeld), the last  *)
(*    of them as far as its state has read it (InField): the value of its  *)
(*    digits, or its letters, or the pairs of its digits;                  *)
(*  - LineText, once it is complete: every command of the committed part   *)
(*    holds what was entered for it, wherever it is in the line (Meaning). *)
(* Digits, letters and pairs grow by one character in each step, so the    *)
(* operators that read a text are first given their value one character    *)
(* later (ReadingAppend, ValueAppend).                                     *)
(*                                                                         *)
(* What a handler prints for such values can be typed again: the digits of *)
(* a number come out in their order (NumberPrinted), no text ends the part *)
(* it is printed in (ReadOn, ReadQuoted), and the commas between them do.  *)
(***************************************************************************)
EXTENDS Handles, ServerExecutionProofs, SequenceTheorems

LEMMA HandlesStep ==
    ASSUME [HandlesNext]_hvars
    PROVE  [Next]_vars
BY DEF HandlesNext, hvars, Next, Environment

(* What is typed is only recorded: every behaviour of Handles is one of    *)
(* the server.                                                             *)
THEOREM HandlesImplementServer == HandlesSpec => Spec
<1>1. HandlesInit => Init
  BY DEF HandlesInit
<1>2. [HandlesNext]_hvars => [Next]_vars
  BY HandlesStep
<1> QED BY <1>1, <1>2, PTL DEF HandlesSpec, Spec
-----------------------------------------------------------------------------
(* The last command of a line. *)

(* A line that runs and was not refused has been committed in full. *)
RunsWhole == m_state = "Executing" /\ ~m_error => m_parse_ok_index = m_parse_index

(* "A/" runs the last line again, as far as it was committed: it is left   *)
(* out of what is typed.                                                   *)
NoRepeat == cur # SLASH

LEMMA DispatchOpens ==
    ASSUME m_state \in {"A", "T"}, NEW c, c # SLASH, NEW left, Dispatch(c, left)
    PROVE  m_state' # "Executing"
<1>1. StateA(c, left) \/ StateT(c, left)
  BY ParamStatesLemma
     DEF Dispatch, StateBody, StateS, StateSSet, StateAmpersand, StateBasicParameter,
         StateExtended, StateExtendedEq, StateExtendedReadTest, StateNumStart, StateNum,
         StateStringStart, StateHexStringStart, StateQuote, StateString, StateHexString,
         StateStringEnd, StateError, StateExecuting, NumStates
<1> QED BY <1>1 DEF StateA, StateT, Stay, Goto

LEMMA RunsWholeNext ==
    ASSUME IInv, IInv', LInv, NoRepeat, RunsWhole, SLASH \notin Alphabet, Next
    PROVE  NoRepeat' /\ RunsWhole'
<1>1. Ready
  BY NextReady
<1>2. ASSUME NEW c, c # SLASH, NEW left, Dispatch(c, left)
      PROVE  NoRepeat' /\ (m_state \in {"A", "T", "Executing"} => RunsWhole')
  <2>1. NoRepeat'
    BY <1>2 DEF Dispatch, NoRepeat, NoChar, SLASH
  <2>2. CASE m_state \in {"A", "T"}
    BY <1>2, <2>1, <2>2, DispatchOpens DEF RunsWhole
  <2>3. CASE m_state = "Executing"
    <3>1. Stay(left)
      BY <1>2, <2>3, DispatchWaits
    <3>2. UNCHANGED <<m_state, m_error, m_parse_ok_index, m_parse_index>>
      BY <3>1 DEF Stay, Goto, Keep, execVars, bufVars
    <3> QED BY <2>1, <2>3, <3>2 DEF RunsWhole
  <2> QED BY <2>1, <2>2, <2>3
<1>3. CASE m_state \in Entry
  <2>1. RunsWhole'
    BY <1>3, NextSubmits DEF RunsWhole, Submitted
  <2>2. NoRepeat'
    <3>1. CASE \E c \in Alphabet : Feed(c)
      <4>1. PICK c \in Alphabet : Feed(c)
        BY <3>1
      <4>2. PICK d : d = IF m_state = "String" THEN c ELSE ToUpper(c)
        OBVIOUS
      <4>3. d # SLASH /\ Dispatch(d, 0)
        BY <4>1, <4>2, AlphabetAssumption DEF Feed, ToUpper, IsLower, SLASH, Char
      <4> QED BY <4>3, <1>2
    <3>2. CASE Redispatch
      <4>1. PICK left : left = redo - 1
        OBVIOUS
      <4>2. Dispatch(cur, left)
        BY <3>2, <4>1 DEF Redispatch
      <4> QED BY <4>2, <1>2 DEF NoRepeat
    <3>3. CASE FinalizeExtCmd
      BY <3>3 DEF FinalizeExtCmd, NoRepeat, NoChar, SLASH
    <3>4. CASE ExecCommand \/ ExecEnd \/ Abort \/ \E id \in Asynchronous : Update(id)
      BY <3>4 DEF ExecCommand, ExecEnd, Abort, Update, ParserVars, NoRepeat
    <3> QED BY <3>1, <3>2, <3>3, <3>4 DEF Next, Environment, Internal
  <2> QED BY <2>1, <2>2
<1>4. CASE m_state \in {"A", "T", "Executing"}
  <2>1. CASE \E c \in Alphabet : Feed(c)
    <3>1. PICK c \in Alphabet : Feed(c)
      BY <2>1
    <3>2. PICK d : d = IF m_state = "String" THEN c ELSE ToUpper(c)
      OBVIOUS
    <3>3. d # SLASH /\ Dispatch(d, 0)
      BY <3>1, <3>2, AlphabetAssumption DEF Feed, ToUpper, IsLower, SLASH, Char
    <3> QED BY <3>3, <1>2, <1>4
  <2>2. CASE Redispatch
    <3>1. PICK left : left = redo - 1
      OBVIOUS
    <3>2. Dispatch(cur, left)
      BY <2>2, <3>1 DEF Redispatch
    <3> QED BY <3>2, <1>2, <1>4 DEF NoRepeat
  <2>3. CASE FinalizeExtCmd
    <3>1. m_state \in FillStates
      BY <2>3 DEF FinalizeExtCmd, IInv, ControlOK
    <3> QED BY <1>4, <3>1 DEF FillStates, ParamStates, NumStates, StartStates
  <2>4. CASE ExecCommand \/ ExecEnd \/ Abort \/ \E id \in Asynchronous : Update(id)
    <3>1. /\ NoRepeat' /\ UNCHANGED <<m_parse_ok_index, m_parse_index>>
          /\ m_state' \in {m_state, "A"} /\ (m_error' = m_error \/ m_error' = TRUE)
      BY <2>4 DEF ExecCommand, ExecEnd, Abort, Update, ParserVars, NoRepeat, HandleResult,
                  Answer, execVars, bufVars
    <3> QED BY <3>1, <1>4 DEF RunsWhole
  <2> QED BY <2>1, <2>2, <2>3, <2>4 DEF Next, Environment, Internal
<1> QED BY <1>3, <1>4 DEF IInv, TypeOK, Entry

(* The next command is no further than the committed part goes, and the    *)
(* parse index, which is_last_command looks at, is no nearer.              *)
LEMMA ToldIsLast ==
    ASSUME IInv, WInv, m_state = "Executing", fault = "none",
           m_exec_index # m_parse_ok_index, IsLastCommand
    PROVE  m_exec_index + CmdLength(CurrentCmdId) = m_parse_ok_index
<1>1. PICK places \in SUBSET Nat :
         Chain(m_cmdline, m_parse_ok_index, places) /\ m_exec_index \in places
  BY DEF WInv, Line
<1>2. LengthAt(m_cmdline, m_exec_index) = CmdLength(CurrentCmdId)
  BY DEF IdAt, CurrentCmdId, LengthAt, LengthOf, CmdLength, SLength, SParameter
<1>3. m_exec_index + CmdLength(CurrentCmdId) \in 0 .. m_parse_ok_index
  BY <1>1, <1>2 DEF Chain
<1>4. m_parse_ok_index \in Nat /\ m_parse_index \in Nat /\ m_parse_ok_index <= m_parse_index
  BY DEF IInv, TypeOK, CmdlineTypeOK, IndicesOrdered
<1> QED BY <1>3, <1>4 DEF IsLastCommand

(* A handler is told that its command is the last, which the server finds  *)
(* by looking at the parse index, only if it is the last that was          *)
(* committed, and if the line was not refused it is told so, under the     *)
(* hypotheses of WholeCommandsRun and if no line is repeated with "A/".    *)
THEOREM LastCommandKnown ==
    ASSUME Meant, SLASH \notin Alphabet
    PROVE  HandlesSpec => []LastCommandTold
<1>1. Init => LInv /\ NoRepeat /\ RunsWhole
  BY DEF Init, CmdlineInit, LInv, CommandStart, Aligned, ParamStates, NumStates,
         StartStates, BetweenCommands, NoRepeat, RunsWhole, NoChar, SLASH
<1>2. IInv /\ LInv /\ [Next]_vars => LInv'
  BY NextPreserves, StutterPreserves DEF Preserved, KeepsLayout, Meant
<1>3. IInv /\ IInv' /\ LInv /\ NoRepeat /\ RunsWhole /\ [Next]_vars
         => NoRepeat' /\ RunsWhole'
  <2>1. UNCHANGED vars /\ NoRepeat /\ RunsWhole => NoRepeat' /\ RunsWhole'
    BY DEF vars, serverVars, bufVars, execVars, NoRepeat, RunsWhole
  <2> QED BY <2>1, RunsWholeNext DEF Meant
<1>4. IInv /\ WInv /\ RunsWhole => LastCommandTold
  BY ToldIsLast DEF RunsWhole, LastCommandTold, IsLastCommand
<1> QED BY <1>1, <1>2, <1>3, <1>4, HandlesImplementServer, LineHolds, PTL DEF Spec
-----------------------------------------------------------------------------
(* Arguments. *)

(* Between a number and a parameter a handler asks for are numbers only,   *)
(* of four bytes each.                                                     *)
LEMMA NumbersBehind ==
    ASSUME NEW c \in Writable, NEW k \in Params(c), NEW j \in 0 .. k - 1, IsNumber(c, j)
    PROVE  ParamOffset[c][k] - ParamOffset[c][j] = 4 + BaseOffsetCalc(j + 1, k)
<1> DEFINE P == ParamOffset[c]
           T == {i \in j .. k : P[i] = P[j] + 4 * (i - j)}
<1>1. ExtCmds[c].count \in Nat /\ c \in ExtIndices
  BY ExtAssumption DEF Writable
<1>2. k \in Nat /\ j \in Nat /\ j < k /\ k < ExtCmds[c].count
  BY <1>1 DEF Params
<1>3. P[j] \in Nat
  BY <1>1, <1>2, OffsetsAscend
<1>4. ASSUME NEW i \in j .. k - 1, i \in T PROVE i + 1 \in T
  <2>1. i \in Params(c) /\ j \in Params(c) /\ i \in Nat /\ i < k
    BY <1>1, <1>2 DEF Params
  <2>2. IsNumber(c, i)
    BY <1>2, <2>1, OffsetAssumption DEF OffsetsCompile
  <2>3. P[i + 1] = P[i] + 4
    <3>1. FieldSize(ExtCmds[c].params[i]) = 4
      BY <2>2 DEF FieldSize, IsNumber, NumTypes
    <3>2. P[i + 1] = P[i] + FieldSize(ExtCmds[c].params[i])
      BY <1>1, <2>1, LayoutAssumption
    <3> QED BY <3>1, <3>2
  <2>4. P[i] = P[j] + 4 * (i - j)
    BY <1>4
  <2> QED BY <1>2, <1>3, <2>1, <2>3, <2>4
<1>5. j \in T
  BY <1>2, <1>3
<1>6. k \in T
  <2> HIDE DEF T
  <2>1. j .. k \subseteq T
    BY <1>2, <1>4, <1>5, IntervalInduction
  <2> QED BY <1>2, <2>1
<1>7. P[k] = P[j] + 4 * (k - j)
  BY <1>6
<1> QED BY <1>2, <1>3, <1>7 DEF BaseOffsetCalc

(* The offset the templates add up is where the parser begins the field:   *)
(* two bytes of id before the first.                                       *)
LEMMA OffsetCalcLemma ==
    ASSUME NEW c \in Writable, NEW k \in Params(c)
    PROVE  OffsetCalc(c, k) \in Nat /\ 2 + OffsetCalc(c, k) = ParamOffset[c][k]
<1> DEFINE P == ParamOffset[c]
           F(j) == FieldSize(ExtCmds[c].params[j])
           B(j) == 4 + BaseOffsetCalc(j + 1, k)
           N(j) == IsNumber(c, j)
           Unfold(g) == [j \in 0 .. k |-> IF j = k THEN 0
                                           ELSE IF N(j) THEN B(j) ELSE F(j) + g[j + 1]]
           offset == CHOOSE g : g = Unfold(g)
           rest == [j \in 0 .. k |-> P[k] - P[j]]
<1>12. c \in ExtIndices /\ k \in 0 .. ExtCmds[c].count /\ k < ExtCmds[c].count
  BY ExtAssumption DEF Writable, Params
<1>1. ExtCmds[c].count \in Nat /\ k \in Nat /\ P[0] = 2
  BY <1>12, ExtAssumption, LayoutAssumption
<1>2. \A j \in 0 .. k : P[j] \in Nat /\ P[j] <= P[k] /\ 2 <= P[j]
  <2>1. ASSUME NEW j \in 0 .. k
        PROVE  P[j] \in Nat /\ P[j] <= P[k] /\ 2 <= P[j]
    <3>1. j \in 0 .. ExtCmds[c].count /\ k \in j .. ExtCmds[c].count
      BY <1>12, <1>1
    <3> QED BY <1>12, <3>1, OffsetsAscend
  <2> QED BY <2>1
<1>3. \A j \in 0 .. k - 1 : P[j + 1] = P[j] + F(j) /\ F(j) \in Nat
  <2>1. ASSUME NEW j \in 0 .. k - 1
        PROVE  P[j + 1] = P[j] + F(j) /\ F(j) \in Nat
    <3>1. j \in Params(c)
      BY <1>12, <1>1 DEF Params
    <3>2. P[j + 1] = P[j] + F(j)
      BY <1>12, <3>1, LayoutAssumption
    <3>3. F(j) \in Nat
      BY <1>12, <3>1, ParamAssumption, SMTT(20) DEF FieldSize, ParamTypes, NumTypes
    <3> QED BY <3>2, <3>3
  <2> QED BY <2>1
<1>11. \A j \in 0 .. k - 1 : N(j) => P[k] - P[j] = B(j)
  BY NumbersBehind
<1> HIDE DEF P, F, B, N
<1>4. rest = Unfold(rest)
  <2>1. ASSUME NEW j \in 0 .. k
        PROVE  rest[j] = IF j = k THEN 0 ELSE IF N(j) THEN B(j) ELSE F(j) + rest[j + 1]
    <3>1. CASE j = k
      BY <1>1, <1>2, <3>1
    <3>2. CASE j # k
      <4>1. j \in 0 .. k - 1 /\ j + 1 \in 0 .. k
        BY <1>1, <3>2
      <4>2. P[j] \in Nat /\ P[j + 1] \in Nat /\ P[k] \in Nat /\ F(j) \in Nat
            /\ P[j + 1] = P[j] + F(j)
        BY <1>1, <1>2, <1>3, <4>1
      <4>3. P[k] - P[j] = F(j) + (P[k] - P[j + 1])
        BY <4>2
      <4> QED BY <1>11, <3>2, <4>1, <4>3
    <3> QED BY <3>1, <3>2
  <2>2. rest = [j \in 0 .. k |-> rest[j]]
    OBVIOUS
  <2> HIDE DEF rest
  <2> QED BY <2>1, <2>2
<1>5. offset = Unfold(offset)
  <2> HIDE DEF rest, Unfold
  <2> QED BY <1>4
<1>6. \A j \in 0 .. k : offset[j] = IF j = k THEN 0
                                   ELSE IF N(j) THEN B(j) ELSE F(j) + offset[j + 1]
  <2> HIDE DEF offset
  <2> QED BY <1>5
<1> DEFINE T == {i \in 0 .. k : offset[k - i] = P[k] - P[k - i]}
<1>7. 0 .. k \subseteq T
  <2>1. 0 \in T
    <3>1. k \in 0 .. k /\ k - 0 = k /\ P[k] - P[k] = 0
      BY <1>1, <1>2
    <3> QED BY <1>1, <1>6, <3>1
  <2>2. ASSUME NEW i \in 0 .. k - 1, i \in T
        PROVE  i + 1 \in T
    <3>1. PICK j : j = k - (i + 1)
      OBVIOUS
    <3>2. j \in 0 .. k - 1 /\ j \in 0 .. k /\ j # k /\ j + 1 = k - i /\ j + 1 \in 0 .. k
          /\ i + 1 \in 0 .. k
      BY <1>1, <3>1
    <3>3. /\ offset[j] = IF N(j) THEN B(j) ELSE F(j) + offset[j + 1]
          /\ offset[j + 1] = P[k] - P[j + 1]
      BY <1>6, <2>2, <3>2
    <3>4. P[j] \in Nat /\ P[j + 1] \in Nat /\ P[k] \in Nat /\ F(j) \in Nat
          /\ P[j + 1] = P[j] + F(j)
      BY <1>1, <1>2, <1>3, <3>2
    <3>5. offset[j] = P[k] - P[j]
      BY <1>11, <3>2, <3>3, <3>4
    <3> QED BY <3>1, <3>2, <3>5
  <2> HIDE DEF T
  <2> QED BY <1>1, <2>1, <2>2, IntervalInduction
<1>8. offset[0] = P[k] - 2
  <2>1. k \in T
    <3> HIDE DEF T
    <3> QED BY <1>1, <1>7
  <2>2. k - k = 0
    BY <1>1
  <2>3. offset[k - k] = P[k] - P[k - k]
    BY <2>1
  <2> QED BY <1>1, <2>2, <2>3
<1>9. OffsetCalc(c, k) = offset[0]
  BY DEF OffsetCalc, F, B, N
<1>10. P[k] \in Nat /\ 2 <= P[k]
  BY <1>1, <1>2
<1> HIDE DEF offset
<1> QED BY <1>8, <1>9, <1>10 DEF P

(* Four bytes make the number again. *)
LEMMA NumBytesBack ==
    ASSUME NEW v \in Value
    PROVE  v = NumBytes(v)[1] + 256 * NumBytes(v)[2]
                 + 65536 * NumBytes(v)[3] + 16777216 * NumBytes(v)[4]
<1>1. v \in Nat /\ v \div 16777216 < 256
  BY NumMaxAssumption DEF Value
<1>2. PICK a, b, d : a = v \div 256 /\ b = v \div 65536 /\ d = v \div 16777216
  OBVIOUS
<1>3. /\ a \in Nat /\ b \in Nat /\ d \in Nat /\ d % 256 = d
      /\ v = 256 * a + (v % 256) /\ a = 256 * b + (a % 256) /\ b = 256 * d + (b % 256)
  BY <1>1, <1>2
<1>4. v = (v % 256) + 256 * (a % 256) + 65536 * (b % 256) + 16777216 * (d % 256)
  BY <1>1, <1>3
<1> QED BY <1>2, <1>4 DEF NumBytes

(* What a handler reads from a field that holds a value of its parameter.  *)
LEMMA NumberRead ==
    ASSUME NEW at \in Nat, NEW p, p.type \in NumTypes, p.ranges # {},
           Filled(m_cmdline, at, p)
    PROVE  Allowed(ToldLimits(p), GetNumeric_(at))
<1>1. PICK v \in Value : /\ ValidateRanges(p.ranges, v)
                         /\ \A k \in 0 .. 3 : m_cmdline[at + k] = NumBytes(v)[k + 1]
  BY DEF Filled
<1>2. /\ m_cmdline[at] = NumBytes(v)[1] /\ m_cmdline[at + 1] = NumBytes(v)[2]
      /\ m_cmdline[at + 2] = NumBytes(v)[3] /\ m_cmdline[at + 3] = NumBytes(v)[4]
  <2>1. /\ 0 \in 0 .. 3 /\ 1 \in 0 .. 3 /\ 2 \in 0 .. 3 /\ 3 \in 0 .. 3 /\ at + 0 = at
        /\ 0 + 1 = 1 /\ 1 + 1 = 2 /\ 2 + 1 = 3 /\ 3 + 1 = 4
    OBVIOUS
  <2> QED BY <1>1, <2>1
<1>3. GetNumeric_(at) = v
  BY <1>2, NumBytesBack DEF GetNumeric_
<1>4. ToldLimits(p) = [kind |-> "ranges", ranges |-> p.ranges]
  BY DEF ToldLimits, NumTypes
<1>5. \E r \in p.ranges : r[1] <= v /\ v <= r[2]
  BY <1>1 DEF ValidateRanges
<1> QED BY <1>3, <1>4, <1>5 DEF Allowed

LEMMA StringRead ==
    ASSUME NEW at \in Nat, NEW p, p.type = "STR", p.size \in Nat,
           at + p.size <= CmdlineSize, Filled(m_cmdline, at, p)
    PROVE  Allowed(ToldLimits(p), GetString(at))
<1> DEFINE First(i) == m_cmdline[i] = 0 /\ \A j \in at .. i - 1 : m_cmdline[j] # 0
           nul == CHOOSE i \in at .. CmdlineSize - 1 : First(i)
           Zeros == {i \in at .. CmdlineSize - 1 : m_cmdline[i] = 0}
<1>1. PICK k \in 0 .. p.size - 1 : m_cmdline[at + k] = 0
  BY DEF Filled
<1>2. CmdlineSize \in Nat /\ at + k \in Zeros /\ Zeros \subseteq Nat
  BY <1>1, CmdlineSizeAssumption
<1>3. PICK least \in Zeros : \A i \in Zeros : least <= i
  <2> HIDE DEF Zeros
  <2> QED BY <1>2, LeastMember
<1>4. least \in at .. CmdlineSize - 1 /\ First(least)
  BY <1>2, <1>3
<1>5. nul \in at .. CmdlineSize - 1 /\ First(nul)
  <2> HIDE DEF First
  <2> QED BY <1>4
<1>6. nul <= at + k
  <2> SUFFICES ASSUME nul > at + k PROVE FALSE
    BY <1>2, <1>5
  <2>1. at + k \in at .. nul - 1
    BY <1>2, <1>5
  <2> QED BY <1>1, <1>5, <2>1
<1>7. GetString(at) = [i \in 1 .. nul - at |-> m_cmdline[at + i - 1]]
  BY DEF GetString
<1>8. PICK n \in Nat : n = nul - at /\ n <= p.size - 1
  <2> HIDE DEF nul
  <2> QED BY <1>2, <1>5, <1>6
<1>9. Len(GetString(at)) = n
  <2> HIDE DEF nul
  <2> QED BY <1>7, <1>8
<1>10. ToldLimits(p) = [kind |-> "s", max |-> p.size - 1]
  BY DEF ToldLimits, NumTypes
<1> QED BY <1>8, <1>9, <1>10 DEF Allowed

LEMMA HexStringRead ==
    ASSUME NEW at \in Nat, NEW p, p.type = "STR_HEX", p.size \in Nat, p.size < 65536,
           Filled(m_cmdline, at, p)
    PROVE  Allowed(ToldLimits(p), GetHexString(at, p.size))
<1>1. PICK n \in 0 .. p.size : /\ m_cmdline[at + p.size] = IdBytes(n)[1]
                               /\ m_cmdline[at + p.size + 1] = IdBytes(n)[2]
  BY DEF Filled
<1>2. n \in Nat /\ n < 65536 /\ n <= p.size
  OBVIOUS
<1>3. m_cmdline[at + p.size] + 256 * m_cmdline[at + p.size + 1] = n
  BY <1>1, <1>2, IdBytesBack
<1>4. Len(GetHexString(at, p.size)) = n
  BY <1>2, <1>3 DEF GetHexString
<1>5. ToldLimits(p) = [kind |-> "hs", max |-> p.size]
  BY DEF ToldLimits, NumTypes
<1> QED BY <1>2, <1>4, <1>5 DEF Allowed

(* Where a write handler runs stands a whole command of its, with a value  *)
(* of its parameter in every field.                                        *)
LEMMA WriteFields ==
    ASSUME IInv, WInv, WriteRuns
    PROVE  /\ Written \in Writable /\ m_exec_index \in Nat
           /\ Fields(m_cmdline, m_exec_index, Written, ExtCmds[Written].count)
           /\ m_exec_index + WriteSize(Written) <= CmdlineSize
<1>1. PICK places \in SUBSET Nat :
         Chain(m_cmdline, m_parse_ok_index, places) /\ m_exec_index \in places
  BY DEF WInv, WriteRuns, Line
<1>2. CommandAt(m_cmdline, m_parse_ok_index, m_exec_index)
  BY <1>1 DEF Chain, WriteRuns
<1>3. PICK c \in Writable : IdBytes(ExtId(c, "WRITE")) =
                               <<m_cmdline[m_exec_index], m_cmdline[m_exec_index + 1]>>
  BY DEF WriteRuns, IsWriteAt
<1>4. c \in ExtIndices /\ "WRITE" \in CmdTypes
  BY DEF Writable, CmdTypes
<1>5. PICK id : id = ExtId(c, "WRITE")
  OBVIOUS
<1>6. id \in Nat /\ id < 65536 /\ id \div 4 = c
  BY <1>4, <1>5, ExtIdLemma, SizesAssumption DEF BasicOffset
<1>7. m_cmdline[m_exec_index] + 256 * m_cmdline[m_exec_index + 1] = id
  <2>1. PICK b1, b2 : b1 = m_cmdline[m_exec_index] /\ b2 = m_cmdline[m_exec_index + 1]
    OBVIOUS
  <2>2. IdBytes(id) = <<b1, b2>>
    BY <1>3, <1>5, <2>1
  <2>3. IdBytes(id)[1] = b1 /\ IdBytes(id)[2] = b2
    BY <2>2
  <2> QED BY <1>6, <2>1, <2>3, IdBytesBack
<1>8. Written = c /\ IdAt(m_cmdline, m_exec_index) = id
  BY <1>6, <1>7 DEF Written, TableAt, IdAt
<1>9. Fields(m_cmdline, m_exec_index, c, ExtCmds[c].count)
  BY <1>2, <1>4, <1>5, <1>8 DEF CommandAt, FieldsAt
<1>10. m_exec_index + WriteSize(c) <= m_parse_ok_index
  <2>1. LengthAt(m_cmdline, m_exec_index) = WriteSize(c)
    BY <1>4, <1>5, <1>8, LengthLemma DEF LengthAt
  <2> QED BY <1>2, <2>1 DEF CommandAt
<1>11. /\ m_parse_ok_index \in Nat /\ CmdlineSize \in Nat /\ m_parse_ok_index <= CmdlineSize
  <2>1. Ready
    BY DEF Ready, WriteRuns
  <2> QED BY <2>1, IndexLemma DEF IInv, IndicesOrdered
<1>12. WriteSize(c) \in Nat /\ m_exec_index \in Nat
  BY <1>1, CommandsFitBuffer
<1> QED BY <1>8, <1>9, <1>10, <1>11, <1>12

LEMMA ArgumentAllowed ==
    ASSUME IInv, WInv, WriteRuns, NEW k \in Params(Written)
    PROVE  Allowed(ToldLimits(ExtCmds[Written].params[k]), Arguments[k])
<1> DEFINE c  == Written
           p  == ExtCmds[c].params[k]
           at == m_exec_index + 2 + OffsetCalc(c, k)
<1>1. /\ c \in ExtIndices /\ c \in Writable /\ m_exec_index \in Nat /\ ExtCmds[c].count \in Nat
      /\ Fields(m_cmdline, m_exec_index, c, ExtCmds[c].count)
      /\ m_exec_index + WriteSize(c) <= CmdlineSize
  BY WriteFields, ExtAssumption DEF Writable
<1>2. Arguments[k] = CASE p.type \in NumTypes -> GetNumeric_(at)
                       [] p.type = "STR"      -> GetString(at)
                       [] p.type = "STR_HEX"  -> GetHexString(at, p.size)
  BY DEF Arguments, Argument
<1> HIDE DEF c
<1>3. k \in 0 .. ExtCmds[c].count - 1 /\ k \in 0 .. ExtCmds[c].count
      /\ k + 1 \in 0 .. ExtCmds[c].count /\ ExtCmds[c].count \in k + 1 .. ExtCmds[c].count
  BY <1>1 DEF Params, c
<1>4. /\ OffsetCalc(c, k) \in Nat /\ 2 + OffsetCalc(c, k) = ParamOffset[c][k]
      /\ ParamOffset[c][k] \in Nat
  BY <1>1, <1>3, OffsetCalcLemma, OffsetsAscend DEF Params
<1>5. at \in Nat /\ at = m_exec_index + ParamOffset[c][k]
  BY <1>1, <1>4
<1>6. Filled(m_cmdline, at, p)
  BY <1>1, <1>3, <1>5 DEF Fields
<1>7. k \in Params(c)
  BY <1>3 DEF Params
<1>8. /\ p.type \in ParamTypes /\ p.size \in Nat /\ p.size < 65536
      /\ p.type \in NumTypes => p.ranges # {}
  BY <1>1, <1>7, ParamAssumption
<1>9. p.type = "STR" => at + p.size <= CmdlineSize
  <2>1. /\ ParamOffset[c][k + 1] \in Nat /\ ParamOffset[c][k + 1] <= WriteSize(c)
        /\ WriteSize(c) \in Nat
    BY <1>1, <1>3, OffsetsAscend DEF WriteSize
  <2>2. ParamOffset[c][k + 1] = ParamOffset[c][k] + FieldSize(p)
    BY <1>1, <1>7, LayoutAssumption
  <2>3. p.type = "STR" => FieldSize(p) = p.size
    BY DEF FieldSize, NumTypes
  <2> QED BY <1>1, <1>4, <1>5, <1>8, <2>1, <2>2, <2>3, CmdlineSizeAssumption
<1> HIDE DEF p, at
<1>10. "STR" \notin NumTypes /\ "STR_HEX" \notin NumTypes /\ "STR" # "STR_HEX"
  BY DEF NumTypes
<1>11. CASE p.type \in NumTypes
  <2>1. Arguments[k] = GetNumeric_(at)
    BY <1>2, <1>10, <1>11
  <2> QED BY <1>5, <1>6, <1>8, <1>11, <2>1, NumberRead DEF p, c
<1>12. CASE p.type = "STR"
  <2>1. Arguments[k] = GetString(at)
    BY <1>2, <1>10, <1>12
  <2> QED BY <1>5, <1>6, <1>8, <1>9, <1>12, <2>1, StringRead DEF p, c
<1>13. CASE p.type = "STR_HEX"
  <2>1. Arguments[k] = GetHexString(at, p.size)
    BY <1>2, <1>10, <1>13
  <2> QED BY <1>5, <1>6, <1>8, <1>13, <2>1, HexStringRead DEF p, c
<1> QED BY <1>8, <1>11, <1>12, <1>13 DEF ParamTypes

(* The handler of a write command is given a number inside the ranges, a   *)
(* text no longer and bytes no more than the answer to the test command    *)
(* says: the parser refused what is not, what it wrote behind the number,  *)
(* the NUL or the size left it alone, and the offsets of the parameter     *)
(* list are those the parser wrote at.  For every table and buffer, if no  *)
(* hex string can be left out, no ampersand command comes without a number *)
(* and S parameters are typed as WholeCommandsRun says.                    *)
THEOREM ArgumentsAllowed ==
    ASSUME Meant
    PROVE  HandlesSpec => []WithinToldLimits
<1>1. IInv /\ WInv => WithinToldLimits
  BY ArgumentAllowed DEF WithinToldLimits
<1> QED BY <1>1, HandlesImplementServer, LineHolds, PTL
-----------------------------------------------------------------------------
(* Induction up to n, with the hypothesis under a name. *)
Climbs(T, n) == 0 \in T /\ \A i \in 0 .. n - 1 : i \in T => i + 1 \in T

LEMMA Climb ==
    ASSUME NEW n \in Nat, NEW T, Climbs(T, n)
    PROVE  0 .. n \subseteq T
<1>1. 0 \in T /\ \A i \in 0 .. n - 1 : i \in T => i + 1 \in T
  BY DEF Climbs
<1> QED BY <1>1, IntervalInduction

(* Recursion along a text.  A function given by its value at 0 and by each *)
(* value from the one before exists; F stands for the step.                *)
Steps(F, n, V) == \A k \in 1 .. n : \A u \in V : F[k][u] \in V
Stepwise(g, v, F, n, V) ==
    /\ g \in [0 .. n -> V] /\ g[0] = v
    /\ \A k \in 1 .. n : g[k] = F[k][g[k - 1]]

LEMMA Recursion ==
    ASSUME NEW n \in Nat, NEW V, NEW v \in V, NEW F, Steps(F, n, V)
    PROVE  \E g : Stepwise(g, v, F, n, V)
<1> DEFINE Upto(m, g) == /\ g \in [0 .. n -> V] /\ g[0] = v
                         /\ \A k \in 1 .. m : g[k] = F[k][g[k - 1]]
           T == {m \in 0 .. n : \E g : Upto(m, g)}
<1>1. 0 \in T
  <2>1. PICK g : g = [k \in 0 .. n |-> v]
    OBVIOUS
  <2>2. Upto(0, g)
    BY <2>1
  <2> QED BY <2>2
<1>2. ASSUME NEW m \in 0 .. n - 1, m \in T PROVE m + 1 \in T
  <2>1. PICK g : Upto(m, g)
    BY <1>2
  <2>2. m + 1 \in 1 .. n /\ m \in 0 .. n
    OBVIOUS
  <2>3. PICK u \in V : u = F[m + 1][g[m]]
    BY <2>1, <2>2 DEF Steps
  <2>4. PICK f : f = [k \in 0 .. n |-> IF k = m + 1 THEN u ELSE g[k]]
    OBVIOUS
  <2>5. f \in [0 .. n -> V] /\ f[0] = v
    BY <2>1, <2>4
  <2>6. ASSUME NEW k \in 1 .. m + 1 PROVE f[k] = F[k][f[k - 1]]
    <3>1. f[k - 1] = g[k - 1]
      BY <2>2, <2>4
    <3>2. CASE k = m + 1
      <4>1. f[k] = u /\ f[k - 1] = g[m]
        BY <2>2, <2>4, <3>1, <3>2
      <4> QED BY <2>3, <3>2, <4>1
    <3>3. CASE k # m + 1
      <4>1. k \in 1 .. m /\ f[k] = g[k]
        BY <2>2, <2>4, <3>3
      <4> QED BY <2>1, <3>1, <4>1
    <3> QED BY <3>2, <3>3
  <2>7. Upto(m + 1, f)
    BY <2>5, <2>6
  <2> HIDE DEF Upto
  <2> QED BY <2>2, <2>7
<1>3. 0 .. n \subseteq T
  <2>1. Climbs(T, n)
    <3> HIDE DEF T
    <3> QED BY <1>1, <1>2 DEF Climbs
  <2> HIDE DEF T
  <2> QED BY <2>1, Climb
<1>4. n \in T
  <2> HIDE DEF T
  <2> QED BY <1>3
<1> QED BY <1>4 DEF Stepwise

-----------------------------------------------------------------------------
(* The parts of a text. *)
Readings == [parts : Seq(Seq(Int)) \ {<<>>}, quoted : BOOLEAN]
Fresh    == [parts |-> << <<>> >>, quoted |-> FALSE]

LEMMA NextPartType ==
    ASSUME NEW r \in Readings, NEW c \in Int
    PROVE  NextPart(r, c) \in Readings
<1> DEFINE ps == r.parts
<1>1. ps \in Seq(Seq(Int)) /\ ps # <<>> /\ r.quoted \in BOOLEAN /\ Len(ps) \in 1 .. Len(ps)
  BY DEF Readings
<1>2. CASE c = COMMA /\ ~r.quoted
  <2>1. NextPart(r, c) = [parts |-> Append(ps, <<>>), quoted |-> r.quoted]
    BY <1>2 DEF NextPart, Readings
  <2>2. Append(ps, <<>>) \in Seq(Seq(Int)) \ {<<>>}
    BY <1>1
  <2> QED BY <1>1, <2>1, <2>2 DEF Readings
<1>3. CASE ~(c = COMMA /\ ~r.quoted)
  <2> DEFINE last == Append(ps[Len(ps)], c)
             more == [ps EXCEPT ![Len(ps)] = last]
  <2>1. NextPart(r, c) = [parts |-> more,
                          quoted |-> IF c = DQUOTE THEN ~r.quoted ELSE r.quoted]
    BY <1>3 DEF NextPart
  <2>2. last \in Seq(Int)
    BY <1>1
  <2>3. more \in Seq(Seq(Int)) \ {<<>>}
    <3> HIDE DEF last
    <3> QED BY <1>1, <2>2
  <2>4. (IF c = DQUOTE THEN ~r.quoted ELSE r.quoted) \in BOOLEAN
    BY <1>1
  <2> HIDE DEF more
  <2> QED BY <2>1, <2>3, <2>4 DEF Readings
<1> QED BY <1>2, <1>3

(* f is what has been read of a text after each of its characters. *)
ReadAlong(f, text) ==
    /\ f \in [0 .. Len(text) -> Readings] /\ f[0] = Fresh
    /\ \A i \in 1 .. Len(text) : f[i] = NextPart(f[i - 1], text[i])

LEMMA ReadingSteps ==
    ASSUME NEW text \in Seq(Int)
    PROVE  \E f : ReadAlong(f, text) /\ Reading(text) = f[Len(text)]
<1> DEFINE n == Len(text)
           Unfold(g) == [i \in 0 .. n |-> IF i = 0 THEN Fresh ELSE NextPart(g[i - 1], text[i])]
           F == [k \in 1 .. n |-> [u \in Readings |-> NextPart(u, text[k])]]
           read == CHOOSE g : g = Unfold(g)
<1>0. n \in Nat /\ Fresh \in Readings
  BY DEF Fresh, Readings
<1>1. Steps(F, n, Readings)
  <2>1. ASSUME NEW k \in 1 .. n, NEW u \in Readings PROVE F[k][u] \in Readings
    <3>1. text[k] \in Int
      OBVIOUS
    <3> QED BY <3>1, NextPartType
  <2> HIDE DEF F
  <2> QED BY <2>1 DEF Steps
<1>2. PICK g : Stepwise(g, Fresh, F, n, Readings)
  <2> HIDE DEF F, n
  <2> QED BY <1>0, <1>1, Recursion
<1>3. g = Unfold(g)
  <2>1. g = [i \in 0 .. n |-> g[i]] /\ g[0] = Fresh
    BY <1>2 DEF Stepwise
  <2>2. ASSUME NEW i \in 1 .. n PROVE g[i] = NextPart(g[i - 1], text[i])
    <3>1. g[i - 1] \in Readings /\ g[i] = F[i][g[i - 1]]
      <4>1. i \in 1 .. n /\ i - 1 \in 0 .. n
        BY <1>0
      <4> HIDE DEF F, n
      <4> QED BY <1>2, <4>1 DEF Stepwise
    <3> QED BY <3>1
  <2>3. ASSUME NEW i \in 0 .. n
        PROVE  g[i] = IF i = 0 THEN Fresh ELSE NextPart(g[i - 1], text[i])
    <3>1. i = 0 \/ i \in 1 .. n
      BY <1>0
    <3> HIDE DEF n
    <3> QED BY <2>1, <2>2, <3>1
  <2> HIDE DEF n, F
  <2> QED BY <2>1, <2>3
<1>4. read = Unfold(read)
  <2> HIDE DEF Unfold
  <2> QED BY <1>3
<1>5. \A i \in 0 .. n : read[i] = IF i = 0 THEN Fresh ELSE NextPart(read[i - 1], text[i])
  <2> HIDE DEF read
  <2> QED BY <1>4
<1>6. read = [i \in 0 .. n |-> read[i]]
  <2> HIDE DEF read
  <2> QED BY <1>4
<1>7. Reading(text) = read[n]
  BY DEF Reading, Fresh
<1> HIDE DEF read, F
<1>8. \A i \in 0 .. n : read[i] \in Readings
  <2> DEFINE T == {i \in 0 .. n : read[i] \in Readings}
  <2>1. 0 \in T
    BY <1>0, <1>5
  <2>2. ASSUME NEW i \in 0 .. n - 1, i \in T PROVE i + 1 \in T
    <3>1. i + 1 \in 1 .. n /\ (i + 1) - 1 = i /\ i + 1 # 0
      BY <1>0
    <3>2. read[i + 1] = NextPart(read[i], text[i + 1]) /\ text[i + 1] \in Int
      BY <1>0, <1>5, <3>1
    <3> QED BY <2>2, <3>1, <3>2, NextPartType
  <2>3. 0 .. n \subseteq T
    <3>1. n \in Nat /\ (\A i \in 0 .. n - 1 : i \in T => i + 1 \in T)
      BY <1>0, <2>2
    <3> HIDE DEF T, n
    <3>2. Climbs(T, n)
      BY <2>1, <3>1 DEF Climbs
    <3> QED BY <3>1, <3>2, Climb
  <2> QED BY <2>3
<1>9. ReadAlong(read, text)
  <2>1. read \in [0 .. n -> Readings]
    BY <1>6, <1>8
  <2>2. read[0] = Fresh /\ \A i \in 1 .. n : read[i] = NextPart(read[i - 1], text[i])
    BY <1>0, <1>5
  <2> QED BY <2>1, <2>2 DEF ReadAlong
<1> QED BY <1>7, <1>9

LEMMA ReadingEmpty == Reading(<<>>) = Fresh
<1>1. <<>> \in Seq(Int) /\ Len(<<>>) = 0
  OBVIOUS
<1> QED BY <1>1, ReadingSteps DEF ReadAlong

LEMMA ReadingAppend ==
    ASSUME NEW text \in Seq(Int), NEW c \in Int
    PROVE  /\ Reading(text) \in Readings
           /\ Reading(Append(text, c)) = NextPart(Reading(text), c)
<1> DEFINE n == Len(text)
           more == Append(text, c)
<1>1. PICK f : ReadAlong(f, text) /\ Reading(text) = f[n]
  BY ReadingSteps
<1>2. more \in Seq(Int) /\ Len(more) = n + 1 /\ n \in Nat /\ more[n + 1] = c
      /\ \A i \in 1 .. n : more[i] = text[i]
  OBVIOUS
<1> HIDE DEF more, n
<1>3. PICK g : ReadAlong(g, more) /\ Reading(more) = g[n + 1]
  BY <1>2, ReadingSteps
<1> DEFINE T == {i \in 0 .. n : f[i] = g[i]}
<1>4. 0 \in T
  BY <1>1, <1>2, <1>3 DEF ReadAlong
<1>5. ASSUME NEW i \in 0 .. n - 1, i \in T PROVE i + 1 \in T
  <2>1. i + 1 \in 1 .. n /\ i + 1 \in 1 .. n + 1 /\ (i + 1) - 1 = i
    BY <1>2
  <2>2. f[i + 1] = NextPart(f[i], text[i + 1])
    BY <1>1, <2>1 DEF ReadAlong, n
  <2>3. g[i + 1] = NextPart(g[i], more[i + 1])
    BY <1>2, <1>3, <2>1 DEF ReadAlong
  <2> QED BY <1>2, <1>5, <2>1, <2>2, <2>3
<1>6. 0 .. n \subseteq T
  <2>1. n \in Nat
    BY <1>2
  <2> HIDE DEF T
  <2>2. Climbs(T, n)
    BY <1>4, <1>5 DEF Climbs
  <2> QED BY <2>1, <2>2, Climb
<1>7. f[n] = g[n]
  BY <1>2, <1>6
<1>8. g[n + 1] = NextPart(g[n], c)
  <2>1. n + 1 \in 1 .. Len(more) /\ (n + 1) - 1 = n
    BY <1>2
  <2> QED BY <1>2, <1>3, <2>1 DEF ReadAlong
<1>9. f[n] \in Readings
  BY <1>1, <1>2 DEF ReadAlong, n
<1> QED BY <1>1, <1>3, <1>7, <1>8, <1>9 DEF more
-----------------------------------------------------------------------------
(* The number a text stands for. *)
LEMMA HexInt == \A c \in Int : GetHex(c) \in -1 .. 15
BY DEF GetHex, IsNumeric

ValueAlong(f, text, base) ==
    /\ f \in [0 .. Len(text) -> Int] /\ f[0] = 0
    /\ \A i \in 1 .. Len(text) : f[i] = base * f[i - 1] + GetHex(text[i])

LEMMA ValueSteps ==
    ASSUME NEW text \in Seq(Int), NEW base \in Nat
    PROVE  \E f : ValueAlong(f, text, base) /\ ValueOf(text, base) = f[Len(text)]
<1> DEFINE n == Len(text)
           Next1(u, k) == base * u + GetHex(text[k])
           Unfold(g) == [i \in 0 .. n |-> IF i = 0 THEN 0 ELSE Next1(g[i - 1], i)]
           F == [k \in 1 .. n |-> [u \in Int |-> Next1(u, k)]]
           value == CHOOSE g : g = Unfold(g)
<1>0. n \in Nat
  OBVIOUS
<1>1. \A k \in 1 .. n : \A u \in Int : Next1(u, k) \in Int
  <2>1. ASSUME NEW k \in 1 .. n, NEW u \in Int PROVE Next1(u, k) \in Int
    <3>1. GetHex(text[k]) \in Int /\ base * u \in Int
      BY HexInt
    <3> QED BY <3>1
  <2> QED BY <2>1
<1> HIDE DEF Next1
<1>2. PICK g : Stepwise(g, 0, F, n, Int)
  <2>1. Steps(F, n, Int)
    <3> HIDE DEF n
    <3> QED BY <1>1 DEF Steps
  <2>2. 0 \in Int
    OBVIOUS
  <2> HIDE DEF F, n
  <2> QED BY <1>0, <2>1, <2>2, Recursion
<1>3. g = Unfold(g)
  <2>1. g = [i \in 0 .. n |-> g[i]] /\ g[0] = 0
    BY <1>2 DEF Stepwise
  <2>2. ASSUME NEW i \in 1 .. n PROVE g[i] = Next1(g[i - 1], i)
    <3>1. g[i - 1] \in Int /\ g[i] = F[i][g[i - 1]]
      <4>1. i \in 1 .. n /\ i - 1 \in 0 .. n
        BY <1>0
      <4> HIDE DEF F, n
      <4> QED BY <1>2, <4>1 DEF Stepwise
    <3> QED BY <3>1
  <2>3. ASSUME NEW i \in 0 .. n
        PROVE  g[i] = IF i = 0 THEN 0 ELSE Next1(g[i - 1], i)
    <3>1. i = 0 \/ i \in 1 .. n
      BY <1>0
    <3> HIDE DEF n
    <3> QED BY <2>1, <2>2, <3>1
  <2> HIDE DEF n, F
  <2> QED BY <2>1, <2>3
<1>4. value = Unfold(value)
  <2> HIDE DEF Unfold
  <2> QED BY <1>3
<1>5. \A i \in 0 .. n : value[i] = IF i = 0 THEN 0 ELSE Next1(value[i - 1], i)
  <2> HIDE DEF value
  <2> QED BY <1>4
<1>6. value = [i \in 0 .. n |-> value[i]]
  <2> HIDE DEF value
  <2> QED BY <1>4
<1>7. ValueOf(text, base) = value[n]
  BY DEF ValueOf, Next1
<1> HIDE DEF value, F
<1>8. \A i \in 0 .. n : value[i] \in Int
  <2> DEFINE T == {i \in 0 .. n : value[i] \in Int}
  <2>1. 0 \in T
    BY <1>0, <1>5
  <2>2. ASSUME NEW i \in 0 .. n - 1, i \in T PROVE i + 1 \in T
    <3>1. i + 1 \in 1 .. n /\ i + 1 \in 0 .. n /\ (i + 1) - 1 = i /\ i + 1 # 0
      BY <1>0
    <3> HIDE DEF n
    <3>2. value[i + 1] = Next1(value[i], i + 1)
      BY <1>5, <3>1
    <3> QED BY <1>1, <2>2, <3>1, <3>2
  <2>3. 0 .. n \subseteq T
    <3>1. n \in Nat /\ (\A i \in 0 .. n - 1 : i \in T => i + 1 \in T)
      BY <1>0, <2>2
    <3> HIDE DEF T, n
    <3>2. Climbs(T, n)
      BY <2>1, <3>1 DEF Climbs
    <3> QED BY <3>1, <3>2, Climb
  <2> QED BY <2>3
<1>9. ValueAlong(value, text, base)
  <2>1. value \in [0 .. n -> Int]
    BY <1>6, <1>8
  <2>2. value[0] = 0
    BY <1>0, <1>5
  <2>3. \A i \in 1 .. n : value[i] = base * value[i - 1] + GetHex(text[i])
    <3>1. \A i \in 1 .. n : value[i] = Next1(value[i - 1], i)
      <4> HIDE DEF n
      <4> QED BY <1>0, <1>5
    <3> QED BY <3>1 DEF Next1
  <2> QED BY <2>1, <2>2, <2>3 DEF ValueAlong
<1> QED BY <1>7, <1>9

LEMMA ValueAppend ==
    ASSUME NEW text \in Seq(Int), NEW c \in Int, NEW base \in Nat
    PROVE  /\ ValueOf(text, base) \in Int /\ ValueOf(<<>>, base) = 0
           /\ ValueOf(Append(text, c), base) = base * ValueOf(text, base) + GetHex(c)
<1> DEFINE n == Len(text)
           more == Append(text, c)
<1>0. ValueOf(<<>>, base) = 0
  <2>1. <<>> \in Seq(Int) /\ Len(<<>>) = 0
    OBVIOUS
  <2> QED BY <2>1, ValueSteps DEF ValueAlong
<1>1. PICK f : ValueAlong(f, text, base) /\ ValueOf(text, base) = f[n]
  BY ValueSteps
<1>2. more \in Seq(Int) /\ Len(more) = n + 1 /\ n \in Nat /\ more[n + 1] = c
      /\ \A i \in 1 .. n : more[i] = text[i]
  OBVIOUS
<1> HIDE DEF more, n
<1>3. PICK g : ValueAlong(g, more, base) /\ ValueOf(more, base) = g[n + 1]
  BY <1>2, ValueSteps
<1> DEFINE T == {i \in 0 .. n : f[i] = g[i]}
<1>4. 0 \in T
  BY <1>1, <1>2, <1>3 DEF ValueAlong
<1>5. ASSUME NEW i \in 0 .. n - 1, i \in T PROVE i + 1 \in T
  <2>1. i + 1 \in 1 .. n /\ i + 1 \in 1 .. n + 1 /\ (i + 1) - 1 = i
    BY <1>2
  <2>2. f[i + 1] = base * f[i] + GetHex(text[i + 1])
    BY <1>1, <2>1 DEF ValueAlong, n
  <2>3. g[i + 1] = base * g[i] + GetHex(more[i + 1])
    BY <1>2, <1>3, <2>1 DEF ValueAlong
  <2> QED BY <1>2, <1>5, <2>1, <2>2, <2>3
<1>6. 0 .. n \subseteq T
  <2>1. n \in Nat
    BY <1>2
  <2> HIDE DEF T
  <2>2. Climbs(T, n)
    BY <1>4, <1>5 DEF Climbs
  <2> QED BY <2>1, <2>2, Climb
<1>7. f[n] = g[n]
  BY <1>2, <1>6
<1>8. g[n + 1] = base * g[n] + GetHex(c)
  <2>1. n + 1 \in 1 .. Len(more) /\ (n + 1) - 1 = n
    BY <1>2
  <2> QED BY <1>2, <1>3, <2>1 DEF ValueAlong
<1>9. f[n] \in Int
  BY <1>1, <1>2 DEF ValueAlong, n
<1> QED BY <1>0, <1>1, <1>3, <1>7, <1>8, <1>9 DEF more

-----------------------------------------------------------------------------
(* The parameters of a command are what follows the first equals sign.     *)
NoEq(text) == \A j \in 1 .. Len(text) : text[j] # EQ
Split(text, i) == text[i] = EQ /\ \A j \in 1 .. i - 1 : text[j] # EQ
ReadAs(text, read) ==
    \E i \in 1 .. Len(text) :
       Split(text, i) /\ read = Reading(SubSeq(text, i + 1, Len(text)))

LEMMA NoParameters ==
    ASSUME NEW text \in Seq(Int), NoEq(text)
    PROVE  ParametersOf(text) = <<>>
<1>1. SelectInSeq(text, LAMBDA c : c = EQ) = 0
  BY DEF SelectInSeq, NoEq
<1> QED BY <1>1 DEF ParametersOf

LEMMA ReadAsText ==
    ASSUME NEW text \in Seq(Int), NEW read, ReadAs(text, read)
    PROVE  read \in Readings /\ ParametersOf(text) = read.parts
<1>1. PICK i \in 1 .. Len(text) :
         Split(text, i) /\ read = Reading(SubSeq(text, i + 1, Len(text)))
  BY DEF ReadAs
<1>2. SelectInSeq(text, LAMBDA c : c = EQ) = i
  <2> DEFINE I == {j \in 1 .. Len(text) : text[j] = EQ}
  <2>1. i \in I /\ \A j \in I : i <= j
    BY <1>1 DEF Split
  <2>2. \A j \in I : (\A k \in I : j <= k) => j = i
    BY <2>1
  <2>3. (CHOOSE j \in I : \A k \in I : j <= k) = i
    <3> HIDE DEF I
    <3> QED BY <2>1, <2>2
  <2> QED BY <2>1, <2>3 DEF SelectInSeq, Min
<1>3. PICK rest \in Seq(Int) : rest = SubSeq(text, i + 1, Len(text))
  <2>1. SubSeq(text, i + 1, Len(text)) \in Seq(Int)
    OBVIOUS
  <2> QED BY <2>1
<1>4. i # 0
  OBVIOUS
<1>5. read \in Readings
  <2>1. Reading(rest) \in Readings
    <3>1. 0 \in Int
      OBVIOUS
    <3> QED BY <3>1, ReadingAppend
  <2> QED BY <1>1, <1>3, <2>1
<1>6. ParametersOf(text) = Parts(SubSeq(text, i + 1, Len(text)))
  BY <1>2, <1>4 DEF ParametersOf
<1> QED BY <1>1, <1>5, <1>6 DEF Parts

LEMMA SubSeqAppend ==
    ASSUME NEW text \in Seq(Int), NEW c \in Int, NEW i \in 1 .. Len(text)
    PROVE  SubSeq(Append(text, c), i + 1, Len(text) + 1) = Append(SubSeq(text, i + 1, Len(text)), c)
<1>1. PICK n \in Nat, k \in Nat : n = Len(text) /\ k = i /\ 1 <= k /\ k <= n
  OBVIOUS
<1>2. PICK more \in Seq(Int) : more = Append(text, c)
  <2>1. Append(text, c) \in Seq(Int)
    OBVIOUS
  <2> QED BY <2>1
<1>3. PICK m \in Nat : m = n - k /\ n = k + m
  <2>1. n - k \in Nat /\ n = k + (n - k)
    BY <1>1
  <2> QED BY <2>1
<1>4. Len(more) = n + 1 /\ more[n + 1] = c /\ \A j \in 1 .. n : more[j] = text[j]
  BY <1>1, <1>2
<1>5. PICK u \in Seq(Int) : u = SubSeq(more, k + 1, n + 1)
  <2>1. SubSeq(more, k + 1, Len(more)) \in Seq(Int)
    OBVIOUS
  <2> QED BY <1>4, <2>1
<1>6. Len(u) = m + 1 /\ \A j \in 1 .. m + 1 : u[j] = more[k + j]
  <2>1. k + 1 <= (n + 1) + 1 /\ (n + 1) - (k + 1) + 1 = m + 1 /\ 1 <= k + 1 /\ k + 1 <= Len(more) + 1
    BY <1>1, <1>3, <1>4
  <2>2. Len(u) = m + 1
    BY <1>4, <1>5, <2>1
  <2>3. ASSUME NEW j \in 1 .. m + 1 PROVE u[j] = more[k + j]
    <3>1. k + 1 + j - 1 = k + j /\ j \in 1 .. Len(u)
      BY <1>1, <2>2
    <3> QED BY <1>4, <1>5, <2>1, <3>1
  <2> QED BY <2>2, <2>3
<1>7. PICK rest \in Seq(Int) : rest = SubSeq(text, k + 1, n)
  <2>1. SubSeq(text, k + 1, n) \in Seq(Int)
    BY <1>1
  <2> QED BY <2>1
<1>8. Len(rest) = m /\ \A j \in 1 .. m : rest[j] = text[k + j]
  BY <1>1, <1>3, <1>7, SMTT(30)
<1>9. PICK v \in Seq(Int) : v = Append(rest, c)
  <2>1. Append(rest, c) \in Seq(Int)
    OBVIOUS
  <2> QED BY <2>1
<1>10. Len(v) = m + 1 /\ v[m + 1] = c /\ \A j \in 1 .. m : v[j] = rest[j]
  BY <1>8, <1>9
<1>11. ASSUME NEW j \in 1 .. m + 1 PROVE u[j] = v[j]
  <2>1. CASE j = m + 1
    <3>1. k + j = n + 1
      BY <1>3, <2>1
    <3> QED BY <1>4, <1>6, <1>10, <2>1, <3>1
  <2>2. CASE j # m + 1
    <3>1. PICK i1 \in Nat : i1 = j /\ 1 <= i1 /\ i1 <= m
      BY <1>3, <2>2
    <3>2. 1 <= k + i1 /\ k + i1 <= n /\ k + i1 \in Nat
      BY <1>1, <1>3, <3>1
    <3>3. j \in 1 .. m /\ k + j \in 1 .. n
      BY <3>1, <3>2
    <3> QED BY <1>4, <1>6, <1>8, <1>10, <3>3
  <2> QED BY <2>1, <2>2
<1>12. u = v
  BY <1>6, <1>10, <1>11, SMTT(30)
<1> QED BY <1>1, <1>2, <1>5, <1>7, <1>9, <1>12

LEMMA ReadAsAppend ==
    ASSUME NEW text \in Seq(Int), NEW c \in Int, NEW read, ReadAs(text, read)
    PROVE  ReadAs(Append(text, c), NextPart(read, c))
<1>1. PICK i \in 1 .. Len(text) :
         Split(text, i) /\ read = Reading(SubSeq(text, i + 1, Len(text)))
  BY DEF ReadAs
<1>2. PICK more : more = Append(text, c)
  OBVIOUS
<1>3. PICK rest \in Seq(Int) : rest = SubSeq(text, i + 1, Len(text))
  <2>1. SubSeq(text, i + 1, Len(text)) \in Seq(Int)
    OBVIOUS
  <2> QED BY <2>1
<1>4. /\ Len(more) = Len(text) + 1 /\ i \in 1 .. Len(more)
      /\ \A j \in 1 .. i : more[j] = text[j]
  BY <1>2
<1>5. SubSeq(more, i + 1, Len(more)) = Append(rest, c)
  BY <1>2, <1>3, <1>4, SubSeqAppend
<1>6. Split(more, i)
  <2>1. i \in 1 .. i /\ \A j \in 1 .. i - 1 : j \in 1 .. i
    OBVIOUS
  <2> QED BY <1>1, <1>4, <2>1 DEF Split
<1>7. Reading(Append(rest, c)) = NextPart(read, c)
  BY <1>1, <1>3, ReadingAppend
<1> QED BY <1>2, <1>4, <1>5, <1>6, <1>7 DEF ReadAs

LEMMA ReadAsOpens ==
    ASSUME NEW text \in Seq(Int), NoEq(text)
    PROVE  ReadAs(Append(text, EQ), Fresh)
<1>1. PICK more : more = Append(text, EQ)
  OBVIOUS
<1>2. PICK n \in Nat : n = Len(text) + 1
  OBVIOUS
<1>3. /\ more \in Seq(Int) /\ Len(more) = n /\ n \in 1 .. Len(more) /\ more[n] = EQ
      /\ \A j \in 1 .. n - 1 : more[j] = text[j]
  BY <1>1, <1>2 DEF EQ
<1>4. Split(more, n)
  BY <1>2, <1>3 DEF Split, NoEq
<1>5. SubSeq(more, n + 1, Len(more)) = <<>>
  BY <1>3
<1>6. ReadAs(more, Fresh)
  BY <1>3, <1>4, <1>5, ReadingEmpty DEF ReadAs
<1> QED BY <1>1, <1>6
-----------------------------------------------------------------------------
(* What stands in the buffer for a text. *)

(* Neither character can be told from the end of a text. *)
WithoutIn(char) ==
    \A c \in ExtIndices : \A k \in Params(c) :
       ExtCmds[c].params[k].type = "STR" =>
         \A i \in 1 .. Len(ExtCmds[c].params[k].text) : ExtCmds[c].params[k].text[i] # char
DefaultsWhole == WithoutIn(0)
DefaultsPlain == WithoutIn(DQUOTE)

CellsHold(buf, at, s) == \A i \in 1 .. Len(s) : buf[at + i - 1] = s[i]

(* The value v of a parameter, as a handler reads it.                      *)
Stored(buf, at, p, v) ==
    /\ p.type \in NumTypes => v \in Value /\ \A k \in 0 .. 3 : buf[at + k] = NumBytes(v)[k + 1]
    /\ p.type = "STR" =>
          /\ v \in Seq(1 .. 255) /\ Len(v) < p.size
          /\ CellsHold(buf, at, v) /\ buf[at + Len(v)] = 0
          /\ DefaultsPlain => \A i \in 1 .. Len(v) : v[i] # DQUOTE
    /\ p.type = "STR_HEX" =>
          /\ v \in Seq(Byte) /\ Len(v) <= p.size
          /\ CellsHold(buf, at, v)
          /\ buf[at + p.size] = IdBytes(Len(v))[1]
          /\ buf[at + p.size + 1] = IdBytes(Len(v))[2]

TextOf(texts, k) == IF k < Len(texts) THEN texts[k + 1] ELSE <<>>
Held(buf, at, p, text) == \E v : Means(text, p, v) /\ Stored(buf, at, p, v)
FieldsHeld(buf, i, c, n, texts) ==
    \A j \in 0 .. n - 1 :
       Held(buf, i + ParamOffset[c][j], ExtCmds[c].params[j], TextOf(texts, j))

LEMMA IntSeq ==
    ASSUME NEW S, S \subseteq Int, NEW v \in Seq(S)
    PROVE  v \in Seq(Int) /\ Len(v) \in Nat /\ \A i \in 1 .. Len(v) : v[i] \in S
<1>1. Len(v) \in Nat /\ v \in [1 .. Len(v) -> S]
  OBVIOUS
<1>2. \A i \in 1 .. Len(v) : v[i] \in S
  BY <1>1
<1>3. v \in [1 .. Len(v) -> Int]
  BY <1>1, Zenon
<1>4. v \in Seq(Int)
  BY <1>1, <1>3
<1> QED BY <1>1, <1>2, <1>4

LEMMA SeqFromFun ==
    ASSUME NEW S, NEW n \in Nat, NEW v \in [1 .. n -> S]
    PROVE  v \in Seq(S)
OBVIOUS

LEMMA HeldFrame ==
    ASSUME NEW buf, NEW buf2, NEW at \in Nat, NEW c \in ExtIndices, NEW k \in Params(c),
           \A j \in at .. at + FieldSize(ExtCmds[c].params[k]) - 1 : buf2[j] = buf[j],
           NEW text, Held(buf, at, ExtCmds[c].params[k], text)
    PROVE  Held(buf2, at, ExtCmds[c].params[k], text)
<1> DEFINE p == ExtCmds[c].params[k]
<1>1. p.type \in ParamTypes /\ p.size \in Nat
  BY ParamAssumption
<1>2. /\ p.type \in NumTypes => FieldSize(p) = 4
      /\ p.type = "STR" => FieldSize(p) = p.size
      /\ p.type = "STR_HEX" => FieldSize(p) = p.size + 2
  BY DEF FieldSize, NumTypes
<1>0. FieldSize(p) \in Nat
  BY <1>1, <1>2 DEF ParamTypes
<1> HIDE DEF p
<1>3. \A j \in at .. at + FieldSize(p) - 1 : buf2[j] = buf[j]
  BY DEF p
<1>4. PICK v : Means(text, p, v) /\ Stored(buf, at, p, v)
  BY DEF Held, p
<1>5. ASSUME p.type \in NumTypes
      PROVE  v \in Value /\ \A i \in 0 .. 3 : buf2[at + i] = NumBytes(v)[i + 1]
  <2>1. v \in Value /\ \A i \in 0 .. 3 : buf[at + i] = NumBytes(v)[i + 1]
    BY <1>4, <1>5 DEF Stored
  <2>2. \A i \in 0 .. 3 : buf2[at + i] = buf[at + i]
    BY <1>2, <1>3, <1>5
  <2> QED BY <2>1, <2>2
<1>6. ASSUME NEW s \in Seq(Int), NEW m \in Nat, m <= FieldSize(p), Len(s) <= m,
             CellsHold(buf, at, s), p.type \in {"STR", "STR_HEX"}
      PROVE  CellsHold(buf2, at, s)
  <2>1. ASSUME NEW i \in 1 .. Len(s) PROVE buf2[at + i - 1] = s[i]
    <3>1. PICK e \in Nat, n \in Nat, f \in Nat :
             e = i /\ n = Len(s) /\ f = FieldSize(p) /\ 1 <= e /\ e <= n
      <4>1. i \in Nat /\ 1 <= i /\ i <= Len(s) /\ Len(s) \in Nat
        BY <1>6
      <4> QED BY <1>0, <4>1
    <3>2. at + e - 1 \in at .. at + f - 1
      BY <1>6, <3>1
    <3> QED BY <1>3, <1>6, <3>1, <3>2 DEF CellsHold
  <2> QED BY <2>1 DEF CellsHold
<1>7. ASSUME p.type = "STR"
      PROVE  /\ v \in Seq(1 .. 255) /\ Len(v) < p.size
             /\ CellsHold(buf2, at, v) /\ buf2[at + Len(v)] = 0
             /\ DefaultsPlain => \A i \in 1 .. Len(v) : v[i] # DQUOTE
  <2>1. /\ v \in Seq(1 .. 255) /\ Len(v) < p.size
        /\ CellsHold(buf, at, v) /\ buf[at + Len(v)] = 0
        /\ DefaultsPlain => \A i \in 1 .. Len(v) : v[i] # DQUOTE
    BY <1>4, <1>7 DEF Stored
  <2>2. v \in Seq(Int) /\ Len(v) \in Nat
    <3>1. 1 .. 255 \subseteq Int /\ v \in Seq(1 .. 255)
      BY <2>1
    <3> QED BY <3>1, IntSeq
  <2>3. CellsHold(buf2, at, v)
    BY <1>1, <1>2, <1>6, <1>7, <2>1, <2>2
  <2>4. buf2[at + Len(v)] = buf[at + Len(v)]
    BY <1>1, <1>2, <1>3, <1>7, <2>1, <2>2
  <2> QED BY <2>1, <2>3, <2>4
<1>8. ASSUME p.type = "STR_HEX"
      PROVE  /\ v \in Seq(Byte) /\ Len(v) <= p.size
             /\ CellsHold(buf2, at, v)
             /\ buf2[at + p.size] = IdBytes(Len(v))[1]
             /\ buf2[at + p.size + 1] = IdBytes(Len(v))[2]
  <2>1. /\ v \in Seq(Byte) /\ Len(v) <= p.size
        /\ CellsHold(buf, at, v)
        /\ buf[at + p.size] = IdBytes(Len(v))[1]
        /\ buf[at + p.size + 1] = IdBytes(Len(v))[2]
    BY <1>4, <1>8 DEF Stored
  <2>2. v \in Seq(Int) /\ Len(v) \in Nat
    <3>1. Byte \subseteq Int /\ v \in Seq(Byte)
      BY <2>1 DEF Byte
    <3> QED BY <3>1, IntSeq
  <2>3. CellsHold(buf2, at, v)
    <3>1. p.size <= FieldSize(p)
      BY <1>1, <1>2, <1>8
    <3> QED BY <1>1, <1>6, <1>8, <2>1, <2>2, <3>1
  <2>4. buf2[at + p.size] = buf[at + p.size] /\ buf2[at + p.size + 1] = buf[at + p.size + 1]
    BY <1>1, <1>2, <1>3, <1>8
  <2> QED BY <2>1, <2>3, <2>4
<1>9. Stored(buf2, at, p, v)
  BY <1>5, <1>7, <1>8 DEF Stored
<1> QED BY <1>4, <1>9 DEF Held, p

(* Fields do not depend on what stands behind them. *)
LEMMA FieldsHeldFrame ==
    ASSUME NEW buf, NEW buf2, NEW i \in Nat, NEW c \in ExtIndices,
           NEW n \in 0 .. ExtCmds[c].count,
           \A j \in 0 .. i + ParamOffset[c][n] - 1 : buf2[j] = buf[j],
           NEW texts, NEW texts2,
           \A j \in 0 .. n - 1 : TextOf(texts2, j) = TextOf(texts, j),
           FieldsHeld(buf, i, c, n, texts)
    PROVE  FieldsHeld(buf2, i, c, n, texts2)
<1>1. ExtCmds[c].count \in Nat /\ n \in Nat /\ ParamOffset[c][n] \in Nat
  BY ExtAssumption, OffsetsAscend
<1>2. ASSUME NEW j \in 0 .. n - 1
      PROVE  Held(buf2, i + ParamOffset[c][j], ExtCmds[c].params[j], TextOf(texts2, j))
  <2> DEFINE at == i + ParamOffset[c][j]
             f == FieldSize(ExtCmds[c].params[j])
  <2>1. j \in Params(c) /\ j \in 0 .. ExtCmds[c].count /\ j + 1 \in 0 .. ExtCmds[c].count
        /\ n \in j + 1 .. ExtCmds[c].count
    BY <1>1 DEF Params
  <2>2. /\ ParamOffset[c][j] \in Nat /\ ParamOffset[c][j + 1] \in Nat
        /\ ParamOffset[c][j + 1] <= ParamOffset[c][n]
        /\ ParamOffset[c][j + 1] = ParamOffset[c][j] + f
    BY <2>1, OffsetsAscend, LayoutAssumption
  <2>3. at \in Nat /\ f \in Nat
    <3>1. ExtCmds[c].params[j].type \in ParamTypes /\ ExtCmds[c].params[j].size \in Nat
      BY <2>1, ParamAssumption
    <3>2. f \in Nat
      BY <3>1 DEF FieldSize, ParamTypes, NumTypes
    <3> QED BY <2>2, <3>2
  <2>4. at + f <= i + ParamOffset[c][n]
    BY <1>1, <2>2, <2>3
  <2>5. Held(buf, at, ExtCmds[c].params[j], TextOf(texts, j))
    BY DEF FieldsHeld
  <2> HIDE DEF at, f
  <2>6. \A x \in at .. at + f - 1 : buf2[x] = buf[x]
    BY <1>1, <2>3, <2>4
  <2>7. Held(buf2, at, ExtCmds[c].params[j], TextOf(texts, j))
    BY <2>1, <2>3, <2>5, <2>6, HeldFrame DEF f
  <2> QED BY <2>7 DEF at
<1> QED BY <1>2 DEF FieldsHeld

LEMMA FieldsHeldGrow ==
    ASSUME NEW buf, NEW i, NEW c, NEW n \in Nat, NEW texts, FieldsHeld(buf, i, c, n, texts),
           Held(buf, i + ParamOffset[c][n], ExtCmds[c].params[n], TextOf(texts, n))
    PROVE  FieldsHeld(buf, i, c, n + 1, texts)
<1>1. ASSUME NEW j \in 0 .. n + 1 - 1
      PROVE  Held(buf, i + ParamOffset[c][j], ExtCmds[c].params[j], TextOf(texts, j))
  <2>1. j = n \/ j \in 0 .. n - 1
    OBVIOUS
  <2> QED BY <2>1 DEF FieldsHeld
<1> QED BY <1>1 DEF FieldsHeld

(* The next character of a reading. *)
LEMMA NextPartParts ==
    ASSUME NEW r \in Readings, NEW c \in Int
    PROVE  /\ NextPart(r, c) \in Readings
           /\ c = COMMA /\ ~r.quoted =>
                 /\ ~NextPart(r, c).quoted
                 /\ Len(NextPart(r, c).parts) = Len(r.parts) + 1
                 /\ NextPart(r, c).parts[Len(r.parts) + 1] = <<>>
                 /\ \A j \in 1 .. Len(r.parts) : NextPart(r, c).parts[j] = r.parts[j]
           /\ c # COMMA \/ r.quoted =>
                 /\ NextPart(r, c).quoted = IF c = DQUOTE THEN ~r.quoted ELSE r.quoted
                 /\ Len(NextPart(r, c).parts) = Len(r.parts)
                 /\ NextPart(r, c).parts[Len(r.parts)] = Append(r.parts[Len(r.parts)], c)
                 /\ \A j \in 1 .. Len(r.parts) - 1 : NextPart(r, c).parts[j] = r.parts[j]
<1> DEFINE ps == r.parts
<1>1. ps \in Seq(Seq(Int)) /\ ps # <<>> /\ r.quoted \in BOOLEAN /\ Len(ps) \in 1 .. Len(ps)
  BY DEF Readings
<1>2. CASE c = COMMA /\ ~r.quoted
  <2>1. NextPart(r, c) = [parts |-> Append(ps, <<>>), quoted |-> r.quoted]
    BY <1>2 DEF NextPart, Readings
  <2>2. /\ Len(Append(ps, <<>>)) = Len(ps) + 1 /\ Append(ps, <<>>)[Len(ps) + 1] = <<>>
        /\ \A j \in 1 .. Len(ps) : Append(ps, <<>>)[j] = ps[j]
    BY <1>1
  <2> QED BY <1>2, <2>1, <2>2, NextPartType
<1>3. CASE ~(c = COMMA /\ ~r.quoted)
  <2> DEFINE last == Append(ps[Len(ps)], c)
             more == [ps EXCEPT ![Len(ps)] = last]
  <2>1. NextPart(r, c) = [parts |-> more,
                          quoted |-> IF c = DQUOTE THEN ~r.quoted ELSE r.quoted]
    BY <1>3 DEF NextPart
  <2>2. last \in Seq(Int)
    BY <1>1
  <2>3. /\ Len(more) = Len(ps) /\ more[Len(ps)] = last
        /\ \A j \in 1 .. Len(ps) - 1 : more[j] = ps[j]
    <3> HIDE DEF last
    <3> QED BY <1>1, <2>2
  <2> HIDE DEF more
  <2> QED BY <1>3, <2>1, <2>3, NextPartType
<1> QED BY <1>2, <1>3
-----------------------------------------------------------------------------
(* What has been typed of the field in hand. *)

Typeable == 1 .. 127

Digits(p, num, part) ==
    /\ part # <<>> /\ \A i \in DOMAIN part : GetHex(part[i]) \in 0 .. Base(p.type) - 1
    /\ num = ValueOf(part, Base(p.type))

Letters(buf, at, p, num, part) ==
    \E v \in Seq(1 .. 255) :
       /\ Len(v) + num = p.size /\ CellsHold(buf, at, v)
       /\ \A i \in 1 .. Len(v) : v[i] # DQUOTE
       /\ part = <<DQUOTE>> \o v

(* Two digits make a byte; one is left over in nibble. *)
Half(nibble) == IF nibble = NoNibble THEN 0 ELSE 1
Paired(part, v) == \A i \in 1 .. Len(v) : v[i] = 16 * GetHex(part[2 * i]) + GetHex(part[2 * i + 1])
Pairs(buf, at, p, num, nibble, part) ==
    \E v \in Seq(Byte) :
       /\ Len(v) + num = p.size /\ CellsHold(buf, at, v)
       /\ Len(part) = 1 + 2 * Len(v) + Half(nibble) /\ part[1] = DQUOTE
       /\ Paired(part, v)
       /\ nibble # NoNibble => nibble = GetHex(part[Len(part)])

InField(state, buf, at, p, num, nibble, part) ==
    /\ state \in StartStates => part = <<>>
    /\ state \in NumStates => state \in {NumStart[p.type], NumState[p.type]}
    /\ state \in NumStates \ StartStates => Digits(p, num, part)
    /\ state = "String" => Letters(buf, at, p, num, part)
    /\ state = "HexString" => Pairs(buf, at, p, num, nibble, part)

(* The fields before hold what their parts mean. *)
InFields(state, buf, i, c, n, num, nibble, read) ==
    /\ read.quoted = (state \in {"String", "HexString"})
    /\ Len(read.parts) = IF state = "StringEnd" THEN n ELSE n + 1
    /\ FieldsHeld(buf, i, c, n, read.parts)
    /\ state # "StringEnd" => InField(state, buf, i + ParamOffset[c][n], ExtCmds[c].params[n],
                                      num, nibble, read.parts[n + 1])
Reads(read) == InFields(m_state, m_cmdline, m_parse_ok_index, Command, m_param_index,
                        m_num, m_nibble, read)

(* So do all of them, when nothing was typed for the rest. *)
AllTyped(buf, i, c, n, texts) ==
    FieldsHeld(buf, i, c, n, texts) /\ \A j \in Nat : n <= j => TextOf(texts, j) = <<>>

InParam(read) == /\ Start /\ Meant /\ DefaultsWhole
                 /\ pc = "ret" /\ m_state \in ParamStates
                 /\ read \in Readings /\ Reads(read)

(* What a handler does to them when it takes a character. *)
TakesParam(left, read, read2) ==
    \/ m_state' \notin Entering
    \/ /\ pc' = "ret" /\ redo' = left /\ m_state' \in ParamStates
       /\ m_trie' = m_trie /\ m_parse_ok_index' = m_parse_ok_index
       /\ InFields(m_state', m_cmdline', m_parse_ok_index, Command, m_param_index',
                   m_num', m_nibble', read2)
    \/ /\ pc' = "fill" /\ redo' = left
       /\ m_trie' = m_trie /\ m_parse_ok_index' = m_parse_ok_index
       /\ AllTyped(m_cmdline', m_parse_ok_index, Command, m_param_index', read.parts)

LEMMA FieldInHand ==
    ASSUME NEW read, InParam(read), m_state # "StringEnd"
    PROVE  /\ m_param_index \in Nat /\ Cmd.count \in Nat /\ m_param_index < Cmd.count
           /\ m_param_index \in Params(Command)
           /\ CmdParam = ExtCmds[Command].params[m_param_index]
           /\ CmdParam.type \in ParamTypes /\ CmdParam.optional \in BOOLEAN
           /\ CmdParam.size \in Nat /\ CmdParam.size < 65536
           /\ Len(read.parts) = m_param_index + 1
           /\ read.parts[m_param_index + 1] \in Seq(Int)
           /\ TextOf(read.parts, m_param_index) = read.parts[m_param_index + 1]
           /\ InField(m_state, m_cmdline, FieldStart, CmdParam, m_num, m_nibble,
                      read.parts[m_param_index + 1])
<1>1. Start /\ pc = "ret" /\ m_state \in ParamStates /\ read \in Readings /\ Reads(read)
  BY DEF InParam
<1>2. /\ Ready /\ Command \in ExtIndices /\ Cmd.count \in Nat /\ Cmd = ExtCmds[Command]
      /\ m_param_index \in Nat
  BY <1>1, BehindStart
<1>3. m_param_index < Cmd.count
  BY <1>1, <1>2, InHandLemma
<1>4. m_param_index \in Params(Command) /\ CmdParam = ExtCmds[Command].params[m_param_index]
  BY <1>2, <1>3 DEF Params, CmdParam
<1>5. /\ CmdParam.type \in ParamTypes /\ CmdParam.optional \in BOOLEAN
      /\ CmdParam.size \in Nat /\ CmdParam.size < 65536
  BY <1>2, <1>4, ParamAssumption
<1>6. /\ Len(read.parts) = m_param_index + 1
      /\ InField(m_state, m_cmdline, FieldStart, CmdParam, m_num, m_nibble,
                 read.parts[m_param_index + 1])
  BY <1>1, <1>4 DEF Reads, InFields, FieldStart
<1>7. read.parts[m_param_index + 1] \in Seq(Int)
  <2>1. read.parts \in Seq(Seq(Int)) /\ m_param_index + 1 \in 1 .. Len(read.parts)
    BY <1>1, <1>2, <1>6 DEF Readings
  <2> QED BY <2>1
<1>8. TextOf(read.parts, m_param_index) = read.parts[m_param_index + 1]
  BY <1>2, <1>6 DEF TextOf
<1> QED BY <1>2, <1>3, <1>4, <1>5, <1>6, <1>7, <1>8

LEMMA AppendElements ==
    ASSUME NEW s \in Seq(Int), NEW x \in Int, NEW more, more = Append(s, x)
    PROVE  /\ more \in Seq(Int) /\ Len(s) \in Nat
           /\ Len(more) = Len(s) + 1 /\ more[Len(s) + 1] = x
           /\ \A i \in 1 .. Len(s) : more[i] = s[i]
OBVIOUS

LEMMA AppendConcat ==
    ASSUME NEW s \in Seq(Int), NEW c \in Int, NEW d \in Int
    PROVE  /\ s \o <<c>> = Append(s, c)
           /\ <<d>> \o Append(s, c) = Append(<<d>> \o s, c)
           /\ <<d>> \o <<>> = Append(<<>>, d)
           /\ <<d>> \o s \in Seq(Int) /\ Len(<<d>> \o s) = Len(s) + 1
           /\ (<<d>> \o s)[1] = d
           /\ \A i \in 1 .. Len(s) : (<<d>> \o s)[i + 1] = s[i]
<1>1. s \o <<c>> = Append(s, c)
  OBVIOUS
<1>2. <<d>> \o <<>> = Append(<<>>, d)
  OBVIOUS
<1>3. /\ <<d>> \o s \in Seq(Int) /\ Len(<<d>> \o s) = Len(s) + 1
      /\ (<<d>> \o s)[1] = d
      /\ \A i \in 1 .. Len(s) : (<<d>> \o s)[i + 1] = s[i]
  OBVIOUS
<1>4. <<d>> \o Append(s, c) = Append(<<d>> \o s, c)
  OBVIOUS
<1> QED BY <1>1, <1>2, <1>3, <1>4

(* Digits are told apart in either case; the separators have none. *)
LEMMA UpperLemma ==
    ASSUME NEW x \in Typeable
    PROVE  /\ x \in Int /\ x \in 1 .. 255 /\ ToUpper(x) \in Typeable /\ ToUpper(x) \in Char
           /\ ToUpper(ToUpper(x)) = ToUpper(x)
           /\ GetHex(ToUpper(x)) = GetHex(x)
           /\ GetHex(x) \in -1 .. 15
           /\ GetNumeric(ToUpper(x)) # -1 => GetHex(x) = GetNumeric(ToUpper(x)) /\ GetHex(x) \in 0 .. 9
           /\ \A d \in {SPACE, DQUOTE, COMMA, DASH, SEMI, EQ, PLUS} : ToUpper(x) = d <=> x = d
           /\ GetHex(DQUOTE) = -1
           /\ ToUpper(x) = 48 => GetHex(x) = 0
           /\ ToUpper(x) = 49 => GetHex(x) = 1
<1>1. x \in Int /\ x \in 1 .. 255 /\ 1 <= x /\ x <= 127
  BY DEF Typeable
<1> DEFINE u == ToUpper(x)
<1>2. CASE 97 <= x /\ x <= 122
  <2>1. u = x - 32 /\ u \in Int
    BY <1>1, <1>2 DEF ToUpper, IsLower
  <2>2. ToUpper(u) = u
    BY <1>2, <2>1 DEF ToUpper, IsLower
  <2> HIDE DEF u
  <2>3. GetHex(u) = GetHex(x) /\ GetHex(x) \in -1 .. 15 /\ GetNumeric(u) = -1
    BY <1>2, <2>1 DEF GetHex, GetNumeric, IsNumeric
  <2> QED BY <1>1, <1>2, <2>1, <2>2, <2>3 DEF u, Typeable, Char, GetHex, IsNumeric,
       SPACE, DQUOTE, COMMA, DASH, SEMI, EQ, PLUS
<1>3. CASE ~(97 <= x /\ x <= 122)
  <2>1. u = x
    BY <1>1, <1>3 DEF ToUpper, IsLower
  <2>2. GetHex(x) \in -1 .. 15 /\ (GetNumeric(x) # -1 => GetHex(x) = GetNumeric(x) /\ GetHex(x) \in 0 .. 9)
    BY <1>1 DEF GetHex, GetNumeric, IsNumeric
  <2> QED BY <1>1, <2>1, <2>2 DEF Typeable, Char, GetHex, IsNumeric, DQUOTE
<1> QED BY <1>2, <1>3

(* The fields before stay what they are while more is read. *)
LEMMA FieldsStay ==
    ASSUME NEW read, InParam(read), Frame, NEW texts,
           \A j \in 0 .. m_param_index - 1 : TextOf(texts, j) = TextOf(read.parts, j)
    PROVE  FieldsHeld(m_cmdline', m_parse_ok_index, Command, m_param_index, texts)
<1>1. Start /\ m_state \in ParamStates /\ Reads(read)
  BY DEF InParam
<1>2. /\ m_parse_index \in Nat /\ m_parse_ok_index \in Nat /\ FieldStart \in Nat
      /\ Command \in ExtIndices /\ m_param_index \in 0 .. ExtCmds[Command].count
      /\ m_parse_index >= FieldStart /\ ParamOffset[Command][m_param_index] \in Nat
  BY <1>1, BehindStart
<1>3. \A j \in 0 .. m_parse_ok_index + ParamOffset[Command][m_param_index] - 1 :
         m_cmdline'[j] = m_cmdline[j]
  <2>1. PICK e \in Nat : e = FieldStart
    BY <1>2
  <2>2. \A j \in 0 .. e - 1 : m_cmdline'[j] = m_cmdline[j]
    BY <1>2, <2>1 DEF Frame
  <2>3. e = m_parse_ok_index + ParamOffset[Command][m_param_index]
    BY <2>1 DEF FieldStart
  <2> QED BY <1>2, <2>2, <2>3
<1>4. FieldsHeld(m_cmdline, m_parse_ok_index, Command, m_param_index, read.parts)
  BY <1>1 DEF Reads, InFields
<1> QED BY <1>2, <1>3, <1>4, FieldsHeldFrame

(* Another character of the field in hand. *)
LEMMA MoreTyped ==
    ASSUME NEW read, InParam(read), m_state # "StringEnd", NEW x \in Int, NEW left,
           NEW state \in ParamStates \ {"StringEnd"}, Goto(state, left), Frame,
           m_trie' = m_trie, m_parse_ok_index' = m_parse_ok_index,
           m_param_index' = m_param_index, x # COMMA \/ read.quoted,
           state \in {"String", "HexString"} => (x = DQUOTE <=> ~read.quoted),
           state \notin {"String", "HexString"} => (x = DQUOTE <=> read.quoted),
           InField(state, m_cmdline', FieldStart, CmdParam, m_num', m_nibble',
                   Append(read.parts[m_param_index + 1], x))
    PROVE  TakesParam(left, read, NextPart(read, x))
<1> DEFINE n == m_param_index
           next == NextPart(read, x)
<1>1. /\ n \in Nat /\ Len(read.parts) = n + 1
      /\ CmdParam = ExtCmds[Command].params[n]
  BY FieldInHand
<1>2. read \in Readings
  BY DEF InParam
<1>3. /\ next.quoted = (IF x = DQUOTE THEN ~read.quoted ELSE read.quoted)
      /\ Len(next.parts) = n + 1
      /\ next.parts[n + 1] = Append(read.parts[n + 1], x)
      /\ \A j \in 1 .. n : next.parts[j] = read.parts[j]
  BY <1>1, <1>2, NextPartParts
<1> HIDE DEF next
<1>4. \A j \in 0 .. n - 1 : TextOf(next.parts, j) = TextOf(read.parts, j)
  <2>1. ASSUME NEW j \in 0 .. n - 1 PROVE TextOf(next.parts, j) = TextOf(read.parts, j)
    <3>1. j + 1 \in 1 .. n /\ j < n + 1
      BY <1>1
    <3> HIDE DEF n
    <3> QED BY <1>1, <1>3, <3>1 DEF TextOf
  <2> QED BY <2>1
<1>5. FieldsHeld(m_cmdline', m_parse_ok_index, Command, n, next.parts)
  BY <1>4, FieldsStay
<1>8. next.quoted = (state \in {"String", "HexString"})
  <2>1. read.quoted \in BOOLEAN
    BY <1>2 DEF Readings
  <2>2. CASE state \in {"String", "HexString"}
    <3>1. next.quoted = TRUE
      BY <1>3, <2>1, <2>2
    <3> QED BY <2>2, <3>1, Zenon
  <2>3. CASE ~(state \in {"String", "HexString"})
    <3>1. next.quoted = FALSE
      BY <1>3, <2>1, <2>3
    <3> DEFINE quotes == state \in {"String", "HexString"}
    <3>2. quotes = FALSE
      BY <2>3
    <3> HIDE DEF quotes
    <3>3. next.quoted = quotes
      BY <3>1, <3>2
    <3> QED BY <3>3 DEF quotes
  <2> QED BY <2>2, <2>3
<1>6. InFields(state, m_cmdline', m_parse_ok_index, Command, n, m_num', m_nibble', next)
  BY <1>1, <1>3, <1>5, <1>8 DEF InFields, FieldStart
<1>7. m_state' = state /\ pc' = "ret" /\ redo' = left
  BY DEF Goto
<1> QED BY <1>6, <1>7 DEF TakesParam, next

(* A comma: the next field is in hand. *)
LEMMA CommaTyped ==
    ASSUME NEW read, InParam(read), NEW x, x = COMMA, NEW left,
           SetupParameterParser(left), m_trie' = m_trie,
           m_parse_ok_index' = m_parse_ok_index, ~read.quoted, m_param_index' \in Nat,
           Len(read.parts) = m_param_index',
           FieldsHeld(m_cmdline', m_parse_ok_index, Command, m_param_index', read.parts)
    PROVE  TakesParam(left, read, NextPart(read, x))
<1> DEFINE n == m_param_index'
           next == NextPart(read, x)
           p == ExtCmds[Command].params[n]
<1>1. /\ read \in Readings /\ x \in Int /\ x = COMMA /\ Start /\ m_state \in ParamStates
      /\ Len(read.parts) = n /\ ~read.quoted
  BY DEF InParam, COMMA
<1>2. /\ ~next.quoted /\ Len(next.parts) = n + 1 /\ next.parts[n + 1] = <<>>
      /\ \A j \in 1 .. n : next.parts[j] = read.parts[j]
  <2> HIDE DEF n
  <2> QED BY <1>1, NextPartParts
<1>3. FieldsHeld(m_cmdline', m_parse_ok_index, Command, n, next.parts)
  <2> HIDE DEF next, n
  <2>1. \A j \in 0 .. n - 1 : TextOf(next.parts, j) = TextOf(read.parts, j)
    BY <1>1, <1>2 DEF TextOf
  <2>2. FieldsHeld(m_cmdline', m_parse_ok_index, Command, n, read.parts)
    BY DEF n
  <2> QED BY <2>1, <2>2 DEF FieldsHeld
<1>4. /\ Goto(m_state', left) /\ m_state' = ParameterState(n, CmdlineSize - m_parse_index')
      /\ Cmd = ExtCmds[Command] /\ Cmd.count \in Nat /\ Command \in ExtIndices
  BY <1>1, BehindStart DEF SetupParameterParser, Goto
<1>5. CASE m_state' = "Error"
  BY <1>5 DEF TakesParam, Entering
<1>6. CASE m_state' # "Error"
  <2>1. /\ ~(n >= Cmd.count)
        /\ m_state' = CASE p.type \in NumTypes  -> NumStart[p.type]
               [] p.type = "STR"       -> "StringStart"
               [] p.type = "STR_HEX"   -> "HexStringStart"
    BY <1>4, <1>6 DEF ParameterState
  <2>2. p.type \in ParamTypes
    BY <1>4, <2>1, ParamAssumption DEF Params
  <2> HIDE DEF p
  <2>3. /\ m_state' \in StartStates
        /\ m_state' \in NumStates => m_state' = NumStart[p.type]
    <3>1. CASE p.type \in NumTypes
      <4>1. m_state' = NumStart[p.type]
        BY <2>1, <3>1 DEF NumTypes
      <4>2. NumStart[p.type] \in StartStates
        BY <3>1, ParamStatesLemma
      <4> QED BY <4>1, <4>2
    <3>2. CASE p.type = "STR"
      <4>1. m_state' = "StringStart"
        BY <2>1, <3>2 DEF NumTypes
      <4> QED BY <4>1 DEF StartStates, NumStates
    <3>3. CASE p.type = "STR_HEX"
      <4>1. m_state' = "HexStringStart"
        BY <2>1, <3>3 DEF NumTypes
      <4> QED BY <4>1 DEF StartStates, NumStates
    <3> QED BY <2>2, <3>1, <3>2, <3>3 DEF ParamTypes
  <2>4. InField(m_state', m_cmdline', m_parse_ok_index + ParamOffset[Command][n], p,
                m_num', m_nibble', next.parts[n + 1])
    BY <1>2, <2>3 DEF InField, StartStates
  <2>5. m_state' \in ParamStates /\ m_state' \notin {"String", "HexString", "StringEnd"}
    BY <2>3, ParamStatesLemma
  <2>6. InFields(m_state', m_cmdline', m_parse_ok_index, Command, n, m_num', m_nibble', next)
    <3>1. next \in Readings
      BY <1>1, NextPartParts
    <3>2. next.quoted = (m_state' \in {"String", "HexString"})
      <4> HIDE DEF next
      <4> QED BY <1>2, <2>5, <3>1 DEF Readings
    <3> HIDE DEF next, n
    <3> QED BY <1>2, <1>3, <2>4, <2>5, <3>2 DEF InFields, p
  <2>7. pc' = "ret" /\ redo' = left
    BY <1>4 DEF Goto
  <2> QED BY <2>5, <2>6, <2>7 DEF TakesParam
<1> QED BY <1>5, <1>6

(* The field in hand is filled with what its part means. *)
LEMMA FieldTyped ==
    ASSUME NEW read, InParam(read), m_state # "StringEnd", Frame,
           m_param_index' = m_param_index + 1,
           Held(m_cmdline', FieldStart, CmdParam, read.parts[m_param_index + 1])
    PROVE  /\ m_param_index' \in Nat /\ Len(read.parts) = m_param_index'
           /\ FieldsHeld(m_cmdline', m_parse_ok_index, Command, m_param_index', read.parts)
           /\ AllTyped(m_cmdline', m_parse_ok_index, Command, m_param_index', read.parts)
<1> DEFINE n == m_param_index
<1>1. /\ n \in Nat /\ Len(read.parts) = n + 1
      /\ CmdParam = ExtCmds[Command].params[n]
      /\ TextOf(read.parts, n) = read.parts[n + 1]
  BY FieldInHand
<1>2. FieldsHeld(m_cmdline', m_parse_ok_index, Command, n, read.parts)
  BY FieldsStay
<1>3. Held(m_cmdline', m_parse_ok_index + ParamOffset[Command][n], ExtCmds[Command].params[n],
           TextOf(read.parts, n))
  BY <1>1 DEF FieldStart
<1>4. FieldsHeld(m_cmdline', m_parse_ok_index, Command, n + 1, read.parts)
  <2> HIDE DEF n
  <2> QED BY <1>1, <1>2, <1>3, FieldsHeldGrow
<1>5. \A j \in Nat : n + 1 <= j => TextOf(read.parts, j) = <<>>
  BY <1>1 DEF TextOf
<1> QED BY <1>1, <1>4, <1>5 DEF AllTyped

(* Nothing was typed for it. *)
LEMMA FieldLeftOut ==
    ASSUME NEW read, InParam(read), m_state \in StartStates, Frame,
           m_param_index' = m_param_index
    PROVE  AllTyped(m_cmdline', m_parse_ok_index, Command, m_param_index', read.parts)
<1> DEFINE n == m_param_index
<1>1. m_state # "StringEnd"
  BY DEF StartStates
<1>2. /\ n \in Nat /\ Len(read.parts) = n + 1
      /\ TextOf(read.parts, n) = read.parts[n + 1]
      /\ InField(m_state, m_cmdline, FieldStart, CmdParam, m_num, m_nibble, read.parts[n + 1])
  BY <1>1, FieldInHand
<1>3. TextOf(read.parts, n) = <<>>
  BY <1>2 DEF InField
<1>4. FieldsHeld(m_cmdline', m_parse_ok_index, Command, n, read.parts)
  BY FieldsStay
<1>5. \A j \in Nat : n <= j => TextOf(read.parts, j) = <<>>
  <2>1. ASSUME NEW j \in Nat, n <= j PROVE TextOf(read.parts, j) = <<>>
    <3>1. j = n \/ n + 1 <= j
      BY <1>2, <2>1
    <3>2. CASE j = n
      BY <1>3, <3>2
    <3>3. CASE n + 1 <= j
      BY <1>2, <2>1, <3>3 DEF TextOf
    <3> QED BY <3>1, <3>2, <3>3
  <2> QED BY <2>1
<1> QED BY <1>4, <1>5 DEF AllTyped

(* The texts were closed before. *)
LEMMA AllClosed ==
    ASSUME NEW read, InParam(read), m_state = "StringEnd", Frame,
           m_param_index' = m_param_index
    PROVE  /\ m_param_index' \in Nat /\ Len(read.parts) = m_param_index' /\ ~read.quoted
           /\ FieldsHeld(m_cmdline', m_parse_ok_index, Command, m_param_index', read.parts)
           /\ AllTyped(m_cmdline', m_parse_ok_index, Command, m_param_index', read.parts)
<1> DEFINE n == m_param_index
<1>1. Start /\ m_state \in ParamStates /\ Reads(read)
  BY DEF InParam
<1>2. n \in Nat
  BY <1>1, BehindStart
<1>3. Len(read.parts) = n /\ ~read.quoted
  BY <1>1 DEF Reads, InFields
<1>4. FieldsHeld(m_cmdline', m_parse_ok_index, Command, n, read.parts)
  BY FieldsStay
<1>5. \A j \in Nat : n <= j => TextOf(read.parts, j) = <<>>
  BY <1>2, <1>3 DEF TextOf
<1> QED BY <1>2, <1>3, <1>4, <1>5 DEF AllTyped

(* finalizeExtCmd begins. *)
LEMMA FinalizeTaken ==
    ASSUME NEW read, NEW read2, NEW left, Finalize(left),
           AllTyped(m_cmdline', m_parse_ok_index, Command, m_param_index', read.parts)
    PROVE  TakesParam(left, read, read2)
BY DEF Finalize, TakesParam

-----------------------------------------------------------------------------
(* Fields are filled with what their texts mean. *)

LEMMA NumberHeld ==
    ASSUME Ready, CmdParam.type \in NumTypes, m_parse_index = FieldStart,
           NEW v \in Value, AddNumericParameter(v), m_parse_index' <= CmdlineSize,
           NEW text, Means(text, CmdParam, v)
    PROVE  Held(m_cmdline', FieldStart, CmdParam, text)
<1>1. PICK bytes : bytes = NumBytes(v)
  OBVIOUS
<1>2. v \in Nat
  BY NumMaxAssumption DEF Value
<1>3. Len(bytes) = 4 /\ Put(bytes)
  BY <1>1, <1>2, NumBytesLemma DEF AddNumericParameter
<1>4. \A k \in 0 .. 4 - 1 : m_cmdline'[m_parse_index + k] = bytes[k + 1]
  BY <1>3, PutCells
<1>5. CmdParam.type \notin {"STR", "STR_HEX"}
  BY DEF NumTypes
<1>6. Stored(m_cmdline', FieldStart, CmdParam, v)
  BY <1>1, <1>4, <1>5 DEF Stored
<1> QED BY <1>6 DEF Held

(* A text that was put, and the NUL behind it. *)
LEMMA TextHeld ==
    ASSUME NEW p, p.type = "STR", NEW buf, NEW at, NEW v \in Seq(1 .. 255), Len(v) < p.size,
           CellsHold(buf, at, v), buf[at + Len(v)] = 0,
           DefaultsPlain => \A i \in 1 .. Len(v) : v[i] # DQUOTE,
           NEW text, Means(text, p, v)
    PROVE  Held(buf, at, p, text)
<1>1. p.type \notin NumTypes /\ p.type # "STR_HEX"
  BY DEF NumTypes
<1>2. Stored(buf, at, p, v)
  BY <1>1 DEF Stored
<1> QED BY <1>2 DEF Held

LEMMA StringHeld ==
    ASSUME Ready, CmdParam.type = "STR", CmdParam.size \in Nat, FieldStart \in Nat,
           NEW v \in Seq(1 .. 255), Len(v) + m_num = CmdParam.size, m_num > 0,
           CellsHold(m_cmdline, FieldStart, v), \A i \in 1 .. Len(v) : v[i] # DQUOTE,
           m_parse_index = FieldStart + CmdParam.size - m_num,
           FinalizeString(m_num), m_parse_index' <= CmdlineSize,
           NEW text, Means(text, CmdParam, v)
    PROVE  Held(m_cmdline', FieldStart, CmdParam, text)
<1>0. PICK n \in Nat : n = Len(v)
  <2>1. Len(v) \in Nat
    OBVIOUS
  <2> QED BY <2>1
<1>1. /\ m_parse_index \in Nat /\ m_num \in Nat /\ CmdlineSize \in Nat
      /\ m_parse_index + m_num <= CmdlineSize
  BY IndexLemma DEF FinalizeString, PutAt
<1>2. PICK bytes : bytes = <<0>>
  OBVIOUS
<1>3. /\ Len(bytes) = 1 /\ bytes[0 + 1] = 0 /\ PutAt(0, bytes, m_num)
      /\ m_parse_index + 0 + 1 <= CmdlineSize
  <2>1. Len(bytes) = 1 /\ bytes[0 + 1] = 0
    BY <1>2
  <2>2. PutAt(0, bytes, m_num)
    BY <1>2 DEF FinalizeString
  <2>3. m_parse_index + 0 + 1 <= CmdlineSize
    BY <1>1
  <2> QED BY <2>1, <2>2, <2>3
<1>4. \A k \in 0 .. 1 - 1 : m_cmdline'[m_parse_index + 0 + k] = bytes[k + 1]
  <2>1. 1 \in Nat /\ 0 \in Nat
    OBVIOUS
  <2> QED BY <1>3, <2>1, PutAtCells
<1>5. m_cmdline'[m_parse_index] = 0 /\ m_parse_index = FieldStart + n /\ n < CmdParam.size
  <2>1. PICK f \in Nat, s \in Nat, m \in Nat : f = FieldStart /\ s = CmdParam.size /\ m = m_num
    BY <1>1
  <2>2. n + m = s /\ m > 0 /\ m_parse_index = f + s - m
    BY <1>0, <2>1
  <2>3. m_parse_index = f + n /\ n < s
    BY <2>2
  <2>4. m_cmdline'[m_parse_index] = 0
    BY <1>1, <1>3, <1>4
  <2> QED BY <2>1, <2>3, <2>4
<1>6. Frame
  <2>1. 0 \in Nat /\ m_num \in Nat
    BY <1>1
  <2> QED BY <1>3, <2>1, PutAtFrame
<1>7. CellsHold(m_cmdline', FieldStart, v)
  <2>1. ASSUME NEW i \in 1 .. n PROVE m_cmdline'[FieldStart + i - 1] = v[i]
    <3>1. FieldStart + i - 1 \in 0 .. m_parse_index - 1
      BY <1>5
    <3>2. m_cmdline[FieldStart + i - 1] = v[i]
      BY <1>0 DEF CellsHold
    <3> QED BY <1>6, <3>1, <3>2 DEF Frame
  <2> QED BY <1>0, <2>1 DEF CellsHold
<1> QED BY <1>0, <1>5, <1>7, TextHeld

LEMMA BytesHeld ==
    ASSUME Ready, CmdParam.type = "STR_HEX", CmdParam.size \in Nat, FieldStart \in Nat,
           NEW v \in Seq(Byte), Len(v) + m_num = CmdParam.size, CmdParam.size < 65536,
           CellsHold(m_cmdline, FieldStart, v),
           m_parse_index = FieldStart + CmdParam.size - m_num,
           FinalizeHexString(m_num, CmdParam.size), m_parse_index' <= CmdlineSize,
           NEW text, Means(text, CmdParam, v)
    PROVE  Held(m_cmdline', FieldStart, CmdParam, text)
<1>0. PICK n \in Nat : n = Len(v)
  <2>1. Len(v) \in Nat
    OBVIOUS
  <2> QED BY <2>1
<1>1. /\ m_parse_index \in Nat /\ m_num \in Nat /\ CmdlineSize \in Nat
      /\ m_parse_index + (m_num + 2) <= CmdlineSize
  BY IndexLemma DEF FinalizeHexString, PutAt
<1>13. PICK f \in Nat : f = FieldStart
  OBVIOUS
<1>14. PICK s \in Nat : s = CmdParam.size
  OBVIOUS
<1>15. PICK m \in Nat : m = m_num
  BY <1>1
<1>3. /\ n = CmdParam.size - m_num /\ n < 65536 /\ n <= CmdParam.size
      /\ m_parse_index = FieldStart + n
  <2>2. n + m = s /\ s < 65536 /\ m_parse_index = f + s - m
    BY <1>0, <1>13, <1>14, <1>15
  <2>3. n = s - m /\ n < 65536 /\ n <= s /\ m_parse_index = f + n
    BY <2>2
  <2> QED BY <1>13, <1>14, <1>15, <2>3
<1>4. PICK bytes : bytes = IdBytes(n)
  OBVIOUS
<1>5. Len(bytes) = 2
  BY <1>3, <1>4, IdBytesLemma
<1>2. PutAt(m_num, bytes, m_num + 2)
  BY <1>3, <1>4 DEF FinalizeHexString
<1>6. \A k \in 0 .. 2 - 1 : m_cmdline'[m_parse_index + m_num + k] = bytes[k + 1]
  <2>1. PICK offset, advance : offset = m_num /\ advance = m_num + 2
    OBVIOUS
  <2>2. PutAt(offset, bytes, advance)
    BY <1>2, <2>1
  <2>3. PICK two \in Nat : two = 2
    OBVIOUS
  <2>4. /\ m_parse_index + offset + two <= CmdlineSize /\ Len(bytes) = two
        /\ offset \in Nat
    <3>1. m_parse_index + (m + 2) <= CmdlineSize /\ m_parse_index \in Nat /\ CmdlineSize \in Nat
      BY <1>1, <1>15
    <3>2. m_parse_index + m + 2 <= CmdlineSize
      BY <3>1
    <3>3. offset = m
      BY <1>15, <2>1
    <3> QED BY <1>5, <2>3, <3>2, <3>3
  <2>5. \A k \in 0 .. two - 1 : m_cmdline'[m_parse_index + offset + k] = bytes[k + 1]
    BY <2>2, <2>4, PutAtCells
  <2> QED BY <2>1, <2>3, <2>5
<1>7. /\ m_parse_index + m_num + 0 = FieldStart + CmdParam.size
      /\ m_parse_index + m_num + 1 = FieldStart + CmdParam.size + 1
  <2>1. PICK i \in Nat : i = m_parse_index
    BY <1>1
  <2>3. i = f + n /\ n = s - m
    BY <1>3, <1>13, <1>14, <1>15, <2>1
  <2>4. i + m = f + s
    BY <2>3
  <2>2. m_parse_index + m = f + s
    BY <2>1, <2>4
  <2> QED BY <1>13, <1>14, <1>15, <2>2
<1>8. /\ m_cmdline'[FieldStart + CmdParam.size] = IdBytes(n)[1]
      /\ m_cmdline'[FieldStart + CmdParam.size + 1] = IdBytes(n)[2]
  <2>1. 0 \in 0 .. 2 - 1 /\ 1 \in 0 .. 2 - 1 /\ 0 + 1 = 1 /\ 1 + 1 = 2
    OBVIOUS
  <2>2. /\ m_cmdline'[m_parse_index + m_num + 0] = bytes[0 + 1]
        /\ m_cmdline'[m_parse_index + m_num + 1] = bytes[1 + 1]
    BY <1>6, <2>1
  <2> QED BY <1>4, <1>7, <2>1, <2>2
<1>9. Frame
  <2>1. m_num \in Nat /\ m_num + 2 \in Nat
    BY <1>1
  <2> QED BY <1>2, <2>1, PutAtFrame
<1>10. CellsHold(m_cmdline', FieldStart, v)
  <2>1. ASSUME NEW i \in 1 .. n PROVE m_cmdline'[FieldStart + i - 1] = v[i]
    <3>1. FieldStart + i - 1 \in 0 .. m_parse_index - 1
      BY <1>3
    <3>2. m_cmdline[FieldStart + i - 1] = v[i]
      BY <1>0 DEF CellsHold
    <3> QED BY <1>9, <3>1, <3>2 DEF Frame
  <2> QED BY <1>0, <2>1 DEF CellsHold
<1>11. CmdParam.type \notin NumTypes /\ CmdParam.type # "STR"
  BY DEF NumTypes
<1>12. Stored(m_cmdline', FieldStart, CmdParam, v)
  BY <1>0, <1>3, <1>8, <1>10, <1>11 DEF Stored
<1> QED BY <1>12 DEF Held

(* A parameter left out is its default. *)
LEMMA DefaultHeld ==
    ASSUME Ready, HexStringsRequired, DefaultsWhole, IsLeaf(m_trie), m_param_index < Cmd.count,
           CmdParam.optional, m_parse_index = FieldStart, AddDefault(CmdParam),
           m_parse_index' <= CmdlineSize
    PROVE  Held(m_cmdline', FieldStart, CmdParam, <<>>) /\ m_param_index' = m_param_index + 1
<1> DEFINE p == CmdParam
<1>1. /\ m_parse_index \in Nat /\ CmdlineSize \in Nat
      /\ Command \in ExtIndices /\ m_param_index \in Params(Command)
      /\ p = ExtCmds[Command].params[m_param_index]
  BY IndexLemma, CommandLemma DEF Params, Cmd, CmdParam
<1>2. /\ p.type \in ParamTypes /\ p.size \in Nat /\ p.default \in Value
      /\ p.text \in Seq(Byte)
      /\ p.type = "STR" => p.size > 0 /\ Len(p.text) < p.size
  BY <1>1, ParamAssumption
<1>3. CASE p.type \in NumTypes
  <2>1. AddNumericParameter(p.default)
    BY <1>3 DEF AddDefault, NumTypes
  <2>2. m_param_index' = m_param_index + 1
    BY <2>1 DEF AddNumericParameter
  <2>3. Means(<<>>, p, p.default)
    BY <1>3 DEF Means, DefaultOf
  <2>4. Held(m_cmdline', FieldStart, p, <<>>)
    BY <1>2, <1>3, <2>1, <2>3, NumberHeld
  <2> QED BY <2>2, <2>4
<1>4. CASE p.type = "STR"
  <2>1. PICK text, bytes : text = p.text /\ bytes = text \o <<0>>
    OBVIOUS
  <2>2. /\ PutAt(0, bytes, p.size) /\ m_param_index' = m_param_index + 1
        /\ m_parse_index + p.size <= CmdlineSize
    BY <1>4, <2>1 DEF AddDefault, AddDefaultString, PutAt, NumTypes
  <2>3. PICK n \in Nat : n = Len(text)
    BY <1>2, <2>1
  <2>4. /\ Len(bytes) = n + 1 /\ bytes[n + 1] = 0 /\ n < p.size
        /\ \A i \in 1 .. n : bytes[i] = text[i]
    BY <1>2, <1>4, <2>1, <2>3
  <2>5. \A k \in 0 .. n + 1 - 1 : m_cmdline'[m_parse_index + 0 + k] = bytes[k + 1]
    <3>1. n + 1 \in Nat /\ 0 \in Nat /\ m_parse_index + 0 + (n + 1) <= CmdlineSize
      BY <1>1, <1>2, <2>2, <2>3, <2>4
    <3>2. PICK m \in Nat : m = n + 1
      BY <3>1
    <3>3. \A k \in 0 .. m - 1 : m_cmdline'[m_parse_index + 0 + k] = bytes[k + 1]
      BY <2>2, <2>4, <3>1, <3>2, PutAtCells
    <3> QED BY <3>2, <3>3
  <2>6. /\ m_cmdline'[FieldStart + n] = 0
        /\ \A i \in 1 .. n : m_cmdline'[FieldStart + i - 1] = text[i]
    <3>1. PICK f \in Nat : f = m_parse_index
      BY <1>1
    <3>2. n \in 0 .. n + 1 - 1 /\ f + 0 + n = f + n
      OBVIOUS
    <3>3. m_cmdline'[f + n] = 0
      BY <2>4, <2>5, <3>1, <3>2
    <3>4. ASSUME NEW i \in 1 .. n PROVE m_cmdline'[f + i - 1] = text[i]
      <4>1. i - 1 \in 0 .. n + 1 - 1 /\ f + 0 + (i - 1) = f + i - 1 /\ (i - 1) + 1 = i
        OBVIOUS
      <4>2. m_cmdline'[f + 0 + (i - 1)] = bytes[(i - 1) + 1]
        BY <2>5, <3>1, <4>1
      <4>3. bytes[i] = text[i]
        BY <2>4
      <4> QED BY <4>1, <4>2, <4>3
    <3> QED BY <3>1, <3>3, <3>4
  <2>7. text \in Seq(1 .. 255)
    <3>1. Byte \subseteq Int /\ text \in Seq(Byte)
      BY <1>2, <2>1 DEF Byte
    <3>2. text \in Seq(Int) /\ \A i \in 1 .. Len(text) : text[i] \in Byte
      BY <3>1, IntSeq
    <3>3. ASSUME NEW i \in 1 .. Len(text) PROVE text[i] \in 1 .. 255
      <4>1. text[i] \in Byte
        BY <3>2
      <4>2. text[i] # 0
        BY <1>1, <1>4, <2>1 DEF DefaultsWhole, WithoutIn
      <4> QED BY <4>1, <4>2 DEF Byte
    <3>4. Len(text) \in Nat /\ text = [i \in 1 .. Len(text) |-> text[i]]
      BY <3>2
    <3>5. text \in [1 .. Len(text) -> 1 .. 255]
      BY <3>3, <3>4, Zenon
    <3> QED BY <3>4, <3>5, SeqFromFun
  <2>8. DefaultsPlain => \A i \in 1 .. Len(text) : text[i] # DQUOTE
    BY <1>1, <1>4, <2>1 DEF DefaultsPlain, WithoutIn
  <2>9. Means(<<>>, p, text)
    BY <1>4, <2>1 DEF Means, DefaultOf, NumTypes
  <2>10. CellsHold(m_cmdline', FieldStart, text)
    BY <2>3, <2>6 DEF CellsHold
  <2>11. Held(m_cmdline', FieldStart, p, <<>>)
    BY <1>4, <2>3, <2>4, <2>6, <2>7, <2>8, <2>9, <2>10, TextHeld
  <2> QED BY <2>2, <2>11
<1>5. CASE p.type = "STR_HEX"
  BY <1>1, <1>5 DEF HexStringsRequired
<1> QED BY <1>2, <1>3, <1>4, <1>5 DEF ParamTypes

-----------------------------------------------------------------------------
(* The handlers of parameters. *)

Takes(x, left, read) ==
    /\ TakesParam(left, read, IF PassedOver(x) THEN read ELSE NextPart(read, x))
    /\ pc' = "fill" => ~PassedOver(x)

LEMMA StopTakes ==
    ASSUME NEW x, NEW left, NEW read, NEW d, NEW error,
           Fail(left) \/ FailOn(d, left) \/ Execute(error, left)
    PROVE  Takes(x, left, read)
<1>1. m_state' \notin Entering /\ pc' # "fill"
  BY DEF Fail, FailOn, Execute, Goto, Entering, Entry
<1> QED BY <1>1 DEF Takes, TakesParam

LEMMA StayTakes ==
    ASSUME NEW x, NEW left, NEW read, InParam(read), Stay(left), PassedOver(x)
    PROVE  Takes(x, left, read)
<1>1. /\ m_state \in ParamStates /\ m_state' = m_state /\ pc' = "ret" /\ redo' = left
      /\ m_trie' = m_trie /\ m_parse_ok_index' = m_parse_ok_index
      /\ m_cmdline' = m_cmdline /\ m_param_index' = m_param_index
      /\ m_num' = m_num /\ m_nibble' = m_nibble
  BY DEF Stay, Goto, Keep, bufVars, paramVars, InParam
<1>2. Reads(read)
  BY DEF InParam
<1>3. InFields(m_state', m_cmdline', m_parse_ok_index, Command, m_param_index', m_num',
               m_nibble', read)
  BY <1>1, <1>2 DEF Reads
<1> QED BY <1>1, <1>3 DEF Takes, TakesParam

LEMMA NotPassed ==
    ASSUME NEW x, x # SPACE \/ m_state \in {"String", "StringEnd", "NumDec", "NumHex", "NumBin"},
           x # DASH \/ m_state # "HexString"
    PROVE  ~PassedOver(x)
BY DEF PassedOver

(* In a state that awaits a value nothing has been read of the field. *)
LEMMA AtStart ==
    ASSUME NEW read, InParam(read), m_state \in StartStates
    PROVE  /\ Ready /\ HexStringsRequired /\ DefaultsWhole /\ IsLeaf(m_trie)
           /\ m_state # "StringEnd" /\ m_state # "String" /\ m_state # "HexString"
           /\ m_state \notin {"NumDec", "NumHex", "NumBin"}
           /\ m_param_index < Cmd.count /\ m_parse_index = FieldStart
           /\ read.quoted = FALSE /\ read.parts[m_param_index + 1] = <<>>
<1>1. /\ Start /\ Meant /\ DefaultsWhole /\ pc = "ret" /\ m_state \in ParamStates /\ Reads(read)
  BY DEF InParam
<1>2. /\ m_state # "StringEnd" /\ m_state # "String" /\ m_state # "HexString"
      /\ m_state \notin {"NumDec", "NumHex", "NumBin"}
  BY DEF StartStates
<1>3. Ready /\ IsLeaf(m_trie)
  BY <1>1, BehindStart
<1>4. m_param_index < Cmd.count /\ m_parse_index = FieldStart
  BY <1>1, <1>2, <1>3, StartLemma DEF Start
<1>5. read.quoted = FALSE
  <2>1. read.quoted = (m_state \in {"String", "HexString"}) /\ read.quoted \in BOOLEAN
    BY <1>1 DEF Reads, InFields, InParam, Readings
  <2>2. ~(m_state \in {"String", "HexString"})
    BY <1>2
  <2> QED BY <2>1, <2>2, Zenon
<1>6. read.parts[m_param_index + 1] = <<>>
  BY <1>2, FieldInHand DEF InField
<1> QED BY <1>1, <1>2, <1>3, <1>4, <1>5, <1>6 DEF Meant

LEMMA DefaultTaken ==
    ASSUME NEW read, InParam(read), m_state \in StartStates, NEW x \in Typeable, NEW c,
           c = ToUpper(x), NEW left, ProcessDefaultParameter(c, left),
           m_parse_index' <= CmdlineSize
    PROVE  Takes(x, left, read)
<1>1. /\ Ready /\ HexStringsRequired /\ DefaultsWhole /\ IsLeaf(m_trie)
      /\ m_state # "StringEnd" /\ m_state # "String" /\ m_state # "HexString"
      /\ m_state \notin {"NumDec", "NumHex", "NumBin"}
      /\ m_param_index < Cmd.count /\ m_parse_index = FieldStart
      /\ read.quoted = FALSE /\ read.parts[m_param_index + 1] = <<>>
  BY AtStart
<1>2. (c = SPACE <=> x = SPACE) /\ (c = COMMA <=> x = COMMA) /\ SPACE # COMMA
  BY UpperLemma DEF SPACE, COMMA
<1>3. CASE c = SPACE /\ Stay(left)
  <2>1. PassedOver(x)
    BY <1>1, <1>2, <1>3 DEF PassedOver
  <2> QED BY <1>3, <2>1, StayTakes
<1>4. CASE Fail(left)
  BY <1>4, StopTakes
<1>5. CASE /\ c = COMMA /\ CmdParam.optional /\ AddDefault(CmdParam) /\ SetupParameterParser(left)
           /\ UNCHANGED <<m_parse_ok_index, m_trie>>
  <2>1. Frame
    BY <1>1, <1>5, DefaultFrame
  <2>2. Held(m_cmdline', FieldStart, CmdParam, <<>>) /\ m_param_index' = m_param_index + 1
    BY <1>1, <1>5, DefaultHeld
  <2>3. TakesParam(left, read, NextPart(read, x))
    <3>1. /\ m_param_index' \in Nat /\ Len(read.parts) = m_param_index'
          /\ FieldsHeld(m_cmdline', m_parse_ok_index, Command, m_param_index', read.parts)
      BY <1>1, <2>1, <2>2, FieldTyped
    <3> QED BY <1>1, <1>2, <1>5, <3>1, CommaTyped
  <2>4. ~PassedOver(x)
    BY <1>1, <1>2, <1>5, NotPassed
  <2> QED BY <2>3, <2>4 DEF Takes
<1>6. CASE /\ c # SPACE /\ Finalize(left)
           /\ UNCHANGED <<m_cmdline, m_parse_index, paramVars>>
  <2>1. Frame /\ m_param_index' = m_param_index
    BY <1>1, <1>6, KeptFrame DEF paramVars
  <2>2. AllTyped(m_cmdline', m_parse_ok_index, Command, m_param_index', read.parts)
    BY <2>1, FieldLeftOut
  <2>3. ~PassedOver(x)
    BY <1>1, <1>2, <1>6, NotPassed
  <2> QED BY <1>6, <2>2, <2>3, FinalizeTaken DEF Takes
<1> QED BY <1>3, <1>4, <1>5, <1>6 DEF ProcessDefaultParameter

LEMMA DigitValue ==
    ASSUME NEW t \in NumTypes, NEW n \in Int, NEW x \in Typeable, DigitFits(t, n, ToUpper(x))
    PROVE  /\ Base(t) \in Nat /\ GetHex(x) \in 0 .. Base(t) - 1
           /\ DigitNext(t, n, ToUpper(x)) = Base(t) * n + GetHex(x)
           /\ x \notin {SPACE, COMMA, DQUOTE, DASH}
<1> DEFINE c == ToUpper(x)
<1>1. /\ GetHex(c) = GetHex(x) /\ GetHex(x) \in -1 .. 15
      /\ GetNumeric(c) # -1 => GetHex(x) = GetNumeric(c) /\ GetHex(x) \in 0 .. 9
      /\ c = 48 => GetHex(x) = 0
      /\ c = 49 => GetHex(x) = 1
  BY UpperLemma
<1>2. GetHex(x) # -1 => x \notin {SPACE, COMMA, DQUOTE, DASH}
  <2>1. \A d \in {SPACE, COMMA, DQUOTE, DASH} : GetHex(d) = -1
    BY DEF GetHex, IsNumeric, SPACE, COMMA, DQUOTE, DASH
  <2> QED BY <2>1
<1> HIDE DEF c
<1>3. CASE t = "NUM_DEC"
  <2>1. Base(t) = 10 /\ DecFits(n, c) /\ DigitNext(t, n, c) = DecNext(n, c)
    BY <1>3 DEF Base, DigitFits, DigitNext, c
  <2>2. GetNumeric(c) # -1 /\ DecNext(n, c) = 10 * n + GetNumeric(c)
    BY <2>1 DEF DecFits, DecNext
  <2> QED BY <1>1, <1>2, <2>1, <2>2 DEF c
<1>4. CASE t = "NUM_HEX"
  <2>1. Base(t) = 16 /\ HexFits(n, c) /\ DigitNext(t, n, c) = HexNext(n, c)
    BY <1>4 DEF Base, DigitFits, DigitNext, c
  <2>2. GetHex(c) # -1 /\ HexNext(n, c) = 16 * n + GetHex(c)
    BY <2>1 DEF HexFits, HexNext
  <2> QED BY <1>1, <1>2, <2>1, <2>2 DEF c
<1>5. CASE t = "NUM_BIN"
  <2>1. Base(t) = 2 /\ BinFits(n, c) /\ DigitNext(t, n, c) = BinNext(n, c)
    BY <1>5 DEF Base, DigitFits, DigitNext, c
  <2>2. c \in {48, 49} /\ BinNext(n, c) = 2 * n + (c - 48)
    BY <2>1 DEF BinFits, BinNext
  <2>3. CASE c = 48
    BY <1>1, <1>2, <2>1, <2>2, <2>3 DEF c
  <2>4. CASE c = 49
    BY <1>1, <1>2, <2>1, <2>2, <2>4 DEF c
  <2> QED BY <2>2, <2>3, <2>4
<1> QED BY <1>3, <1>4, <1>5 DEF NumTypes

(* The states of numbers are those of the type of the parameter.           *)
LEMMA AtNumber ==
    ASSUME NEW read, InParam(read), NEW t \in NumTypes, m_state \in {NumStart[t], NumState[t]}
    PROVE  /\ m_state \in NumStates /\ CmdParam.type = t
           /\ m_state # "StringEnd" /\ m_state # "String" /\ m_state # "HexString"
           /\ read.quoted = FALSE
           /\ m_state = NumStart[t] => m_state \in StartStates
           /\ m_state = NumState[t] =>
                 /\ m_state \in {"NumDec", "NumHex", "NumBin"}
                 /\ Digits(CmdParam, m_num, read.parts[m_param_index + 1])
<1>1. /\ m_state \in NumStates /\ m_state # "StringEnd" /\ m_state # "String"
      /\ m_state # "HexString"
      /\ m_state = NumStart[t] => m_state \in StartStates
      /\ m_state = NumState[t] => m_state \in {"NumDec", "NumHex", "NumBin"}
  BY DEF NumStart, NumState, NumStates, StartStates, NumTypes
<1>2. /\ InField(m_state, m_cmdline, FieldStart, CmdParam, m_num, m_nibble,
                 read.parts[m_param_index + 1])
      /\ CmdParam.type \in ParamTypes
  BY <1>1, FieldInHand
<1>3. m_state \in {NumStart[CmdParam.type], NumState[CmdParam.type]} /\ CmdParam.type \in NumTypes
  <2>1. /\ Start /\ Ready /\ pc = "ret"
    BY BehindStart DEF InParam
  <2>2. CmdParam.type \in NumTypes
    BY <1>1, <2>1 DEF Ready, IInv, ParameterInHand
  <2> QED BY <1>1, <1>2, <2>2 DEF InField
<1>4. CmdParam.type = t
  BY <1>3 DEF NumStart, NumState, NumTypes
<1>5. read.quoted = FALSE
  <2>1. read.quoted = (m_state \in {"String", "HexString"}) /\ read.quoted \in BOOLEAN
    BY DEF Reads, InFields, InParam, Readings
  <2>2. ~(m_state \in {"String", "HexString"})
    BY <1>1
  <2> QED BY <2>1, <2>2, Zenon
<1>6. m_state = NumState[t] => Digits(CmdParam, m_num, read.parts[m_param_index + 1])
  <2>1. m_state \in {"NumDec", "NumHex", "NumBin"} => m_state \in NumStates \ StartStates
    BY DEF NumStates, StartStates
  <2> QED BY <1>1, <1>2, <2>1 DEF InField
<1> QED BY <1>1, <1>4, <1>5, <1>6

LEMMA DigitTaken ==
    ASSUME NEW read, InParam(read), NEW t \in NumTypes, m_state \in {NumStart[t], NumState[t]},
           NEW n, n = IF m_state = NumStart[t] THEN 0 ELSE m_num,
           NEW x \in Typeable, NEW left, ProcessDigit(t, n, ToUpper(x), left)
    PROVE  Takes(x, left, read)
<1> DEFINE part == read.parts[m_param_index + 1]
           b == Base(t)
<1>1. /\ m_state \in NumStates /\ CmdParam.type = t
      /\ m_state # "StringEnd" /\ m_state # "String" /\ m_state # "HexString"
      /\ read.quoted = FALSE
      /\ m_state = NumStart[t] => m_state \in StartStates
      /\ m_state = NumState[t] => Digits(CmdParam, m_num, part)
  BY AtNumber
<1>2. CASE Fail(left)
  BY <1>2, StopTakes
<1>3. CASE /\ DigitFits(t, n, ToUpper(x)) /\ m_num' = DigitNext(t, n, ToUpper(x))
           /\ Goto(NumState[t], left)
           /\ UNCHANGED <<bufVars, m_param_index, m_nibble, m_trie>>
  <2>1. part \in Seq(Int) /\ b \in Nat /\ x \in Int
    <3>1. part \in Seq(Int)
      BY <1>1, FieldInHand
    <3>2. b \in Nat
      BY DEF Base, NumTypes
    <3>3. x \in Int
      BY DEF Typeable
    <3> QED BY <3>1, <3>2, <3>3
  <2>2. n = ValueOf(part, b) /\ n \in Int /\ \A i \in DOMAIN part : GetHex(part[i]) \in 0 .. b - 1
    <3>1. CASE m_state = NumStart[t]
      <4>1. part = <<>>
        BY <1>1, <3>1, AtStart
      <4>2. ValueOf(part, b) = 0
        <5> HIDE DEF b
        <5> QED BY <2>1, <4>1, ValueAppend
      <4>3. DOMAIN part = {}
        BY <4>1
      <4> HIDE DEF part, b
      <4> QED BY <3>1, <4>2, <4>3
    <3>2. CASE m_state # NumStart[t]
      <4>1. Digits(CmdParam, n, part)
        BY <1>1, <3>2
      <4> QED BY <1>1, <2>1, <4>1, ValueAppend DEF Digits
    <3> QED BY <3>1, <3>2
  <2>3. /\ GetHex(x) \in 0 .. b - 1 /\ m_num' = b * n + GetHex(x)
        /\ x \notin {SPACE, COMMA, DQUOTE, DASH}
    BY <1>3, <2>2, DigitValue
  <2>4. Digits(CmdParam, m_num', Append(part, x))
    <3> HIDE DEF part, b
    <3>1. m_num' = ValueOf(Append(part, x), b)
      BY <2>1, <2>2, <2>3, ValueAppend
    <3>2. Append(part, x) # <<>> /\ \A i \in DOMAIN Append(part, x) : GetHex(Append(part, x)[i]) \in 0 .. b - 1
      <4>1. PICK more : more = Append(part, x)
        OBVIOUS
      <4>2. /\ more \in Seq(Int) /\ Len(part) \in Nat /\ Len(more) = Len(part) + 1
            /\ more[Len(part) + 1] = x /\ \A i \in 1 .. Len(part) : more[i] = part[i]
        BY <2>1, <4>1, AppendElements
      <4>3. \A i \in 1 .. Len(part) : GetHex(part[i]) \in 0 .. b - 1
        BY <2>1, <2>2
      <4>4. ASSUME NEW i \in 1 .. Len(more) PROVE GetHex(more[i]) \in 0 .. b - 1
        <5>1. i = Len(part) + 1 \/ i \in 1 .. Len(part)
          BY <4>2
        <5> QED BY <2>3, <4>2, <4>3, <5>1
      <4>5. more # <<>> /\ DOMAIN more = 1 .. Len(more)
        BY <4>2
      <4> QED BY <4>1, <4>4, <4>5
    <3> QED BY <1>1, <3>1, <3>2 DEF Digits, b
  <2>5. /\ NumState[t] \in {"NumDec", "NumHex", "NumBin"}
        /\ NumState[t] \in ParamStates \ {"StringEnd"}
    BY DEF NumState, ParamStates, NumStates, NumTypes
  <2>6. InField(NumState[t], m_cmdline', FieldStart, CmdParam, m_num', m_nibble',
                Append(part, x))
    <3>1. NumState[t] \notin StartStates /\ NumState[t] # "String" /\ NumState[t] # "HexString"
      BY <2>5 DEF StartStates
    <3> HIDE DEF part
    <3> QED BY <1>1, <2>4, <3>1 DEF InField
  <2>7. NumState[t] \notin {"String", "HexString"} /\ (x = DQUOTE <=> read.quoted)
    BY <1>1, <2>3, <2>5
  <2>8. Frame /\ m_trie' = m_trie /\ m_parse_ok_index' = m_parse_ok_index
        /\ m_param_index' = m_param_index
    <3>1. Ready
      BY BehindStart DEF InParam
    <3> QED BY <1>3, <3>1, KeptFrame DEF bufVars
  <2>9. TakesParam(left, read, NextPart(read, x))
    BY <1>1, <1>3, <2>1, <2>3, <2>5, <2>6, <2>7, <2>8, MoreTyped
  <2>10. ~PassedOver(x) /\ pc' = "ret"
    BY <1>3, <2>3, NotPassed DEF Goto
  <2> QED BY <2>9, <2>10 DEF Takes
<1> QED BY <1>2, <1>3 DEF ProcessDigit

LEMMA NumberTaken ==
    ASSUME NEW read, InParam(read), NEW t \in NumTypes, m_state = NumState[t],
           NEW x \in Typeable, NEW c, c = ToUpper(x), NEW left, NumericParameterEnd(c, left),
           m_parse_index' <= CmdlineSize
    PROVE  Takes(x, left, read)
<1> DEFINE part == read.parts[m_param_index + 1]
<1>1. /\ m_state \in NumStates /\ CmdParam.type = t
      /\ m_state # "StringEnd" /\ m_state # "String" /\ m_state # "HexString"
      /\ read.quoted = FALSE /\ m_state \in {"NumDec", "NumHex", "NumBin"}
      /\ Digits(CmdParam, m_num, part)
  BY AtNumber
<1>2. /\ Ready /\ IsLeaf(m_trie) /\ Start /\ pc = "ret" /\ m_state \in ParamStates
  BY BehindStart DEF InParam
<1>3. m_parse_index = FieldStart
  BY <1>1, <1>2 DEF Start, LInv, Aligned
<1>4. m_num \in Value
  BY <1>1, <1>2 DEF Start, NumberFits
<1>5. ~PassedOver(x)
  BY <1>1, NotPassed
<1>6. c = COMMA <=> x = COMMA
  BY UpperLemma
<1>7. CASE Fail(left) \/ Execute(TRUE, left)
  BY <1>7, StopTakes
<1>8. ASSUME AddNumericParameter(m_num)
      PROVE  /\ m_param_index' \in Nat /\ Len(read.parts) = m_param_index'
             /\ FieldsHeld(m_cmdline', m_parse_ok_index, Command, m_param_index', read.parts)
             /\ AllTyped(m_cmdline', m_parse_ok_index, Command, m_param_index', read.parts)
  <2>1. Means(part, CmdParam, m_num)
    <3> HIDE DEF part
    <3>1. part # <<>> /\ CmdParam.type \in NumTypes
      BY <1>1 DEF Digits
    <3>2. Spells(part, CmdParam, m_num)
      BY <1>1, <3>1 DEF Spells, Digits, NumTypes
    <3> QED BY <3>1, <3>2 DEF Means
  <2>2. Held(m_cmdline', FieldStart, CmdParam, part)
    <3> HIDE DEF part
    <3> QED BY <1>1, <1>2, <1>3, <1>4, <1>8, <2>1, NumberHeld
  <2>3. Frame
    <3>1. m_num \in Nat
      BY <1>4, NumMaxAssumption DEF Value
    <3> QED BY <1>2, <1>8, <3>1, AddNumericFrame
  <2>4. m_param_index' = m_param_index + 1
    BY <1>8 DEF AddNumericParameter
  <2> QED BY <1>1, <2>2, <2>3, <2>4, FieldTyped
<1>9. CASE /\ c = COMMA /\ AddNumericParameter(m_num) /\ SetupParameterParser(left)
           /\ UNCHANGED <<m_parse_ok_index, m_trie>>
  <2>1. TakesParam(left, read, NextPart(read, x))
    BY <1>1, <1>6, <1>8, <1>9, CommaTyped
  <2> QED BY <1>5, <2>1 DEF Takes
<1>10. CASE AddNumericParameter(m_num) /\ Finalize(left)
  <2>1. TakesParam(left, read, NextPart(read, x))
    BY <1>8, <1>10, FinalizeTaken
  <2> QED BY <1>5, <2>1 DEF Takes
<1> QED BY <1>7, <1>9, <1>10 DEF NumericParameterEnd

(* The quote opens a text. *)
LEMMA QuoteTaken ==
    ASSUME NEW read, InParam(read),
           NEW start \in {"StringStart", "HexStringStart"}, NEW state, m_state = start,
           state = IF start = "StringStart" THEN "String" ELSE "HexString",
           NEW x \in Typeable, NEW c, c = ToUpper(x), NEW left,
           StateQuote(start, state, c, left), m_parse_index' <= CmdlineSize
    PROVE  Takes(x, left, read)
<1> DEFINE part == read.parts[m_param_index + 1]
<1>1. m_state \in StartStates
  BY DEF StartStates
<1>2. /\ Ready /\ m_state # "StringEnd" /\ m_state # "HexString"
      /\ read.quoted = FALSE /\ part = <<>>
  BY <1>1, AtStart
<1>3. CASE ProcessDefaultParameter(c, left)
  BY <1>1, <1>3, DefaultTaken
<1>4. CASE Fail(left)
  BY <1>4, StopTakes
<1>5. CASE c = DQUOTE /\ OpenString(state, left)
  <2>1. x = DQUOTE /\ x # SPACE /\ x # COMMA /\ x # DASH /\ x \in Int
    <3>1. x = DQUOTE
      BY <1>5, UpperLemma
    <3> QED BY <3>1 DEF DQUOTE, SPACE, COMMA, DASH
  <2>2. /\ Goto(state, left) /\ m_num' = CmdParam.size /\ m_nibble' = NoNibble
        /\ UNCHANGED <<bufVars, m_param_index, m_trie>>
    BY <1>5 DEF OpenString
  <2>3. Frame /\ m_trie' = m_trie /\ m_parse_ok_index' = m_parse_ok_index
        /\ m_param_index' = m_param_index
    BY <1>2, <2>2, KeptFrame DEF bufVars
  <2>4. CmdParam.size \in Nat
    BY <1>2, FieldInHand
  <2>5. PICK one : one = Append(part, x) /\ one = <<DQUOTE>>
    <3>1. Append(part, x) = <<DQUOTE>>
      BY <1>2, <2>1
    <3> QED BY <3>1, Zenon
  <2>6. Letters(m_cmdline', FieldStart, CmdParam, m_num', one)
    <3>1. PICK v \in Seq(1 .. 255) : v = <<>>
      <4>1. <<>> \in Seq(1 .. 255)
        OBVIOUS
      <4> QED BY <4>1, Zenon
    <3>2. Len(v) + m_num' = CmdParam.size /\ Len(v) = 0
      BY <2>2, <2>4, <3>1
    <3>3. one = <<DQUOTE>> \o v
      BY <2>5, <3>1
    <3>4. 1 .. Len(v) = {}
      BY <3>2
    <3>5. CellsHold(m_cmdline', FieldStart, v) /\ \A i \in 1 .. Len(v) : v[i] # DQUOTE
      BY <3>4 DEF CellsHold
    <3> QED BY <3>2, <3>3, <3>5 DEF Letters
  <2>7. Pairs(m_cmdline', FieldStart, CmdParam, m_num', m_nibble', one)
    <3>1. PICK v \in Seq(Byte) : v = <<>>
      <4>1. <<>> \in Seq(Byte)
        OBVIOUS
      <4> QED BY <4>1, Zenon
    <3>2. Len(v) + m_num' = CmdParam.size /\ Len(v) = 0
      BY <2>2, <2>4, <3>1
    <3>3. Len(one) = 1 + 2 * Len(v) + Half(m_nibble') /\ one[1] = DQUOTE
      BY <2>2, <2>5, <3>2 DEF Half
    <3>4. 1 .. Len(v) = {}
      BY <3>2
    <3>5. CellsHold(m_cmdline', FieldStart, v) /\ Paired(one, v)
      BY <3>4 DEF CellsHold, Paired
    <3> QED BY <2>2, <3>2, <3>3, <3>5 DEF Pairs
  <2>8. /\ state \in {"String", "HexString"} /\ state \in ParamStates \ {"StringEnd"}
        /\ state \notin StartStates /\ state \notin NumStates
    BY DEF ParamStates, StartStates, NumStates
  <2>9. InField(state, m_cmdline', FieldStart, CmdParam, m_num', m_nibble', Append(part, x))
    <3> HIDE DEF part
    <3> QED BY <2>5, <2>6, <2>7, <2>8 DEF InField
  <2>10. TakesParam(left, read, NextPart(read, x))
    BY <1>2, <2>1, <2>2, <2>3, <2>8, <2>9, MoreTyped
  <2>11. ~PassedOver(x)
    BY <2>1, NotPassed
  <2> QED BY <2>10, <2>11 DEF Takes
<1> QED BY <1>3, <1>4, <1>5 DEF StateQuote

LEMMA CellsGrow ==
    ASSUME NEW v \in Seq(Int), NEW x \in Int, NEW at \in Nat,
           CellsHold(m_cmdline, at, v), m_parse_index = at + Len(v), Frame,
           m_cmdline'[m_parse_index] = x, NEW more, more = Append(v, x)
    PROVE  CellsHold(m_cmdline', at, more)
<1>1. PICK n \in Nat : n = Len(v)
  <2>1. Len(v) \in Nat
    OBVIOUS
  <2> QED BY <2>1
<1>3. more \in Seq(Int) /\ Len(more) = n + 1 /\ more[n + 1] = x /\ \A i \in 1 .. n : more[i] = v[i]
  BY <1>1
<1>4. ASSUME NEW i \in 1 .. n + 1 PROVE m_cmdline'[at + i - 1] = more[i]
  <2>1. CASE i = n + 1
    <3>1. at + i - 1 = m_parse_index
      BY <1>1, <2>1
    <3> QED BY <1>3, <2>1, <3>1
  <2>2. CASE i # n + 1
    <3>1. i \in 1 .. n /\ at + i - 1 \in 0 .. m_parse_index - 1
      BY <1>1, <2>2
    <3>2. m_cmdline[at + i - 1] = v[i]
      BY <1>1, <3>1 DEF CellsHold
    <3> QED BY <1>3, <3>1, <3>2 DEF Frame
  <2> QED BY <2>1, <2>2
<1> QED BY <1>1, <1>3, <1>4 DEF CellsHold

(* The second quote closes the text. *)
LEMMA TextClosed ==
    ASSUME NEW read, InParam(read), m_state \in {"String", "HexString"}, NEW left,
           Goto("StringEnd", left), UNCHANGED <<m_parse_ok_index, m_trie>>, Frame,
           m_param_index' = m_param_index + 1, NEW x, x = DQUOTE,
           Held(m_cmdline', FieldStart, CmdParam, Append(read.parts[m_param_index + 1], x))
    PROVE  TakesParam(left, read, NextPart(read, x))
<1> DEFINE n == m_param_index
           next == NextPart(read, x)
<1>1. /\ n \in Nat /\ Len(read.parts) = n + 1
      /\ CmdParam = ExtCmds[Command].params[n]
  BY FieldInHand
<1>2. read \in Readings /\ x \in Int /\ x = DQUOTE /\ x # COMMA /\ read.quoted = TRUE
  <2>1. read \in Readings /\ read.quoted = (m_state \in {"String", "HexString"})
    BY DEF InParam, Reads, InFields
  <2>2. read.quoted = TRUE
    BY <2>1, Zenon
  <2> QED BY <2>1, <2>2 DEF DQUOTE, COMMA
<1>3. /\ next.quoted = FALSE
      /\ Len(next.parts) = n + 1
      /\ next.parts[n + 1] = Append(read.parts[n + 1], x)
      /\ \A j \in 1 .. n : next.parts[j] = read.parts[j]
  <2>1. /\ next.quoted = (IF x = DQUOTE THEN ~read.quoted ELSE read.quoted)
        /\ Len(next.parts) = n + 1
        /\ next.parts[n + 1] = Append(read.parts[n + 1], x)
        /\ \A j \in 1 .. n : next.parts[j] = read.parts[j]
    BY <1>1, <1>2, NextPartParts
  <2>2. (IF x = DQUOTE THEN ~read.quoted ELSE read.quoted) = FALSE
    BY <1>2
  <2> HIDE DEF next
  <2> QED BY <2>1, <2>2
<1> HIDE DEF next
<1>4. \A j \in 0 .. n - 1 : TextOf(next.parts, j) = TextOf(read.parts, j)
  <2>1. ASSUME NEW j \in 0 .. n - 1 PROVE TextOf(next.parts, j) = TextOf(read.parts, j)
    <3>1. j + 1 \in 1 .. n /\ j < n + 1
      BY <1>1
    <3> HIDE DEF n
    <3> QED BY <1>1, <1>3, <3>1 DEF TextOf
  <2> QED BY <2>1
<1>5. FieldsHeld(m_cmdline', m_parse_ok_index, Command, n, next.parts)
  BY <1>4, FieldsStay
<1>6. TextOf(next.parts, n) = Append(read.parts[n + 1], x)
  BY <1>1, <1>3 DEF TextOf
<1>7. FieldsHeld(m_cmdline', m_parse_ok_index, Command, n + 1, next.parts)
  <2>1. Held(m_cmdline', m_parse_ok_index + ParamOffset[Command][n],
             ExtCmds[Command].params[n], TextOf(next.parts, n))
    BY <1>1, <1>6 DEF FieldStart
  <2> HIDE DEF n
  <2> QED BY <1>1, <1>5, <2>1, FieldsHeldGrow
<1>8. m_state' = "StringEnd" /\ pc' = "ret" /\ redo' = left
  BY DEF Goto
<1>9. InFields(m_state', m_cmdline', m_parse_ok_index, Command, m_param_index', m_num',
               m_nibble', next)
  <2>1. (m_state' \in {"String", "HexString"}) = FALSE
    BY <1>8
  <2> QED BY <1>1, <1>3, <1>7, <1>8, <2>1 DEF InFields
<1> QED BY <1>8, <1>9 DEF TakesParam, ParamStates, next

(* What is known inside the quotes. *)
InQuotes(part) ==
    /\ Ready /\ m_num \in Nat /\ FieldStart \in Nat /\ m_parse_index \in Nat
    /\ CmdParam.size \in Nat /\ CmdParam.size < 65536
    /\ m_parse_index = FieldStart + CmdParam.size - m_num
    /\ part \in Seq(Int)
    /\ m_state = "String" =>
          /\ CmdParam.type = "STR" /\ m_num > 0
          /\ Letters(m_cmdline, FieldStart, CmdParam, m_num, part)
    /\ m_state = "HexString" =>
          /\ CmdParam.type = "STR_HEX" /\ (m_nibble # NoNibble => m_num > 0)
          /\ Pairs(m_cmdline, FieldStart, CmdParam, m_num, m_nibble, part)

LEMMA AtText ==
    ASSUME NEW read, InParam(read), m_state \in {"String", "HexString"}
    PROVE  read.quoted = TRUE /\ InQuotes(read.parts[m_param_index + 1])
<1>1. /\ Start /\ pc = "ret" /\ m_state \in ParamStates
  BY DEF InParam
<1>2. /\ Ready /\ FieldStart \in Nat /\ m_num \in Nat
  BY <1>1, BehindStart, StartLemma2
<1>3. /\ CmdParam.size \in Nat /\ CmdParam.size < 65536
      /\ read.parts[m_param_index + 1] \in Seq(Int)
      /\ InField(m_state, m_cmdline, FieldStart, CmdParam, m_num, m_nibble,
                 read.parts[m_param_index + 1])
  <2>1. m_state # "StringEnd"
    OBVIOUS
  <2> QED BY <2>1, FieldInHand
<1>4. m_parse_index = FieldStart + CmdParam.size - m_num /\ m_parse_index \in Nat
  BY <1>1, StartLemma2 DEF Start, LInv, Aligned
<1>5. read.quoted = TRUE
  <2>1. read.quoted = (m_state \in {"String", "HexString"})
    BY DEF InParam, Reads, InFields
  <2> QED BY <2>1, Zenon
<1>6. /\ m_state = "String" => CmdParam.type = "STR" /\ m_num > 0
      /\ m_state = "HexString" => CmdParam.type = "STR_HEX" /\ (m_nibble # NoNibble => m_num > 0)
  BY <1>1, <1>2 DEF Ready, IInv, ParameterInHand, RoomInField
<1>7. /\ m_state = "String" =>
            Letters(m_cmdline, FieldStart, CmdParam, m_num, read.parts[m_param_index + 1])
      /\ m_state = "HexString" =>
            Pairs(m_cmdline, FieldStart, CmdParam, m_num, m_nibble,
                          read.parts[m_param_index + 1])
  BY <1>3 DEF InField
<1> QED BY <1>2, <1>3, <1>4, <1>5, <1>6, <1>7 DEF InQuotes

LEMMA StringTaken ==
    ASSUME NEW read, InParam(read), m_state = "String", NEW x \in Typeable, NEW left,
           StateString(x, left), m_parse_index' <= CmdlineSize
    PROVE  Takes(x, left, read)
<1>0. PICK part : part = read.parts[m_param_index + 1]
  OBVIOUS
<1>1. /\ Ready /\ m_num \in Nat /\ FieldStart \in Nat
      /\ CmdParam.size \in Nat /\ m_parse_index \in Nat
      /\ m_parse_index = FieldStart + CmdParam.size - m_num
      /\ read.quoted = TRUE
      /\ part \in Seq(Int) /\ CmdParam.type = "STR" /\ m_num > 0
      /\ Letters(m_cmdline, FieldStart, CmdParam, m_num, part)
  <2>1. InParam(read) /\ m_state \in {"String", "HexString"}
    OBVIOUS
  <2>2. read.quoted = TRUE /\ InQuotes(part)
    BY <1>0, <2>1, AtText
  <2> QED BY <2>2 DEF InQuotes
<1>2. PICK v \in Seq(1 .. 255) :
         /\ Len(v) + m_num = CmdParam.size /\ CellsHold(m_cmdline, FieldStart, v)
         /\ \A i \in 1 .. Len(v) : v[i] # DQUOTE
         /\ part = <<DQUOTE>> \o v
  BY <1>1 DEF Letters
<1>3. v \in Seq(Int) /\ Len(v) \in Nat
  <2>1. 1 .. 255 \subseteq Int
    OBVIOUS
  <2> QED BY <1>2, <2>1, IntSeq
<1>4. x \in Int /\ x \in 1 .. 255 /\ DQUOTE \in Int
  <2>1. x \in Int /\ x \in 1 .. 255
    BY UpperLemma
  <2> QED BY <2>1 DEF DQUOTE
<1>5. ~PassedOver(x)
  <2>1. m_state # "HexString"
    OBVIOUS
  <2> QED BY <2>1, NotPassed
<1>6. CASE Fail(left)
  BY <1>6, StopTakes
<1>7. CASE /\ x = DQUOTE /\ FinalizeString(m_num) /\ Goto("StringEnd", left)
           /\ UNCHANGED <<m_parse_ok_index, m_trie>>
  <2>1. Spells(Append(part, x), CmdParam, v)
    <3>1. <<DQUOTE>> \o v \o <<DQUOTE>> = Append(part, x)
      <4>1. part \o <<x>> = Append(part, x)
        BY <1>1, <1>4, AppendConcat
      <4> QED BY <1>2, <1>7, <4>1
    <3>2. CmdParam.type \notin NumTypes
      BY <1>1 DEF NumTypes
    <3> QED BY <1>1, <3>1, <3>2 DEF Spells
  <2>2. Append(part, x) # <<>>
    <3>1. part \in Seq(Int) /\ x \in Int
      BY <1>1, <1>4
    <3>2. Len(Append(part, x)) = Len(part) + 1 /\ Len(part) \in Nat
      BY <3>1
    <3> QED BY <3>2
  <2>3. Means(Append(part, x), CmdParam, v)
    BY <2>1, <2>2 DEF Means
  <2>4. Held(m_cmdline', FieldStart, CmdParam, Append(part, x))
    BY <1>1, <1>2, <1>7, <2>3, StringHeld
  <2>5. Frame
    <3>1. PutAt(0, <<0>>, m_num)
      BY <1>7 DEF FinalizeString
    <3> QED BY <1>1, <3>1, PutAtFrame
  <2>6. m_param_index' = m_param_index + 1
    BY <1>7 DEF FinalizeString
  <2>7. TakesParam(left, read, NextPart(read, x))
    BY <1>7, <2>4, <2>5, <2>6, <1>0, TextClosed
  <2> QED BY <1>5, <2>7 DEF Takes
<1>8. CASE /\ x # DQUOTE /\ Put(<<x>>) /\ m_num' = m_num - 1 /\ Goto("String", left)
           /\ UNCHANGED <<m_parse_ok_index, m_param_index, m_nibble, m_trie>>
  <2>1. PICK bytes : bytes = <<x>>
    OBVIOUS
  <2>2. Len(bytes) = 1 /\ bytes[0 + 1] = x /\ Put(bytes)
    BY <1>8, <2>1
  <2>3. Frame
    BY <1>1, <2>2, PutFrame
  <2>4. m_cmdline'[m_parse_index] = x
    <3>1. PICK one \in Nat : one = 1
      OBVIOUS
    <3>2. \A k \in 0 .. one - 1 : m_cmdline'[m_parse_index + k] = bytes[k + 1]
      BY <1>1, <2>2, <3>1, PutCells
    <3>3. 0 \in 0 .. one - 1 /\ m_parse_index + 0 = m_parse_index
      BY <1>1, <3>1
    <3> QED BY <2>2, <3>2, <3>3
  <2>5. m_parse_index = FieldStart + Len(v)
    <3>1. PICK f \in Nat, s \in Nat, m \in Nat : f = FieldStart /\ s = CmdParam.size /\ m = m_num
      BY <1>1
    <3>2. PICK n \in Nat : n = Len(v)
      BY <1>3
    <3>3. n + m = s /\ m_parse_index = f + s - m
      BY <1>1, <1>2, <3>1, <3>2
    <3>4. m_parse_index = f + n
      BY <3>3
    <3> QED BY <3>1, <3>2, <3>4
  <2>6. PICK w : w = Append(v, x)
    OBVIOUS
  <2>7. /\ w \in Seq(1 .. 255) /\ Len(w) = Len(v) + 1 /\ w[Len(v) + 1] = x
        /\ \A i \in 1 .. Len(v) : w[i] = v[i]
        /\ CellsHold(m_cmdline', FieldStart, w)
    <3>1. PICK S : S = 1 .. 255
      OBVIOUS
    <3>2. w \in Seq(S)
      BY <1>2, <1>4, <2>6, <3>1
    <3>4. PICK at \in Nat : at = FieldStart
      BY <1>1
    <3>5. CellsHold(m_cmdline, at, v) /\ m_parse_index = at + Len(v)
      BY <1>2, <2>5, <3>4
    <3>3. /\ Len(w) = Len(v) + 1 /\ w[Len(v) + 1] = x
          /\ \A i \in 1 .. Len(v) : w[i] = v[i]
      BY <1>3, <1>4, <2>6
    <3>6. CellsHold(m_cmdline', at, w)
      BY <1>3, <1>4, <2>3, <2>4, <2>6, <3>5, CellsGrow
    <3> QED BY <3>1, <3>2, <3>3, <3>4, <3>6
  <2>8. Len(w) + m_num' = CmdParam.size /\ m_num' \in Nat
    BY <1>1, <1>2, <1>3, <1>8, <2>7
  <2>9. \A i \in 1 .. Len(w) : w[i] # DQUOTE
    <3>1. ASSUME NEW i \in 1 .. Len(w) PROVE w[i] # DQUOTE
      <4>1. i = Len(v) + 1 \/ i \in 1 .. Len(v)
        BY <1>3, <2>7
      <4> QED BY <1>2, <1>8, <2>7, <4>1
    <3> QED BY <3>1
  <2>10. Append(part, x) = <<DQUOTE>> \o w
    BY <1>2, <1>3, <1>4, <2>6, AppendConcat
  <2>11. Letters(m_cmdline', FieldStart, CmdParam, m_num', Append(part, x))
    BY <2>7, <2>8, <2>9, <2>10 DEF Letters
  <2>12. InField("String", m_cmdline', FieldStart, CmdParam, m_num', m_nibble', Append(part, x))
    <3>1. "String" \notin StartStates /\ "String" \notin NumStates
      BY DEF StartStates, NumStates
    <3> QED BY <2>11, <3>1 DEF InField
  <2>13. "String" \in ParamStates \ {"StringEnd"}
    BY DEF ParamStates
  <2>14. TakesParam(left, read, NextPart(read, x))
    BY <1>1, <1>4, <1>8, <2>3, <2>12, <2>13, <1>0, MoreTyped
  <2> QED BY <1>5, <2>14 DEF Takes
<1> QED BY <1>6, <1>7, <1>8 DEF StateString

(* Pairs stay pairs while digits follow, and two more digits make another. *)
LEMMA PairsStay ==
    ASSUME NEW n \in Nat, NEW m \in Nat, m >= 1 + 2 * n, NEW v, Len(v) = n,
           NEW part, Paired(part, v), NEW more, \A i \in 1 .. m : more[i] = part[i]
    PROVE  Paired(more, v)
<1>1. ASSUME NEW i \in 1 .. n
      PROVE  v[i] = 16 * GetHex(more[2 * i]) + GetHex(more[2 * i + 1])
  <2>1. 2 * i \in 1 .. m /\ 2 * i + 1 \in 1 .. m
    OBVIOUS
  <2>2. more[2 * i] = part[2 * i] /\ more[2 * i + 1] = part[2 * i + 1]
    BY <2>1
  <2>3. v[i] = 16 * GetHex(part[2 * i]) + GetHex(part[2 * i + 1])
    BY DEF Paired
  <2> QED BY <2>2, <2>3
<1> QED BY <1>1 DEF Paired

LEMMA PairsGrow ==
    ASSUME NEW n \in Nat, NEW v, Len(v) = n, NEW part,
           NEW more, Paired(more, v), more[2 * n + 2] = part[2 * n + 2],
           NEW w, Len(w) = n + 1, \A i \in 1 .. n : w[i] = v[i],
           w[n + 1] = 16 * GetHex(part[2 * n + 2]) + GetHex(more[2 * n + 3])
    PROVE  Paired(more, w)
<1>1. \A k \in Nat : 2 * (k + 1) = 2 * k + 2 /\ 2 * (k + 1) + 1 = 2 * k + 3
  OBVIOUS
<1>5. ASSUME NEW i \in 1 .. n + 1
      PROVE  w[i] = 16 * GetHex(more[2 * i]) + GetHex(more[2 * i + 1])
  <2>1. CASE i = n + 1
    <3>1. 2 * i = 2 * n + 2 /\ 2 * i + 1 = 2 * n + 3
      BY <1>1, <2>1
    <3> QED BY <2>1, <3>1
  <2>2. CASE i # n + 1
    <3>1. i \in 1 .. n
      BY <2>2
    <3>2. v[i] = 16 * GetHex(more[2 * i]) + GetHex(more[2 * i + 1])
      BY <3>1 DEF Paired
    <3> QED BY <3>1, <3>2
  <2> QED BY <2>1, <2>2
<1> QED BY <1>5 DEF Paired

(* The first digit of a byte is kept, the second makes it. *)
LEMMA NibbleTaken ==
    ASSUME NEW read, InParam(read), m_state = "HexString", NEW x \in Typeable,
           NEW c, c = ToUpper(x), NEW left, GetHex(c) # -1, m_nibble = NoNibble,
           m_nibble' = GetHex(c), Goto("HexString", left),
           UNCHANGED <<bufVars, m_param_index, m_num, m_trie>>
    PROVE  TakesParam(left, read, NextPart(read, x))
<1>0. PICK part : part = read.parts[m_param_index + 1]
  OBVIOUS
<1>1. read.quoted = TRUE /\ InQuotes(part)
  <2>1. m_state \in {"String", "HexString"}
    OBVIOUS
  <2> QED BY <1>0, <2>1, AtText
<1>2. PICK v \in Seq(Byte) :
         /\ Len(v) + m_num = CmdParam.size /\ CellsHold(m_cmdline, FieldStart, v)
         /\ Len(part) = 1 + 2 * Len(v) + Half(m_nibble) /\ part[1] = DQUOTE
         /\ Paired(part, v)
  BY <1>1 DEF InQuotes, Pairs
<1>3. /\ part \in Seq(Int) /\ Ready
      /\ x \in Int /\ GetHex(x) = GetHex(c) /\ GetHex(x) \in -1 .. 15
  BY <1>1, UpperLemma DEF InQuotes
<1>4. Half(m_nibble) = 0 /\ Half(m_nibble') = 1
  <2>1. m_nibble' # NoNibble
    <3>1. m_nibble' = GetHex(c) /\ GetHex(c) \in -1 .. 15
      BY <1>3
    <3> QED BY <3>1 DEF NoNibble
  <2> QED BY <2>1 DEF Half
<1>5. x # DQUOTE /\ x # COMMA
  <2>1. GetHex(DQUOTE) = -1 /\ GetHex(COMMA) = -1
    BY DEF GetHex, IsNumeric, DQUOTE, COMMA
  <2> QED BY <1>3, <2>1
<1>6. PICK more : more = Append(part, x)
  OBVIOUS
<1>7. Len(v) \in Nat
  OBVIOUS
<1>8. /\ Len(more) = Len(part) + 1 /\ Len(part) \in Nat
      /\ more[1] = DQUOTE /\ more[Len(more)] = x /\ Paired(more, v)
  <2>1. PICK m \in Nat : m = Len(part)
    BY <1>2, <1>4, <1>7
  <2>2. PICK n \in Nat : n = Len(v)
    BY <1>7
  <2>3. m >= 1 + 2 * n /\ 1 \in 1 .. m
    BY <1>2, <1>4, <2>1, <2>2
  <2>4. /\ Len(more) = m + 1 /\ more[m + 1] = x /\ \A i \in 1 .. m : more[i] = part[i]
    BY <1>3, <1>6, <2>1, AppendElements
  <2>5. Paired(more, v)
    <3>1. Len(v) = n /\ Paired(part, v) /\ m >= 1 + 2 * n /\ \A i \in 1 .. m : more[i] = part[i]
      BY <1>2, <2>2, <2>3, <2>4
    <3> QED BY <3>1, PairsStay
  <2> QED BY <1>2, <2>1, <2>3, <2>4, <2>5
<1>9. Frame /\ m_cmdline' = m_cmdline /\ m_parse_ok_index' = m_parse_ok_index
      /\ m_param_index' = m_param_index /\ m_num' = m_num /\ m_trie' = m_trie
  <2>1. UNCHANGED <<m_cmdline, m_parse_index, m_parse_ok_index>>
    BY DEF bufVars
  <2> QED BY <1>3, <2>1, KeptFrame
<1>10. Pairs(m_cmdline', FieldStart, CmdParam, m_num', m_nibble', more)
  <2>1. Len(more) = 1 + 2 * Len(v) + Half(m_nibble')
    BY <1>2, <1>4, <1>7, <1>8
  <2>2. m_nibble' = GetHex(more[Len(more)])
    BY <1>3, <1>8
  <2> QED BY <1>2, <1>8, <1>9, <2>1, <2>2 DEF Pairs
<1>11. InField("HexString", m_cmdline', FieldStart, CmdParam, m_num', m_nibble', more)
  BY <1>10 DEF InField, StartStates, NumStates
<1>12. "HexString" \in ParamStates \ {"StringEnd"}
  BY DEF ParamStates
<1>13. InField("HexString", m_cmdline', FieldStart, CmdParam, m_num', m_nibble',
               Append(read.parts[m_param_index + 1], x))
  BY <1>0, <1>6, <1>11
<1> QED BY <1>1, <1>3, <1>5, <1>9, <1>12, <1>13, MoreTyped

LEMMA ByteTaken ==
    ASSUME NEW read, InParam(read), m_state = "HexString", NEW x \in Typeable,
           NEW c, c = ToUpper(x), NEW left, GetHex(c) # -1, m_nibble # NoNibble,
           Put(<<16 * m_nibble + GetHex(c)>>), m_num' = m_num - 1, m_nibble' = NoNibble,
           Goto("HexString", left), UNCHANGED <<m_parse_ok_index, m_param_index, m_trie>>,
           m_parse_index' <= CmdlineSize
    PROVE  TakesParam(left, read, NextPart(read, x))
<1>0. PICK part : part = read.parts[m_param_index + 1]
  OBVIOUS
<1>1. read.quoted = TRUE /\ InQuotes(part)
  <2>1. m_state \in {"String", "HexString"}
    OBVIOUS
  <2> QED BY <1>0, <2>1, AtText
<1>2. PICK v \in Seq(Byte) :
         /\ Len(v) + m_num = CmdParam.size /\ CellsHold(m_cmdline, FieldStart, v)
         /\ Len(part) = 1 + 2 * Len(v) + Half(m_nibble) /\ part[1] = DQUOTE
         /\ Paired(part, v) /\ m_nibble = GetHex(part[Len(part)])
  BY <1>1 DEF InQuotes, Pairs
<1>3. /\ part \in Seq(Int) /\ Ready /\ FieldStart \in Nat /\ m_parse_index \in Nat
      /\ m_num \in Nat /\ m_num > 0 /\ CmdParam.size \in Nat
      /\ m_parse_index = FieldStart + CmdParam.size - m_num
      /\ x \in Int /\ GetHex(x) = GetHex(c) /\ GetHex(x) \in -1 .. 15
  BY <1>1, UpperLemma DEF InQuotes
<1>4. Half(m_nibble) = 1 /\ Half(m_nibble') = 0
  BY DEF Half
<1>5. x # DQUOTE /\ x # COMMA
  <2>1. GetHex(DQUOTE) = -1 /\ GetHex(COMMA) = -1
    BY DEF GetHex, IsNumeric, DQUOTE, COMMA
  <2> QED BY <1>3, <2>1
<1>6. PICK n \in Nat : n = Len(v)
  <2>1. Len(v) \in Nat
    OBVIOUS
  <2> QED BY <2>1
<1>7. Len(part) = 2 * n + 2
  BY <1>2, <1>4, <1>6
<1>8. PICK b \in Byte : b = 16 * m_nibble + GetHex(c)
  <2>1. m_nibble \in 0 .. 15
    BY <1>3 DEF Ready, IInv, TypeOK, CmdlineTypeOK, NoNibble
  <2>2. 16 * m_nibble + GetHex(c) \in Byte
    <3>1. GetHex(c) \in 0 .. 15
      BY <1>3
    <3>2. \A i, j \in 0 .. 15 : 16 * i + j \in 0 .. 255
      OBVIOUS
    <3> QED BY <2>1, <3>1, <3>2 DEF Byte
  <2> QED BY <2>2, Zenon
<1>9. PICK more : more = Append(part, x)
  OBVIOUS
<1>10. PICK w : w = Append(v, b)
  OBVIOUS
<1>11. v \in Seq(Int) /\ b \in Int
  <2>1. Byte \subseteq Int
    BY DEF Byte
  <2> QED BY <1>8, <2>1, IntSeq
<1>12. /\ Len(w) = n + 1 /\ w[n + 1] = b /\ \A i \in 1 .. n : w[i] = v[i]
  BY <1>6, <1>10, <1>11, AppendElements
<1>13. w \in Seq(Byte)
  BY <1>10
<1>14. /\ Len(more) = 2 * n + 3 /\ more[1] = DQUOTE /\ more[2 * n + 3] = x /\ Paired(more, v)
       /\ more[2 * n + 2] = part[2 * n + 2]
  <2>1. PICK m \in Nat : m = Len(part)
    BY <1>7
  <2>2. m = 2 * n + 2 /\ m >= 1 + 2 * n /\ 1 \in 1 .. m /\ m \in 1 .. m /\ m + 1 = 2 * n + 3
    BY <1>7, <2>1
  <2>3. /\ Len(more) = m + 1 /\ more[m + 1] = x /\ \A i \in 1 .. m : more[i] = part[i]
    BY <1>3, <1>9, <2>1, AppendElements
  <2>4. Paired(more, v)
    <3>1. Len(v) = n /\ Paired(part, v) /\ m >= 1 + 2 * n /\ \A i \in 1 .. m : more[i] = part[i]
      BY <1>2, <1>6, <2>2, <2>3
    <3> QED BY <3>1, PairsStay
  <2>5. more[1] = part[1] /\ more[m] = part[m]
    BY <2>2, <2>3
  <2> QED BY <1>2, <2>2, <2>3, <2>4, <2>5
<1>15. Paired(more, w)
  <2>1. w[n + 1] = 16 * GetHex(part[2 * n + 2]) + GetHex(more[2 * n + 3])
    BY <1>2, <1>3, <1>7, <1>8, <1>12, <1>14
  <2>2. /\ Len(v) = n /\ Paired(more, v) /\ more[2 * n + 2] = part[2 * n + 2]
        /\ Len(w) = n + 1 /\ \A i \in 1 .. n : w[i] = v[i]
    BY <1>6, <1>12, <1>14
  <2> QED BY <2>1, <2>2, PairsGrow
<1>16. PICK bytes : bytes = <<b>>
  OBVIOUS
<1>17. Len(bytes) = 1 /\ bytes[0 + 1] = b /\ Put(bytes)
  BY <1>8, <1>16
<1>18. Frame
  BY <1>3, <1>17, PutFrame
<1>19. m_cmdline'[m_parse_index] = b
  <2>1. PICK one \in Nat : one = 1
    OBVIOUS
  <2>2. \A k \in 0 .. one - 1 : m_cmdline'[m_parse_index + k] = bytes[k + 1]
    <3>1. Ready /\ Len(bytes) = one /\ Put(bytes)
      BY <1>3, <1>17, <2>1
    <3> QED BY <3>1, PutCells
  <2>3. 0 \in 0 .. one - 1 /\ m_parse_index + 0 = m_parse_index
    BY <1>3, <2>1
  <2> QED BY <1>17, <2>2, <2>3
<1>20. CellsHold(m_cmdline', FieldStart, w)
  <2>1. PICK at \in Nat : at = FieldStart
    BY <1>3
  <2>2. PICK size \in Nat : size = CmdParam.size
    BY <1>3
  <2>3. m_parse_index = at + n
    <3>1. m_parse_index = at + size - m_num /\ n + m_num = size /\ m_num \in Nat
      BY <1>2, <1>3, <1>6, <2>1, <2>2
    <3> QED BY <3>1
  <2>4. CellsHold(m_cmdline, at, v) /\ m_parse_index = at + Len(v)
    BY <1>2, <1>6, <2>1, <2>3
  <2>5. CellsHold(m_cmdline', at, w)
    BY <1>10, <1>11, <1>18, <1>19, <2>4, CellsGrow
  <2> QED BY <2>1, <2>5
<1>21. Pairs(m_cmdline', FieldStart, CmdParam, m_num', m_nibble', more)
  <2>1. Len(w) + m_num' = CmdParam.size
    BY <1>2, <1>3, <1>6, <1>12
  <2>2. Len(more) = 1 + 2 * Len(w) + Half(m_nibble')
    BY <1>4, <1>12, <1>14
  <2> QED BY <1>13, <1>14, <1>15, <1>20, <2>1, <2>2 DEF Pairs
<1>22. InField("HexString", m_cmdline', FieldStart, CmdParam, m_num', m_nibble', more)
  BY <1>21 DEF InField, StartStates, NumStates
<1>23. "HexString" \in ParamStates \ {"StringEnd"}
  BY DEF ParamStates
<1>24. InField("HexString", m_cmdline', FieldStart, CmdParam, m_num', m_nibble',
               Append(read.parts[m_param_index + 1], x))
  BY <1>0, <1>9, <1>22
<1> QED BY <1>1, <1>3, <1>5, <1>18, <1>23, <1>24, MoreTyped

LEMMA BytesClosed ==
    ASSUME NEW read, InParam(read), m_state = "HexString", NEW x, x = DQUOTE, NEW left,
           m_nibble = NoNibble, FinalizeHexString(m_num, CmdParam.size),
           Goto("StringEnd", left), UNCHANGED <<m_parse_ok_index, m_trie>>,
           m_parse_index' <= CmdlineSize
    PROVE  TakesParam(left, read, NextPart(read, x))
<1>0. PICK part : part = read.parts[m_param_index + 1]
  OBVIOUS
<1>1. InQuotes(part)
  <2>1. m_state \in {"String", "HexString"}
    OBVIOUS
  <2> QED BY <1>0, <2>1, AtText
<1>2. PICK v \in Seq(Byte) :
         /\ Len(v) + m_num = CmdParam.size /\ CellsHold(m_cmdline, FieldStart, v)
         /\ Len(part) = 1 + 2 * Len(v) + Half(m_nibble) /\ part[1] = DQUOTE
         /\ Paired(part, v)
  BY <1>1 DEF InQuotes, Pairs
<1>3. /\ part \in Seq(Int) /\ Ready /\ FieldStart \in Nat /\ m_num \in Nat
      /\ CmdParam.size \in Nat /\ CmdParam.size < 65536 /\ CmdParam.type = "STR_HEX"
      /\ m_parse_index = FieldStart + CmdParam.size - m_num
  BY <1>1 DEF InQuotes
<1>4. x \in Int
  BY DEF DQUOTE
<1>5. PICK n \in Nat : n = Len(v)
  <2>1. Len(v) \in Nat
    OBVIOUS
  <2> QED BY <2>1
<1>6. PICK m \in Nat : m = Len(part) /\ m = 2 * n + 1
  BY <1>2, <1>5 DEF Half
<1>7. PICK more : more = Append(part, x)
  OBVIOUS
<1>8. /\ more \in Seq(Int) /\ Len(more) = m + 1 /\ more[m + 1] = x
      /\ \A i \in 1 .. m : more[i] = part[i]
  <2>1. /\ more \in Seq(Int) /\ Len(more) = Len(part) + 1 /\ more[Len(part) + 1] = x
        /\ \A i \in 1 .. Len(part) : more[i] = part[i]
    BY <1>3, <1>4, <1>7, AppendElements
  <2> QED BY <1>6, <2>1
<1>9. Spells(more, CmdParam, v)
  <2>1. m >= 1 + 2 * n /\ 1 \in 1 .. m
    BY <1>6
  <2>2. Paired(more, v)
    <3>1. Len(v) = n /\ Paired(part, v) /\ m >= 1 + 2 * n /\ \A i \in 1 .. m : more[i] = part[i]
      BY <1>2, <1>5, <1>8, <2>1
    <3> QED BY <3>1, PairsStay
  <2>3. more[1] = DQUOTE
    BY <1>2, <1>8, <2>1
  <2>4. Last(more) = DQUOTE
    BY <1>8 DEF Last
  <2>5. Len(more) = 2 * Len(v) + 2
    BY <1>5, <1>6, <1>8
  <2>6. \A i \in DOMAIN v : v[i] = 16 * GetHex(more[2 * i]) + GetHex(more[2 * i + 1])
    <3>1. DOMAIN v = 1 .. Len(v)
      OBVIOUS
    <3> QED BY <2>2, <3>1 DEF Paired
  <2>7. CmdParam.type \notin NumTypes /\ CmdParam.type # "STR"
    BY <1>3 DEF NumTypes
  <2> QED BY <1>3, <2>3, <2>4, <2>5, <2>6, <2>7 DEF Spells
<1>10. Means(more, CmdParam, v)
  <2>1. more # <<>>
    BY <1>8
  <2> QED BY <1>9, <2>1 DEF Means
<1>11. Held(m_cmdline', FieldStart, CmdParam, more)
  BY <1>2, <1>3, <1>10, BytesHeld
<1>12. Frame /\ m_param_index' = m_param_index + 1
  <2>1. PICK two : two = m_num + 2
    OBVIOUS
  <2>2. PutAt(m_num, IdBytes(CmdParam.size - m_num), two) /\ two \in Nat
    BY <1>3, <2>1 DEF FinalizeHexString
  <2>3. Frame
    BY <1>3, <2>2, PutAtFrame
  <2> QED BY <2>3 DEF FinalizeHexString
<1>13. Held(m_cmdline', FieldStart, CmdParam, Append(read.parts[m_param_index + 1], x))
  BY <1>0, <1>7, <1>11
<1> QED BY <1>12, <1>13, TextClosed

LEMMA HexStringTaken ==
    ASSUME NEW read, InParam(read), m_state = "HexString", NEW x \in Typeable,
           NEW c, c = ToUpper(x), NEW left, StateHexString(c, left), m_parse_index' <= CmdlineSize
    PROVE  Takes(x, left, read)
<1>1. CASE c \in {SPACE, DASH} /\ Stay(left)
  <2>1. c \in {SPACE, DASH} => x = c
    BY UpperLemma
  <2>2. PassedOver(x)
    BY <1>1, <2>1 DEF PassedOver
  <2> QED BY <1>1, <2>2, StayTakes
<1>2. CASE Fail(left) \/ FailOn(c, left)
  BY <1>2, StopTakes
<1>3. CASE /\ c = DQUOTE /\ m_nibble = NoNibble /\ FinalizeHexString(m_num, CmdParam.size)
           /\ Goto("StringEnd", left) /\ UNCHANGED <<m_parse_ok_index, m_trie>>
  <2>1. x = DQUOTE
    BY <1>3, UpperLemma
  <2>2. TakesParam(left, read, NextPart(read, x))
    BY <1>3, <2>1, BytesClosed
  <2>3. ~PassedOver(x)
    BY <2>1 DEF PassedOver, DQUOTE, SPACE, DASH
  <2> QED BY <2>2, <2>3 DEF Takes
<1>4. CASE c \notin {SPACE, DASH, DQUOTE} /\ HexDigit(c, left)
  <2>1. ~PassedOver(x)
    BY <1>4, UpperLemma DEF PassedOver
  <2>2. CASE Fail(left) \/ FailOn(c, left)
    BY <2>2, StopTakes
  <2>3. CASE /\ GetHex(c) # -1 /\ m_nibble = NoNibble /\ m_nibble' = GetHex(c)
             /\ Goto("HexString", left) /\ UNCHANGED <<bufVars, m_param_index, m_num, m_trie>>
    <3>1. TakesParam(left, read, NextPart(read, x))
      BY <2>3, NibbleTaken
    <3> QED BY <2>1, <3>1 DEF Takes
  <2>4. CASE /\ GetHex(c) # -1 /\ m_nibble # NoNibble
             /\ Put(<<16 * m_nibble + GetHex(c)>>) /\ m_num' = m_num - 1
             /\ m_nibble' = NoNibble /\ Goto("HexString", left)
             /\ UNCHANGED <<m_parse_ok_index, m_param_index, m_trie>>
    <3>1. TakesParam(left, read, NextPart(read, x))
      BY <2>4, ByteTaken
    <3> QED BY <2>1, <3>1 DEF Takes
  <2> QED BY <1>4, <2>2, <2>3, <2>4 DEF HexDigit
<1> QED BY <1>1, <1>2, <1>3, <1>4 DEF StateHexString

LEMMA StringEndTaken ==
    ASSUME NEW read, InParam(read), m_state = "StringEnd", NEW x \in Typeable,
           NEW c, c = ToUpper(x), NEW left, StateStringEnd(c, left)
    PROVE  Takes(x, left, read)
<1>1. ~PassedOver(x)
  BY DEF PassedOver
<1>2. Ready
  BY DEF InParam, Start
<1>3. CASE Fail(left)
  BY <1>3, StopTakes
<1>4. CASE c = COMMA /\ UNCHANGED <<bufVars, paramVars, m_trie>> /\ SetupParameterParser(left)
  <2>1. x = COMMA
    BY <1>4, UpperLemma
  <2>2. /\ UNCHANGED <<m_cmdline, m_parse_index, m_parse_ok_index, m_trie>>
        /\ m_param_index' = m_param_index
    BY <1>4 DEF bufVars, paramVars
  <2>3. Frame
    BY <1>2, <2>2, KeptFrame
  <2>4. /\ m_param_index' \in Nat /\ Len(read.parts) = m_param_index' /\ ~read.quoted
        /\ FieldsHeld(m_cmdline', m_parse_ok_index, Command, m_param_index', read.parts)
    BY <2>2, <2>3, AllClosed
  <2>5. TakesParam(left, read, NextPart(read, x))
    BY <1>4, <2>1, <2>2, <2>4, CommaTyped
  <2> QED BY <1>1, <2>5 DEF Takes
<1>5. CASE Finalize(left) /\ UNCHANGED <<m_cmdline, m_parse_index, paramVars>>
  <2>1. UNCHANGED <<m_cmdline, m_parse_index>> /\ m_param_index' = m_param_index
    BY <1>5 DEF paramVars
  <2>2. Frame
    BY <1>2, <2>1, KeptFrame
  <2>3. AllTyped(m_cmdline', m_parse_ok_index, Command, m_param_index', read.parts)
    BY <2>1, <2>2, AllClosed
  <2>4. TakesParam(left, read, NextPart(read, x))
    BY <1>5, <2>3, FinalizeTaken
  <2> QED BY <1>1, <2>4 DEF Takes
<1> QED BY <1>3, <1>4, <1>5 DEF StateStringEnd

LEMMA ParamTaken ==
    ASSUME NEW read, InParam(read), NEW x \in Typeable, NEW c,
           c = IF m_state = "String" THEN x ELSE ToUpper(x),
           NEW left, Dispatch(c, left), m_parse_index' <= CmdlineSize
    PROVE  Takes(x, left, read)
<1>1. m_state \in ParamStates
  BY DEF InParam
<1>2. m_state # "String" => c = ToUpper(x)
  OBVIOUS
<1>3. CASE \E t \in NumTypes : StateNumStart(t, c, left)
  <2>1. PICK t \in NumTypes : StateNumStart(t, c, left)
    BY <1>3
  <2>2. m_state = NumStart[t]
    BY <2>1 DEF StateNumStart
  <2>3. m_state \in StartStates /\ m_state # "String"
    BY <2>2 DEF NumStart, NumTypes, StartStates
  <2>4. CASE ProcessDefaultParameter(c, left)
    BY <1>2, <2>3, <2>4, DefaultTaken
  <2>5. CASE ProcessDigit(t, 0, c, left)
    <3>1. m_state \in {NumStart[t], NumState[t]}
      BY <2>2
    <3>2. PICK n : n = 0 /\ n = IF m_state = NumStart[t] THEN 0 ELSE m_num
      BY <2>2
    <3>3. ProcessDigit(t, n, ToUpper(x), left)
      BY <1>2, <2>3, <2>5, <3>2
    <3> QED BY <3>1, <3>2, <3>3, DigitTaken
  <2> QED BY <2>1, <2>4, <2>5 DEF StateNumStart
<1>4. CASE \E t \in NumTypes : StateNum(t, c, left)
  <2>1. PICK t \in NumTypes : StateNum(t, c, left)
    BY <1>4
  <2>2. m_state = NumState[t]
    BY <2>1 DEF StateNum
  <2>3. m_state # "String" /\ NumStart[t] # NumState[t]
    BY <2>2 DEF NumState, NumStart, NumTypes
  <2>4. CASE NumericParameterEnd(c, left)
    BY <1>2, <2>2, <2>3, <2>4, NumberTaken
  <2>5. CASE ProcessDigit(t, m_num, c, left)
    <3>1. m_state \in {NumStart[t], NumState[t]}
      BY <2>2
    <3>2. PICK n : n = m_num /\ n = IF m_state = NumStart[t] THEN 0 ELSE m_num
      BY <2>2, <2>3
    <3>3. ProcessDigit(t, n, ToUpper(x), left)
      BY <1>2, <2>3, <2>5, <3>2
    <3> QED BY <3>1, <3>2, <3>3, DigitTaken
  <2> QED BY <2>1, <2>4, <2>5 DEF StateNum
<1>5. CASE StateStringStart(c, left)
  <2>1. m_state = "StringStart" /\ StateQuote("StringStart", "String", c, left)
    BY <1>5 DEF StateStringStart, StateQuote
  <2>2. c = ToUpper(x)
    BY <1>2, <2>1
  <2> QED BY <2>1, <2>2, QuoteTaken
<1>6. CASE StateHexStringStart(c, left)
  <2>1. m_state = "HexStringStart" /\ StateQuote("HexStringStart", "HexString", c, left)
    BY <1>6 DEF StateHexStringStart, StateQuote
  <2>2. c = ToUpper(x)
    BY <1>2, <2>1
  <2> QED BY <2>1, <2>2, QuoteTaken
<1>7. CASE StateString(c, left)
  <2>1. m_state = "String"
    BY <1>7 DEF StateString
  <2>2. StateString(x, left)
    BY <1>7, <2>1
  <2> QED BY <2>1, <2>2, StringTaken
<1>8. CASE StateHexString(c, left)
  <2>1. m_state = "HexString" /\ c = ToUpper(x)
    BY <1>2, <1>8 DEF StateHexString
  <2> QED BY <1>8, <2>1, HexStringTaken
<1>9. CASE StateStringEnd(c, left)
  <2>1. m_state = "StringEnd" /\ c = ToUpper(x)
    BY <1>2, <1>9 DEF StateStringEnd
  <2> QED BY <1>9, <2>1, StringEndTaken
<1>10. m_state \notin {"A", "T", "Body", "S", "SSet", "Ampersand", "BasicParameter", "Extended",
                      "ExtendedEq", "ExtendedReadTest", "Error", "Executing"}
  BY <1>1 DEF ParamStates, NumStates, StartStates
<1> QED BY <1>3, <1>4, <1>5, <1>6, <1>7, <1>8, <1>9, <1>10
        DEF Dispatch, StateA, StateT, StateBody, StateS, StateSSet, StateAmpersand,
            StateBasicParameter, StateExtended, StateExtendedEq, StateExtendedReadTest,
            StateError, StateExecuting

(* finalizeExtCmd fills in a default. *)
LEMMA DefaultTyped ==
    ASSUME Start, Meant, DefaultsWhole, FinalizeExtCmd, pc' = "fill", NEW texts,
           AllTyped(m_cmdline, m_parse_ok_index, Command, m_param_index, texts)
    PROVE  /\ m_state' = m_state /\ redo' = redo /\ m_trie' = m_trie
           /\ m_parse_ok_index' = m_parse_ok_index
           /\ AllTyped(m_cmdline', m_parse_ok_index', Command', m_param_index', texts)
<1>1. /\ pc = "fill" /\ Ready /\ IsLeaf(m_trie) /\ m_state \in FillStates
      /\ m_param_index \in Nat /\ Cmd.count \in Nat /\ m_param_index <= Cmd.count
  BY CommandLemma, TypedLemma
     DEF FinalizeExtCmd, Start, Ready, IInv, TypeOK, ControlOK, ParameterInHand
<1>2. /\ m_param_index # Cmd.count /\ CmdParam.optional /\ ~ParameterOverflows(CmdParam)
      /\ AddDefault(CmdParam) /\ Finalize(redo)
  BY DEF FinalizeExtCmd, Execute, NextCommand, Goto, Fail
<1>3. m_param_index < Cmd.count
  BY <1>1, <1>2
<1>4. /\ m_state' = m_state /\ redo' = redo /\ m_trie' = m_trie
      /\ m_parse_ok_index' = m_parse_ok_index
  BY <1>2 DEF Finalize
<1>5. Frame
  BY <1>1, <1>2, <1>3, DefaultFrame
<1>6. m_parse_index' <= CmdlineSize
  <2>1. /\ m_parse_index' <= m_parse_index + FieldSize(CmdParam)
        /\ m_parse_index' \in Nat
    BY <1>1, <1>2, <1>3, <1>4, <1>5, AddDefaultLemma DEF KeepCommit, Frame
  <2>2. /\ m_parse_index \in Nat /\ CmdlineSize \in Nat /\ FieldSize(CmdParam) \in Nat
    BY <1>1, <1>3, FieldLemma, IndexLemma
  <2> QED BY <1>2, <2>1, <2>2 DEF ParameterOverflows, Available
<1>7. m_parse_index = FieldStart
  <2>1. m_state \notin {"String", "HexString"}
    BY <1>1 DEF FillStates, NumStates, StartStates
  <2> QED BY <1>1, <2>1 DEF Start, LInv, Aligned
<1>8. Held(m_cmdline', FieldStart, CmdParam, <<>>) /\ m_param_index' = m_param_index + 1
  BY <1>1, <1>2, <1>3, <1>6, <1>7, DefaultHeld DEF Meant
<1>9. Command' = Command
  BY <1>4 DEF Command
<1>10. FieldsHeld(m_cmdline', m_parse_ok_index, Command, m_param_index, texts)
  <2>1. /\ m_parse_ok_index \in Nat /\ Command \in ExtIndices
        /\ m_param_index \in 0 .. ExtCmds[Command].count
        /\ m_parse_index \in Nat
    BY <1>1, BehindStart
  <2>2. \A j \in 0 .. m_parse_ok_index + ParamOffset[Command][m_param_index] - 1 :
           m_cmdline'[j] = m_cmdline[j]
    <3>1. m_parse_ok_index + ParamOffset[Command][m_param_index] = m_parse_index
      BY <1>7 DEF FieldStart
    <3>2. \A j \in 0 .. m_parse_index - 1 : m_cmdline'[j] = m_cmdline[j]
      BY <1>5 DEF Frame
    <3>3. ParamOffset[Command][m_param_index] \in Nat
      BY <1>1, BehindStart
    <3> QED BY <2>1, <3>1, <3>2, <3>3
  <2>3. FieldsHeld(m_cmdline, m_parse_ok_index, Command, m_param_index, texts)
    BY DEF AllTyped
  <2>4. \A j \in 0 .. m_param_index - 1 : TextOf(texts, j) = TextOf(texts, j)
    OBVIOUS
  <2> QED BY <2>1, <2>2, <2>3, <2>4, FieldsHeldFrame
<1>11. TextOf(texts, m_param_index) = <<>>
  BY <1>1 DEF AllTyped
<1>12. FieldsHeld(m_cmdline', m_parse_ok_index, Command, m_param_index + 1, texts)
  <2>1. Held(m_cmdline', m_parse_ok_index + ParamOffset[Command][m_param_index],
             ExtCmds[Command].params[m_param_index], TextOf(texts, m_param_index))
    BY <1>8, <1>11 DEF FieldStart, CmdParam, Cmd
  <2> QED BY <1>1, <1>10, <2>1, FieldsHeldGrow
<1>13. \A j \in Nat : m_param_index + 1 <= j => TextOf(texts, j) = <<>>
  <2>1. ASSUME NEW j \in Nat, m_param_index + 1 <= j PROVE TextOf(texts, j) = <<>>
    <3>1. m_param_index <= j
      BY <1>1, <2>1
    <3> QED BY <3>1 DEF AllTyped
  <2> QED BY <2>1
<1>14. AllTyped(m_cmdline', m_parse_ok_index, Command, m_param_index', texts)
  BY <1>8, <1>12, <1>13 DEF AllTyped
<1> QED BY <1>4, <1>9, <1>14
-----------------------------------------------------------------------------
(* The first parameter of a write command is in hand. *)
LEMMA FirstField ==
    ASSUME IsLeaf(m_trie), m_trie' = m_trie, m_param_index' = 0, NEW left,
           SetupParameterParser(left)
    PROVE  \/ m_state' \notin Entering
           \/ /\ pc' = "ret" /\ redo' = left /\ m_state' \in StartStates
              /\ InFields(m_state', m_cmdline', m_parse_ok_index, Command, m_param_index',
                          m_num', m_nibble', Fresh)
<1> DEFINE n == m_param_index'
           p == ExtCmds[Command].params[n]
<1>1. /\ pc' = "ret" /\ redo' = left
      /\ m_state' = ParameterState(n, CmdlineSize - m_parse_index')
      /\ Cmd = ExtCmds[Command] /\ Cmd.count \in Nat /\ Command \in ExtIndices
  BY CommandLemma DEF SetupParameterParser, Goto, Cmd
<1>2. CASE m_state' = "Error"
  BY <1>2 DEF Entering
<1>3. CASE m_state' # "Error"
  <2>1. /\ ~(n >= Cmd.count)
        /\ m_state' = CASE p.type \in NumTypes  -> NumStart[p.type]
               [] p.type = "STR"       -> "StringStart"
               [] p.type = "STR_HEX"   -> "HexStringStart"
    BY <1>1, <1>3 DEF ParameterState
  <2>2. p.type \in ParamTypes
    BY <1>1, <2>1, ParamAssumption DEF Params
  <2> HIDE DEF p
  <2>3. /\ m_state' \in StartStates
        /\ m_state' \in NumStates => m_state' = NumStart[p.type]
    <3>1. CASE p.type \in NumTypes
      <4>1. m_state' = NumStart[p.type]
        BY <2>1, <3>1 DEF NumTypes
      <4>2. NumStart[p.type] \in StartStates
        BY <3>1, ParamStatesLemma
      <4> QED BY <4>1, <4>2
    <3>2. CASE p.type = "STR"
      <4>1. m_state' = "StringStart"
        BY <2>1, <3>2 DEF NumTypes
      <4> QED BY <4>1 DEF StartStates, NumStates
    <3>3. CASE p.type = "STR_HEX"
      <4>1. m_state' = "HexStringStart"
        BY <2>1, <3>3 DEF NumTypes
      <4> QED BY <4>1 DEF StartStates, NumStates
    <3> QED BY <2>2, <3>1, <3>2, <3>3 DEF ParamTypes
  <2>4. m_state' \notin {"String", "HexString", "StringEnd"}
    BY <2>3, ParamStatesLemma
  <2>5. /\ Fresh.parts[n + 1] = <<>> /\ Len(Fresh.parts) = n + 1
        /\ Fresh.quoted = FALSE
    BY DEF Fresh
  <2>6. InField(m_state', m_cmdline', m_parse_ok_index + ParamOffset[Command][n], p,
                m_num', m_nibble', Fresh.parts[n + 1])
    BY <2>3, <2>4, <2>5 DEF InField, StartStates
  <2>7. FieldsHeld(m_cmdline', m_parse_ok_index, Command, n, Fresh.parts)
    BY DEF FieldsHeld
  <2>8. Fresh.quoted = (m_state' \in {"String", "HexString"})
    <3>1. (m_state' \in {"String", "HexString"}) = FALSE
      BY <2>4
    <3> QED BY <2>5, <3>1, Zenon
  <2>9. InFields(m_state', m_cmdline', m_parse_ok_index, Command, n, m_num', m_nibble', Fresh)
    <3> HIDE DEF n
    <3> QED BY <2>4, <2>5, <2>6, <2>7, <2>8 DEF InFields, p
  <2> QED BY <1>1, <2>3, <2>9
<1> QED BY <1>2, <1>3

(* What the handlers outside the parameters leave of the command in hand. *)
Numbering == {"S", "SSet", "Ampersand", "BasicParameter", "ExtendedReadTest"}
Reached(c, left) ==
    \/ m_state' = "Body" /\ m_state = "Body" /\ c = SPACE
    \/ m_state' \in Numbering
    \/ m_state' = "Extended" /\ redo' = left /\ m_state = "Body" /\ c = PLUS
    \/ m_state' = "Extended" /\ redo' = left /\ m_state = "Extended" /\ c # EQ
    \/ m_state' = "ExtendedEq" /\ redo' = left /\ m_state = "Extended" /\ c = EQ
    \/ m_state' = "ExtendedEq" /\ redo' = left /\ m_state = "ExtendedEq" /\ c = SPACE
    \/ /\ m_state = "ExtendedEq" /\ m_state' \in StartStates /\ redo' = left + 1
       /\ c # SPACE /\ m_trie' = m_trie
       /\ InFields(m_state', m_cmdline', m_parse_ok_index, Command, m_param_index',
                   m_num', m_nibble', Fresh)
Gives(c, left) ==
    \/ m_state' \notin Entering
    \/ pc' = "ret" /\ m_state' = "Body" /\ m_parse_ok_index' > m_parse_ok_index
    \/ pc' = "ret" /\ m_parse_ok_index' = m_parse_ok_index /\ Reached(c, left)
    \/ /\ pc' = "fill" /\ m_parse_ok_index' = m_parse_ok_index /\ m_trie' = m_trie
       /\ m_state = "Extended" /\ redo' = left /\ c \notin {SPACE, EQ}
       /\ m_param_index' = 0

LEMMA StopGives ==
    ASSUME NEW c, NEW left, NEW d, NEW n, NEW error,
           Fail(n) \/ FailOn(d, n) \/ Execute(error, n)
    PROVE  Gives(c, left)
<1>1. m_state' \in {"Error", "Executing"}
  BY DEF Fail, FailOn, Execute, Goto
<1> QED BY <1>1 DEF Gives, Entering, Entry

(* Into a state that reads a number or the end of a request. *)
LEMMA NumberingGives ==
    ASSUME NEW c, NEW left, NEW n, NEW state \in Numbering, Goto(state, n),
           m_parse_ok_index' = m_parse_ok_index
    PROVE  Gives(c, left)
BY DEF Gives, Reached, Goto

(* A command was written and is complete. *)
LEMMA CommitGives ==
    ASSUME Ready, NEW c, NEW left, NEW n, Goto("Body", n), Commit,
           m_parse_index' \in Nat, m_parse_index' > m_parse_index
    PROVE  Gives(c, left)
<1>1. /\ m_parse_index \in Nat /\ m_parse_ok_index \in Nat
      /\ m_parse_ok_index <= m_parse_index
  BY DEF Ready, IInv, TypeOK, CmdlineTypeOK, IndicesOrdered
<1> QED BY <1>1 DEF Gives, Goto, Commit

LEMMA AddBasicGives ==
    ASSUME Ready, CommandFits, NEW def, NEW index \in 0 .. NBasic + NAmp, NEW entry,
           NEW committed \in BOOLEAN, NEW c, NEW left,
           AddBasicCommand(def, index, entry, committed, left),
           def.ranges # {} \/ committed
    PROVE  Gives(c, left)
<1>1. m_parse_index' = m_parse_index + 2
  <2>1. BasicId(index) \in Nat /\ BasicId(index) < 65536
    BY IdsLemma
  <2>2. Put(IdBytes(BasicId(index))) /\ Len(IdBytes(BasicId(index))) = 2
    BY <2>1, IdBytesLemma DEF AddBasicCommand, AddCmd
  <2> QED BY <2>2, PutIndex
<1>2. m_parse_index' \in Nat /\ m_parse_index' > m_parse_index
  BY <1>1, IndexLemma
<1>3. CASE def.ranges = {}
  BY <1>2, <1>3, CommitGives DEF AddBasicCommand
<1>4. CASE def.ranges # {}
  <2>1. Goto("BasicParameter", left) /\ m_parse_ok_index' = m_parse_ok_index
    BY <1>4 DEF AddBasicCommand, KeepCommit
  <2> QED BY <2>1, NumberingGives DEF Numbering
<1> QED BY <1>3, <1>4

LEMMA StayGives ==
    ASSUME m_state \in {"Body"} \cup Numbering \cup {"Extended", "ExtendedEq"},
           NEW c, c = SPACE, NEW left, Stay(left)
    PROVE  Gives(c, left)
<1>1. /\ m_state' = m_state /\ pc' = "ret" /\ redo' = left
      /\ m_parse_ok_index' = m_parse_ok_index
  BY DEF Stay, Goto, Keep, bufVars
<1>2. c # EQ
  BY DEF SPACE, EQ
<1> QED BY <1>1, <1>2 DEF Gives, Reached

LEMMA BodyGives ==
    ASSUME Start, Meant, pc = "ret", NEW c, NEW left, StateBody(c, left)
    PROVE  Gives(c, left)
<1>0. m_state = "Body" /\ Ready
  BY DEF StateBody, Start
<1>1. CASE c = SPACE /\ Stay(left)
  BY <1>0, <1>1, StayGives
<1>2. CASE BodyLetter(c, left)
  <2> DEFINE i == CmdIndex(BasicCmds, c)
  <2>1. CASE c = 83
    <3>1. Goto("S", left) /\ m_parse_ok_index' = m_parse_ok_index
      BY <1>2, <2>1 DEF BodyLetter, bufVars
    <3> QED BY <3>1, NumberingGives DEF Numbering
  <2>2. CASE c # 83 /\ Fail(left)
    BY <2>2, StopGives
  <2>3. CASE i # -1 /\ CommandFits /\ AddBasicCommand(BasicCmds[i], 1 + i, i, TRUE, left)
    <3>1. i \in 0 .. NBasic - 1
      BY <2>3, CmdIndexLemma, SizesAssumption, BasicAssumption
    <3>2. 1 + i \in 0 .. NBasic + NAmp
      BY <3>1, SizesAssumption
    <3> QED BY <1>0, <2>3, <3>2, AddBasicGives
  <2> QED BY <1>2, <2>1, <2>2, <2>3 DEF BodyLetter
<1>3. CASE c = AMP /\ Keep /\ Goto("Ampersand", left)
  <2>1. m_parse_ok_index' = m_parse_ok_index
    BY <1>3 DEF Keep, bufVars
  <2> QED BY <1>3, <2>1, NumberingGives DEF Numbering
<1>4. CASE c = PLUS /\ Keep /\ Goto("Extended", left)
  BY <1>0, <1>4 DEF Gives, Reached, Goto, Keep, bufVars
<1>5. CASE Keep /\ Goto("Error", left)
  BY <1>5, StopGives DEF Fail
<1>6. CASE Fail(left) \/ Execute(FALSE, left)
  BY <1>6, StopGives
<1> QED BY <1>1, <1>2, <1>3, <1>4, <1>5, <1>6 DEF StateBody

LEMMA AmpersandGives ==
    ASSUME Start, Meant, NEW c, NEW left, StateAmpersand(c, left)
    PROVE  Gives(c, left)
<1> DEFINE i == CmdIndex(AmpCmds, c)
           n == 1 + NBasic + i
<1>0. m_state = "Ampersand" /\ Ready
  BY DEF StateAmpersand, Start
<1>1. CASE c = SPACE /\ Stay(left)
  BY <1>0, <1>1, StayGives DEF Numbering
<1>2. CASE Fail(left)
  BY <1>2, StopGives
<1>3. CASE i # -1 /\ CommandFits /\ AddBasicCommand(AmpCmds[i], n, n, FALSE, left)
  <2>1. i \in 0 .. NAmp - 1
    BY <1>3, CmdIndexLemma, SizesAssumption, BasicAssumption
  <2>2. n \in 0 .. NBasic + NAmp
    BY <2>1, SizesAssumption
  <2>3. AmpCmds[i].ranges # {}
    BY <2>1 DEF Meant, AmpersandsNumbered
  <2> HIDE DEF n
  <2> QED BY <1>0, <1>3, <2>2, <2>3, AddBasicGives
<1> QED BY <1>1, <1>2, <1>3 DEF StateAmpersand

LEMMA NextDigitGives ==
    ASSUME m_state \in Numbering, NEW c, NEW left, NEW next, NextDigit(next, left)
    PROVE  Gives(c, left)
<1>1. Goto(m_state, left) /\ m_parse_ok_index' = m_parse_ok_index
  BY DEF NextDigit, bufVars
<1> QED BY <1>1, NumberingGives

(* S parameters. *)
LEMMA SRequestGives ==
    ASSUME Ready, NEW c, NEW left, SRequest(c, left)
    PROVE  Gives(c, left)
<1> DEFINE supported == m_num \in {3, 4}
           id   == IF supported THEN IdBytes(BasicId(0)) ELSE <<>>
           byte == IF c = EQ THEN 128 + (m_num % 128) ELSE m_num % 256
<1>1. Len(id) \in Nat /\ Len(Append(id, byte)) \in Nat /\ Len(Append(id, byte)) > 0
  <2>1. IdBytes(BasicId(0)) = <<BasicId(0) % 256, BasicId(0) \div 256>>
    BY DEF IdBytes
  <2> HIDE DEF byte
  <2>2. CASE supported
    BY <2>1, <2>2
  <2>3. CASE ~supported
    BY <2>3
  <2> QED BY <2>2, <2>3
<1>2. m_parse_index \in Nat /\ CmdlineSize \in Nat
  BY IndexLemma
<1>3. CASE Fail(left)
  BY <1>3, StopGives
<1>4. CASE Goto("Error", left)
  BY <1>4 DEF Gives, Goto, Entering
<1>5. CASE Put(Append(id, byte)) /\ Commit /\ Goto("Body", left)
  <2>1. m_parse_index' = m_parse_index + Len(Append(id, byte))
    <3> HIDE DEF id, byte
    <3> QED BY <1>5, PutIndex
  <2>2. m_parse_index' \in Nat /\ m_parse_index' > m_parse_index
    <3> HIDE DEF id, byte
    <3> QED BY <1>1, <1>2, <2>1
  <2> QED BY <1>5, <2>2, CommitGives
<1>6. CASE KeepCommit /\ Goto("SSet", left)
  BY <1>6, NumberingGives DEF Numbering, KeepCommit
<1>7. \/ supported /\ ~CommandFits
      \/ (supported => CommandFits) /\ Available < Len(id) + 1
      \/ Available >= Len(id) + 1 /\ ~(supported /\ ~CommandFits)
  <2>1. Available \in Int
    BY <1>2 DEF Available
  <2> HIDE DEF id, supported
  <2> QED BY <1>1, <2>1
<1>8. SRequest(c, left) <=> CASE supported /\ ~CommandFits -> Fail(left)
          [] (supported => CommandFits) /\ Available < Len(id) + 1 ->
               /\ Put(id)
               /\ KeepCommit
               /\ Goto("Error", left)
               /\ UNCHANGED <<paramVars, m_trie>>
          [] Available >= Len(id) + 1 ->
               /\ Put(Append(id, byte))
               /\ m_num' = 0
               /\ IF c = EQ THEN KeepCommit /\ Goto("SSet", left)
                            ELSE Commit /\ Goto("Body", left)
               /\ UNCHANGED <<m_param_index, m_nibble, m_trie>>
  BY DEF SRequest
<1> HIDE DEF id, byte, supported
<1> QED BY <1>3, <1>4, <1>5, <1>6, <1>7, <1>8

LEMMA SGives ==
    ASSUME Start, NEW c, NEW left, StateS(c, left) \/ StateSSet(c, left)
    PROVE  Gives(c, left)
<1>0. m_state \in {"S", "SSet"} /\ m_state \in Numbering /\ Ready
  BY DEF StateS, StateSSet, Start, Numbering
<1>1. CASE c = SPACE /\ Stay(left)
  BY <1>0, <1>1, StayGives
<1>2. CASE SRequest(c, left)
  BY <1>0, <1>2, SRequestGives
<1>3. CASE \E next : NextDigit(next, left)
  BY <1>0, <1>3, NextDigitGives
<1>4. CASE FailOn(c, left) \/ Fail(left + 1)
  BY <1>4, StopGives
<1>5. CASE Put(<<m_num>>) /\ Commit /\ Goto("Body", left + 1)
  <2>1. m_parse_index' = m_parse_index + Len(<<m_num>>)
    BY <1>5, PutIndex
  <2>2. m_parse_index' \in Nat /\ m_parse_index' > m_parse_index
    BY <1>0, <2>1, IndexLemma
  <2> QED BY <1>0, <1>5, <2>2, CommitGives
<1>6. CASE StateS(c, left)
  BY <1>1, <1>2, <1>3, <1>4, <1>6 DEF StateS
<1>7. CASE StateSSet(c, left)
  BY <1>1, <1>3, <1>4, <1>5, <1>7 DEF StateSSet
<1> QED BY <1>6, <1>7

LEMMA BasicParameterGives ==
    ASSUME Start, NEW c, NEW left, StateBasicParameter(c, left)
    PROVE  Gives(c, left)
<1>0. m_state = "BasicParameter" /\ m_state \in Numbering /\ Ready
  BY DEF StateBasicParameter, Start, Numbering
<1>1. CASE c = SPACE /\ Stay(left)
  BY <1>0, <1>1, StayGives
<1>2. CASE \E next : NextDigit(next, left)
  BY <1>0, <1>2, NextDigitGives
<1>3. CASE Fail(left) \/ Fail(left + 1)
  BY <1>3, StopGives
<1>4. CASE AddNumericParameter(m_num) /\ Commit /\ Goto("Body", left + 2)
  <2>1. m_parse_index' = m_parse_index + 4
    BY <1>0, <1>4, AddNumericFrame, IndexLemma
  <2>2. m_parse_index' \in Nat /\ m_parse_index' > m_parse_index
    BY <1>0, <2>1, IndexLemma
  <2> QED BY <1>0, <1>4, <2>2, CommitGives
<1> QED BY <1>1, <1>2, <1>3, <1>4 DEF StateBasicParameter

(* Extended commands. *)
LEMMA ExtendedGives ==
    ASSUME NEW c, NEW left, StateExtended(c, left)
    PROVE  Gives(c, left)
<1>0. m_state = "Extended"
  BY DEF StateExtended
<1>1. CASE c = SPACE /\ Stay(left)
  BY <1>0, <1>1, StayGives
<1>2. CASE c = EQ /\ Goto("ExtendedEq", left) /\ Keep
  BY <1>0, <1>2 DEF Gives, Reached, Goto, Keep, bufVars
<1>3. CASE Fail(left) \/ FailOn(c, left)
  BY <1>3, StopGives
<1>4. CASE AddReadTest("READ", left)
  <2>1. Goto("ExtendedReadTest", left) /\ m_parse_ok_index' = m_parse_ok_index
    BY <1>4 DEF AddReadTest, KeepCommit
  <2> QED BY <2>1, NumberingGives DEF Numbering
<1>5. CASE /\ c \in {SEMI, m_s3} \ {SPACE, EQ, QM}
           /\ m_param_index' = 0 /\ Finalize(left)
  <2>1. c \notin {SPACE, EQ}
    BY <1>5
  <2> QED BY <1>0, <1>5, <2>1 DEF Gives, Finalize
<1>6. CASE ExtendedEnd(c, left) /\ c \in {SEMI, m_s3} \ {SPACE, EQ, QM}
  BY <1>3, <1>5, <1>6 DEF ExtendedEnd
<1>7. CASE c \notin {SPACE, EQ, QM, SEMI, m_s3} /\ Goto("Extended", left)
             /\ UNCHANGED <<bufVars, paramVars>>
  BY <1>0, <1>7 DEF Gives, Reached, Goto, bufVars
<1> QED BY <1>1, <1>2, <1>3, <1>4, <1>6, <1>7 DEF StateExtended

LEMMA ExtendedEqGives ==
    ASSUME NEW c, NEW left, StateExtendedEq(c, left)
    PROVE  Gives(c, left)
<1>0. m_state = "ExtendedEq"
  BY DEF StateExtendedEq
<1>1. CASE c = SPACE /\ Stay(left)
  BY <1>0, <1>1, StayGives
<1>2. CASE Fail(left)
  BY <1>2, StopGives
<1>3. CASE AddReadTest("TEST", left)
  <2>1. Goto("ExtendedReadTest", left) /\ m_parse_ok_index' = m_parse_ok_index
    BY <1>3 DEF AddReadTest, KeepCommit
  <2> QED BY <2>1, NumberingGives DEF Numbering
<1>4. CASE /\ c \notin {SPACE, QM} /\ IsLeaf(m_trie) /\ KeepCommit /\ m_param_index' = 0
           /\ SetupParameterParser(left + 1) /\ m_trie' = m_trie
  <2>1. PICK n : n = left + 1
    OBVIOUS
  <2>2. SetupParameterParser(n)
    BY <1>4, <2>1
  <2>3. \/ m_state' \notin Entering
        \/ /\ pc' = "ret" /\ redo' = n /\ m_state' \in StartStates
           /\ InFields(m_state', m_cmdline', m_parse_ok_index, Command, m_param_index',
                       m_num', m_nibble', Fresh)
    BY <1>4, <2>2, FirstField
  <2> QED BY <1>0, <1>4, <2>1, <2>3 DEF Gives, Reached, KeepCommit
<1> QED BY <1>1, <1>2, <1>3, <1>4 DEF StateExtendedEq

LEMMA ReadTestGives ==
    ASSUME Start, NEW c, NEW left, StateExtendedReadTest(c, left)
    PROVE  Gives(c, left)
<1>0. m_state = "ExtendedReadTest" /\ m_state \in Numbering
  BY DEF StateExtendedReadTest, Numbering
<1>1. CASE c = SPACE /\ Stay(left)
  BY <1>0, <1>1, StayGives
<1>2. CASE Fail(left) \/ Execute(FALSE, left)
  BY <1>2, StopGives
<1>3. CASE UNCHANGED <<m_cmdline, m_parse_index, paramVars>> /\ Commit /\ NextCommand(left)
  <2>1. m_parse_index = m_parse_ok_index + 2 /\ m_parse_ok_index \in Nat
    BY <1>0, IndexLemma DEF Start, Pending
  <2> QED BY <1>3, <2>1 DEF Gives, NextCommand, Goto, Commit
<1> QED BY <1>1, <1>2, <1>3 DEF StateExtendedReadTest

LEMMA HandlerGives ==
    ASSUME Start, Meant, pc = "ret", m_state \in Entering \ ParamStates,
           NEW c, NEW left, Dispatch(c, left)
    PROVE  Gives(c, left)
<1>1. m_state \notin {"A", "T", "Error", "Executing"}
  BY DEF Entering, Entry
<1>2. /\ \A t \in NumTypes : NumStart[t] \in ParamStates /\ NumState[t] \in ParamStates
      /\ {"StringStart", "HexStringStart", "String", "HexString", "StringEnd"} \subseteq ParamStates
  BY DEF NumStart, NumState, NumTypes, ParamStates, NumStates, StartStates
<1>3. ~(\/ \E t \in NumTypes : StateNumStart(t, c, left) \/ StateNum(t, c, left)
        \/ StateStringStart(c, left) \/ StateString(c, left)
        \/ StateHexStringStart(c, left) \/ StateHexString(c, left)
        \/ StateStringEnd(c, left))
  BY <1>2 DEF StateNumStart, StateNum, StateStringStart, StateString, StateHexStringStart,
              StateHexString, StateStringEnd, StateQuote
<1>4. ~(StateA(c, left) \/ StateT(c, left) \/ StateError(c, left) \/ StateExecuting(c, left))
  BY <1>1 DEF StateA, StateT, StateError, StateExecuting
<1>5. CASE StateBody(c, left)
  BY <1>5, BodyGives
<1>6. CASE StateS(c, left) \/ StateSSet(c, left)
  BY <1>6, SGives
<1>7. CASE StateAmpersand(c, left)
  BY <1>7, AmpersandGives
<1>8. CASE StateBasicParameter(c, left)
  BY <1>8, BasicParameterGives
<1>9. CASE StateExtended(c, left)
  BY <1>9, ExtendedGives
<1>10. CASE StateExtendedEq(c, left)
  BY <1>10, ExtendedEqGives
<1>11. CASE StateExtendedReadTest(c, left)
  BY <1>11, ReadTestGives
<1> QED BY <1>3, <1>4, <1>5, <1>6, <1>7, <1>8, <1>9, <1>10, <1>11 DEF Dispatch
-----------------------------------------------------------------------------
(* What has been typed of the command in hand, apart from the character    *)
(* that is handed on: nothing between commands, a name, or a name and the  *)
(* parameters that stand in the buffer.                                    *)
HandText(before) ==
    /\ m_state = "Body" => before = <<>>
    /\ m_state = "Extended" /\ pc = "ret" => NoEq(before)
    /\ m_state = "ExtendedEq" => ReadAs(before, Fresh)
    /\ m_state \in ParamStates /\ pc = "ret" =>
          \E read \in Readings : ReadAs(before, read) /\ Reads(read)
    /\ pc = "fill" => AllTyped(m_cmdline, m_parse_ok_index, Command, m_param_index,
                               ParametersOf(before))

(* Few characters are handed on inside an extended command: the plus sign  *)
(* and the first character of its parameters.                              *)
HandedOn(c, left) ==
    /\ m_state = "Extended" /\ pc = "ret" /\ left > 0 => c = PLUS
    /\ m_state = "ExtendedEq" => left = 0
    /\ m_state \in ParamStates /\ pc = "ret" /\ left > 0 => m_state \in StartStates /\ left = 1
Again == HandedOn(cur, redo)

(* A handler takes x: it is part of the command, unless it is passed over  *)
(* or handed on.                                                           *)
TextWith(before, x) == IF redo' > 0 \/ pc' = "fill" \/ PassedOver(x) THEN before
                                                                    ELSE Append(before, x)

LEMMA NumberingApart ==
    ASSUME NEW s \in Numbering \cup {"Body", "Extended", "ExtendedEq"}
    PROVE  s \notin ParamStates
BY DEF Numbering, ParamStates, NumStates, StartStates

LEMMA NoEqAppend ==
    ASSUME NEW text \in Seq(Int), NoEq(text), NEW x \in Int, x # EQ
    PROVE  NoEq(Append(text, x))
BY DEF NoEq

LEMMA GivenText ==
    ASSUME NEW before \in Seq(Int), HandText(before), NEW x \in Typeable,
           m_state \in Entering \ ParamStates, pc = "ret", NEW c, c = ToUpper(x),
           NEW left \in Nat, Gives(c, left), m_parse_ok_index \in Nat,
           m_parse_ok_index' = m_parse_ok_index,
           m_state' \in Entering,
           HandedOn(c, left), cur' = IF pc' = "fill" \/ redo' > 0 THEN c ELSE NoChar,
           NEW next, next = TextWith(before, x), ControlOK'
    PROVE  HandText(next)' /\ Again' /\ (pc' = "fill" => ~PassedOver(x))
<1>1. /\ m_state \notin ParamStates /\ m_state # "String" /\ m_state # "HexString"
      /\ x \in Int /\ (c = SPACE <=> x = SPACE) /\ (c = EQ <=> x = EQ)
      /\ (PassedOver(x) <=> x = SPACE)
  <2>1. /\ m_state \notin ParamStates /\ m_state \notin {"String", "StringEnd", "NumDec", "NumHex", "NumBin"}
        /\ m_state # "HexString"
    BY DEF ParamStates, NumStates, StartStates
  <2>2. x \in Int /\ (c = SPACE <=> x = SPACE) /\ (c = EQ <=> x = EQ)
    BY UpperLemma
  <2> QED BY <2>1, <2>2 DEF PassedOver
<1>2. /\ m_state' \in {"Body"} \cup Numbering => m_state' \notin ParamStates
      /\ m_state' \in {"Extended", "ExtendedEq"} => m_state' \notin ParamStates
      /\ m_state' \in ParamStates => m_state' \notin {"Body", "Extended", "ExtendedEq"}
      /\ m_state' \in StartStates => m_state' \in ParamStates
      /\ m_state' \in Numbering => m_state' \notin {"Body", "Extended", "ExtendedEq"}
  BY NumberingApart DEF Numbering, ParamStates
<1>3. CASE m_state' = "Body" /\ m_state = "Body" /\ c = SPACE /\ pc' = "ret"
  <2>1. before = <<>> /\ next = <<>>
    BY <1>1, <1>3 DEF HandText, TextWith
  <2>2. HandText(next)'
    BY <1>2, <1>3, <2>1 DEF HandText
  <2> QED BY <1>2, <1>3, <2>2 DEF Again, HandedOn
<1>4. CASE m_state' \in Numbering /\ pc' = "ret"
  BY <1>2, <1>4 DEF HandText, Again, HandedOn
<1>5. CASE m_state' = "Extended" /\ redo' = left /\ m_state = "Body" /\ c = PLUS /\ pc' = "ret"
  <2>1. before = <<>> /\ next \in {<<>>, Append(<<>>, x)} /\ x # EQ
    BY <1>1, <1>5 DEF HandText, TextWith, PLUS, EQ
  <2>2. NoEq(next)
    BY <1>1, <2>1, NoEqAppend DEF NoEq
  <2>3. HandText(next)'
    BY <1>2, <1>5, <2>2 DEF HandText, NoEq
  <2> QED BY <1>2, <1>5, <2>3 DEF Again, HandedOn
<1>6. CASE m_state' = "Extended" /\ redo' = left /\ m_state = "Extended" /\ c # EQ /\ pc' = "ret"
  <2>1. NoEq(before) /\ next \in {before, Append(before, x)} /\ x # EQ
    BY <1>1, <1>6 DEF HandText, TextWith
  <2>2. NoEq(next)
    BY <1>1, <2>1, NoEqAppend
  <2>3. HandText(next)'
    BY <1>2, <1>6, <2>2 DEF HandText, NoEq
  <2>4. left > 0 => c = PLUS
    BY <1>6 DEF HandedOn
  <2> QED BY <1>2, <1>6, <2>3, <2>4 DEF Again, HandedOn
<1>7. CASE m_state' = "ExtendedEq" /\ redo' = left /\ m_state = "Extended" /\ c = EQ /\ pc' = "ret"
  <2>1. left = 0
    BY <1>7 DEF HandedOn, PLUS, EQ
  <2>2. NoEq(before) /\ next = Append(before, EQ)
    BY <1>1, <1>7, <2>1 DEF HandText, TextWith, EQ, SPACE
  <2>3. ReadAs(next, Fresh)
    BY <2>2, ReadAsOpens
  <2>4. HandText(next)'
    BY <1>2, <1>7, <2>3 DEF HandText, ReadAs, Split, Fresh
  <2> QED BY <1>2, <1>7, <2>1, <2>4 DEF Again, HandedOn
<1>8. CASE m_state' = "ExtendedEq" /\ redo' = left /\ m_state = "ExtendedEq" /\ c = SPACE /\ pc' = "ret"
  <2>1. left = 0
    BY <1>8 DEF HandedOn
  <2>2. ReadAs(before, Fresh) /\ next = before
    BY <1>1, <1>8, <2>1 DEF HandText, TextWith
  <2>3. HandText(next)'
    BY <1>2, <1>8, <2>2 DEF HandText, ReadAs, Split, Fresh
  <2> QED BY <1>2, <1>8, <2>1, <2>3 DEF Again, HandedOn
<1>9. CASE /\ m_state = "ExtendedEq" /\ m_state' \in StartStates /\ redo' = left + 1
           /\ c # SPACE /\ pc' = "ret" /\ m_trie' = m_trie
           /\ InFields(m_state', m_cmdline', m_parse_ok_index, Command, m_param_index',
                       m_num', m_nibble', Fresh)
  <2>1. left = 0
    BY <1>9 DEF HandedOn
  <2>2. ReadAs(before, Fresh) /\ next = before
    BY <1>9, <2>1 DEF HandText, TextWith
  <2>3. Command' = Command
    BY <1>9 DEF Command
  <2>4. Reads(Fresh)'
    BY <1>9, <2>3 DEF Reads
  <2>5. Fresh \in Readings
    BY ReadAsText, <2>2
  <2>6. ReadAs(next, Fresh)' /\ Fresh' = Fresh
    BY <2>2 DEF ReadAs, Split, Fresh
  <2>7. \E read \in Readings : ReadAs(next, read)' /\ Reads(read)'
    BY <2>4, <2>5, <2>6
  <2>8. HandText(next)'
    BY <1>2, <1>9, <2>7 DEF HandText
  <2> QED BY <1>2, <1>9, <2>1, <2>8 DEF Again, HandedOn
<1>10. CASE /\ pc' = "fill" /\ m_trie' = m_trie
            /\ m_state = "Extended" /\ redo' = left /\ c \notin {SPACE, EQ}
            /\ m_param_index' = 0
  <2>1. NoEq(before) /\ next = before
    BY <1>10 DEF HandText, TextWith
  <2>2. ParametersOf(next) = <<>>
    BY <2>1, NoParameters
  <2>3. AllTyped(m_cmdline', m_parse_ok_index', Command', m_param_index', <<>>)
    BY <1>10 DEF AllTyped, FieldsHeld, TextOf
  <2>4. m_state' \notin {"Body", "ExtendedEq"}
    BY <1>10 DEF ControlOK, FillStates, ParamStates, NumStates, StartStates
  <2>5. HandText(next)'
    BY <1>10, <2>2, <2>3, <2>4 DEF HandText
  <2> QED BY <1>1, <1>10, <2>4, <2>5 DEF Again, HandedOn
<1>11. \/ pc' = "ret" /\ Reached(c, left)
       \/ /\ pc' = "fill" /\ m_trie' = m_trie
          /\ m_state = "Extended" /\ redo' = left /\ c \notin {SPACE, EQ}
          /\ m_param_index' = 0
  BY DEF Gives
<1> QED BY <1>3, <1>4, <1>5, <1>6, <1>7, <1>8, <1>9, <1>10, <1>11 DEF Reached

LEMMA TakenText ==
    ASSUME NEW before \in Seq(Int), HandText(before), NEW x \in Typeable,
           Start, Meant, DefaultsWhole, m_state \in ParamStates, pc = "ret",
           NEW c, c = IF m_state = "String" THEN x ELSE ToUpper(x),
           NEW left, left = 0, Dispatch(c, left), m_parse_index' <= CmdlineSize,
           m_state' \in Entering, NEW next, next = TextWith(before, x), ControlOK'
    PROVE  /\ m_parse_ok_index' = m_parse_ok_index
           /\ HandText(next)' /\ Again' /\ (pc' = "fill" => ~PassedOver(x))
<1>1. PICK read \in Readings : ReadAs(before, read) /\ Reads(read)
  BY DEF HandText
<1>2. InParam(read)
  BY <1>1 DEF InParam
<1>3. Takes(x, left, read)
  BY <1>2, ParamTaken
<1> DEFINE read2 == IF PassedOver(x) THEN read ELSE NextPart(read, x)
           text2 == IF PassedOver(x) THEN before ELSE Append(before, x)
<1>4. ReadAs(text2, read2) /\ read2 \in Readings
  <2>1. x \in Int
    BY UpperLemma
  <2>2. CASE PassedOver(x)
    BY <1>1, <2>2
  <2>3. CASE ~PassedOver(x)
    BY <1>1, <2>1, <2>3, ReadAsAppend, NextPartType
  <2> QED BY <2>2, <2>3
<1>5. TakesParam(left, read, read2) /\ (pc' = "fill" => ~PassedOver(x))
  BY <1>3 DEF Takes
<1> HIDE DEF read2, text2
<1>6. CASE /\ pc' = "ret" /\ redo' = left /\ m_state' \in ParamStates
           /\ m_trie' = m_trie /\ m_parse_ok_index' = m_parse_ok_index
           /\ InFields(m_state', m_cmdline', m_parse_ok_index, Command, m_param_index',
                       m_num', m_nibble', read2)
  <2>1. next = text2
    BY <1>6 DEF TextWith, text2
  <2>2. Command' = Command
    BY <1>6 DEF Command
  <2>3. PICK r : r = read2
    OBVIOUS
  <2>4. InFields(m_state', m_cmdline', m_parse_ok_index', Command', m_param_index',
                 m_num', m_nibble', r)
    BY <1>6, <2>2, <2>3
  <2>5. Reads(r)'
    BY <2>4 DEF Reads
  <2>6. ReadAs(next, r)
    BY <1>4, <2>1, <2>3
  <2>7. ReadAs(next, r)'
    BY <2>6 DEF ReadAs, Split
  <2>8. \E q \in Readings : ReadAs(next, q)' /\ Reads(q)'
    BY <1>4, <2>3, <2>5, <2>7
  <2>9. m_state' \notin {"Body", "Extended", "ExtendedEq"}
    BY <1>6, NumberingApart
  <2>10. HandText(next)'
    BY <1>6, <2>8, <2>9 DEF HandText
  <2>11. Again'
    BY <1>6, <2>9 DEF Again, HandedOn
  <2> QED BY <1>5, <1>6, <2>10, <2>11
<1>7. CASE /\ pc' = "fill" /\ redo' = left
           /\ m_trie' = m_trie /\ m_parse_ok_index' = m_parse_ok_index
           /\ AllTyped(m_cmdline', m_parse_ok_index, Command, m_param_index', read.parts)
  <2>1. next = before
    BY <1>7 DEF TextWith
  <2>2. Command' = Command
    BY <1>7 DEF Command
  <2>3. ParametersOf(next) = read.parts
    BY <1>1, <2>1, ReadAsText
  <2>4. AllTyped(m_cmdline', m_parse_ok_index', Command', m_param_index', ParametersOf(next))
    BY <1>7, <2>2, <2>3
  <2>5. m_state' \notin {"Body", "ExtendedEq"}
    BY <1>7 DEF ControlOK, FillStates, ParamStates, NumStates, StartStates
  <2>6. HandText(next)'
    BY <1>7, <2>4, <2>5 DEF HandText
  <2>7. Again'
    BY <1>7, <2>5 DEF Again, HandedOn
  <2> QED BY <1>5, <1>7, <2>6, <2>7
<1> QED BY <1>5, <1>6, <1>7 DEF TakesParam

LEMMA TextTaken ==
    ASSUME NEW before \in Seq(Int), HandText(before), NEW x \in Typeable,
           Start, Meant, DefaultsWhole, m_state \in Entering, pc = "ret",
           NEW c, c = IF m_state = "String" THEN x ELSE ToUpper(x),
           NEW left \in Nat, HandedOn(c, left), m_state \in ParamStates => left = 0,
           Dispatch(c, left), m_parse_index' <= CmdlineSize,
           m_state' \in Entering, NEW next, next = TextWith(before, x), ControlOK'
    PROVE  \/ m_state' = "Body" /\ pc' = "ret" /\ m_parse_ok_index' > m_parse_ok_index
           \/ /\ m_parse_ok_index' = m_parse_ok_index
              /\ HandText(next)' /\ Again' /\ (pc' = "fill" => ~PassedOver(x))
<1>1. CASE m_state \in ParamStates
  BY <1>1, TakenText
<1>2. CASE m_state \notin ParamStates
  <2>1. m_state # "String" /\ m_parse_ok_index \in Nat
    BY <1>2, IndexLemma DEF ParamStates, Start
  <2>2. c = ToUpper(x)
    BY <2>1
  <2>3. Gives(c, left)
    BY <1>2, HandlerGives
  <2>4. cur' = IF pc' = "fill" \/ redo' > 0 THEN c ELSE NoChar
    BY DEF Dispatch
  <2>5. CASE m_parse_ok_index' = m_parse_ok_index
    <3>1. m_state \in Entering \ ParamStates
      BY <1>2
    <3>2. HandText(next)' /\ Again' /\ (pc' = "fill" => ~PassedOver(x))
      BY <2>1, <2>2, <2>3, <2>4, <2>5, <3>1, GivenText
    <3> QED BY <2>5, <3>2
  <2>6. CASE m_state' = "Body" /\ pc' = "ret" /\ m_parse_ok_index' > m_parse_ok_index
    BY <2>6
  <2> QED BY <2>3, <2>5, <2>6 DEF Gives
<1> QED BY <1>1, <1>2

(* The handlers that hand a character on do not do so with a space.        *)
LEMMA DefaultRedo ==
    ASSUME NEW c, NEW left, ProcessDefaultParameter(c, left)
    PROVE  redo' = left
BY DEF ProcessDefaultParameter, Stay, Goto, Fail, SetupParameterParser, Finalize

LEMMA FailOnRedo ==
    ASSUME NEW c, NEW left, FailOn(c, left)
    PROVE  redo' = left
BY DEF FailOn, Execute, Fail, Goto

LEMMA DigitRedo ==
    ASSUME NEW t, NEW n, NEW c, NEW left, ProcessDigit(t, n, c, left)
    PROVE  redo' = left
BY DEF ProcessDigit, Goto, Fail

LEMMA ParamRedo ==
    ASSUME NEW c, NEW left,
           \/ \E t \in NumTypes : StateNumStart(t, c, left) \/ StateNum(t, c, left)
           \/ StateStringStart(c, left) \/ StateString(c, left)
           \/ StateHexStringStart(c, left) \/ StateHexString(c, left)
           \/ StateStringEnd(c, left)
    PROVE  redo' = left
<1>1. ASSUME NEW t \in NumTypes, StateNumStart(t, c, left)
      PROVE  redo' = left
  BY <1>1, DefaultRedo, DigitRedo DEF StateNumStart
<1>2. ASSUME NEW t \in NumTypes, StateNum(t, c, left)
      PROVE  redo' = left
  <2>1. CASE ProcessDigit(t, m_num, c, left)
    BY <2>1, DigitRedo
  <2>2. CASE NumericParameterEnd(c, left)
    BY <2>2 DEF NumericParameterEnd, SetupParameterParser, Goto, Fail, Finalize, Execute
  <2> QED BY <1>2, <2>1, <2>2 DEF StateNum
<1>3. ASSUME NEW start, NEW state, StateQuote(start, state, c, left)
      PROVE  redo' = left
  BY <1>3, DefaultRedo DEF StateQuote, OpenString, Goto, Fail
<1>4. CASE StateString(c, left)
  BY <1>4 DEF StateString, Goto, Fail
<1>5. CASE StateHexString(c, left)
  <2>1. CASE HexDigit(c, left)
    <3>1. CASE FailOn(c, left)
      BY <3>1, FailOnRedo
    <3>2. CASE Fail(left) \/ Goto("HexString", left)
      BY <3>2 DEF Fail, Goto
    <3>3. GetHex(c) = -1 \/ (GetHex(c) # -1 /\ m_nibble = NoNibble)
             \/ (GetHex(c) # -1 /\ m_nibble # NoNibble)
      OBVIOUS
    <3> QED BY <2>1, <3>1, <3>2, <3>3 DEF HexDigit
  <2> QED BY <1>5, <2>1 DEF StateHexString, Stay, Goto, Fail
<1>6. CASE StateStringEnd(c, left)
  BY <1>6 DEF StateStringEnd, SetupParameterParser, Goto, Fail, Finalize
<1> QED BY <1>1, <1>2, <1>3, <1>4, <1>5, <1>6 DEF StateStringStart, StateHexStringStart

(* A character is handed on by the handlers of numbers and of what follows *)
(* the equals sign; none of them hands on a space.                         *)
LEMMA Redoes ==
    ASSUME Ready, pc = "ret", NEW c, NEW left, Dispatch(c, left)
    PROVE  redo' = left \/ (c # SPACE /\ m_state \in {"SSet", "BasicParameter", "ExtendedEq"})
<1>1. /\ \A state : Goto(state, left) => redo' = left
      /\ Stay(left) \/ Fail(left) => redo' = left
      /\ \A error : Execute(error, left) => redo' = left
      /\ \A d : FailOn(d, left) => redo' = left
      /\ \A next : NextDigit(next, left) => redo' = left
      /\ \A d, i, e, k : AddBasicCommand(d, i, e, k, left) => redo' = left
      /\ \A t : AddReadTest(t, left) => redo' = left
      /\ Finalize(left) => redo' = left
  BY DEF Goto, Stay, Fail, Execute, FailOn, NextDigit, AddBasicCommand, AddReadTest, Finalize
<1>2. CASE StateA(c, left) \/ StateT(c, left)
  BY <1>1, <1>2 DEF StateA, StateT
<1>3. CASE StateBody(c, left)
  BY <1>1, <1>3 DEF StateBody, BodyLetter, Goto
<1>4. CASE StateS(c, left)
  BY <1>1, <1>4, RequestEnds DEF StateS
<1>5. CASE StateSSet(c, left)
  BY <1>1, <1>5 DEF StateSSet
<1>6. CASE StateAmpersand(c, left)
  BY <1>1, <1>6 DEF StateAmpersand
<1>7. CASE StateBasicParameter(c, left)
  BY <1>1, <1>7 DEF StateBasicParameter
<1>8. CASE StateExtended(c, left)
  <2>1. CASE ExtendedEnd(c, left)
    BY <1>1, <2>1 DEF ExtendedEnd
  <2> QED BY <1>1, <1>8, <2>1 DEF StateExtended, Goto
<1>9. CASE StateExtendedEq(c, left)
  BY <1>1, <1>9 DEF StateExtendedEq
<1>10. CASE StateExtendedReadTest(c, left)
  BY <1>1, <1>10 DEF StateExtendedReadTest, NextCommand
<1>11. CASE StateError(c, left) \/ StateExecuting(c, left)
  BY <1>1, <1>11 DEF StateError, StateExecuting
<1> QED BY <1>2, <1>3, <1>4, <1>5, <1>6, <1>7, <1>8, <1>9, <1>10, <1>11, ParamRedo
        DEF Dispatch

(* Outside a command. *)
LEMMA Enters ==
    ASSUME NEW c, NEW left, Dispatch(c, left), m_state \notin Entering
    PROVE  /\ m_state' \in Entering =>
                 /\ m_state = "T" /\ c = 84 /\ m_state' = "Body" /\ pc' = "ret"
                 /\ m_parse_ok_index' = 0
           /\ m_state' = "T" => c \in {65, SPACE}
           /\ pc' # "fill"
<1>1. m_state \notin {"Body", "S", "SSet", "Ampersand", "BasicParameter",
           "Extended", "ExtendedEq", "ExtendedReadTest"} \cup ParamStates
  BY DEF Entering, Entry, States, ParamStates, NumStates, StartStates
<1>2. /\ \A t \in NumTypes : NumStart[t] \in ParamStates /\ NumState[t] \in ParamStates
      /\ {"StringStart", "HexStringStart", "String", "HexString", "StringEnd"} \subseteq ParamStates
  BY DEF NumStart, NumState, NumTypes, ParamStates, NumStates, StartStates
<1>3. ~(\/ \E t \in NumTypes : StateNumStart(t, c, left) \/ StateNum(t, c, left)
        \/ StateStringStart(c, left) \/ StateString(c, left)
        \/ StateHexStringStart(c, left) \/ StateHexString(c, left)
        \/ StateStringEnd(c, left))
  BY <1>1, <1>2 DEF StateNumStart, StateNum, StateStringStart, StateString, StateHexStringStart,
              StateHexString, StateStringEnd, StateQuote
<1>4. ~(\/ StateBody(c, left) \/ StateS(c, left) \/ StateSSet(c, left)
        \/ StateAmpersand(c, left) \/ StateBasicParameter(c, left) \/ StateExtended(c, left)
        \/ StateExtendedEq(c, left) \/ StateExtendedReadTest(c, left))
  BY <1>1 DEF StateBody, StateS, StateSSet, StateAmpersand, StateBasicParameter,
              StateExtended, StateExtendedEq, StateExtendedReadTest
<1>5. {"A", "T", "Error", "Executing"} \cap Entering = {}
  BY DEF Entering, Entry
<1>6. CASE StateA(c, left)
  BY <1>5, <1>6 DEF StateA, Goto
<1>7. CASE StateT(c, left)
  BY <1>5, <1>7 DEF StateT, Stay, Goto, Execute, ResetCmdline
<1>8. CASE StateError(c, left)
  BY <1>5, <1>8 DEF StateError, FailOn, Fail, Goto, Execute
<1>9. CASE StateExecuting(c, left)
  BY <1>5, <1>9 DEF StateExecuting, Stay, Goto
<1> QED BY <1>3, <1>4, <1>6, <1>7, <1>8, <1>9 DEF Dispatch

(* The front of a text. *)
LEMMA FrontAppend ==
    ASSUME NEW s \in Seq(Int), NEW c \in Int
    PROVE  Front(Append(s, c)) = s /\ Last(Append(s, c)) = c /\ Append(s, c) # <<>>
<1>1. /\ Append(s, c) \in Seq(Int) /\ Len(s) \in Nat /\ Len(Append(s, c)) = Len(s) + 1
      /\ Append(s, c)[Len(s) + 1] = c
      /\ \A i \in 1 .. Len(s) : Append(s, c)[i] = s[i]
  BY AppendElements
<1>2. Front(Append(s, c)) = SubSeq(Append(s, c), 1, Len(s))
  BY <1>1 DEF Front
<1>3. SubSeq(Append(s, c), 1, Len(s)) = s
  BY <1>1
<1>4. Append(s, c) # <<>>
  BY <1>1
<1> QED BY <1>1, <1>2, <1>3, <1>4 DEF Last

LEMMA FrontSplit ==
    ASSUME NEW S, S \subseteq Int, NEW s \in Seq(S), s # <<>>
    PROVE  /\ Front(s) \in Seq(Int) /\ Front(s) \in Seq(S) /\ Last(s) \in S
           /\ s = Append(Front(s), Last(s))
<1>1. Len(s) \in Nat /\ Len(s) > 0 /\ \A i \in 1 .. Len(s) : s[i] \in S
  <2>1. Len(s) \in Nat /\ (Len(s) = 0 => s = <<>>)
    OBVIOUS
  <2>2. \A i \in 1 .. Len(s) : s[i] \in S
    OBVIOUS
  <2> QED BY <2>1, <2>2
<1>2. PICK m \in Nat : Len(s) = m + 1
  <2>1. Len(s) - 1 \in Nat
    BY <1>1
  <2> QED BY <2>1
<1>3. Front(s) = SubSeq(s, 1, m) /\ Last(s) = s[m + 1]
  BY <1>2 DEF Front, Last
<1>4. /\ SubSeq(s, 1, m) \in Seq(S) /\ Len(SubSeq(s, 1, m)) = m
      /\ \A i \in 1 .. m : SubSeq(s, 1, m)[i] = s[i]
  BY <1>1, <1>2
<1>5. Last(s) \in S
  BY <1>1, <1>2, <1>3
<1>6. Front(s) \in Seq(S) /\ Front(s) \in Seq(Int)
  BY <1>3, <1>4, IntSeq
<1>7. Append(Front(s), Last(s)) = s
  <2>1. PICK f : f = Front(s)
    OBVIOUS
  <2>2. PICK l : l = Last(s)
    OBVIOUS
  <2>3. f \in Seq(S) /\ l \in S /\ Len(f) = m /\ l = s[m + 1] /\ \A i \in 1 .. m : f[i] = s[i]
    BY <1>3, <1>4, <1>5, <1>6, <2>1, <2>2
  <2>4. Append(f, l) \in Seq(S) /\ Len(Append(f, l)) = m + 1
    BY <2>3
  <2>5. \A i \in 1 .. m + 1 : Append(f, l)[i] = s[i]
    BY <2>3
  <2>6. Append(f, l) = s
    BY <1>2, <2>4, <2>5
  <2> QED BY <2>1, <2>2, <2>6
<1> QED BY <1>5, <1>6, <1>7

(* The first character of a command that is handed on. *)
LEMMA FrontOne ==
    ASSUME NEW c \in Int
    PROVE  Front(<<c>>) = <<>> /\ Last(<<c>>) = c /\ <<c>> # <<>>
<1>1. Append(<<>>, c) = <<c>> /\ <<>> \in Seq(Int)
  OBVIOUS
<1> QED BY <1>1, FrontAppend
-----------------------------------------------------------------------------
(* The command in hand, step by step. *)

Before == IF redo > 0 \/ pc = "fill" THEN Front(typed) ELSE typed

Tracks ==
    /\ typed \in Seq(Typeable)
    /\ m_state \notin Entering => typed = <<>>
    /\ redo > 0 => cur \in Typeable /\ ToUpper(cur) = cur /\ cur # SPACE
    /\ redo > 0 /\ m_state \in Entering => typed # <<>> /\ ToUpper(Last(typed)) = cur
    /\ pc = "fill" => typed # <<>>
    /\ m_state = "T" /\ redo > 0 => cur # 84
TInv == Tracks /\ Again /\ HandText(Before)

(* What a character is handled with. *)
Handed(x, c, left) ==
    /\ x \in Typeable /\ c = IF m_state = "String" THEN x ELSE ToUpper(x)
    /\ left \in Nat /\ HandedOn(c, left) /\ (m_state \in ParamStates => left = 0)
    /\ left > 0 => c \in Typeable /\ ToUpper(c) = c /\ c # SPACE
    /\ left > 0 /\ m_state = "T" => c # 84

LEMMA HandedBack ==
    ASSUME Ready, pc = "ret", NEW x, NEW c, NEW left, Handed(x, c, left), Dispatch(c, left),
           redo' > 0
    PROVE  /\ cur' = c /\ c \in Typeable /\ ToUpper(c) = c /\ c # SPACE
           /\ m_state # "String" /\ m_state # "HexString"
           /\ m_state \in Entering => ~PassedOver(x)
<1>1. cur' = c
  BY DEF Dispatch
<1>2. redo' = left \/ (c # SPACE /\ m_state \in {"SSet", "BasicParameter", "ExtendedEq"})
  BY Redoes
<1>3. m_state \in ParamStates => redo' = left
  BY <1>2 DEF ParamStates, NumStates, StartStates
<1>4. m_state \notin ParamStates
  BY <1>3 DEF Handed
<1>5. m_state # "String" /\ m_state # "HexString"
  BY <1>4 DEF ParamStates
<1>6. c = ToUpper(x) /\ x \in Typeable
  BY <1>5 DEF Handed
<1>7. c \in Typeable /\ ToUpper(c) = c
  BY <1>6, UpperLemma
<1>8. c # SPACE
  BY <1>2 DEF Handed
<1>9. x # SPACE
  BY <1>6, <1>8, UpperLemma
<1> QED BY <1>1, <1>5, <1>7, <1>8, <1>9 DEF PassedOver

LEMMA OutsideTracks ==
    ASSUME m_state' \notin Entering, typed' = <<>>, ControlOK',
           redo' > 0 => cur' \in Typeable /\ ToUpper(cur') = cur' /\ cur' # SPACE,
           m_state' = "T" /\ redo' > 0 => cur' # 84
    PROVE  TInv'
<1>1. /\ m_state' \notin {"Body", "Extended", "ExtendedEq"} \cup ParamStates
      /\ \A s \in FillStates : s \in Entering
  BY DEF Entering, Entry, States, FillStates, ParamStates, NumStates, StartStates
<1>2. pc' # "fill"
  BY <1>1 DEF ControlOK
<1>3. Tracks'
  BY <1>2 DEF Tracks
<1>4. Again'
  BY <1>1 DEF Again, HandedOn
<1>5. PICK b : b = Before'
  OBVIOUS
<1>6. HandText(b)'
  BY <1>1, <1>2 DEF HandText
<1>7. HandText(Before)'
  BY <1>5, <1>6 DEF HandText
<1> QED BY <1>3, <1>4, <1>7 DEF TInv

LEMMA InsideTracks ==
    ASSUME m_state' \in Entering, NEW next, HandText(next)', Before' = next, Again',
           typed' \in Seq(Typeable), pc' = "fill" => typed' # <<>>,
           redo' > 0 => /\ cur' \in Typeable /\ ToUpper(cur') = cur' /\ cur' # SPACE
                        /\ typed' # <<>> /\ ToUpper(Last(typed')) = cur'
    PROVE  TInv'
<1>1. m_state' # "T"
  BY DEF Entering, Entry
<1>2. Tracks'
  BY <1>1 DEF Tracks
<1>3. HandText(Before)'
  BY DEF HandText
<1> QED BY <1>2, <1>3 DEF TInv

LEMMA DispatchTracks ==
    ASSUME Start, Meant, DefaultsWhole, pc = "ret", NEW before \in Seq(Int), HandText(before),
           NEW x, NEW c, NEW left, Handed(x, c, left), Dispatch(c, left),
           m_parse_index' <= CmdlineSize, ControlOK',
           NEW text \in Seq(Typeable), NEW y \in Typeable, ToUpper(y) = ToUpper(c),
           Record(text, y),
           m_state \in Entering => text = IF PassedOver(x) THEN before ELSE Append(before, x),
           m_state \notin Entering => text = <<>>
    PROVE  TInv'
<1>0. /\ x \in Typeable /\ x \in Int /\ left \in Nat /\ Ready
      /\ c = IF m_state = "String" THEN x ELSE ToUpper(x)
      /\ m_parse_ok_index \in Nat /\ m_parse_index' \in Nat
      /\ redo' \in Nat /\ left \in Nat
  <2>1. Ready /\ x \in Typeable /\ left \in Nat
    BY DEF Start, Handed
  <2>2. c \in Char
    <3>1. /\ ToUpper(x) \in Char /\ c = IF m_state = "String" THEN x ELSE ToUpper(x)
          /\ x \in Typeable
      BY <2>1, UpperLemma DEF Handed
    <3>2. x \in Char
      BY <3>1 DEF Typeable, Char
    <3> QED BY <3>1, <3>2
  <2>3. m_parse_index' \in Nat /\ redo' \in Nat
    BY <2>1, <2>2, DispatchLemma DEF HandlerPost, BufferPost, ControlPost
  <2> QED BY <2>1, <2>3, UpperLemma, IndexLemma DEF Handed
<1>1. redo' > 0 => /\ cur' = c /\ c \in Typeable /\ ToUpper(c) = c /\ c # SPACE
                   /\ m_state # "String" /\ m_state # "HexString"
                   /\ m_state \in Entering => ~PassedOver(x)
  BY <1>0, HandedBack
<1>2. CASE m_state' \notin Entering
  <2>1. typed' = <<>>
    BY <1>2 DEF Record
  <2>2. m_state' = "T" /\ redo' > 0 => cur' # 84
    <3>1. CASE m_state \in Entering
      <4>1. m_state \notin {"A", "T", "Executing"}
        BY <3>1 DEF Entering, Entry
      <4>2. m_state' # "T"
        BY <1>0, <4>1, EntryStep DEF StepPost, GoesOn, Ended
      <4> QED BY <4>2
    <3>2. CASE m_state \notin Entering
      <4>1. m_state' = "T" => c \in {65, SPACE}
        BY <3>2, Enters
      <4> QED BY <1>1, <4>1
    <3> QED BY <3>1, <3>2
  <2> QED BY <1>1, <1>2, <2>1, <2>2, OutsideTracks
<1>3. CASE m_state' \in Entering /\ m_state \notin Entering
  <2>1. m_state = "T" /\ c = 84 /\ m_state' = "Body" /\ pc' = "ret" /\ m_parse_ok_index' = 0
    BY <1>3, Enters
  <2>2. redo' = left
    BY <1>0, <2>1, Redoes
  <2>3. ~(left > 0)
    BY <2>1 DEF Handed
  <2>4. redo' = 0
    BY <1>0, <2>2, <2>3
  <2>5. typed' = <<>>
    <3>1. ~(m_parse_ok_index' > m_parse_ok_index)
      BY <1>0, <2>1
    <3> QED BY <1>3, <3>1 DEF Record
  <2>6. Before' = <<>>
    BY <2>1, <2>4, <2>5 DEF Before
  <2>7. HandText(<<>>)'
    BY <2>1, NumberingApart DEF HandText
  <2>8. Again'
    BY <2>1, NumberingApart DEF Again, HandedOn
  <2>9. typed' \in Seq(Typeable)
    BY <2>5
  <2> QED BY <1>3, <2>1, <2>4, <2>6, <2>7, <2>8, <2>9, InsideTracks
<1>4. CASE m_state' \in Entering /\ m_state \in Entering
  <2>1. PICK next : next = TextWith(before, x)
    OBVIOUS
  <2>2. \/ m_state' = "Body" /\ pc' = "ret" /\ m_parse_ok_index' > m_parse_ok_index
        \/ /\ m_parse_ok_index' = m_parse_ok_index
           /\ HandText(next)' /\ Again' /\ (pc' = "fill" => ~PassedOver(x))
    BY <1>0, <1>4, <2>1, TextTaken DEF Handed
  <2>3. m_state # "T"
    BY <1>4 DEF Entering, Entry
  <2>4. CASE m_state' = "Body" /\ pc' = "ret" /\ m_parse_ok_index' > m_parse_ok_index
    <3>1. typed' = IF redo' = 0 THEN <<>> ELSE <<y>>
      BY <1>4, <2>3, <2>4 DEF Record
    <3>2. y \in Int /\ Front(<<y>>) = <<>> /\ Last(<<y>>) = y /\ <<y>> # <<>>
      BY UpperLemma, FrontOne
    <3>3. Before' = <<>>
      BY <1>0, <2>4, <3>1, <3>2 DEF Before
    <3>4. HandText(<<>>)'
      BY <2>4, NumberingApart DEF HandText
    <3>5. Again'
      BY <2>4, NumberingApart DEF Again, HandedOn
    <3>6. typed' \in Seq(Typeable)
      BY <3>1
    <3>7. redo' > 0 => /\ cur' \in Typeable /\ ToUpper(cur') = cur' /\ cur' # SPACE
                       /\ typed' # <<>> /\ ToUpper(Last(typed')) = cur'
      BY <1>0, <1>1, <3>1, <3>2
    <3> QED BY <1>4, <2>4, <3>3, <3>4, <3>5, <3>6, <3>7, InsideTracks
  <2>5. CASE /\ m_parse_ok_index' = m_parse_ok_index
             /\ HandText(next)' /\ Again' /\ (pc' = "fill" => ~PassedOver(x))
    <3>1. typed' = text
      BY <1>0, <1>4, <2>3, <2>5 DEF Record
    <3>2. redo' > 0 \/ pc' = "fill" => ~PassedOver(x)
      BY <1>1, <1>4, <2>5
    <3>3. redo' > 0 \/ pc' = "fill" =>
             text = Append(before, x) /\ Front(text) = before /\ Last(text) = x /\ text # <<>>
      BY <1>0, <1>4, <3>2, FrontAppend
    <3>4. Before' = next
      BY <1>4, <2>1, <3>1, <3>2, <3>3 DEF Before, TextWith
    <3>5. redo' > 0 => c = ToUpper(x)
      BY <1>0, <1>1
    <3>6. redo' > 0 => /\ cur' \in Typeable /\ ToUpper(cur') = cur' /\ cur' # SPACE
                       /\ typed' # <<>> /\ ToUpper(Last(typed')) = cur'
      BY <1>1, <3>1, <3>3, <3>5
    <3> QED BY <1>4, <2>5, <3>1, <3>3, <3>4, <3>6, InsideTracks
  <2> QED BY <2>2, <2>4, <2>5
<1> QED BY <1>2, <1>3, <1>4

LEMMA FillInside ==
    ASSUME NEW s \in FillStates
    PROVE  s \in Entering /\ s # "Body" /\ s # "ExtendedEq"
BY DEF Entering, Entry, States, FillStates, ParamStates, NumStates, StartStates

LEMMA FillTracks ==
    ASSUME Start, Meant, DefaultsWhole, TInv, FinalizeExtCmd, Record(typed, cur), ControlOK'
    PROVE  TInv'
<1>1. /\ pc = "fill" /\ Ready /\ m_state \in FillStates /\ m_state \in Entering
      /\ m_state # "T" /\ redo \in Nat /\ m_parse_ok_index \in Nat /\ m_parse_index \in Nat
      /\ m_parse_index >= m_parse_ok_index + 2
  <2>1. pc = "fill" /\ Ready /\ m_state \in FillStates /\ redo \in Nat
    BY DEF FinalizeExtCmd, Start, Ready, IInv, TypeOK, ControlOK
  <2>2. m_parse_ok_index \in Nat /\ m_parse_index \in Nat
    BY <2>1, IndexLemma
  <2>3. m_parse_index >= m_parse_ok_index + 2
    BY <2>1, <2>2 DEF Start, Pending, Begun
  <2> QED BY <2>1, <2>2, <2>3, FillInside DEF Entering, Entry
<1>2. cur' = IF pc' = "fill" \/ redo' > 0 THEN cur ELSE NoChar
  BY DEF FinalizeExtCmd
<1>3. /\ redo > 0 => cur \in Typeable /\ ToUpper(cur) = cur /\ cur # SPACE
      /\ typed \in Seq(Typeable) /\ typed # <<>>
      /\ redo > 0 => ToUpper(Last(typed)) = cur
  BY <1>1 DEF TInv, Tracks
<1>4. CASE m_state' \in {"Error", "Executing"} /\ redo' = redo
  <2>1. m_state' \notin Entering /\ m_state' # "T"
    BY <1>4 DEF Entering, Entry
  <2>2. typed' = <<>>
    BY <2>1 DEF Record
  <2> QED BY <1>2, <1>3, <1>4, <2>1, <2>2, OutsideTracks
<1>5. CASE m_parse_index' = m_parse_index /\ Commit /\ NextCommand(redo)
  <2>1. /\ m_state' = "Body" /\ pc' = "ret" /\ redo' = redo
        /\ m_parse_ok_index' > m_parse_ok_index
    BY <1>1, <1>5 DEF NextCommand, Goto, Commit
  <2>2. m_state' \in Entering
    BY <2>1 DEF Entering, Entry, States
  <2>3. typed' = IF redo' = 0 THEN <<>> ELSE <<cur>>
    BY <1>1, <2>1, <2>2 DEF Record
  <2>4. redo > 0 => cur \in Int /\ Front(<<cur>>) = <<>> /\ Last(<<cur>>) = cur /\ <<cur>> # <<>>
    BY <1>3, UpperLemma, FrontOne
  <2>5. Before' = <<>>
    BY <1>1, <2>1, <2>3, <2>4 DEF Before
  <2>6. HandText(<<>>)'
    BY <2>1, NumberingApart DEF HandText
  <2>7. Again'
    BY <2>1, NumberingApart DEF Again, HandedOn
  <2>8. typed' \in Seq(Typeable)
    BY <1>1, <1>3, <2>1, <2>3
  <2>9. redo' > 0 => /\ cur' \in Typeable /\ ToUpper(cur') = cur' /\ cur' # SPACE
                     /\ typed' # <<>> /\ ToUpper(Last(typed')) = cur'
    BY <1>1, <1>2, <1>3, <2>1, <2>3, <2>4
  <2> QED BY <2>1, <2>2, <2>5, <2>6, <2>7, <2>8, <2>9, InsideTracks
<1>6. CASE pc' = "fill"
  <2>1. PICK texts : texts = ParametersOf(Before)
    OBVIOUS
  <2>2. AllTyped(m_cmdline, m_parse_ok_index, Command, m_param_index, texts)
    BY <1>1, <2>1 DEF TInv, HandText
  <2>3. /\ m_state' = m_state /\ redo' = redo /\ m_trie' = m_trie
        /\ m_parse_ok_index' = m_parse_ok_index
        /\ AllTyped(m_cmdline', m_parse_ok_index', Command', m_param_index', texts)
    BY <1>6, <2>2, DefaultTyped
  <2>4. typed' = typed
    BY <1>1, <2>3 DEF Record
  <2>5. PICK next : next = Before
    OBVIOUS
  <2>6. Before' = next
    BY <1>1, <1>6, <2>4, <2>5 DEF Before
  <2>7. m_state' \in FillStates /\ m_state' \in Entering /\ m_state' # "Body" /\ m_state' # "ExtendedEq"
    BY <1>1, <2>3, FillInside
  <2>8. HandText(next)'
    BY <1>6, <2>1, <2>3, <2>5, <2>7 DEF HandText
  <2>9. Again'
    BY <1>6, <2>7 DEF Again, HandedOn
  <2> QED BY <1>2, <1>3, <1>6, <2>3, <2>4, <2>6, <2>7, <2>8, <2>9, InsideTracks
<1> QED BY <1>4, <1>5, <1>6 DEF FinalizeExtCmd, Execute, Fail, Goto, Finalize

LEMMA ExecutorTracks ==
    ASSUME Ready, TInv, ExecCommand \/ ExecEnd \/ Abort \/ (\E id \in Asynchronous : Update(id)),
           Record(typed, cur), ControlOK'
    PROVE  TInv'
<1>1. m_state = "Executing" /\ redo' = redo /\ cur' = cur
  BY DEF ExecCommand, ExecEnd, Abort, Update, ParserVars, Ready, IInv, ControlOK
<1>2. m_state' \in {"A", "Executing"}
  BY <1>1 DEF ExecCommand, ExecEnd, Abort, Update, HandleResult, Answer
<1>3. m_state' \notin Entering /\ m_state' # "T"
  BY <1>2 DEF Entering, Entry
<1>4. typed' = <<>>
  BY <1>3 DEF Record
<1>5. redo > 0 => cur \in Typeable /\ ToUpper(cur) = cur /\ cur # SPACE
  BY DEF TInv, Tracks
<1> QED BY <1>1, <1>3, <1>4, <1>5, OutsideTracks

LEMMA FeedTracks ==
    ASSUME Start, Meant, DefaultsWhole, TInv, NEW c \in Typeable, Feed(c),
           m_parse_index' <= CmdlineSize, ControlOK',
           Record(IF m_state \in Entering /\ ~PassedOver(c) THEN Append(typed, c) ELSE typed, c)
    PROVE  TInv'
<1>1. pc = "ret" /\ redo = 0
  BY DEF Feed, Idle
<1>2. PICK d : d = IF m_state = "String" THEN c ELSE ToUpper(c)
  OBVIOUS
<1>3. Dispatch(d, 0)
  BY <1>2 DEF Feed
<1>4. PICK left : left = 0
  OBVIOUS
<1>5. Handed(c, d, left)
  BY <1>1, <1>2, <1>4 DEF Handed, HandedOn
<1>6. PICK before : before = typed
  OBVIOUS
<1>7. before \in Seq(Typeable) /\ before \in Seq(Int) /\ HandText(before)
  <2>1. typed \in Seq(Typeable) /\ HandText(Before) /\ Before = typed
    BY <1>1 DEF TInv, Tracks, Before
  <2>2. Typeable \subseteq Int
    BY DEF Typeable
  <2>3. HandText(before)
    BY <1>6, <2>1 DEF HandText
  <2> QED BY <1>6, <2>1, <2>2, <2>3, IntSeq
<1>8. PICK text : text = IF m_state \in Entering /\ ~PassedOver(c) THEN Append(typed, c) ELSE typed
  OBVIOUS
<1>9. text \in Seq(Typeable)
  BY <1>6, <1>7, <1>8
<1>10. /\ m_state \in Entering => text = IF PassedOver(c) THEN before ELSE Append(before, c)
       /\ m_state \notin Entering => text = <<>>
  BY <1>6, <1>8 DEF TInv, Tracks
<1>11. ToUpper(c) = ToUpper(d)
  BY <1>2, UpperLemma
<1>12. Record(text, c)
  BY <1>8
<1> QED BY <1>1, <1>3, <1>4, <1>5, <1>7, <1>9, <1>10, <1>11, <1>12, DispatchTracks

LEMMA RedispatchTracks ==
    ASSUME Start, Meant, DefaultsWhole, TInv, Redispatch,
           m_parse_index' <= CmdlineSize, ControlOK', Record(typed, cur)
    PROVE  TInv'
<1>1. /\ pc = "ret" /\ redo > 0 /\ redo \in Nat /\ typed \in Seq(Typeable)
      /\ cur \in Typeable /\ ToUpper(cur) = cur /\ cur # SPACE
  BY DEF Redispatch, TInv, Tracks, Start, Ready, IInv, TypeOK
<1>2. PICK left \in Nat : redo = left + 1
  <2>1. redo - 1 \in Nat /\ redo = (redo - 1) + 1
    BY <1>1
  <2> QED BY <2>1
<1>3. Dispatch(cur, left)
  <2>1. left = redo - 1
    BY <1>2
  <2> QED BY <2>1 DEF Redispatch
<1>4. /\ m_state \in ParamStates => m_state \in StartStates /\ left = 0
      /\ HandedOn(cur, left)
  BY <1>1, <1>2 DEF TInv, Again, HandedOn
<1>5. m_state # "String" /\ m_state # "HexString"
  BY <1>4, ParamStatesLemma
<1>6. left > 0 /\ m_state = "T" => cur # 84
  BY <1>1 DEF TInv, Tracks
<1>7. PICK c : c = cur
  OBVIOUS
<1>8. CASE m_state \in Entering
  <2>1. typed # <<>> /\ ToUpper(Last(typed)) = cur
    BY <1>1, <1>8 DEF TInv, Tracks
  <2>2. PICK x : x = Last(typed)
    OBVIOUS
  <2>3. PICK before : before = Front(typed)
    OBVIOUS
  <2>4. Typeable \subseteq Int
    BY DEF Typeable
  <2>5. x \in Typeable /\ before \in Seq(Int) /\ typed = Append(before, x)
    BY <1>1, <2>1, <2>2, <2>3, <2>4, FrontSplit
  <2>6. Handed(x, c, left)
    BY <1>1, <1>4, <1>5, <1>6, <1>7, <2>1, <2>2, <2>5 DEF Handed
  <2>7. ~PassedOver(x)
    <3>1. x # SPACE
      BY <1>1, <2>1, <2>2, <2>5, UpperLemma
    <3> QED BY <1>5, <3>1 DEF PassedOver
  <2>8. HandText(before)
    <3>1. Before = before
      BY <1>1, <2>3 DEF Before
    <3> QED BY <3>1 DEF TInv, HandText
  <2>9. PICK text : text = typed
    OBVIOUS
  <2>10. text \in Seq(Typeable) /\ Record(text, cur)
    BY <1>1, <2>9
  <2>11. PICK y : y = cur
    OBVIOUS
  <2>12. y \in Typeable /\ ToUpper(y) = ToUpper(c) /\ Record(text, y)
    BY <1>1, <1>7, <2>10, <2>11
  <2>13. Dispatch(c, left)
    BY <1>3, <1>7
  <2> QED BY <1>1, <1>8, <2>5, <2>6, <2>7, <2>8, <2>9, <2>10, <2>12, <2>13, DispatchTracks
<1>9. CASE m_state \notin Entering
  <2>1. typed = <<>>
    BY <1>9 DEF TInv, Tracks
  <2>2. Handed(c, c, left)
    BY <1>1, <1>4, <1>5, <1>6, <1>7 DEF Handed
  <2>3. HandText(<<>>) /\ <<>> \in Seq(Int)
    <3>1. m_state \notin {"Body", "Extended", "ExtendedEq"} \cup ParamStates
      BY <1>9 DEF Entering, Entry, States, ParamStates, NumStates, StartStates
    <3> QED BY <1>1, <3>1 DEF HandText
  <2>4. PICK text : text = typed
    OBVIOUS
  <2>5. text \in Seq(Typeable) /\ Record(text, cur) /\ text = <<>>
    BY <1>1, <2>1, <2>4
  <2>6. c \in Typeable /\ Record(text, c)
    BY <1>1, <1>7, <2>5
  <2>7. Dispatch(c, left)
    BY <1>3, <1>7
  <2> QED BY <1>1, <1>9, <2>2, <2>3, <2>5, <2>6, <2>7, DispatchTracks
<1> QED BY <1>8, <1>9
-----------------------------------------------------------------------------
(* The commands of a line mean what was entered for them. *)

Meaning(buf, texts, b) ==
    \A c \in ExtIndices :
       IdAt(buf, b) = ExtId(c, "WRITE") =>
          FieldsHeld(buf, b, c, ExtCmds[c].count, ParametersOf(Front(texts[b])))

MeaningIn(buf, texts, end, places) == \A b \in places \ {end} : Meaning(buf, texts, b)

LineText ==
    /\ DOMAIN entered = 0 .. CmdlineSize - 1
    /\ \E places \in SUBSET Nat :
          /\ Chain(m_cmdline, m_parse_ok_index, places)
          /\ m_state = "Executing" => m_exec_index \in places
          /\ MeaningIn(m_cmdline, entered, m_parse_ok_index, places)

(* The meaning of a command depends on nothing but its bytes. *)
LEMMA MeaningFrame ==
    ASSUME NEW buf, NEW buf2, NEW end \in Nat, NEW b \in Nat,
           \A j \in 0 .. end - 1 : buf2[j] = buf[j], CommandAt(buf, end, b),
           NEW texts, NEW texts2, texts2[b] = texts[b], Meaning(buf, texts, b)
    PROVE  Meaning(buf2, texts2, b)
<1>1. IdAt(buf2, b) = IdAt(buf, b)
  BY DEF CommandAt, IdAt
<1>2. SUFFICES ASSUME NEW c \in ExtIndices, IdAt(buf, b) = ExtId(c, "WRITE")
               PROVE  FieldsHeld(buf2, b, c, ExtCmds[c].count, ParametersOf(Front(texts[b])))
  BY <1>1 DEF Meaning
<1>3. FieldsHeld(buf, b, c, ExtCmds[c].count, ParametersOf(Front(texts[b])))
  BY <1>2 DEF Meaning
<1>4. b + WriteSize(c) <= end
  <2>1. LengthAt(buf, b) = WriteSize(c)
    BY <1>2, LengthLemma DEF LengthAt
  <2> QED BY <2>1 DEF CommandAt
<1>5. /\ ExtCmds[c].count \in Nat /\ ExtCmds[c].count \in 0 .. ExtCmds[c].count
      /\ WriteSize(c) = ParamOffset[c][ExtCmds[c].count] /\ WriteSize(c) \in Nat
  <2>1. ExtCmds[c].count \in Nat
    BY ExtAssumption
  <2>2. WriteSize(c) \in Nat
    BY <2>1, OffsetsAscend DEF WriteSize
  <2> QED BY <2>1, <2>2 DEF WriteSize
<1>6. \A j \in 0 .. b + ParamOffset[c][ExtCmds[c].count] - 1 : buf2[j] = buf[j]
  BY <1>4, <1>5
<1> QED BY <1>3, <1>5, <1>6, FieldsHeldFrame

(* A step of the parser: places of commands that were complete keep what   *)
(* was entered for them, and the command in hand brings its own.           *)
LEMMA TextMoves ==
    ASSUME Start, LineText, TInv, Moved, NEW text, NEW c, Record(text, c),
           pc = "fill" /\ m_parse_ok_index' > m_parse_ok_index =>
              text = typed /\ m_param_index = Cmd.count /\ m_cmdline' = m_cmdline,
           m_state = "T" /\ m_state' = "Body" => m_parse_ok_index' = 0,
           m_parse_ok_index' \in Nat, m_parse_ok_index' <= CmdlineSize
    PROVE  LineText'
<1> DEFINE end == m_parse_ok_index
<1>1. PICK places \in SUBSET Nat :
         /\ Chain(m_cmdline, end, places)
         /\ m_state = "Executing" => m_exec_index \in places
         /\ MeaningIn(m_cmdline, entered, end, places)
  BY DEF LineText
<1>2. /\ Ready /\ end \in Nat /\ CmdlineSize \in Nat /\ DOMAIN entered = 0 .. CmdlineSize - 1
      /\ 0 \in places /\ places \subseteq 0 .. end /\ end \in places
  BY <1>1, StartLemma2 DEF LineText, Chain
<1>3. CASE m_state = "T" /\ m_state' = "Body"
  <2>1. entered' = NothingEntered
    BY <1>3 DEF Record
  <2>2. m_parse_ok_index' = 0 /\ DOMAIN entered' = 0 .. CmdlineSize - 1
    BY <1>3, <2>1 DEF NothingEntered
  <2>3. Chain(m_cmdline', 0, {0}) /\ {0} \in SUBSET Nat
    BY DEF Chain
  <2>4. MeaningIn(m_cmdline', entered', 0, {0})
    BY DEF MeaningIn
  <2> QED BY <1>3, <2>2, <2>3, <2>4 DEF LineText
<1>4. CASE ~(m_state = "T" /\ m_state' = "Body")
  <2>1. /\ \A j \in 0 .. end - 1 : m_cmdline'[j] = m_cmdline[j]
        /\ m_parse_ok_index' = end \/ Added
        /\ m_state' = "Executing" =>
              \/ m_exec_index' = 0
              \/ m_state = "Executing" /\ m_exec_index' = m_exec_index
    BY <1>4 DEF Moved
  <2>2. m_state' = "Executing" => m_exec_index' \in places
    BY <1>1, <1>2, <2>1
  <2>3. ASSUME NEW b \in places \ {end}, entered'[b] = entered[b]
        PROVE  Meaning(m_cmdline', entered', b)
    <3>1. CommandAt(m_cmdline, end, b) /\ b \in Nat /\ Meaning(m_cmdline, entered, b)
      BY <1>1 DEF Chain, MeaningIn
    <3> QED BY <1>2, <2>1, <2>3, <3>1, MeaningFrame
  <2>4. CASE m_parse_ok_index' = end
    <3>1. entered' = entered
      BY <1>2, <1>4, <2>4 DEF Record
    <3>2. Chain(m_cmdline', end, places)
      BY <1>1, <1>2, <2>1, ChainKept
    <3>3. MeaningIn(m_cmdline', entered', end, places)
      BY <2>3, <3>1 DEF MeaningIn
    <3> QED BY <1>2, <2>2, <2>4, <3>1, <3>2, <3>3 DEF LineText
  <2>5. CASE Added
    <3>1. /\ CommandAt(m_cmdline', m_parse_ok_index', end)
          /\ end + LengthAt(m_cmdline', end) = m_parse_ok_index'
          /\ pc = "fill" \/ NoWrite(IdAt(m_cmdline', end))
      BY <2>5 DEF Added
    <3>2. end + 2 <= m_parse_ok_index'
      BY <3>1 DEF CommandAt
    <3>3. m_parse_ok_index' > end /\ end \in 0 .. CmdlineSize - 1
      BY <1>2, <3>2
    <3>4. entered' = [entered EXCEPT ![end] = text]
      BY <1>4, <3>3 DEF Record
    <3>5. entered'[end] = text /\ DOMAIN entered' = 0 .. CmdlineSize - 1
      BY <1>2, <3>3, <3>4
    <3>6. Chain(m_cmdline', m_parse_ok_index', places \cup {m_parse_ok_index'})
      <4>1. /\ end \in Nat /\ m_parse_ok_index' \in Nat /\ end <= m_parse_ok_index'
            /\ \A j \in 0 .. end - 1 : m_cmdline'[j] = m_cmdline[j]
            /\ Chain(m_cmdline, end, places)
            /\ CommandAt(m_cmdline', m_parse_ok_index', end)
            /\ end + LengthAt(m_cmdline', end) = m_parse_ok_index'
        BY <1>1, <1>2, <2>1, <3>1, <3>3
      <4> HIDE DEF end
      <4> QED BY <4>1, ChainGrows
    <3>7. Meaning(m_cmdline', entered', end)
      <4>1. SUFFICES ASSUME NEW d \in ExtIndices, IdAt(m_cmdline', end) = ExtId(d, "WRITE")
                     PROVE  FieldsHeld(m_cmdline', end, d, ExtCmds[d].count,
                                       ParametersOf(Front(text)))
        BY <3>5 DEF Meaning
      <4>2. pc = "fill"
        BY <3>1, <4>1 DEF NoWrite
      <4>3. text = typed /\ m_param_index = Cmd.count /\ m_cmdline' = m_cmdline
        BY <3>3, <4>2
      <4>4. IdAt(m_cmdline, end) = ExtId(Command, "WRITE")
        BY <4>2 DEF Start, Pending, Begun, Holds
      <4>5. d = Command /\ Cmd = ExtCmds[Command]
        <5>1. Command \in ExtIndices /\ "WRITE" \in CmdTypes
          BY <4>2, BehindStart DEF CmdTypes
        <5> QED BY <4>1, <4>3, <4>4, <5>1, ExtIdLemma DEF Cmd
      <4>6. AllTyped(m_cmdline, end, Command, m_param_index, ParametersOf(Front(typed)))
        <5>1. PICK before : before = Before
          OBVIOUS
        <5>2. HandText(before)
          BY <5>1 DEF TInv, HandText
        <5>3. before = Front(typed)
          BY <4>2, <5>1 DEF Before
        <5> QED BY <4>2, <5>2, <5>3 DEF HandText
      <4> QED BY <4>3, <4>5, <4>6 DEF AllTyped
    <3>8. MeaningIn(m_cmdline', entered', m_parse_ok_index', places \cup {m_parse_ok_index'})
      <4>1. SUFFICES ASSUME NEW b \in places
                     PROVE  Meaning(m_cmdline', entered', b)
        BY DEF MeaningIn
      <4>2. CASE b = end
        BY <3>7, <4>2
      <4>3. CASE b # end
        <5>1. entered'[b] = entered[b]
          BY <3>4, <4>3
        <5> QED BY <2>3, <4>3, <5>1
      <4> QED BY <4>2, <4>3
    <3>9. PICK more : more = places \cup {m_parse_ok_index'}
      OBVIOUS
    <3>10. more \in SUBSET Nat /\ (m_state' = "Executing" => m_exec_index' \in more)
      BY <2>2, <3>9
    <3> QED BY <3>5, <3>6, <3>8, <3>9, <3>10 DEF LineText
  <2> QED BY <2>1, <2>4, <2>5
<1> QED BY <1>3, <1>4

(* The executor leaves the text alone and goes from command to command. *)
LEMMA ExecutorText ==
    ASSUME Ready, LineText, ExecCommand \/ ExecEnd \/ Abort \/ (\E id \in Asynchronous : Update(id)),
           Record(typed, cur)
    PROVE  LineText'
<1>1. m_state = "Executing" /\ UNCHANGED <<m_cmdline, m_parse_ok_index>>
  BY DEF ExecCommand, ExecEnd, Abort, Update, ParserVars, bufVars, Ready, IInv, ControlOK
<1>2. m_parse_ok_index \in Nat
  BY IndexLemma
<1>3. entered' = entered
  BY <1>1, <1>2 DEF Record
<1>4. PICK places \in SUBSET Nat :
         /\ Chain(m_cmdline, m_parse_ok_index, places) /\ m_exec_index \in places
         /\ MeaningIn(m_cmdline, entered, m_parse_ok_index, places)
  BY <1>1 DEF LineText
<1>5. m_exec_index' \in places
  <2>1. CASE ExecCommand
    <3>1. /\ m_exec_index # m_parse_ok_index
          /\ m_exec_index' \in {m_exec_index, m_exec_index + CmdLength(CurrentCmdId)}
      BY <2>1 DEF ExecCommand, HandleResult
    <3>2. LengthAt(m_cmdline, m_exec_index) = CmdLength(CurrentCmdId)
      BY DEF IdAt, CurrentCmdId, LengthAt, LengthOf, CmdLength, SLength, SParameter
    <3>3. m_exec_index + LengthAt(m_cmdline, m_exec_index) \in places
      BY <1>4, <3>1 DEF Chain
    <3> QED BY <1>4, <3>1, <3>2, <3>3
  <2>2. CASE ExecEnd \/ Abort \/ \E id \in Asynchronous : Update(id)
    <3>1. m_exec_index' = m_exec_index
      BY <2>2 DEF ExecEnd, Abort, Update, execVars
    <3> QED BY <1>4, <3>1
  <2> QED BY <2>1, <2>2
<1>6. Chain(m_cmdline', m_parse_ok_index', places)
  BY <1>1, <1>4
<1>7. MeaningIn(m_cmdline', entered', m_parse_ok_index', places)
  <2>1. m_cmdline' = m_cmdline /\ entered' = entered /\ m_parse_ok_index' = m_parse_ok_index
    BY <1>1, <1>3
  <2>2. MeaningIn(m_cmdline, entered, m_parse_ok_index, places)
    BY <1>4
  <2> QED BY <2>1, <2>2
<1>8. DOMAIN entered' = 0 .. CmdlineSize - 1
  BY <1>3 DEF LineText
<1> QED BY <1>5, <1>6, <1>7, <1>8 DEF LineText

(* What a character does to the buffer and to the committed part. *)
LEMMA DispatchMoves ==
    ASSUME Start, Meant, pc = "ret", NEW c \in Char, NEW left \in Nat, Dispatch(c, left),
           m_state = "S" /\ c \in {EQ, QM} => m_num \in {3, 4}, c = 83 => SKnown,
           fault' = "none", IInv'
    PROVE  /\ Moved /\ m_parse_index' <= CmdlineSize
           /\ m_parse_ok_index' \in Nat /\ m_parse_ok_index' <= CmdlineSize
           /\ m_state = "T" /\ m_state' = "Body" => m_parse_ok_index' = 0
<1>1. fault' = IF m_parse_index' > CmdlineSize THEN "overrun" ELSE fault
  BY DEF Dispatch
<1>2. m_parse_index' \in Nat /\ CmdlineSize \in Nat
  BY DispatchLemma, IndexLemma DEF HandlerPost, BufferPost, Start
<1>3. m_parse_index' <= CmdlineSize
  BY <1>1, <1>2
<1>4. Post(c, left)
  BY <1>3, DispatchPost
<1>5. m_parse_ok_index' \in Nat /\ m_parse_ok_index' <= m_parse_index'
  BY DEF IInv, TypeOK, CmdlineTypeOK, IndicesOrdered
<1>6. m_state = "T" /\ m_state' = "Body" => m_parse_ok_index' = 0
  <2>1. "Body" \in Entering /\ "T" \notin Entering
    BY DEF Entering, Entry, States
  <2> QED BY <2>1, Enters
<1> QED BY <1>2, <1>3, <1>4, <1>5, <1>6 DEF Post, LineMoved

LEMMA FeedMoves ==
    ASSUME Start, Meant, NEW c \in Alphabet, Feed(c), fault' = "none", IInv'
    PROVE  /\ Moved /\ m_parse_index' <= CmdlineSize
           /\ m_parse_ok_index' \in Nat /\ m_parse_ok_index' <= CmdlineSize
           /\ m_state = "T" /\ m_state' = "Body" => m_parse_ok_index' = 0
<1>1. PICK d : d = IF m_state = "String" THEN c ELSE ToUpper(c)
  OBVIOUS
<1>2. d \in Char /\ c \in Char
  BY <1>1, AlphabetAssumption, ToUpperLemma
<1>3. Dispatch(d, 0) /\ pc = "ret" /\ Typed(c)
  BY <1>1 DEF Feed, Idle
<1>4. m_state = "S" /\ d \in {EQ, QM} => m_num \in {3, 4}
  <2>1. d \in {EQ, QM} => c \in {EQ, QM}
    BY <1>1, <1>2 DEF ToUpper, IsLower, EQ, QM, Char
  <2>2. m_state = "S" => SupportedSOnly
    BY DEF Start, Pending, SKnown
  <2> QED BY <1>3, <2>1, <2>2 DEF Typed
<1>5. d = 83 => SKnown
  <2>1. d = 83 => c \in {83, 115}
    BY <1>1, <1>2 DEF ToUpper, IsLower, Char
  <2> QED BY <2>1 DEF Meant
<1>6. PICK left : left = 0
  OBVIOUS
<1>7. Dispatch(d, left) /\ left \in Nat
  BY <1>3, <1>6
<1> QED BY <1>2, <1>3, <1>4, <1>5, <1>7, DispatchMoves

LEMMA RedispatchMoves ==
    ASSUME Start, Meant, Letter, Redispatch, fault' = "none", IInv'
    PROVE  /\ Moved /\ m_parse_index' <= CmdlineSize
           /\ m_parse_ok_index' \in Nat /\ m_parse_ok_index' <= CmdlineSize
           /\ m_state = "T" /\ m_state' = "Body" => m_parse_ok_index' = 0
<1>1. redo > 0 /\ redo \in Nat /\ cur \in Char /\ pc = "ret"
  BY DEF Redispatch, Start, Ready, IInv, TypeOK, ControlOK
<1>2. PICK left : left = redo - 1
  OBVIOUS
<1>3. PICK c : c = cur
  OBVIOUS
<1>4. Dispatch(c, left) /\ left \in Nat /\ c \in Char
  BY <1>1, <1>2, <1>3 DEF Redispatch
<1>5. (m_state = "S" => c = 83) /\ (c = 83 => SKnown)
  BY <1>1, <1>3 DEF Letter
<1>6. m_state = "S" => c \notin {EQ, QM}
  BY <1>5 DEF EQ, QM
<1> QED BY <1>1, <1>4, <1>5, <1>6, DispatchMoves

(* What has been typed and what stands in the buffer, at every step. *)
TextInv == fault = "none" => TInv /\ LineText

LEMMA TextInit == HandlesInit => TextInv
<1> SUFFICES ASSUME HandlesInit PROVE TextInv
  OBVIOUS
<1>1. /\ m_parse_ok_index = 0 /\ m_state = "A" /\ pc = "ret" /\ redo = 0
      /\ typed = <<>> /\ entered = NothingEntered
  BY DEF HandlesInit, Init, CmdlineInit
<1>2. "A" \notin Entering /\ "A" \notin ParamStates /\ "A" \notin StartStates
  BY DEF Entering, Entry, States, ParamStates, NumStates, StartStates
<1>3. Tracks
  BY <1>1, <1>2 DEF Tracks
<1>4. Again /\ HandText(Before)
  BY <1>1, <1>2 DEF Again, HandedOn, HandText
<1>5. Chain(m_cmdline, 0, {0}) /\ {0} \in SUBSET Nat /\ MeaningIn(m_cmdline, entered, 0, {0})
  BY DEF Chain, MeaningIn
<1>6. DOMAIN entered = 0 .. CmdlineSize - 1
  BY <1>1 DEF NothingEntered
<1>7. LineText
  BY <1>1, <1>5, <1>6 DEF LineText
<1> QED BY <1>3, <1>4, <1>7 DEF TextInv, TInv

LEMMA TextNext ==
    ASSUME Meant, DefaultsWhole, 0 \notin Alphabet, IInv, IInv', LInv, NumberFits, WInv,
           TextInv, HandlesNext
    PROVE  TextInv'
<1>1. SUFFICES ASSUME fault' = "none" PROVE TInv' /\ LineText'
  BY DEF TextInv
<1>2. Next /\ Ready
  <2>1. Next
    BY DEF HandlesNext, Next, Environment
  <2> QED BY <2>1, NextReady
<1>3. Start /\ Letter /\ TInv /\ LineText /\ ControlOK'
  BY <1>2 DEF Start, Ready, WInv, TextInv, IInv
<1>4. CASE \E c \in Alphabet :
             /\ Feed(c)
             /\ Record(IF m_state \in Entering /\ ~PassedOver(c) THEN Append(typed, c)
                                                               ELSE typed, c)
  <2>1. PICK c \in Alphabet :
             /\ Feed(c)
             /\ Record(IF m_state \in Entering /\ ~PassedOver(c) THEN Append(typed, c)
                                                               ELSE typed, c)
    BY <1>4
  <2>2. c \in Typeable
    <3>1. c \in Char /\ c # 0
      BY <2>1, AlphabetAssumption
    <3> QED BY <3>1 DEF Char, Typeable
  <2>3. /\ Moved /\ m_parse_index' <= CmdlineSize
        /\ m_parse_ok_index' \in Nat /\ m_parse_ok_index' <= CmdlineSize
        /\ m_state = "T" /\ m_state' = "Body" => m_parse_ok_index' = 0
    BY <1>1, <1>3, <2>1, FeedMoves
  <2>4. TInv'
    BY <1>3, <2>1, <2>2, <2>3, FeedTracks
  <2>5. pc # "fill"
    BY <2>1 DEF Feed, Idle
  <2>6. PICK text : text = IF m_state \in Entering /\ ~PassedOver(c) THEN Append(typed, c) ELSE typed
    OBVIOUS
  <2>7. Record(text, c)
    BY <2>1, <2>6
  <2>8. LineText'
    BY <1>3, <2>3, <2>5, <2>7, TextMoves
  <2> QED BY <2>4, <2>8
<1>5. ASSUME Record(typed, cur)
      PROVE  Redispatch => TInv' /\ LineText'
  <2>1. SUFFICES ASSUME Redispatch PROVE TInv' /\ LineText'
    OBVIOUS
  <2>2. /\ Moved /\ m_parse_index' <= CmdlineSize
        /\ m_parse_ok_index' \in Nat /\ m_parse_ok_index' <= CmdlineSize
        /\ m_state = "T" /\ m_state' = "Body" => m_parse_ok_index' = 0
    BY <1>1, <1>3, <2>1, RedispatchMoves
  <2>3. TInv'
    BY <1>3, <1>5, <2>1, <2>2, RedispatchTracks
  <2>4. pc # "fill"
    BY <2>1 DEF Redispatch
  <2>5. LineText'
    BY <1>3, <1>5, <2>2, <2>4, TextMoves
  <2> QED BY <2>3, <2>5
<1>6. ASSUME Record(typed, cur)
      PROVE  FinalizeExtCmd => TInv' /\ LineText'
  <2>1. SUFFICES ASSUME FinalizeExtCmd PROVE TInv' /\ LineText'
    OBVIOUS
  <2>2. TInv'
    BY <1>3, <1>6, <2>1, FillTracks
  <2>3. Moved
    BY <1>3, <2>1, FinalizeExtCmdPost DEF LineMoved
  <2>4. m_parse_ok_index' \in Nat /\ m_parse_ok_index' <= CmdlineSize
    BY <1>1, CmdlineSizeAssumption DEF IInv, TypeOK, CmdlineTypeOK, IndicesOrdered
  <2>5. pc = "fill" /\ m_state # "T"
    <3>1. pc = "fill" /\ m_state \in FillStates
      BY <2>1 DEF FinalizeExtCmd, IInv, ControlOK
    <3> QED BY <3>1 DEF FillStates, ParamStates, NumStates, StartStates
  <2>6. m_parse_ok_index' > m_parse_ok_index => m_param_index = Cmd.count /\ m_cmdline' = m_cmdline
    <3>1. m_parse_ok_index \in Nat
      BY <1>2, IndexLemma
    <3>2. CASE m_param_index = Cmd.count
      BY <2>1, <3>2 DEF FinalizeExtCmd
    <3>3. CASE m_param_index # Cmd.count
      <4>1. m_parse_ok_index' = m_parse_ok_index
        BY <2>1, <3>3 DEF FinalizeExtCmd, Fail, Execute, Keep, bufVars, Finalize
      <4> QED BY <3>1, <4>1
    <3> QED BY <3>2, <3>3
  <2>7. LineText'
    BY <1>3, <1>6, <2>3, <2>4, <2>5, <2>6, TextMoves
  <2> QED BY <2>2, <2>7
<1>7. ASSUME Record(typed, cur), ExecCommand \/ ExecEnd \/ Abort \/ (\E id \in Asynchronous : Update(id))
      PROVE  TInv' /\ LineText'
  BY <1>2, <1>3, <1>7, ExecutorTracks, ExecutorText
<1> QED BY <1>4, <1>5, <1>6, <1>7 DEF HandlesNext, Internal
-----------------------------------------------------------------------------
(* What a handler reads is what stands there. *)

LEMMA NumberValue ==
    ASSUME NEW at \in Nat, NEW p, p.type \in NumTypes, NEW v, Stored(m_cmdline, at, p, v)
    PROVE  GetNumeric_(at) = v
<1>1. v \in Value /\ \A k \in 0 .. 3 : m_cmdline[at + k] = NumBytes(v)[k + 1]
  BY DEF Stored
<1>2. /\ m_cmdline[at] = NumBytes(v)[1] /\ m_cmdline[at + 1] = NumBytes(v)[2]
      /\ m_cmdline[at + 2] = NumBytes(v)[3] /\ m_cmdline[at + 3] = NumBytes(v)[4]
  <2>1. /\ 0 \in 0 .. 3 /\ 1 \in 0 .. 3 /\ 2 \in 0 .. 3 /\ 3 \in 0 .. 3 /\ at + 0 = at
        /\ 0 + 1 = 1 /\ 1 + 1 = 2 /\ 2 + 1 = 3 /\ 3 + 1 = 4
    OBVIOUS
  <2> QED BY <1>1, <2>1
<1> QED BY <1>1, <1>2, NumBytesBack DEF GetNumeric_

(* A text ends at the first NUL, and the text that was put holds none.     *)
LEMMA StringValue ==
    ASSUME NEW at \in Nat, NEW p, p.type = "STR", p.size \in Nat,
           at + p.size <= CmdlineSize, NEW v, Stored(m_cmdline, at, p, v)
    PROVE  GetString(at) = v
<1> DEFINE First(i) == m_cmdline[i] = 0 /\ \A j \in at .. i - 1 : m_cmdline[j] # 0
           nul == CHOOSE i \in at .. CmdlineSize - 1 : First(i)
<1>1. /\ v \in Seq(1 .. 255) /\ Len(v) < p.size /\ m_cmdline[at + Len(v)] = 0
      /\ \A i \in 1 .. Len(v) : m_cmdline[at + i - 1] = v[i]
  BY DEF Stored, CellsHold
<1>2. PICK n \in Nat : n = Len(v)
  BY <1>1
<1>3. CmdlineSize \in Nat /\ at + n \in at .. CmdlineSize - 1
  BY <1>1, <1>2, CmdlineSizeAssumption
<1>4. \A j \in at .. at + n - 1 : m_cmdline[j] # 0
  <2>1. SUFFICES ASSUME NEW j \in at .. at + n - 1 PROVE m_cmdline[j] # 0
    OBVIOUS
  <2>2. PICK i \in 1 .. n : j = at + i - 1
    <3>1. j - at + 1 \in 1 .. n /\ j = at + (j - at + 1) - 1
      OBVIOUS
    <3> QED BY <3>1
  <2>3. v[i] \in 1 .. 255
    <3>1. PICK S : S = 1 .. 255
      OBVIOUS
    <3>2. S \subseteq Int /\ v \in Seq(S)
      BY <1>1, <3>1
    <3>3. v[i] \in S
      BY <1>2, <3>2, IntSeq
    <3> QED BY <3>1, <3>3
  <2>4. m_cmdline[j] = v[i]
    BY <1>1, <1>2, <2>2
  <2> QED BY <2>3, <2>4
<1>5. First(at + n)
  BY <1>1, <1>2, <1>4
<1>6. nul \in at .. CmdlineSize - 1 /\ First(nul)
  <2> HIDE DEF First
  <2> QED BY <1>3, <1>5
<1>7. nul = at + n
  <2>1. ASSUME nul < at + n PROVE FALSE
    <3>1. nul \in at .. at + n - 1
      BY <1>3, <1>6, <2>1
    <3> QED BY <1>4, <1>6, <3>1
  <2>2. ASSUME nul > at + n PROVE FALSE
    <3>1. at + n \in at .. nul - 1
      BY <1>3, <1>6, <2>2
    <3> QED BY <1>5, <1>6, <3>1
  <2>3. nul \in Nat
    BY <1>3, <1>6
  <2> HIDE DEF nul
  <2> QED BY <2>1, <2>2, <2>3
<1>8. GetString(at) = [i \in 1 .. nul - at |-> m_cmdline[at + i - 1]]
  BY DEF GetString
<1>9. nul - at = n
  <2> HIDE DEF nul
  <2> QED BY <1>7
<1>10. GetString(at) = [i \in 1 .. n |-> m_cmdline[at + i - 1]]
  BY <1>8, <1>9
<1>11. v = [i \in 1 .. n |-> v[i]]
  BY <1>1, <1>2
<1> QED BY <1>1, <1>2, <1>10, <1>11

LEMMA BytesValue ==
    ASSUME NEW at \in Nat, NEW p, p.type = "STR_HEX", p.size \in Nat, p.size < 65536,
           NEW v, Stored(m_cmdline, at, p, v)
    PROVE  GetHexString(at, p.size) = v
<1>1. /\ v \in Seq(Byte) /\ Len(v) <= p.size
      /\ \A i \in 1 .. Len(v) : m_cmdline[at + i - 1] = v[i]
      /\ m_cmdline[at + p.size] = IdBytes(Len(v))[1]
      /\ m_cmdline[at + p.size + 1] = IdBytes(Len(v))[2]
  BY DEF Stored, CellsHold
<1>2. PICK n \in Nat : n = Len(v) /\ n < 65536
  BY <1>1
<1>3. m_cmdline[at + p.size] + 256 * m_cmdline[at + p.size + 1] = n
  BY <1>1, <1>2, IdBytesBack
<1>4. GetHexString(at, p.size) = [i \in 1 .. n |-> m_cmdline[at + i - 1]]
  BY <1>3 DEF GetHexString
<1>5. v = [i \in 1 .. n |-> v[i]]
  BY <1>1, <1>2
<1>6. [i \in 1 .. n |-> m_cmdline[at + i - 1]] = [i \in 1 .. n |-> v[i]]
  BY <1>1, <1>2
<1> QED BY <1>4, <1>5, <1>6

(* The command a write handler runs for. *)
LEMMA WrittenStands ==
    ASSUME WriteRuns
    PROVE  Written \in ExtIndices /\ IdAt(m_cmdline, m_exec_index) = ExtId(Written, "WRITE")
<1>1. PICK c \in Writable : IdBytes(ExtId(c, "WRITE")) =
                               <<m_cmdline[m_exec_index], m_cmdline[m_exec_index + 1]>>
  BY DEF WriteRuns, IsWriteAt
<1>2. c \in ExtIndices /\ "WRITE" \in CmdTypes
  BY DEF Writable, CmdTypes
<1>3. PICK id : id = ExtId(c, "WRITE")
  OBVIOUS
<1>4. id \in Nat /\ id < 65536 /\ id \div 4 = c
  BY <1>2, <1>3, ExtIdLemma, SizesAssumption DEF BasicOffset
<1>5. m_cmdline[m_exec_index] + 256 * m_cmdline[m_exec_index + 1] = id
  <2>1. PICK b1, b2 : b1 = m_cmdline[m_exec_index] /\ b2 = m_cmdline[m_exec_index + 1]
    OBVIOUS
  <2>2. IdBytes(id) = <<b1, b2>>
    BY <1>1, <1>3, <2>1
  <2>3. IdBytes(id)[1] = b1 /\ IdBytes(id)[2] = b2
    BY <2>2
  <2> QED BY <1>4, <2>1, <2>3, IdBytesBack
<1>6. Written = c /\ IdAt(m_cmdline, m_exec_index) = id
  BY <1>4, <1>5 DEF Written, TableAt, IdAt
<1> QED BY <1>2, <1>3, <1>6

LEMMA ArgumentMeans ==
    ASSUME IInv, WInv, LineText, WriteRuns, NEW k \in Params(Written)
    PROVE  /\ Means(TextOf(EnteredParameters(m_exec_index), k),
                    ExtCmds[Written].params[k], Arguments[k])
           /\ \E at : Stored(m_cmdline, at, ExtCmds[Written].params[k], Arguments[k])
<1> DEFINE c  == Written
           p  == ExtCmds[c].params[k]
           at == m_exec_index + 2 + OffsetCalc(c, k)
           text == TextOf(EnteredParameters(m_exec_index), k)
<1>1. /\ c \in ExtIndices /\ c \in Writable /\ m_exec_index \in Nat /\ ExtCmds[c].count \in Nat
      /\ m_exec_index + WriteSize(c) <= CmdlineSize
  BY WriteFields, ExtAssumption DEF Writable
<1>2. Arguments[k] = CASE p.type \in NumTypes -> GetNumeric_(at)
                       [] p.type = "STR"      -> GetString(at)
                       [] p.type = "STR_HEX"  -> GetHexString(at, p.size)
  BY DEF Arguments, Argument
<1>3. Meaning(m_cmdline, entered, m_exec_index)
  BY DEF LineText, MeaningIn, WriteRuns
<1>4. FieldsHeld(m_cmdline, m_exec_index, c, ExtCmds[c].count, EnteredParameters(m_exec_index))
  BY <1>3, WrittenStands DEF Meaning, EnteredParameters
<1> HIDE DEF c
<1>5. k \in 0 .. ExtCmds[c].count - 1 /\ k \in 0 .. ExtCmds[c].count
      /\ k + 1 \in 0 .. ExtCmds[c].count /\ ExtCmds[c].count \in k + 1 .. ExtCmds[c].count
  BY <1>1 DEF Params, c
<1>6. /\ OffsetCalc(c, k) \in Nat /\ 2 + OffsetCalc(c, k) = ParamOffset[c][k]
      /\ ParamOffset[c][k] \in Nat
  BY <1>1, <1>5, OffsetCalcLemma, OffsetsAscend DEF Params
<1>7. at \in Nat /\ at = m_exec_index + ParamOffset[c][k]
  BY <1>1, <1>6
<1>8. PICK v : Means(text, p, v) /\ Stored(m_cmdline, at, p, v)
  BY <1>4, <1>5, <1>7 DEF FieldsHeld, Held
<1>9. k \in Params(c)
  BY <1>5 DEF Params
<1>10. p.type \in ParamTypes /\ p.size \in Nat /\ p.size < 65536
  BY <1>1, <1>9, ParamAssumption
<1>11. p.type = "STR" => at + p.size <= CmdlineSize
  <2>1. /\ ParamOffset[c][k + 1] \in Nat /\ ParamOffset[c][k + 1] <= WriteSize(c)
        /\ WriteSize(c) \in Nat
    BY <1>1, <1>5, OffsetsAscend DEF WriteSize
  <2>2. ParamOffset[c][k + 1] = ParamOffset[c][k] + FieldSize(p)
    BY <1>1, <1>9, LayoutAssumption
  <2>3. p.type = "STR" => FieldSize(p) = p.size
    BY DEF FieldSize, NumTypes
  <2> QED BY <1>1, <1>6, <1>7, <1>10, <2>1, <2>2, <2>3, CmdlineSizeAssumption
<1> HIDE DEF p, at, text
<1>12. "STR" \notin NumTypes /\ "STR_HEX" \notin NumTypes /\ "STR" # "STR_HEX"
  BY DEF NumTypes
<1>13. CASE p.type \in NumTypes
  <2>1. Arguments[k] = GetNumeric_(at)
    BY <1>2, <1>12, <1>13
  <2>2. Arguments[k] = v
    BY <1>7, <1>8, <1>13, <2>1, NumberValue
  <2> QED BY <1>8, <2>2 DEF p, c, text
<1>14. CASE p.type = "STR"
  <2>1. Arguments[k] = GetString(at)
    BY <1>2, <1>12, <1>14
  <2>2. Arguments[k] = v
    BY <1>7, <1>8, <1>10, <1>11, <1>14, <2>1, StringValue
  <2> QED BY <1>8, <2>2 DEF p, c, text
<1>15. CASE p.type = "STR_HEX"
  <2>1. Arguments[k] = GetHexString(at, p.size)
    BY <1>2, <1>12, <1>15
  <2>2. Arguments[k] = v
    BY <1>7, <1>8, <1>10, <1>15, <2>1, BytesValue
  <2> QED BY <1>8, <2>2 DEF p, c, text
<1> QED BY <1>10, <1>13, <1>14, <1>15 DEF ParamTypes

LEMMA TextStutter ==
    ASSUME UNCHANGED hvars, TextInv
    PROVE  TextInv'
<1>1. UNCHANGED <<m_cmdline, m_parse_ok_index, m_exec_index, m_state, m_trie, pc, redo, cur,
                  fault, m_param_index, m_num, m_nibble, typed, entered>>
  BY DEF hvars, vars, serverVars, bufVars, execVars, paramVars
<1>2. Command' = Command /\ Before' = Before
  BY <1>1 DEF Command, Before
<1>3. PICK before : before = Before
  OBVIOUS
<1>4. HandText(before) => HandText(before)'
  BY <1>1, <1>2 DEF HandText, Reads
<1>5. HandText(Before) => HandText(Before)'
  BY <1>2, <1>3, <1>4 DEF HandText
<1>6. Tracks' = Tracks /\ Again' = Again
  BY <1>1 DEF Tracks, Again, HandedOn
<1>7. LineText' = LineText
  BY <1>1 DEF LineText, MeaningIn, Meaning
<1> QED BY <1>1, <1>5, <1>6, <1>7 DEF TextInv, TInv

(* What handlers are given, and what it was typed as, at every moment.     *)
LEMMA TextHolds ==
    ASSUME Meant, DefaultsWhole, 0 \notin Alphabet
    PROVE  HandlesSpec => [](IInv /\ WInv /\ TextInv)
<1>1. IInv /\ LInv /\ NumberFits /\ WInv /\ TextInv /\ [HandlesNext]_hvars /\ IInv' => TextInv'
  BY TextNext, TextStutter
<1>2. HandlesInit => TextInv
  BY TextInit
<1> QED BY <1>1, <1>2, HandlesImplementServer, LineHolds, NumbersFit, PTL DEF HandlesSpec

(* A write handler is given the values that were typed for its command and *)
(* the defaults of the parameters left out.                                *)
THEOREM HandlersGetWhatWasTyped ==
    ASSUME Meant, DefaultsWhole, 0 \notin Alphabet
    PROVE  HandlesSpec => []ArgumentsAsTyped
<1>1. IInv /\ WInv /\ TextInv => ArgumentsAsTyped
  BY ArgumentMeans DEF ArgumentsAsTyped, TextInv, WriteRuns, TextOf
<1> QED BY <1>1, TextHolds, PTL
-----------------------------------------------------------------------------
(* Numbers as they are printed. *)

Bases == {2, 10, 16}

(* No digit is taken for another, for a comma or for a quote. *)
IsDigit(x, d) == x \in Int /\ GetHex(x) = d /\ x # COMMA /\ x # DQUOTE

LEMMA DigitPrinted ==
    ASSUME NEW d \in 0 .. 15
    PROVE  IsDigit(numbers[d + 1], d)
<1>1. CASE d \in 0 .. 7
  <2>1. d \in {0, 1, 2, 3, 4, 5, 6, 7}
    BY <1>1
  <2>2. numbers[d + 1] = 48 + d
    BY <2>1 DEF numbers
  <2> QED BY <1>1, <2>2 DEF IsDigit, GetHex, IsNumeric, COMMA, DQUOTE
<1>2. CASE d \in {8, 9}
  <2>1. numbers[d + 1] = 48 + d
    BY <1>2 DEF numbers
  <2> QED BY <1>2, <2>1 DEF IsDigit, GetHex, IsNumeric, COMMA, DQUOTE
<1>3. CASE d \in 10 .. 15
  <2>1. d \in {10, 11, 12, 13, 14, 15}
    BY <1>3
  <2>2. numbers[d + 1] = 55 + d
    BY <2>1 DEF numbers
  <2> QED BY <1>3, <2>2 DEF IsDigit, GetHex, IsNumeric, COMMA, DQUOTE
<1> QED BY <1>1, <1>2, <1>3

(* The digits that are taken off, and those that are printed.              *)
Pieces == [number : Nat, reversed : Nat]
Reverses(f, number, base) ==
    /\ f \in [0 .. number + 1 -> Pieces] /\ f[0] = [number |-> number, reversed |-> 0]
    /\ \A i \in 1 .. number + 1 : f[i] = ReverseDigit(f[i - 1], base)
Counts(f, number, count) == /\ count \in 1 .. number + 1 /\ f[count].number = 0
                            /\ \A j \in 1 .. count - 1 : f[j].number # 0

LEMMA ReverseType ==
    ASSUME NEW r \in Pieces, NEW base \in Bases
    PROVE  /\ ReverseDigit(r, base) \in Pieces
           /\ r.number \in Nat /\ r.reversed \in Nat
           /\ r.number % base \in 0 .. base - 1
           /\ ReverseDigit(r, base).number = r.number \div base
           /\ r.number = base * ReverseDigit(r, base).number + (r.number % base)
           /\ ReverseDigit(r, base).reversed \div base = r.reversed
           /\ ReverseDigit(r, base).reversed % base = r.number % base
           /\ r.number > 0 => ReverseDigit(r, base).number < r.number
           /\ r.number = 0 => ReverseDigit(r, base).number = 0
<1>1. r.number \in Nat /\ r.reversed \in Nat
  BY DEF Pieces
<1>2. PICK n \in Nat : n = r.number
  BY <1>1
<1>3. PICK m \in Nat : m = r.reversed
  BY <1>1
<1>4. ReverseDigit(r, base) = [number |-> n \div base, reversed |-> base * m + (n % base)]
  BY <1>2, <1>3 DEF ReverseDigit
<1>5. /\ n \div base \in Nat /\ n % base \in 0 .. base - 1 /\ base * m + (n % base) \in Nat
      /\ n = base * (n \div base) + (n % base)
      /\ (base * m + (n % base)) \div base = m
      /\ (base * m + (n % base)) % base = n % base
      /\ n > 0 => n \div base < n
      /\ n = 0 => n \div base = 0
  <2>1. CASE base = 2
    BY <2>1
  <2>2. CASE base = 10
    BY <2>2
  <2>3. CASE base = 16
    BY <2>3
  <2> QED BY <2>1, <2>2, <2>3 DEF Bases
<1>6. ReverseDigit(r, base) \in Pieces
  BY <1>4, <1>5 DEF Pieces
<1>7. /\ ReverseDigit(r, base).number = n \div base
      /\ ReverseDigit(r, base).reversed = base * m + (n % base)
  BY <1>4
<1> QED BY <1>1, <1>2, <1>3, <1>5, <1>6, <1>7

LEMMA ReversedSteps ==
    ASSUME NEW number \in Nat, NEW base \in Bases
    PROVE  \E f, count : /\ Reverses(f, number, base) /\ Counts(f, number, count)
                         /\ Reversed(number, base) = [digits |-> f[count].reversed, count |-> count]
<1> DEFINE n == number + 1
           v == [number |-> number, reversed |-> 0]
           Unfold(g) == [i \in 0 .. n |-> IF i = 0 THEN v ELSE ReverseDigit(g[i - 1], base)]
           F == [k \in 1 .. n |-> [u \in Pieces |-> ReverseDigit(u, base)]]
           loop == CHOOSE g : g = Unfold(g)
           Least(i) == loop[i].number = 0 /\ \A j \in 1 .. i - 1 : loop[j].number # 0
           digit_count == CHOOSE i \in 1 .. n : Least(i)
<1>0. n \in Nat /\ v \in Pieces
  BY DEF Pieces
<1>1. Steps(F, n, Pieces)
  <2>1. ASSUME NEW k \in 1 .. n, NEW u \in Pieces PROVE F[k][u] \in Pieces
    BY ReverseType
  <2> HIDE DEF F
  <2> QED BY <2>1 DEF Steps
<1>2. PICK g : Stepwise(g, v, F, n, Pieces)
  <2> HIDE DEF F, n, v
  <2> QED BY <1>0, <1>1, Recursion
<1>3. g = Unfold(g)
  <2>1. g = [i \in 0 .. n |-> g[i]] /\ g[0] = v
    BY <1>2 DEF Stepwise
  <2>2. ASSUME NEW i \in 1 .. n PROVE g[i] = ReverseDigit(g[i - 1], base)
    <3>1. g[i - 1] \in Pieces /\ g[i] = F[i][g[i - 1]]
      <4>1. i \in 1 .. n /\ i - 1 \in 0 .. n
        BY <1>0
      <4> HIDE DEF F, n, v
      <4> QED BY <1>2, <4>1 DEF Stepwise
    <3> QED BY <3>1
  <2>3. ASSUME NEW i \in 0 .. n
        PROVE  g[i] = IF i = 0 THEN v ELSE ReverseDigit(g[i - 1], base)
    <3>1. i = 0 \/ i \in 1 .. n
      BY <1>0
    <3> HIDE DEF n, v
    <3> QED BY <2>1, <2>2, <3>1
  <2> HIDE DEF n, F, v
  <2> QED BY <2>1, <2>3
<1>4. loop = Unfold(loop)
  <2> HIDE DEF Unfold
  <2> QED BY <1>3
<1>5. \A i \in 0 .. n : loop[i] = IF i = 0 THEN v ELSE ReverseDigit(loop[i - 1], base)
  <2> HIDE DEF loop, v
  <2> QED BY <1>4
<1>6. loop = [i \in 0 .. n |-> loop[i]]
  <2> HIDE DEF loop, v
  <2> QED BY <1>4
<1> HIDE DEF loop
<1>7. \A i \in 1 .. n : loop[i] = ReverseDigit(loop[i - 1], base)
  <2> HIDE DEF v
  <2> QED BY <1>0, <1>5
<1>8. loop[0] = v
  BY <1>0, <1>5
<1>9. ASSUME NEW i \in 0 .. n PROVE loop[i] \in Pieces /\ (loop[i].number + i <= number \/ loop[i].number = 0)
  <2> DEFINE T == {j \in 0 .. n : /\ loop[j] \in Pieces
                                  /\ loop[j].number + j <= number \/ loop[j].number = 0}
  <2>1. 0 \in T
    BY <1>0, <1>8
  <2>2. ASSUME NEW j \in 0 .. n - 1, j \in T PROVE j + 1 \in T
    <3>1. /\ loop[j] \in Pieces /\ (loop[j].number + j <= number \/ loop[j].number = 0)
          /\ j + 1 \in 1 .. n /\ j + 1 \in 0 .. n /\ (j + 1) - 1 = j
      BY <2>2
    <3>2. loop[j + 1] = ReverseDigit(loop[j], base)
      BY <1>7, <3>1
    <3>3. PICK r \in Pieces : r = loop[j]
      BY <3>1
    <3>4. PICK s \in Pieces : s = loop[j + 1] /\ s = ReverseDigit(r, base)
      BY <3>2, <3>3, ReverseType
    <3>5. /\ r.number \in Nat /\ s.number \in Nat
          /\ r.number > 0 => s.number < r.number
          /\ r.number = 0 => s.number = 0
      <4>1. s.number \in Nat
        BY DEF Pieces
      <4> QED BY <3>4, <4>1, ReverseType
    <3>6. s.number + (j + 1) <= number \/ s.number = 0
      BY <3>1, <3>3, <3>5
    <3> QED BY <3>1, <3>4, <3>6
  <2>3. 0 .. n \subseteq T
    <3> HIDE DEF T, n
    <3> QED BY <1>0, <2>1, <2>2, Climb DEF Climbs
  <2> QED BY <2>3
<1>10. loop \in [0 .. n -> Pieces]
  BY <1>6, <1>9
<1>11. \E i \in 1 .. n : Least(i)
  <2> DEFINE Zeros == {i \in 1 .. n : loop[i].number = 0}
  <2>1. n \in Zeros
    <3>1. n \in 0 .. n /\ n \in 1 .. n
      BY <1>0
    <3>2. PICK r \in Pieces : r = loop[n]
      BY <1>9, <3>1
    <3>3. r.number \in Nat
      BY DEF Pieces
    <3>4. ~(r.number + n <= number)
      BY <3>3
    <3> QED BY <1>9, <3>1, <3>2, <3>4
  <2>2. Zeros \subseteq Nat
    OBVIOUS
  <2>3. PICK least \in Zeros : \A i \in Zeros : least <= i
    <3> HIDE DEF Zeros
    <3> QED BY <2>1, <2>2, LeastMember
  <2>4. least \in 1 .. n /\ loop[least].number = 0
    BY <2>3
  <2>5. ASSUME NEW j \in 1 .. least - 1 PROVE loop[j].number # 0
    BY <1>0, <2>3, <2>4
  <2> QED BY <2>4, <2>5
<1>12. digit_count \in 1 .. n /\ Least(digit_count)
  <2> HIDE DEF Least, n
  <2> QED BY <1>11
<1>13. Reversed(number, base) = [digits |-> loop[digit_count].reversed, count |-> digit_count]
  BY DEF Reversed, loop
<1>14. Reverses(loop, number, base)
  BY <1>7, <1>8, <1>10 DEF Reverses
<1>15. PICK count : count = digit_count
  OBVIOUS
<1>16. Counts(loop, number, count)
  <2> HIDE DEF digit_count
  <2> QED BY <1>12, <1>15 DEF Counts
<1> HIDE DEF digit_count, Least
<1> QED BY <1>13, <1>14, <1>15, <1>16

Outputs == [text : Seq(Int), reversed : Nat]
Prints(g, reversed, base, count) ==
    /\ g \in [0 .. count -> Outputs] /\ g[0] = [text |-> <<>>, reversed |-> reversed]
    /\ \A i \in 1 .. count : g[i] = PrintDigit(g[i - 1], base)

LEMMA PrintType ==
    ASSUME NEW r \in Outputs, NEW base \in Bases
    PROVE  /\ PrintDigit(r, base) \in Outputs /\ r.text \in Seq(Int) /\ r.reversed \in Nat
           /\ r.reversed % base \in 0 .. base - 1 /\ r.reversed % base \in 0 .. 15
           /\ PrintDigit(r, base).text = Append(r.text, numbers[(r.reversed % base) + 1])
           /\ PrintDigit(r, base).reversed = r.reversed \div base
<1>1. r.text \in Seq(Int) /\ r.reversed \in Nat
  BY DEF Outputs
<1>2. PICK m \in Nat : m = r.reversed
  BY <1>1
<1>3. m \div base \in Nat /\ m % base \in 0 .. base - 1 /\ m % base \in 0 .. 15
  <2>1. CASE base = 2
    BY <2>1
  <2>2. CASE base = 10
    BY <2>2
  <2>3. CASE base = 16
    BY <2>3
  <2> QED BY <2>1, <2>2, <2>3 DEF Bases
<1>4. PICK x \in Int : x = numbers[(m % base) + 1]
  BY <1>3, DigitPrinted DEF IsDigit
<1>5. PrintDigit(r, base) = [text |-> Append(r.text, x), reversed |-> m \div base]
  BY <1>2, <1>4 DEF PrintDigit
<1>6. Append(r.text, x) \in Seq(Int)
  BY <1>1
<1>7. PrintDigit(r, base) \in Outputs
  BY <1>3, <1>5, <1>6 DEF Outputs
<1> QED BY <1>1, <1>2, <1>3, <1>4, <1>5, <1>7

LEMMA PrintSteps ==
    ASSUME NEW reversed \in Nat, NEW base \in Bases, NEW n \in Nat
    PROVE  \E g : Prints(g, reversed, base, n) /\ PrintDigits(reversed, base, n) = g[n].text
<1> DEFINE v == [text |-> <<>>, reversed |-> reversed]
           Unfold(g) == [i \in 0 .. n |-> IF i = 0 THEN v ELSE PrintDigit(g[i - 1], base)]
           F == [k \in 1 .. n |-> [u \in Outputs |-> PrintDigit(u, base)]]
           loop == CHOOSE g : g = Unfold(g)
<1>0. v \in Outputs
  BY DEF Outputs
<1>1. Steps(F, n, Outputs)
  <2>1. ASSUME NEW k \in 1 .. n, NEW u \in Outputs PROVE F[k][u] \in Outputs
    BY PrintType
  <2> HIDE DEF F
  <2> QED BY <2>1 DEF Steps
<1>2. PICK g : Stepwise(g, v, F, n, Outputs)
  <2> HIDE DEF F, v
  <2> QED BY <1>0, <1>1, Recursion
<1>3. g = Unfold(g)
  <2>1. g = [i \in 0 .. n |-> g[i]] /\ g[0] = v
    BY <1>2 DEF Stepwise
  <2>2. ASSUME NEW i \in 1 .. n PROVE g[i] = PrintDigit(g[i - 1], base)
    <3>1. g[i - 1] \in Outputs /\ g[i] = F[i][g[i - 1]]
      <4>1. i \in 1 .. n /\ i - 1 \in 0 .. n
        OBVIOUS
      <4> HIDE DEF F, v
      <4> QED BY <1>2, <4>1 DEF Stepwise
    <3> QED BY <3>1
  <2>3. ASSUME NEW i \in 0 .. n
        PROVE  g[i] = IF i = 0 THEN v ELSE PrintDigit(g[i - 1], base)
    <3>1. i = 0 \/ i \in 1 .. n
      OBVIOUS
    <3> HIDE DEF v
    <3> QED BY <2>1, <2>2, <3>1
  <2> HIDE DEF F, v
  <2> QED BY <2>1, <2>3
<1>4. loop = Unfold(loop)
  <2> HIDE DEF Unfold
  <2> QED BY <1>3
<1>5. \A i \in 0 .. n : loop[i] = IF i = 0 THEN v ELSE PrintDigit(loop[i - 1], base)
  <2> HIDE DEF loop, v
  <2> QED BY <1>4
<1>6. loop = [i \in 0 .. n |-> loop[i]]
  <2> HIDE DEF loop, v
  <2> QED BY <1>4
<1> HIDE DEF loop
<1>7. \A i \in 1 .. n : loop[i] = PrintDigit(loop[i - 1], base)
  <2> HIDE DEF v
  <2> QED BY <1>5
<1>8. loop[0] = v
  BY <1>5
<1>9. ASSUME NEW i \in 0 .. n PROVE loop[i] \in Outputs
  <2> DEFINE T == {j \in 0 .. n : loop[j] \in Outputs}
  <2>1. 0 \in T
    BY <1>0, <1>8
  <2>2. ASSUME NEW j \in 0 .. n - 1, j \in T PROVE j + 1 \in T
    <3>1. loop[j] \in Outputs /\ j + 1 \in 1 .. n /\ j + 1 \in 0 .. n /\ (j + 1) - 1 = j
      BY <2>2
    <3>2. loop[j + 1] = PrintDigit(loop[j], base)
      BY <1>7, <3>1
    <3> QED BY <3>1, <3>2, PrintType
  <2>3. 0 .. n \subseteq T
    <3> HIDE DEF T
    <3> QED BY <2>1, <2>2, Climb DEF Climbs
  <2> QED BY <2>3
<1>10. loop \in [0 .. n -> Outputs]
  BY <1>6, <1>9
<1>11. PrintDigits(reversed, base, n) = loop[n].text
  BY DEF PrintDigits, loop
<1>12. Prints(loop, reversed, base, n)
  BY <1>7, <1>8, <1>10 DEF Prints
<1> QED BY <1>11, <1>12

(* The digits that are printed are those of the number. *)
DigitsOf(text, base) ==
    \A i \in 1 .. Len(text) :
       GetHex(text[i]) \in 0 .. base - 1 /\ text[i] # COMMA /\ text[i] # DQUOTE

LEMMA NumberPrinted ==
    ASSUME NEW v \in Nat, NEW base \in Bases, NEW text, text = PrintNumber(v, base)
    PROVE  /\ text \in Seq(Int) /\ text # <<>> /\ DigitsOf(text, base)
           /\ ValueOf(text, base) = v
<1>1. PICK f, n : /\ Reverses(f, v, base) /\ Counts(f, v, n)
                  /\ Reversed(v, base) = [digits |-> f[n].reversed, count |-> n]
  BY ReversedSteps
<1>2. n \in Nat /\ n > 0 /\ n <= v + 1 /\ f[n].number = 0 /\ base \in Nat
  BY <1>1 DEF Counts, Bases
<1>3. \A i \in 0 .. v + 1 : f[i] \in Pieces
  BY <1>1 DEF Reverses
<1>4. f[n].reversed \in Nat
  BY <1>2, <1>3 DEF Pieces
<1>5. PICK g : /\ Prints(g, f[n].reversed, base, n)
               /\ PrintDigits(f[n].reversed, base, n) = g[n].text
  BY <1>2, <1>4, PrintSteps
<1>6. text = g[n].text
  BY <1>1, <1>5 DEF PrintNumber
<1> DEFINE Same(j) == /\ Len(g[j].text) = j /\ DigitsOf(g[j].text, base)
                      /\ ValueOf(g[j].text, base) = f[n - j].number
                      /\ g[j].reversed = f[n - j].reversed
           T == {j \in 0 .. n : Same(j)}
<1>7. 0 \in T
  <2>1. g[0].text = <<>> /\ g[0].reversed = f[n].reversed
    BY <1>5 DEF Prints
  <2>2. ValueOf(<<>>, base) = 0
    <3>1. PICK empty : empty = <<>>
      OBVIOUS
    <3>2. PICK c \in Int : c = 0
      OBVIOUS
    <3>3. empty \in Seq(Int)
      BY <3>1
    <3> QED BY <1>2, <3>1, <3>2, <3>3, ValueAppend
  <2>3. Same(0)
    BY <1>2, <2>1, <2>2 DEF DigitsOf
  <2> QED BY <1>2, <2>3
<1>8. ASSUME NEW j \in 0 .. n - 1, j \in T PROVE j + 1 \in T
  <2>1. /\ j + 1 \in 1 .. n /\ j + 1 \in 0 .. n /\ (j + 1) - 1 = j /\ j \in 0 .. n
        /\ n - j \in 1 .. v + 1 /\ (n - j) - 1 = n - (j + 1) /\ n - (j + 1) \in 0 .. v + 1
    BY <1>2
  <2>2. PICK r \in Pieces : r = f[n - (j + 1)]
    BY <1>3, <2>1
  <2>3. f[n - j] = ReverseDigit(r, base)
    BY <1>1, <2>1, <2>2 DEF Reverses
  <2>4. PICK o \in Outputs : o = g[j]
    BY <1>5, <2>1 DEF Prints
  <2>5. g[j + 1] = PrintDigit(o, base)
    BY <1>5, <2>1, <2>4 DEF Prints
  <2>6. /\ Len(o.text) = j /\ DigitsOf(o.text, base)
        /\ ValueOf(o.text, base) = f[n - j].number /\ o.reversed = f[n - j].reversed
    BY <1>8, <2>4
  <2>7. PICK d : d = r.number % base
    OBVIOUS
  <2>8. /\ d \in 0 .. base - 1 /\ d \in 0 .. 15
        /\ o.reversed % base = d /\ o.reversed \div base = r.reversed
        /\ r.number = base * ValueOf(o.text, base) + d
    <3>1. /\ r.number % base \in 0 .. base - 1
          /\ f[n - j].reversed % base = r.number % base
          /\ f[n - j].reversed \div base = r.reversed
          /\ r.number = base * f[n - j].number + (r.number % base)
      BY <2>3, ReverseType
    <3>2. d \in 0 .. 15
      BY <2>6, <2>7, <3>1, PrintType
    <3> QED BY <2>6, <2>7, <3>1, <3>2
  <2>9. PICK x : x = numbers[d + 1]
    OBVIOUS
  <2>10. IsDigit(x, d)
    BY <2>8, <2>9, DigitPrinted
  <2>11. /\ g[j + 1].text = Append(o.text, x) /\ g[j + 1].reversed = r.reversed
         /\ o.text \in Seq(Int) /\ x \in Int
    BY <2>5, <2>8, <2>9, <2>10, PrintType DEF IsDigit
  <2>12. Len(g[j + 1].text) = j + 1 /\ DigitsOf(g[j + 1].text, base)
    <3>1. PICK t : t = o.text
      OBVIOUS
    <3>2. PICK more : more = Append(t, x)
      OBVIOUS
    <3>3. /\ Len(more) = Len(t) + 1 /\ more[Len(t) + 1] = x /\ Len(t) \in Nat
          /\ \A i \in 1 .. Len(t) : more[i] = t[i]
      BY <2>11, <3>1, <3>2, AppendElements
    <3>4. ASSUME NEW i \in 1 .. Len(more)
          PROVE  GetHex(more[i]) \in 0 .. base - 1 /\ more[i] # COMMA /\ more[i] # DQUOTE
      <4>1. CASE i = Len(t) + 1
        BY <2>8, <2>10, <3>3, <4>1 DEF IsDigit
      <4>2. CASE i # Len(t) + 1
        <5>1. i \in 1 .. Len(t) /\ more[i] = t[i]
          BY <3>3, <4>2
        <5> QED BY <2>6, <3>1, <5>1 DEF DigitsOf
      <4> QED BY <4>1, <4>2
    <3> QED BY <2>6, <2>11, <3>1, <3>2, <3>3, <3>4 DEF DigitsOf
  <2>13. ValueOf(g[j + 1].text, base) = f[n - (j + 1)].number
    <3>1. ValueOf(Append(o.text, x), base) = base * ValueOf(o.text, base) + GetHex(x)
      BY <1>2, <2>11, ValueAppend
    <3> QED BY <2>2, <2>8, <2>10, <2>11, <3>1 DEF IsDigit
  <2>14. Same(j + 1)
    BY <2>2, <2>11, <2>12, <2>13
  <2> HIDE DEF Same
  <2> QED BY <2>1, <2>14
<1>9. n \in T
  <2>1. 0 .. n \subseteq T
    <3> HIDE DEF T
    <3> QED BY <1>2, <1>7, <1>8, Climb DEF Climbs
  <2> QED BY <1>2, <2>1
<1>10. n - n = 0 /\ f[0].number = v
  BY <1>1, <1>2 DEF Reverses
<1>11. text \in Seq(Int)
  <2>1. g[n] \in Outputs
    BY <1>2, <1>5 DEF Prints
  <2> QED BY <1>6, <2>1 DEF Outputs
<1>12. Len(text) > 0
  BY <1>2, <1>6, <1>9
<1> QED BY <1>6, <1>9, <1>10, <1>11, <1>12
-----------------------------------------------------------------------------
(* What is printed, read again. *)

(* seg is part of the last part. *)
Longer(r2, r, seg) ==
    /\ r2 \in Readings /\ r2.quoted = r.quoted /\ Len(r2.parts) = Len(r.parts)
    /\ r2.parts[Len(r.parts)] = r.parts[Len(r.parts)] \o seg
    /\ \A j \in 1 .. Len(r.parts) - 1 : r2.parts[j] = r.parts[j]

(* Nothing in seg ends the part it is read in. *)
Stays(r, seg) ==
    \A i \in 1 .. Len(seg) : seg[i] # DQUOTE /\ (seg[i] # COMMA \/ r.quoted)

LEMMA AppendAfter ==
    ASSUME NEW s \in Seq(Int), NEW t \in Seq(Int), NEW x \in Int
    PROVE  /\ s \o Append(t, x) = Append(s \o t, x)
           /\ s \o t \in Seq(Int) /\ s \o <<>> = s
<1>1. s \o t \in Seq(Int) /\ s \o <<>> = s
  OBVIOUS
<1>2. s \o Append(t, x) = Append(s \o t, x)
  OBVIOUS
<1> QED BY <1>1, <1>2

LEMMA SubSeqNext ==
    ASSUME NEW s \in Seq(Int), NEW i \in Nat, i < Len(s)
    PROVE  /\ SubSeq(s, 1, i) \in Seq(Int) /\ s[i + 1] \in Int
           /\ SubSeq(s, 1, i + 1) = Append(SubSeq(s, 1, i), s[i + 1])
           /\ SubSeq(s, 1, 0) = <<>> /\ SubSeq(s, 1, Len(s)) = s
<1>1. SubSeq(s, 1, 0) = <<>> /\ SubSeq(s, 1, Len(s)) = s
  OBVIOUS
<1>2. SubSeq(s, 1, i) \in Seq(Int) /\ s[i + 1] \in Int
  OBVIOUS
<1>3. SubSeq(s, 1, i + 1) = Append(SubSeq(s, 1, i), s[i + 1])
  OBVIOUS
<1> QED BY <1>1, <1>2, <1>3

LEMMA ReadingParts ==
    ASSUME NEW r \in Readings
    PROVE  /\ r.parts \in Seq(Seq(Int)) /\ Len(r.parts) \in Nat /\ Len(r.parts) > 0
           /\ r.quoted \in BOOLEAN
           /\ \A j \in 1 .. Len(r.parts) : r.parts[j] \in Seq(Int)
<1>1. r.parts \in Seq(Seq(Int)) /\ r.parts # <<>> /\ r.quoted \in BOOLEAN
  BY DEF Readings
<1>2. Len(r.parts) \in Nat /\ Len(r.parts) > 0
  BY <1>1
<1>3. \A j \in 1 .. Len(r.parts) : r.parts[j] \in Seq(Int)
  <2>1. PICK S : S = Seq(Int)
    OBVIOUS
  <2>2. PICK parts \in Seq(S) : parts = r.parts
    BY <1>1, <2>1
  <2>3. \A j \in 1 .. Len(parts) : parts[j] \in S
    OBVIOUS
  <2> QED BY <2>1, <2>2, <2>3
<1> QED BY <1>1, <1>2, <1>3

PartGrows(u, r, c) ==
    /\ u \in Readings /\ u.quoted = r.quoted /\ Len(u.parts) = Len(r.parts)
    /\ u.parts[Len(r.parts)] = Append(r.parts[Len(r.parts)], c)
    /\ \A j \in 1 .. Len(r.parts) - 1 : u.parts[j] = r.parts[j]

LEMMA PlainNext ==
    ASSUME NEW r \in Readings, NEW c \in Int, c # DQUOTE, c # COMMA \/ r.quoted,
           NEW u, u = NextPart(r, c)
    PROVE  PartGrows(u, r, c)
BY NextPartParts DEF PartGrows

LEMMA AppendInside ==
    ASSUME NEW s \in Seq(Int), NEW t \in Seq(Int), NEW x \in Int
    PROVE  s \o Append(t, x) = Append(s \o t, x)
BY AppendAfter

LEMMA ReadOneMore ==
    ASSUME NEW text \in Seq(Int), NEW t \in Seq(Int), NEW x \in Int,
           NEW r, Len(r.parts) \in Nat, r.parts[Len(r.parts)] \in Seq(Int),
           NEW s, s = Reading(text \o t), Longer(s, r, t),
           x # DQUOTE, x # COMMA \/ s.quoted
    PROVE  Longer(Reading(text \o Append(t, x)), r, Append(t, x))
<1>1. PICK more : more = text \o t
  OBVIOUS
<1>2. more \in Seq(Int)
  BY <1>1
<1>3. text \o Append(t, x) = Append(more, x)
  <2>1. text \o Append(t, x) = Append(text \o t, x)
    BY AppendInside, Zenon
  <2> QED BY <1>1, <2>1
<1>4. Reading(Append(more, x)) = NextPart(s, x)
  BY <1>1, <1>2, ReadingAppend
<1>5. s \in Readings /\ (x # COMMA \/ s.quoted)
  BY DEF Longer
<1>6. PICK u : u = NextPart(s, x)
  OBVIOUS
<1>7. PartGrows(u, s, x)
  BY <1>5, <1>6, PlainNext
<1>8. PICK part \in Seq(Int) : part = r.parts[Len(r.parts)]
  OBVIOUS
<1>9. part \o Append(t, x) = Append(part \o t, x)
  BY AppendInside, Zenon
<1>10. Longer(u, r, Append(t, x))
  BY <1>7, <1>8, <1>9 DEF Longer, PartGrows
<1> QED BY <1>3, <1>4, <1>6, <1>10

LEMMA ReadOn ==
    ASSUME NEW text \in Seq(Int), NEW seg \in Seq(Int), NEW r, r = Reading(text),
           Stays(r, seg)
    PROVE  Longer(Reading(text \o seg), r, seg)
<1> DEFINE n == Len(seg)
           upto(i) == SubSeq(seg, 1, i)
           T == {i \in 0 .. n : Longer(Reading(text \o upto(i)), r, upto(i))}
<1>0. n \in Nat
  OBVIOUS
<1>1. /\ r \in Readings /\ Len(r.parts) \in Nat /\ Len(r.parts) > 0
      /\ r.parts[Len(r.parts)] \in Seq(Int)
  <2>1. PICK c \in Int : c = 0
    OBVIOUS
  <2>2. r \in Readings
    BY <2>1, ReadingAppend
  <2> QED BY <2>2, ReadingParts
<1>2. 0 \in T
  <2>1. upto(0) = <<>> /\ text \o <<>> = text
        /\ r.parts[Len(r.parts)] \o <<>> = r.parts[Len(r.parts)]
    BY <1>1
  <2>2. Longer(r, r, <<>>)
    BY <1>1, <2>1 DEF Longer
  <2>3. Longer(Reading(text \o upto(0)), r, upto(0))
    BY <2>1, <2>2
  <2> QED BY <1>0, <2>3
<1>3. ASSUME NEW i \in 0 .. n - 1, i \in T PROVE i + 1 \in T
  <2>1. PICK t : t = upto(i)
    OBVIOUS
  <2>2. PICK x : x = seg[i + 1]
    OBVIOUS
  <2>3. /\ t \in Seq(Int) /\ x \in Int /\ upto(i + 1) = Append(t, x)
        /\ i + 1 \in 0 .. n /\ i + 1 \in 1 .. n
    BY <1>0, <2>1, <2>2, SubSeqNext
  <2>4. PICK u : u = Reading(text \o t)
    OBVIOUS
  <2>5. Longer(u, r, t)
    BY <1>3, <2>1, <2>4
  <2>6. x # DQUOTE /\ (x # COMMA \/ u.quoted)
    BY <2>2, <2>3, <2>5 DEF Stays, Longer
  <2>7. Longer(Reading(text \o Append(t, x)), r, Append(t, x))
    BY <1>1, <2>3, <2>4, <2>5, <2>6, ReadOneMore
  <2>12. Longer(Reading(text \o upto(i + 1)), r, upto(i + 1))
    BY <2>3, <2>7
  <2> QED BY <2>3, <2>12
<1>4. n \in T
  <2>1. 0 .. n \subseteq T
    <3> HIDE DEF T, n
    <3> QED BY <1>0, <1>2, <1>3, Climb DEF Climbs
  <2> QED BY <1>0, <2>1
<1>5. upto(n) = seg
  OBVIOUS
<1> QED BY <1>4, <1>5

LEMMA Associative ==
    ASSUME NEW s \in Seq(Int), NEW t \in Seq(Int), NEW u \in Seq(Int)
    PROVE  (s \o t) \o u = s \o (t \o u)
BY ConcatAssociative

LEMMA ConcatOne ==
    ASSUME NEW s \in Seq(Int), NEW t \in Seq(Int), NEW d \in Int
    PROVE  s \o (<<d>> \o t) = Append(s, d) \o t
<1>1. PICK one \in Seq(Int) : one = <<d>>
  <2>1. <<d>> \in Seq(Int)
    OBVIOUS
  <2> QED BY <2>1
<1>2. (s \o one) \o t = s \o (one \o t)
  BY Associative
<1>3. s \o one = Append(s, d)
  BY <1>1
<1> QED BY <1>1, <1>2, <1>3

QuoteAround(s, seg, d, all, more) ==
    /\ all \in Seq(Int) /\ more \o seg \in Seq(Int)
    /\ s \o all = Append(more \o seg, d)

LEMMA QuoteConcat ==
    ASSUME NEW s \in Seq(Int), NEW seg \in Seq(Int), NEW d \in Int,
           NEW all, all = <<d>> \o seg \o <<d>>, NEW more, more = Append(s, d)
    PROVE  QuoteAround(s, seg, d, all, more)
<1>1. PICK t \in Seq(Int) : t = <<d>> \o seg
  BY AppendConcat
<1>2. t \o <<d>> = Append(t, d) /\ s \o <<d>> = Append(s, d)
  BY AppendConcat
<1>3. s \o Append(t, d) = Append(s \o t, d)
  BY AppendAfter
<1>4. s \o (<<d>> \o seg) = Append(s, d) \o seg
  BY ConcatOne
<1>6. all = Append(t, d)
  BY <1>1, <1>2
<1>7. all \in Seq(Int)
  BY <1>6
<1>8. s \o t = more \o seg
  BY <1>1, <1>4
<1>9. more \o seg \in Seq(Int)
  OBVIOUS
<1> QED BY <1>3, <1>6, <1>7, <1>8, <1>9 DEF QuoteAround

(* The quotes themselves. *)
AfterQuote(s, r) ==
    /\ s \in Readings /\ Len(s.parts) = Len(r.parts)
    /\ r.quoted = TRUE => s.quoted = FALSE
    /\ r.quoted = FALSE => s.quoted = TRUE
    /\ s.parts[Len(r.parts)] = Append(r.parts[Len(r.parts)], DQUOTE)
    /\ \A j \in 1 .. Len(r.parts) - 1 : s.parts[j] = r.parts[j]

LEMMA QuoteRead ==
    ASSUME NEW r \in Readings, NEW s, s = NextPart(r, DQUOTE)
    PROVE  AfterQuote(s, r)
<1>1. DQUOTE \in Int /\ DQUOTE # COMMA
  BY DEF DQUOTE, COMMA
<1>2. PICK d \in Int : d = DQUOTE /\ d # COMMA
  BY <1>1
<1>3. s = NextPart(r, d)
  BY <1>2
<1>4. /\ s \in Readings
      /\ s.quoted = IF d = DQUOTE THEN ~r.quoted ELSE r.quoted
      /\ Len(s.parts) = Len(r.parts)
      /\ s.parts[Len(r.parts)] = Append(r.parts[Len(r.parts)], d)
      /\ \A j \in 1 .. Len(r.parts) - 1 : s.parts[j] = r.parts[j]
  BY <1>2, <1>3, NextPartParts
<1>5. /\ r.quoted = TRUE => s.quoted = FALSE
      /\ r.quoted = FALSE => s.quoted = TRUE
  BY <1>2, <1>4, Zenon
<1> QED BY <1>2, <1>4, <1>5 DEF AfterQuote

(* A text in quotes. *)
LEMMA ReadQuoted ==
    ASSUME NEW text \in Seq(Int), NEW seg \in Seq(Int), NEW r, r = Reading(text),
           ~r.quoted, \A i \in 1 .. Len(seg) : seg[i] # DQUOTE, NEW all,
           all = <<DQUOTE>> \o seg \o <<DQUOTE>>
    PROVE  Longer(Reading(text \o all), r, all) /\ all \in Seq(Int)
<1>0. DQUOTE \in Int /\ DQUOTE # COMMA
  BY DEF DQUOTE, COMMA
<1>1. /\ r \in Readings /\ Len(r.parts) \in Nat /\ Len(r.parts) > 0
      /\ r.parts[Len(r.parts)] \in Seq(Int) /\ r.quoted = FALSE
  <2>1. r \in Readings
    BY <1>0, ReadingAppend
  <2> QED BY <2>1, ReadingParts
<1>2. PICK t : t = Append(text, DQUOTE)
  OBVIOUS
<1>3. PICK d : d = DQUOTE
  OBVIOUS
<1>4. /\ t \in Seq(Int) /\ t \o seg \in Seq(Int) /\ all \in Seq(Int)
      /\ text \o all = Append(t \o seg, d)
  <2>1. t \in Seq(Int) /\ d \in Int /\ t = Append(text, d) /\ all = <<d>> \o seg \o <<d>>
    BY <1>0, <1>2, <1>3
  <2>2. /\ all \in Seq(Int) /\ t \o seg \in Seq(Int)
        /\ text \o all = Append(t \o seg, d)
    <3>1. QuoteAround(text, seg, d, all, t)
      BY <2>1, QuoteConcat
    <3> QED BY <2>1, <3>1 DEF QuoteAround
  <2> QED BY <2>1, <2>2
<1>5. PICK s : s = Reading(t)
  OBVIOUS
<1>6. s = NextPart(r, d)
  BY <1>0, <1>2, <1>3, <1>5, ReadingAppend
<1>7. /\ s \in Readings /\ s.quoted = TRUE /\ Len(s.parts) = Len(r.parts)
      /\ s.parts[Len(r.parts)] = Append(r.parts[Len(r.parts)], d)
      /\ \A j \in 1 .. Len(r.parts) - 1 : s.parts[j] = r.parts[j]
  <2>1. r \in Readings /\ r.quoted = FALSE /\ s = NextPart(r, DQUOTE)
    BY <1>1, <1>3, <1>6
  <2>2. /\ s \in Readings /\ s.quoted = TRUE /\ Len(s.parts) = Len(r.parts)
        /\ s.parts[Len(r.parts)] = Append(r.parts[Len(r.parts)], DQUOTE)
        /\ \A j \in 1 .. Len(r.parts) - 1 : s.parts[j] = r.parts[j]
    <3>1. AfterQuote(s, r)
      BY <2>1, QuoteRead
    <3> QED BY <2>1, <3>1 DEF AfterQuote
  <2> QED BY <1>3, <2>2
<1>8. Stays(s, seg)
  BY <1>7 DEF Stays
<1>9. PICK u : u = Reading(t \o seg)
  OBVIOUS
<1>10. Longer(u, s, seg)
  BY <1>4, <1>5, <1>8, <1>9, ReadOn
<1>11. Reading(text \o all) = NextPart(u, d)
  BY <1>0, <1>3, <1>4, <1>9, ReadingAppend
<1>12. /\ u \in Readings /\ u.quoted = TRUE /\ Len(u.parts) = Len(r.parts)
       /\ u.parts[Len(r.parts)] = Append(r.parts[Len(r.parts)], d) \o seg
       /\ \A j \in 1 .. Len(r.parts) - 1 : u.parts[j] = r.parts[j]
  BY <1>7, <1>10 DEF Longer
<1>13. PICK w : w = NextPart(u, d)
  OBVIOUS
<1>14. /\ w \in Readings /\ w.quoted = FALSE /\ Len(w.parts) = Len(r.parts)
       /\ w.parts[Len(r.parts)] = Append(u.parts[Len(r.parts)], d)
       /\ \A j \in 1 .. Len(r.parts) - 1 : w.parts[j] = r.parts[j]
  <2>1. /\ w \in Readings /\ Len(w.parts) = Len(u.parts) /\ w.quoted = FALSE
        /\ w.parts[Len(u.parts)] = Append(u.parts[Len(u.parts)], d)
        /\ \A j \in 1 .. Len(u.parts) - 1 : w.parts[j] = u.parts[j]
    <3>1. u \in Readings /\ u.quoted = TRUE /\ w = NextPart(u, DQUOTE)
      BY <1>3, <1>12, <1>13
    <3>2. /\ w \in Readings /\ Len(w.parts) = Len(u.parts) /\ w.quoted = FALSE
          /\ w.parts[Len(u.parts)] = Append(u.parts[Len(u.parts)], DQUOTE)
          /\ \A j \in 1 .. Len(u.parts) - 1 : w.parts[j] = u.parts[j]
      <4>1. AfterQuote(w, u)
        BY <3>1, QuoteRead
      <4> QED BY <3>1, <4>1 DEF AfterQuote
    <3> QED BY <1>3, <3>2
  <2> QED BY <1>12, <2>1
<1>15. Append(Append(r.parts[Len(r.parts)], d) \o seg, d) = r.parts[Len(r.parts)] \o all
  <2>1. PICK part \in Seq(Int) : part = r.parts[Len(r.parts)]
    BY <1>1
  <2>2. d \in Int /\ all = <<d>> \o seg \o <<d>>
    BY <1>0, <1>3
  <2>3. PICK opened : opened = Append(part, d)
    OBVIOUS
  <2>4. part \o all = Append(opened \o seg, d)
    <3>1. QuoteAround(part, seg, d, all, opened)
      BY <2>2, <2>3, QuoteConcat
    <3> QED BY <3>1 DEF QuoteAround
  <2> QED BY <2>1, <2>3, <2>4
<1>16. Longer(w, r, all)
  BY <1>1, <1>12, <1>14, <1>15 DEF Longer
<1> QED BY <1>4, <1>11, <1>13, <1>16
-----------------------------------------------------------------------------
(* One parameter. *)

Printable(p, v) ==
    /\ p.type \in NumTypes => v \in Nat
    /\ p.type = "STR"      => v \in Seq(Int) /\ \A i \in 1 .. Len(v) : v[i] # DQUOTE
    /\ p.type = "STR_HEX"  => v \in Seq(Byte)

(* out is a part of what it is printed in, and is read as the value v. *)
Reprinted(out, p, v) ==
    /\ out \in Seq(Int) /\ Spells(out, p, v)
    /\ \A text \in Seq(Int) : ~Reading(text).quoted => Longer(Reading(text \o out), Reading(text), out)

LEMMA NumericPrinted ==
    ASSUME NEW p, p.type \in NumTypes, NEW v \in Nat, NEW out, out = PrintParameter(p, v)
    PROVE  Reprinted(out, p, v)
<1>0. p.type # "STR" /\ p.type # "STR_HEX"
  BY DEF NumTypes
<1>1. PICK base : base = Base(p.type)
  OBVIOUS
<1>2. base \in Bases
  BY <1>1 DEF Base, Bases, NumTypes
<1>3. out = PrintNumber(v, base)
  BY <1>0, <1>1 DEF PrintParameter
<1>4. out \in Seq(Int) /\ out # <<>> /\ DigitsOf(out, base) /\ ValueOf(out, base) = v
  BY <1>2, <1>3, NumberPrinted
<1>5. Spells(out, p, v)
  <2>1. DOMAIN out = 1 .. Len(out)
    BY <1>4
  <2> QED BY <1>0, <1>1, <1>4, <2>1 DEF Spells, DigitsOf
<1>6. ASSUME NEW text \in Seq(Int), ~Reading(text).quoted
      PROVE  Longer(Reading(text \o out), Reading(text), out)
  <2>1. PICK r : r = Reading(text)
    OBVIOUS
  <2>2. Stays(r, out)
    BY <1>4 DEF Stays, DigitsOf
  <2> QED BY <1>4, <2>1, <2>2, ReadOn
<1> QED BY <1>4, <1>5, <1>6 DEF Reprinted

LEMMA StringPrinted ==
    ASSUME NEW p, p.type = "STR", NEW v \in Seq(Int), \A i \in 1 .. Len(v) : v[i] # DQUOTE,
           NEW out, out = PrintParameter(p, v)
    PROVE  Reprinted(out, p, v)
<1>1. "STR" \notin NumTypes /\ "STR" # "STR_HEX"
  BY DEF NumTypes
<1>2. out = <<DQUOTE>> \o v \o <<DQUOTE>>
  BY <1>1 DEF PrintParameter, PrintString
<1>3. Spells(out, p, v)
  BY <1>1, <1>2 DEF Spells
<1>4. ASSUME NEW text \in Seq(Int), ~Reading(text).quoted
      PROVE  Longer(Reading(text \o out), Reading(text), out)
  <2>1. PICK r : r = Reading(text)
    OBVIOUS
  <2> QED BY <1>2, <1>4, <2>1, ReadQuoted
<1>5. out \in Seq(Int)
  <2>1. DQUOTE \in Int
    BY DEF DQUOTE
  <2> QED BY <1>2, <2>1
<1> QED BY <1>3, <1>4, <1>5 DEF Reprinted

LEMMA Nibbles ==
    ASSUME NEW b \in Byte
    PROVE  b \div 16 \in 0 .. 15 /\ b % 16 \in 0 .. 15 /\ b = 16 * (b \div 16) + (b % 16)
BY DEF Byte

LEMMA HexPrinted ==
    ASSUME NEW p, p.type = "STR_HEX", NEW v \in Seq(Byte), NEW out, out = PrintParameter(p, v)
    PROVE  Reprinted(out, p, v)
<1> DEFINE digit(i) == IF i % 2 = 1 THEN v[(i + 1) \div 2] \div 16 ELSE v[i \div 2] % 16
           body == [i \in 1 .. 2 * Len(v) |-> numbers[digit(i) + 1]]
<1>1. "STR_HEX" \notin NumTypes /\ "STR" # "STR_HEX"
  BY DEF NumTypes
<1>2. out = <<DQUOTE>> \o body \o <<DQUOTE>>
  BY <1>1 DEF PrintParameter, PrintHexadecimalString
<1>3. PICK n \in Nat : n = Len(v)
  OBVIOUS
<1>4. \A i \in 1 .. n : v[i] \in Byte
  <2>1. PICK S : S = Byte
    OBVIOUS
  <2>2. S \subseteq Int /\ v \in Seq(S)
    BY <2>1 DEF Byte
  <2> QED BY <1>3, <2>1, <2>2, IntSeq
<1>5. ASSUME NEW i \in 1 .. 2 * n
      PROVE  digit(i) \in 0 .. 15 /\ body[i] = numbers[digit(i) + 1]
  <2>1. CASE i % 2 = 1
    <3>1. (i + 1) \div 2 \in 1 .. n
      BY <1>3, <2>1
    <3>2. PICK b \in Byte : b = v[(i + 1) \div 2]
      BY <1>4, <3>1
    <3>3. digit(i) = b \div 16
      BY <2>1, <3>2
    <3> HIDE DEF digit
    <3> QED BY <1>3, <3>3, Nibbles
  <2>2. CASE i % 2 # 1
    <3>1. i \div 2 \in 1 .. n
      BY <1>3, <2>2
    <3>2. PICK b \in Byte : b = v[i \div 2]
      BY <1>4, <3>1
    <3>3. digit(i) = b % 16
      BY <2>2, <3>2
    <3> HIDE DEF digit
    <3> QED BY <1>3, <3>3, Nibbles
  <2> QED BY <2>1, <2>2
<1>6. PICK seg : seg = body
  OBVIOUS
<1>7. /\ Len(seg) = 2 * n /\ seg \in Seq(Int)
      /\ \A i \in 1 .. 2 * n : IsDigit(seg[i], digit(i))
  <2>1. ASSUME NEW i \in 1 .. 2 * n PROVE IsDigit(seg[i], digit(i))
    <3>1. digit(i) \in 0 .. 15 /\ seg[i] = numbers[digit(i) + 1]
      BY <1>5, <1>6
    <3> HIDE DEF digit
    <3> QED BY <3>1, DigitPrinted
  <2>2. seg = [i \in 1 .. 2 * n |-> seg[i]]
    BY <1>3, <1>6
  <2>3. \A i \in 1 .. 2 * n : seg[i] \in Int
    BY <2>1 DEF IsDigit
  <2>4. seg \in [1 .. 2 * n -> Int]
    BY <2>2, <2>3
  <2>5. seg \in Seq(Int) /\ Len(seg) = 2 * n
    BY <1>3, <2>4
  <2> QED BY <2>1, <2>5
<1>8. out = <<DQUOTE>> \o seg \o <<DQUOTE>>
  BY <1>2, <1>6
<1> HIDE DEF digit, body
<1>9. \A i \in 1 .. Len(seg) : seg[i] # DQUOTE
  BY <1>7 DEF IsDigit
<1>10. /\ out \in Seq(Int) /\ Len(out) = 2 * n + 2 /\ out[1] = DQUOTE /\ Last(out) = DQUOTE
       /\ \A i \in 1 .. 2 * n : out[i + 1] = seg[i]
  <2>1. PICK d \in Int : d = DQUOTE
    BY DEF DQUOTE
  <2>2. out = <<d>> \o seg \o <<d>>
    BY <1>8, <2>1
  <2>3. out \in Seq(Int) /\ Len(out) = Len(seg) + 2
    BY <1>7, <2>2
  <2>4. out[1] = d /\ out[Len(seg) + 2] = d
    BY <1>7, <2>2
  <2>5. \A i \in 1 .. Len(seg) : out[i + 1] = seg[i]
    BY <1>7, <2>2
  <2> QED BY <1>7, <2>1, <2>3, <2>4, <2>5 DEF Last
<1>11. ASSUME NEW i \in 1 .. n
       PROVE  v[i] = 16 * GetHex(out[2 * i]) + GetHex(out[2 * i + 1])
  <2>1. /\ 2 * i - 1 \in 1 .. 2 * n /\ 2 * i \in 1 .. 2 * n /\ (2 * i - 1) + 1 = 2 * i
        /\ (2 * i - 1) % 2 = 1 /\ ((2 * i - 1) + 1) \div 2 = i
        /\ (2 * i) % 2 # 1 /\ (2 * i) \div 2 = i
    BY <1>3
  <2>2. digit(2 * i - 1) = v[i] \div 16 /\ digit(2 * i) = v[i] % 16
    BY <2>1 DEF digit
  <2>3. GetHex(out[2 * i]) = v[i] \div 16 /\ GetHex(out[2 * i + 1]) = v[i] % 16
    <3>1. out[2 * i] = seg[2 * i - 1] /\ out[2 * i + 1] = seg[2 * i]
      BY <1>10, <2>1
    <3> QED BY <1>7, <2>1, <2>2, <3>1 DEF IsDigit
  <2>4. PICK b \in Byte : b = v[i]
    BY <1>4
  <2> QED BY <2>3, <2>4, Nibbles
<1>12. Spells(out, p, v)
  BY <1>1, <1>3, <1>10, <1>11 DEF Spells
<1>13. ASSUME NEW text \in Seq(Int), ~Reading(text).quoted
       PROVE  Longer(Reading(text \o out), Reading(text), out)
  <2>1. PICK r : r = Reading(text)
    OBVIOUS
  <2> QED BY <1>7, <1>8, <1>9, <1>13, <2>1, ReadQuoted
<1> QED BY <1>10, <1>12, <1>13 DEF Reprinted

LEMMA ParameterPrinted ==
    ASSUME NEW p, p.type \in ParamTypes, NEW v, Printable(p, v), NEW out, out = PrintParameter(p, v)
    PROVE  Reprinted(out, p, v)
<1>1. CASE p.type \in NumTypes
  BY <1>1, NumericPrinted DEF Printable
<1>2. CASE p.type = "STR"
  BY <1>2, StringPrinted DEF Printable
<1>3. CASE p.type = "STR_HEX"
  BY <1>3, HexPrinted DEF Printable
<1> QED BY <1>1, <1>2, <1>3 DEF ParamTypes
-----------------------------------------------------------------------------
(* The parameters of a command. *)

Out(c, k, values) == PrintParameter(ExtCmds[c].params[k], values[k])

AllReprinted(c, values) ==
    \A k \in 0 .. ExtCmds[c].count - 1 : Reprinted(Out(c, k, values), ExtCmds[c].params[k], values[k])

Listed(f, c, values) ==
    /\ f \in [0 .. ExtCmds[c].count - 1 -> Seq(Int)] /\ f[0] = Out(c, 0, values)
    /\ \A k \in 1 .. ExtCmds[c].count - 1 : f[k] = f[k - 1] \o (<<COMMA>> \o Out(c, k, values))

LEMMA PrintedSteps ==
    ASSUME NEW c, ExtCmds[c].count \in Nat, ExtCmds[c].count > 0, NEW values, AllReprinted(c, values)
    PROVE  \E f : Listed(f, c, values) /\ PrintParameters(c, values) = f[ExtCmds[c].count - 1]
<1> DEFINE n == ExtCmds[c].count - 1
           v == Out(c, 0, values)
           Next_(k, u) == u \o (<<COMMA>> \o Out(c, k, values))
           Unfold(g) == [k \in 0 .. n |-> IF k = 0 THEN v ELSE Next_(k, g[k - 1])]
           F == [k \in 1 .. n |-> [u \in Seq(Int) |-> Next_(k, u)]]
           printed == CHOOSE g : g = Unfold(g)
<1>0. n \in Nat /\ 0 \in 0 .. n
  OBVIOUS
<1>1. ASSUME NEW k \in 0 .. n PROVE Out(c, k, values) \in Seq(Int)
  BY DEF AllReprinted, Reprinted
<1>2. v \in Seq(Int)
  BY <1>0, <1>1
<1>3. ASSUME NEW k \in 1 .. n, NEW u \in Seq(Int) PROVE Next_(k, u) \in Seq(Int)
  <2>1. PICK out \in Seq(Int) : out = Out(c, k, values)
    BY <1>0, <1>1
  <2>2. PICK comma \in Int : comma = COMMA
    BY DEF COMMA
  <2>3. <<comma>> \o out \in Seq(Int)
    BY AppendConcat
  <2>4. u \o (<<comma>> \o out) \in Seq(Int)
    BY <2>3
  <2> QED BY <2>1, <2>2, <2>4
<1> HIDE DEF Next_, v
<1>4. Steps(F, n, Seq(Int))
  <2>1. ASSUME NEW k \in 1 .. n, NEW u \in Seq(Int) PROVE F[k][u] \in Seq(Int)
    BY <1>3
  <2> HIDE DEF F, n
  <2> QED BY <2>1 DEF Steps
<1>5. PICK g : Stepwise(g, v, F, n, Seq(Int))
  <2> HIDE DEF F, n
  <2> QED BY <1>0, <1>2, <1>4, Recursion
<1>6. g = Unfold(g)
  <2>1. g = [i \in 0 .. n |-> g[i]] /\ g[0] = v
    BY <1>5 DEF Stepwise
  <2>2. ASSUME NEW i \in 1 .. n PROVE g[i] = Next_(i, g[i - 1])
    <3>1. g[i - 1] \in Seq(Int) /\ g[i] = F[i][g[i - 1]]
      <4>1. i \in 1 .. n /\ i - 1 \in 0 .. n
        BY <1>0
      <4> HIDE DEF F, n
      <4> QED BY <1>5, <4>1 DEF Stepwise
    <3> QED BY <3>1
  <2>3. ASSUME NEW i \in 0 .. n PROVE g[i] = IF i = 0 THEN v ELSE Next_(i, g[i - 1])
    <3>1. i = 0 \/ i \in 1 .. n
      BY <1>0
    <3> HIDE DEF n
    <3> QED BY <2>1, <2>2, <3>1
  <2> HIDE DEF n, F
  <2> QED BY <2>1, <2>3
<1>7. printed = Unfold(printed)
  <2> HIDE DEF Unfold
  <2> QED BY <1>6
<1>8. \A k \in 0 .. n : printed[k] = IF k = 0 THEN v ELSE Next_(k, printed[k - 1])
  <2> HIDE DEF printed, n
  <2> QED BY <1>7
<1>9. printed = [k \in 0 .. n |-> printed[k]]
  <2> HIDE DEF printed, n
  <2> QED BY <1>7
<1>10. PrintParameters(c, values) = printed[n]
  BY DEF PrintParameters, PrintFirst, PrintNext, Params, Out, printed, v, Next_
<1> HIDE DEF printed
<1>11. \A k \in 1 .. n : printed[k] = Next_(k, printed[k - 1])
  BY <1>0, <1>8
<1>12. printed[0] = v
  BY <1>0, <1>8
<1>13. ASSUME NEW k \in 0 .. n PROVE printed[k] \in Seq(Int)
  <2> DEFINE T == {j \in 0 .. n : printed[j] \in Seq(Int)}
  <2>1. 0 \in T
    BY <1>0, <1>2, <1>12
  <2>2. ASSUME NEW j \in 0 .. n - 1, j \in T PROVE j + 1 \in T
    <3>1. printed[j] \in Seq(Int) /\ j + 1 \in 1 .. n /\ j + 1 \in 0 .. n /\ (j + 1) - 1 = j
      <4>1. printed[j] \in Seq(Int)
        BY <2>2
      <4>2. j + 1 \in 1 .. n /\ j + 1 \in 0 .. n /\ (j + 1) - 1 = j
        BY <1>0
      <4> QED BY <4>1, <4>2
    <3>2. printed[j + 1] = Next_(j + 1, printed[j])
      BY <1>11, <3>1
    <3> QED BY <1>3, <3>1, <3>2
  <2>3. 0 .. n \subseteq T
    <3> HIDE DEF T, n
    <3> QED BY <1>0, <2>1, <2>2, Climb DEF Climbs
  <2> QED BY <2>3
<1>14. printed \in [0 .. n -> Seq(Int)]
  BY <1>9, <1>13
<1>15. Listed(printed, c, values)
  BY <1>11, <1>12, <1>14 DEF Listed, v, Next_
<1> QED BY <1>10, <1>15

(* A parameter more: a part more. *)
Complete(text, k, c, values) ==
    /\ text \in Seq(Int) /\ ~Reading(text).quoted /\ Len(Parts(text)) = k + 1
    /\ \A j \in 0 .. k : Parts(text)[j + 1] = Out(c, j, values)

LEMMA FirstComplete ==
    ASSUME NEW c, NEW values, NEW p, NEW v, Reprinted(Out(c, 0, values), p, v)
    PROVE  Complete(Out(c, 0, values), 0, c, values)
<1>1. PICK out \in Seq(Int) : out = Out(c, 0, values)
  BY DEF Reprinted
<1>2. PICK empty \in Seq(Int) : empty = <<>>
  <2>1. <<>> \in Seq(Int)
    OBVIOUS
  <2> QED BY <2>1
<1>3. PICK r : r = Reading(empty)
  OBVIOUS
<1>4. r.quoted = FALSE /\ r.parts = << <<>> >>
  BY <1>2, <1>3, ReadingEmpty DEF Fresh
<1>5. Longer(Reading(empty \o out), r, out)
  BY <1>1, <1>2, <1>3, <1>4 DEF Reprinted
<1>6. empty \o out = out /\ <<>> \o out = out
  BY <1>2
<1>7. Len(r.parts) = 1 /\ r.parts[1] = <<>>
  BY <1>4
<1>8. PICK s : s = Reading(out)
  OBVIOUS
<1>9. Len(s.parts) = 1 /\ s.parts[1] = out /\ s.quoted = FALSE
  BY <1>4, <1>5, <1>6, <1>7, <1>8 DEF Longer
<1> QED BY <1>1, <1>8, <1>9 DEF Complete, Parts

LEMMA NextComplete ==
    ASSUME NEW c, NEW values, NEW p, NEW v, NEW k \in Nat, NEW text, Complete(text, k, c, values),
           Reprinted(Out(c, k + 1, values), p, v)
    PROVE  Complete(text \o (<<COMMA>> \o Out(c, k + 1, values)), k + 1, c, values)
<1>1. PICK out \in Seq(Int) : out = Out(c, k + 1, values)
  BY DEF Reprinted
<1>2. PICK comma \in Int : comma = COMMA
  BY DEF COMMA
<1>3. PICK r : r = Reading(text)
  OBVIOUS
<1>4. /\ text \in Seq(Int) /\ r \in Readings /\ ~r.quoted /\ Len(r.parts) = k + 1
      /\ \A j \in 0 .. k : r.parts[j + 1] = Out(c, j, values)
  BY <1>2, <1>3, ReadingAppend DEF Complete, Parts
<1>5. PICK more : more = Append(text, comma)
  OBVIOUS
<1>6. more \in Seq(Int) /\ text \o (<<comma>> \o out) = more \o out
  <2>1. more \in Seq(Int)
    BY <1>4, <1>5
  <2>2. text \o (<<comma>> \o out) = Append(text, comma) \o out
    BY <1>4, ConcatOne
  <2> QED BY <1>5, <2>1, <2>2
<1>7. PICK s : s = Reading(more)
  OBVIOUS
<1>8. s = NextPart(r, comma)
  BY <1>3, <1>4, <1>5, <1>7, ReadingAppend
<1>9. /\ s \in Readings /\ ~s.quoted /\ Len(s.parts) = k + 2 /\ s.parts[k + 2] = <<>>
      /\ \A j \in 1 .. k + 1 : s.parts[j] = r.parts[j]
  <2>1. /\ NextPart(r, comma) \in Readings
        /\ ~NextPart(r, comma).quoted
        /\ Len(NextPart(r, comma).parts) = Len(r.parts) + 1
        /\ NextPart(r, comma).parts[Len(r.parts) + 1] = <<>>
        /\ \A j \in 1 .. Len(r.parts) : NextPart(r, comma).parts[j] = r.parts[j]
    BY <1>2, <1>4, NextPartParts
  <2>2. (k + 1) + 1 = k + 2
    OBVIOUS
  <2> QED BY <1>4, <1>8, <2>1, <2>2
<1>10. PICK u : u = Reading(more \o out)
  OBVIOUS
<1>11. Longer(u, s, out)
  BY <1>1, <1>6, <1>7, <1>9, <1>10 DEF Reprinted
<1>12. <<>> \o out = out
  OBVIOUS
<1>13. /\ Len(u.parts) = k + 2 /\ u.parts[k + 2] = out /\ u.quoted = s.quoted
       /\ \A j \in 1 .. k + 1 : u.parts[j] = s.parts[j]
  <2>1. (k + 2) - 1 = k + 1
    OBVIOUS
  <2> QED BY <1>9, <1>11, <1>12, <2>1 DEF Longer
<1>14. ASSUME NEW j \in 0 .. k + 1 PROVE u.parts[j + 1] = Out(c, j, values)
  <2>1. CASE j = k + 1
    <3>1. j + 1 = k + 2
      BY <2>1
    <3> QED BY <1>1, <1>13, <2>1, <3>1
  <2>2. CASE j # k + 1
    <3>1. j \in 0 .. k /\ j + 1 \in 1 .. k + 1
      BY <2>2
    <3> QED BY <1>4, <1>9, <1>13, <3>1
  <2> QED BY <2>1, <2>2
<1>15. more \o out \in Seq(Int)
  BY <1>6
<1>16. (k + 1) + 1 = k + 2
  OBVIOUS
<1>17. Complete(more \o out, k + 1, c, values)
  BY <1>9, <1>10, <1>13, <1>14, <1>15, <1>16 DEF Complete, Parts
<1> QED BY <1>1, <1>2, <1>6, <1>17

LEMMA ParametersPrinted ==
    ASSUME NEW c, ExtCmds[c].count \in Nat, ExtCmds[c].count > 0, NEW values, AllReprinted(c, values)
    PROVE  Complete(PrintParameters(c, values), ExtCmds[c].count - 1, c, values)
<1> DEFINE n == ExtCmds[c].count - 1
<1>1. PICK f : Listed(f, c, values) /\ PrintParameters(c, values) = f[n]
  BY PrintedSteps
<1>2. n \in Nat
  OBVIOUS
<1> DEFINE T == {k \in 0 .. n : Complete(f[k], k, c, values)}
<1>3. 0 \in T
  <2>1. 0 \in 0 .. n
    BY <1>2
  <2>2. Complete(Out(c, 0, values), 0, c, values)
    BY <2>1, FirstComplete DEF AllReprinted
  <2> QED BY <1>1, <2>1, <2>2 DEF Listed
<1>4. ASSUME NEW k \in 0 .. n - 1, k \in T PROVE k + 1 \in T
  <2>1. /\ k \in Nat /\ k + 1 \in 1 .. n /\ k + 1 \in 0 .. n /\ (k + 1) - 1 = k
        /\ Complete(f[k], k, c, values)
    BY <1>2, <1>4
  <2>2. f[k + 1] = f[k] \o (<<COMMA>> \o Out(c, k + 1, values))
    BY <1>1, <2>1 DEF Listed
  <2>3. Complete(f[k + 1], k + 1, c, values)
    BY <2>1, <2>2, NextComplete DEF AllReprinted
  <2> QED BY <2>1, <2>3
<1>5. 0 .. n \subseteq T
  <2> HIDE DEF T, n
  <2> QED BY <1>2, <1>3, <1>4, Climb DEF Climbs
<1> QED BY <1>1, <1>2, <1>5
-----------------------------------------------------------------------------
(* The values a handler is given can be printed. *)

LEMMA ArgumentsPrintable ==
    ASSUME DefaultsPlain, IInv, WInv, LineText, WriteRuns, NEW k \in Params(Written)
    PROVE  Printable(ExtCmds[Written].params[k], Arguments[k])
<1> DEFINE p == ExtCmds[Written].params[k]
<1>1. PICK v : v = Arguments[k]
  OBVIOUS
<1>2. PICK at : Stored(m_cmdline, at, p, v)
  BY <1>1, ArgumentMeans
<1> HIDE DEF p
<1>3. p.type \in NumTypes => v \in Nat
  BY <1>2, NumMaxAssumption DEF Stored, Value
<1>4. p.type = "STR" => v \in Seq(Int) /\ \A i \in 1 .. Len(v) : v[i] # DQUOTE
  <2>1. SUFFICES ASSUME p.type = "STR"
                 PROVE  v \in Seq(Int) /\ \A i \in 1 .. Len(v) : v[i] # DQUOTE
    OBVIOUS
  <2>2. v \in Seq(1 .. 255) /\ \A i \in 1 .. Len(v) : v[i] # DQUOTE
    BY <1>2, <2>1 DEF Stored
  <2>3. PICK S : S = 1 .. 255
    OBVIOUS
  <2>4. S \subseteq Int /\ v \in Seq(S)
    BY <2>2, <2>3
  <2>5. v \in Seq(Int)
    BY <2>4, IntSeq
  <2> QED BY <2>2, <2>5
<1>5. p.type = "STR_HEX" => v \in Seq(Byte)
  BY <1>2 DEF Stored
<1>6. Printable(p, v)
  BY <1>3, <1>4, <1>5 DEF Printable
<1> QED BY <1>1, <1>6 DEF p

LEMMA PrintedBack ==
    ASSUME DefaultsPlain, IInv, WInv, LineText, WriteRuns
    PROVE  LET texts == Parts(PrintParameters(Written, Arguments))
           IN  /\ Len(texts) = ExtCmds[Written].count
               /\ \A k \in Params(Written) :
                     Spells(texts[k + 1], ExtCmds[Written].params[k], Arguments[k])
<1>1. PICK c : c = Written
  OBVIOUS
<1>2. PICK values : values = Arguments
  OBVIOUS
<1>3. c \in ExtIndices /\ ExtCmds[c].count \in Nat /\ ExtCmds[c].count > 0
  BY <1>1, WriteFields, ExtAssumption DEF Writable
<1>4. PICK n \in Nat : n = ExtCmds[c].count - 1 /\ n + 1 = ExtCmds[c].count
  BY <1>3
<1>5. Params(c) = 0 .. n
  BY <1>4 DEF Params
<1>6. ASSUME NEW k \in 0 .. n
      PROVE  Reprinted(Out(c, k, values), ExtCmds[c].params[k], values[k])
  <2>1. k \in Params(c)
    BY <1>5
  <2>2. Printable(ExtCmds[c].params[k], values[k])
    BY <1>1, <1>2, <2>1, ArgumentsPrintable
  <2>3. ExtCmds[c].params[k].type \in ParamTypes
    BY <1>3, <2>1, ParamAssumption
  <2> QED BY <2>2, <2>3, ParameterPrinted DEF Out
<1>7. AllReprinted(c, values)
  BY <1>4, <1>6 DEF AllReprinted
<1>8. PICK text : text = PrintParameters(c, values)
  OBVIOUS
<1>9. Complete(text, n, c, values)
  BY <1>3, <1>4, <1>7, <1>8, ParametersPrinted
<1>10. Len(Parts(text)) = n + 1 /\ \A k \in 0 .. n : Parts(text)[k + 1] = Out(c, k, values)
  BY <1>9 DEF Complete
<1>11. \A k \in 0 .. n : Spells(Parts(text)[k + 1], ExtCmds[c].params[k], values[k])
  BY <1>6, <1>10 DEF Reprinted
<1> QED BY <1>1, <1>2, <1>4, <1>5, <1>8, <1>10, <1>11

(* What a read handler prints for the values a write handler is given has  *)
(* a text for each parameter, and each means its value again: digits       *)
(* printed from a reversed number, quotes and commas taken together.       *)
THEOREM PrintedIsTypedBack ==
    ASSUME Meant, DefaultsWhole, DefaultsPlain, 0 \notin Alphabet
    PROVE  HandlesSpec => []PrintedCanBeTyped
<1>1. IInv /\ WInv /\ TextInv => PrintedCanBeTyped
  BY PrintedBack DEF PrintedCanBeTyped, TextInv, WriteRuns
<1> QED BY <1>1, TextHolds, PTL
=============================================================================
