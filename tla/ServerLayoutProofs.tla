------------------------- MODULE ServerLayoutProofs -------------------------
(***************************************************************************)
(* Where the parser writes, for every command table and buffer: parameter  *)
(* k of a command at the offset the executor's handler reads it from, and  *)
(* nothing behind the buffer.  Both are true only of tables that avoid a   *)
(* fault of the code, which the hypotheses name; the runs of MCServer show *)
(* what happens without them.                                              *)
(*                                                                         *)
(* The strengthening of FieldAligned is CommandStart: between commands     *)
(* everything written is committed, so the fields are counted from where   *)
(* the command begins.  SpaceReserved is inductive once no number of a     *)
(* basic command can be entered without the room for it.  And the defaults *)
(* of a command that is the first of its line always find room, because    *)
(* the buffer was sized for the largest one (OptionalFilled).              *)
(*                                                                         *)
(* The second part is about lines.  The server implements the line         *)
(* protocol for every table: every handler of a line being entered either  *)
(* goes on entering it, or gives the line to the executor (StepPost), and  *)
(* once a line is spoiled it stays so.  A line that is run without an      *)
(* error is run in full, where the layout is kept.  The one thing the      *)
(* protocol needs of the executor's data is that it never reaches the end  *)
(* of a line with ASYNC as its last result (Resumed).  Last, a server of   *)
(* basic commands alone answers every terminator, also one that a handler  *)
(* passed on (TerminatorEndsLine).                                         *)
(***************************************************************************)
EXTENDS ServerProofs

(* Induction over the naturals, stated about sets, so that any prover can  *)
(* use it: T stands for the predicate.  It follows from the strict         *)
(* ordering of the finite sets being well founded.                         *)

LEMMA LeastMember ==
    ASSUME NEW T, T \subseteq Nat, T # {}
    PROVE  \E x \in T : \A y \in T : x <= y
<1> DEFINE Smaller   == StrictSubsetOrdering(Nat)
           Finite    == FiniteSubsetsOf(Nat)
           Intervals == {1 .. n : n \in T}
<1>1. IsWellFoundedOn(Smaller, Finite)
  BY FS_StrictSubsetOrderingWellFounded
<1>2. Intervals \subseteq Finite /\ Intervals # {}
  <2>1. ASSUME NEW n \in T PROVE 1 .. n \in Finite
    <3>1. IsFiniteSet(1 .. n)
      BY FS_Interval
    <3> QED BY <3>1 DEF FiniteSubsetsOf
  <2> QED BY <2>1
<1>3. \E X \in Intervals : \A Y \in Intervals : <<Y, X>> \notin Smaller
  <2> HIDE DEF Smaller, Finite, Intervals
  <2> QED BY <1>1, <1>2, WFMin
<1>4. PICK n \in T : \A m \in T : <<1 .. m, 1 .. n>> \notin Smaller
  BY <1>3
<1>5. ASSUME NEW m \in T PROVE n <= m
  <2> SUFFICES ASSUME m < n PROVE FALSE
    OBVIOUS
  <2>1. 1 .. m \subseteq 1 .. n /\ n \in 1 .. n /\ n \notin 1 .. m
    OBVIOUS
  <2>2. 1 .. m \in SUBSET Nat /\ 1 .. n \in SUBSET Nat
    OBVIOUS
  <2> QED BY <2>1, <2>2, <1>4 DEF StrictSubsetOrdering
<1> QED BY <1>5

LEMMA SetInduction ==
    ASSUME NEW T, 0 \in T, \A n \in Nat : n \in T => n + 1 \in T
    PROVE  Nat \subseteq T
<1> SUFFICES ASSUME Nat \ T # {} PROVE FALSE
  OBVIOUS
<1>1. PICK m \in Nat \ T : \A y \in Nat \ T : m <= y
  BY LeastMember
<1>2. m # 0 /\ m - 1 \in Nat
  OBVIOUS
<1> QED BY <1>1, <1>2

LEMMA IntervalInduction ==
    ASSUME NEW lo \in Int, NEW hi \in Int, NEW T,
           lo <= hi => lo \in T,
           \A n \in lo .. hi - 1 : n \in T => n + 1 \in T
    PROVE  lo .. hi \subseteq T
<1> SUFFICES ASSUME lo <= hi PROVE lo .. hi \subseteq T
  OBVIOUS
<1> DEFINE U == {n \in Nat : lo + n <= hi => lo + n \in T}
<1>1. 0 \in U
  OBVIOUS
<1>2. ASSUME NEW n \in Nat, n \in U PROVE n + 1 \in U
  <2> SUFFICES ASSUME lo + (n + 1) <= hi PROVE lo + (n + 1) \in T
    OBVIOUS
  <2>1. lo + n \in lo .. hi - 1 /\ lo + n \in T
    BY <1>2
  <2>2. (lo + n) + 1 \in T
    BY <2>1
  <2> QED BY <2>2
<1>3. Nat \subseteq U
  <2> HIDE DEF U
  <2> QED BY <1>1, <1>2, SetInduction
<1>4. ASSUME NEW m \in lo .. hi PROVE m \in T
  <2>1. m - lo \in U
    BY <1>3
  <2> QED BY <2>1
<1> QED BY <1>4

-----------------------------------------------------------------------------
(* An ampersand command without a number is not committed.                 *)
AmpersandsNumbered == \A i \in 0 .. NAmp - 1 : AmpCmds[i].ranges # {}

(* The default of a hex string does not count as a parameter.              *)
HexStringsRequired ==
    \A c \in ExtIndices : \A k \in Params(c) :
       ExtCmds[c].params[k].type = "STR_HEX" => ~ExtCmds[c].params[k].optional

(* The number of a basic command is written without a look at the space.   *)
NoNumbers == /\ \A i \in 0 .. NBasic - 1 : BasicCmds[i].ranges = {}
             /\ \A i \in 0 .. NAmp - 1 : AmpCmds[i].ranges = {}

BetweenCommands == {"Body", "Extended", "ExtendedEq"}
CommandStart ==
    pc = "ret" /\ m_state \in BetweenCommands => m_parse_index = m_parse_ok_index
Aligned ==
    IF m_state \in {"String", "HexString"}
    THEN m_parse_index = FieldStart + CmdParam.size - m_num
    ELSE m_state \in ParamStates \/ pc = "fill" => m_parse_index = FieldStart
LInv == CommandStart /\ Aligned

Reserved == pc = "ret" => SpaceReserved

(* What every handler preserves, each half under its own hypotheses.       *)
KeepsLayout == AmpersandsNumbered /\ HexStringsRequired /\ LInv => LInv'
KeepsSpace  == NoNumbers /\ Reserved => Reserved' /\ m_parse_index' <= CmdlineSize
Preserved   == KeepsLayout /\ KeepsSpace
-----------------------------------------------------------------------------
(* The ways a handler ends. *)

LEMMA IndexLemma ==
    ASSUME Ready
    PROVE  /\ m_parse_index \in Nat /\ m_parse_ok_index \in Nat
           /\ m_num \in Nat /\ CmdlineSize \in Nat
           /\ m_parse_index <= CmdlineSize
           /\ m_param_index \in Nat
BY CmdlineSizeAssumption DEF Ready, IInv, TypeOK, CmdlineTypeOK, IndicesOrdered

(* Away from the fields. *)
LEMMA AwayLemma ==
    ASSUME m_state' \notin ParamStates, m_state' \notin BetweenCommands,
           m_state' # "BasicParameter", pc' # "fill", m_parse_index' <= CmdlineSize
    PROVE  Preserved
<1>1. LInv'
  BY DEF LInv, CommandStart, Aligned, ParamStates
<1>2. Reserved'
  BY DEF Reserved, SpaceReserved, ParamStates, StartStates
<1> QED BY <1>1, <1>2 DEF Preserved, KeepsLayout, KeepsSpace

LEMMA AwayStatesLemma ==
    \A s \in {"A", "T", "S", "SSet", "Ampersand", "ExtendedReadTest", "Error",
              "Executing"} :
       s \notin ParamStates /\ s \notin BetweenCommands /\ s # "BasicParameter"
BY DEF ParamStates, NumStates, StartStates, BetweenCommands

(* To where a command begins. *)
LEMMA BetweenLemma ==
    ASSUME m_state' \in BetweenCommands, pc' = "ret",
           NoNumbers /\ Reserved => m_parse_index' <= CmdlineSize,
           AmpersandsNumbered /\ HexStringsRequired /\ LInv
              => m_parse_index' = m_parse_ok_index'
    PROVE  Preserved
<1>1. /\ m_state' \notin ParamStates
      /\ m_state' \notin {"String", "HexString", "BasicParameter"}
  BY DEF ParamStates, NumStates, StartStates, BetweenCommands
<1>2. KeepsLayout
  BY <1>1 DEF KeepsLayout, LInv, CommandStart, Aligned
<1>3. Reserved'
  BY <1>1 DEF Reserved, SpaceReserved, ParamStates, StartStates
<1> QED BY <1>2, <1>3 DEF Preserved, KeepsSpace

LEMMA SameField ==
    ASSUME m_trie' = m_trie, m_param_index' = m_param_index,
           m_parse_ok_index' = m_parse_ok_index
    PROVE  CmdParam' = CmdParam /\ FieldStart' = FieldStart
BY DEF CmdParam, Cmd, Command, FieldStart

LEMMA StayPreserves ==
    ASSUME Ready, pc = "ret", NEW left \in Nat, Stay(left)
    PROVE  Preserved
<1>1. /\ m_state' = m_state /\ pc' = "ret"
      /\ UNCHANGED <<m_parse_index, m_parse_ok_index, m_trie, m_param_index, m_num,
                     m_nibble>>
  BY DEF Stay, Goto, Keep, bufVars, paramVars
<1>2. CmdParam' = CmdParam /\ FieldStart' = FieldStart
  BY <1>1, SameField
<1>3. KeepsLayout
  BY <1>1, <1>2 DEF KeepsLayout, LInv, CommandStart, Aligned
<1>4. CmdlineSize - m_parse_index' = CmdlineSize - m_parse_index
  BY <1>1
<1>5. Reserved => Reserved'
  BY <1>1, <1>2, <1>4 DEF Reserved, SpaceReserved, Available
<1> QED BY <1>1, <1>3, <1>5, IndexLemma DEF Preserved, KeepsSpace

LEMMA FailPreserves ==
    ASSUME Ready, NEW left \in Nat, Fail(left)
    PROVE  Preserved
<1>1. m_state' = "Error" /\ pc' = "ret" /\ m_parse_index' = m_parse_index
  BY DEF Fail, Goto, Keep, bufVars
<1> QED BY <1>1, IndexLemma, AwayLemma, AwayStatesLemma

LEMMA ExecutePreserves ==
    ASSUME Ready, NEW error, NEW left, Execute(error, left),
           m_parse_index' = m_parse_index
    PROVE  Preserved
<1>1. m_state' = "Executing" /\ pc' = "exec"
  BY DEF Execute
<1> QED BY <1>1, IndexLemma, AwayLemma, AwayStatesLemma

LEMMA ExecuteKeepPreserves ==
    ASSUME Ready, NEW error, NEW left, Execute(error, left), Keep
    PROVE  Preserved
BY ExecutePreserves DEF Keep, bufVars

LEMMA FailOnPreserves ==
    ASSUME Ready, NEW left \in Nat, NEW c, FailOn(c, left)
    PROVE  Preserved
BY FailPreserves, ExecuteKeepPreserves DEF FailOn

LEMMA PutIndex ==
    ASSUME NEW bytes, Put(bytes)
    PROVE  m_parse_index' = m_parse_index + Len(bytes)
BY DEF Put, PutAt

(* Offsets of a command in hand are added up from its fields. *)
LEMMA OffsetLemma ==
    ASSUME IsLeaf(m_trie)
    PROVE  /\ ParamOffset[Command][0] = 2
           /\ \A k \in Nat : k <= Cmd.count => ParamOffset[Command][k] \in Nat
           /\ \A k \in Nat : k < Cmd.count =>
                 /\ FieldSize(Cmd.params[k]) \in Nat
                 /\ ParamOffset[Command][k + 1] =
                       ParamOffset[Command][k] + FieldSize(Cmd.params[k])
<1>1. Command \in ExtIndices /\ Cmd.count \in Nat
  BY CommandLemma
<1>2. /\ ParamOffset[Command] \in [0 .. Cmd.count -> Nat]
      /\ ParamOffset[Command][0] = 2
      /\ \A k \in Params(Command) :
            ParamOffset[Command][k + 1] =
               ParamOffset[Command][k] + FieldSize(Cmd.params[k])
  BY <1>1, LayoutAssumption DEF Cmd
<1>3. \A k \in Nat : k < Cmd.count => k \in Params(Command)
  BY <1>1 DEF Params, Cmd
<1>4. \A k \in Nat : k <= Cmd.count => k \in 0 .. Cmd.count
  BY <1>1
<1>5. \A k \in Nat : k < Cmd.count => FieldSize(Cmd.params[k]) \in Nat
  BY ParameterLemma
<1>6. \A k \in Nat : k <= Cmd.count => ParamOffset[Command][k] \in Nat
  BY <1>2, <1>4
<1> QED BY <1>2, <1>3, <1>5, <1>6

(* The parse index after the parameter before the current one. *)
AtField == m_parse_index' = m_parse_ok_index' + ParamOffset[Command][m_param_index']
AtFieldKept == AmpersandsNumbered /\ HexStringsRequired /\ LInv => AtField

(* setupParameterParser looks at the space of the next parameter. *)
LEMMA SetupPreserves ==
    ASSUME Ready, IsLeaf(m_trie), m_trie' = m_trie, NEW left \in Nat,
           SetupParameterParser(left),
           m_param_index' \in Nat, m_parse_index' \in Nat,
           NoNumbers /\ Reserved => m_parse_index' <= CmdlineSize,
           AtFieldKept
    PROVE  Preserved
<1> DEFINE state == ParameterState(m_param_index', CmdlineSize - m_parse_index')
           p == Cmd.params[m_param_index']
<1>1. m_state' = state /\ pc' = "ret" /\ Cmd' = Cmd /\ Command' = Command
  BY DEF SetupParameterParser, Goto, Cmd, Command
<1>2. CASE state = "Error"
  <2>1. state \notin ParamStates /\ state \notin BetweenCommands /\ state # "BasicParameter"
    BY <1>2, AwayStatesLemma
  <2>2. LInv'
    BY <1>1, <2>1, <1>2 DEF LInv, CommandStart, Aligned
  <2>3. Reserved'
    BY <1>1, <2>1, <1>2 DEF Reserved, SpaceReserved, ParamStates, StartStates
  <2> QED BY <2>2, <2>3 DEF Preserved, KeepsLayout, KeepsSpace
<1>3. CASE state # "Error"
  <2>1. /\ m_param_index' < Cmd.count
        /\ CmdlineSize - m_parse_index' >= FieldSize(p)
    <3>1. FieldSize(p) \in Nat \/ ~(m_param_index' < Cmd.count)
      BY OffsetLemma
    <3> QED BY <1>3, <3>1, CommandLemma, CmdlineSizeAssumption DEF ParameterState
  <2>2. p.type \in ParamTypes
    BY <2>1, ParameterLemma
  <2>3. /\ p.type \in NumTypes => state = NumStart[p.type]
        /\ p.type = "STR" => state = "StringStart"
        /\ p.type = "STR_HEX" => state = "HexStringStart"
    BY <1>3, <2>1 DEF ParameterState, NumTypes
  <2>4. /\ state \in StartStates
        /\ state \in NumStates => p.type \in NumTypes
    BY <2>2, <2>3 DEF ParamTypes, NumTypes, NumStart, StartStates, NumStates
  <2>5. state \notin BetweenCommands /\ state \in ParamStates
        /\ state \notin {"String", "HexString", "BasicParameter"}
    BY <2>4 DEF StartStates, BetweenCommands, ParamStates
  <2>6. CmdParam' = p /\ Available' = CmdlineSize - m_parse_index'
    BY <1>1 DEF CmdParam, Available
  <2>7. FieldStart' = m_parse_ok_index' + ParamOffset[Command][m_param_index']
    BY <1>1 DEF FieldStart
  <2>8. KeepsLayout
    BY <1>1, <2>5, <2>7 DEF KeepsLayout, LInv, CommandStart, Aligned, AtField, AtFieldKept
  <2>9. p.type \in NumTypes => FieldSize(p) = 4
    BY <2>2 DEF FieldSize, NumTypes
  <2>10. Reserved'
    BY <1>1, <2>1, <2>4, <2>5, <2>6, <2>9 DEF Reserved, SpaceReserved
  <2> QED BY <2>8, <2>10 DEF Preserved, KeepsSpace
<1> QED BY <1>2, <1>3

LEMMA FinalizePreserves ==
    ASSUME Ready, IsLeaf(m_trie), NEW left \in Nat, Finalize(left),
           m_state \in FillStates, m_parse_index' \in Nat,
           NoNumbers /\ Reserved => m_parse_index' <= CmdlineSize,
           AtFieldKept
    PROVE  Preserved
<1>1. /\ m_state' = m_state /\ pc' = "fill" /\ m_trie' = m_trie
      /\ m_state \notin {"String", "HexString"}
  BY DEF Finalize, FillStates
<1>2. FieldStart' = m_parse_ok_index' + ParamOffset[Command][m_param_index']
  BY <1>1 DEF FieldStart, Command
<1>3. KeepsLayout
  BY <1>1, <1>2 DEF KeepsLayout, LInv, CommandStart, Aligned, AtField, AtFieldKept
<1> QED BY <1>1, <1>3 DEF Preserved, KeepsSpace, Reserved

-----------------------------------------------------------------------------
(* The handlers outside the parameters. *)

LEMMA StateTPreserves ==
    ASSUME Ready, pc = "ret", NEW c, NEW left \in Nat,
           StateA(c, left) \/ StateT(c, left)
    PROVE  Preserved
<1>1. CASE Stay(left)
  BY <1>1, StayPreserves
<1>2. CASE ResetCmdline /\ Goto("Body", left)
  <2>1. /\ m_state' = "Body" /\ pc' = "ret"
        /\ m_parse_index' = 0 /\ m_parse_ok_index' = 0
    BY <1>2 DEF ResetCmdline, Goto
  <2>2. "Body" \in BetweenCommands
    BY DEF BetweenCommands
  <2>3. m_parse_index' <= CmdlineSize
    BY <2>1, IndexLemma
  <2> QED BY <2>1, <2>2, <2>3, BetweenLemma
<1>3. CASE Execute(FALSE, left) /\ Keep
  BY <1>3, ExecuteKeepPreserves
<1>4. CASE (Goto("A", left) \/ Goto("T", left)) /\ Keep
  <2>1. m_state' \in {"A", "T"} /\ pc' = "ret" /\ m_parse_index' = m_parse_index
    BY <1>4 DEF Goto, Keep, bufVars
  <2> QED BY <2>1, IndexLemma, AwayLemma, AwayStatesLemma
<1> QED BY <1>1, <1>2, <1>3, <1>4 DEF StateA, StateT

(* A character that moves on without a write. *)
LEMMA KeepAwayPreserves ==
    ASSUME Ready, NEW left \in Nat,
           NEW state \in {"S", "SSet", "Ampersand", "Error"},
           Goto(state, left), m_parse_index' = m_parse_index
    PROVE  Preserved
<1>1. m_state' = state /\ pc' = "ret"
  BY DEF Goto
<1> QED BY <1>1, IndexLemma, AwayLemma, AwayStatesLemma

(* A basic command without a number is committed at once; one with a       *)
(* number is the only way to BasicParameter.                               *)
LEMMA AddBasicPreserves ==
    ASSUME Ready, CommandFits, NEW def, NEW index \in 0 .. NBasic + NAmp, NEW entry,
           NEW committed \in BOOLEAN, NEW left \in Nat,
           AddBasicCommand(def, index, entry, committed, left),
           NoNumbers => def.ranges = {},
           AmpersandsNumbered => committed \/ def.ranges # {}
    PROVE  Preserved
<1>1. m_parse_index' = m_parse_index + 2
  <2>1. Len(IdBytes(BasicId(index))) = 2
    BY IdsLemma, IdBytesLemma
  <2> QED BY <2>1, PutIndex DEF AddBasicCommand, AddCmd
<1>2. m_parse_index' <= CmdlineSize
  BY <1>1, IndexLemma DEF CommandFits, Available
<1>3. CASE def.ranges = {}
  <2>1. /\ IF committed THEN Commit ELSE KeepCommit
        /\ Goto("Body", left)
    BY <1>3 DEF AddBasicCommand
  <2>2. m_state' = "Body" /\ pc' = "ret" /\ "Body" \in BetweenCommands
    BY <2>1 DEF Goto, BetweenCommands
  <2>3. AmpersandsNumbered => m_parse_index' = m_parse_ok_index'
    BY <1>3, <2>1 DEF Commit
  <2> QED BY <1>2, <2>2, <2>3, BetweenLemma
<1>4. CASE def.ranges # {}
  <2>1. m_state' = "BasicParameter" /\ pc' = "ret" /\ ~NoNumbers
    BY <1>4 DEF AddBasicCommand, Goto
  <2>2. "BasicParameter" \notin ParamStates \cup BetweenCommands
        /\ "BasicParameter" \notin {"String", "HexString"}
    BY DEF ParamStates, NumStates, StartStates, BetweenCommands
  <2>3. LInv'
    BY <2>1, <2>2 DEF LInv, CommandStart, Aligned
  <2> QED BY <2>1, <2>3 DEF Preserved, KeepsLayout, KeepsSpace
<1> QED BY <1>3, <1>4

LEMMA StateBodyPreserves ==
    ASSUME Ready, pc = "ret", NEW c, NEW left \in Nat, StateBody(c, left)
    PROVE  Preserved
<1>1. CASE Stay(left)
  BY <1>1, StayPreserves
<1>2. CASE BodyLetter(c, left)
  <2> DEFINE i == CmdIndex(BasicCmds, c)
  <2>1. CASE c = 83
    <3>1. Goto("S", left) /\ m_parse_index' = m_parse_index
      BY <1>2, <2>1 DEF BodyLetter, bufVars
    <3> QED BY <3>1, KeepAwayPreserves
  <2>2. CASE c # 83 /\ Fail(left)
    BY <2>2, FailPreserves
  <2>3. CASE i # -1 /\ CommandFits /\ AddBasicCommand(BasicCmds[i], 1 + i, i, TRUE, left)
    <3>1. i \in 0 .. NBasic - 1
      BY <2>3, CmdIndexLemma, SizesAssumption, BasicAssumption
    <3>2. 1 + i \in 0 .. NBasic + NAmp
      BY <3>1, SizesAssumption
    <3>3. NoNumbers => BasicCmds[i].ranges = {}
      BY <3>1 DEF NoNumbers
    <3> QED BY <2>3, <3>2, <3>3, AddBasicPreserves
  <2> QED BY <1>2, <2>1, <2>2, <2>3 DEF BodyLetter
<1>3. CASE c = AMP /\ Goto(IF NAmp > 0 THEN "Ampersand" ELSE "Error", left) /\ Keep
  BY <1>3, KeepAwayPreserves DEF Keep, bufVars
<1>4. CASE /\ m_state = "Body" /\ Keep
           /\ Goto("Extended", left) \/ Goto("Error", left)
  <2>1. CASE Goto("Extended", left)
    <3>1. /\ m_state' = "Extended" /\ pc' = "ret" /\ m_parse_index' = m_parse_index
          /\ m_parse_ok_index' = m_parse_ok_index
      BY <1>4, <2>1 DEF Goto, Keep, bufVars
    <3>2. "Body" \in BetweenCommands /\ "Extended" \in BetweenCommands
      BY DEF BetweenCommands
    <3>3. LInv => m_parse_index = m_parse_ok_index
      BY <1>4, <3>2 DEF LInv, CommandStart
    <3> QED BY <3>1, <3>2, <3>3, IndexLemma, BetweenLemma
  <2>2. CASE Goto("Error", left)
    BY <1>4, <2>2, KeepAwayPreserves DEF Keep, bufVars
  <2> QED BY <1>4, <2>1, <2>2
<1>5. CASE Execute(FALSE, left) /\ Keep
  BY <1>5, ExecuteKeepPreserves
<1>6. CASE Fail(left)
  BY <1>6, FailPreserves
<1> QED BY <1>1, <1>2, <1>3, <1>4, <1>5, <1>6 DEF StateBody

LEMMA NextDigitPreserves ==
    ASSUME Ready, pc = "ret", NEW next, NEW left \in Nat, NextDigit(next, left),
           m_state \in {"S", "SSet", "BasicParameter"}
    PROVE  Preserved
<1>1. /\ m_state' = m_state /\ pc' = "ret" /\ m_parse_index' = m_parse_index
  BY DEF NextDigit, Goto, bufVars
<1>2. m_state \notin ParamStates \cup BetweenCommands
      /\ m_state \notin {"String", "HexString"}
  BY DEF ParamStates, NumStates, StartStates, BetweenCommands
<1>3. LInv'
  BY <1>1, <1>2 DEF LInv, CommandStart, Aligned
<1>4. CmdlineSize - m_parse_index' = CmdlineSize - m_parse_index
  BY <1>1
<1>5. Reserved => Reserved'
  BY <1>1, <1>2, <1>4 DEF Reserved, SpaceReserved, Available, ParamStates, StartStates
<1> QED BY <1>1, <1>3, <1>5, IndexLemma DEF Preserved, KeepsLayout, KeepsSpace

LEMMA SRequestPreserves ==
    ASSUME Ready, NEW c, NEW left \in Nat, SRequest(c, left)
    PROVE  Preserved
<1> DEFINE supported == m_num \in {3, 4}
           id   == IF supported THEN IdBytes(BasicId(0)) ELSE <<>>
           byte == IF c = EQ THEN 128 + (m_num % 128) ELSE m_num % 256
<1>1. BasicId(0) \in Nat /\ BasicId(0) < 65536
  BY IdsLemma, SizesAssumption
<1>2. id \in Seq(Byte) /\ (supported => Len(id) = 2) /\ (~supported => Len(id) = 0)
  BY <1>1, IdBytesLemma
<1>3. CASE Fail(left)
  BY <1>3, FailPreserves
<1>4. CASE (supported => CommandFits) /\ Put(id) /\ Goto("Error", left)
  <2>1. m_parse_index' = m_parse_index + Len(id)
    BY <1>4, PutIndex
  <2>2. m_parse_index' <= CmdlineSize
    <3> HIDE DEF id
    <3>1. CASE supported
      <4>1. CmdlineSize - m_parse_index >= 2 /\ Len(id) = 2
        BY <1>2, <1>4, <3>1 DEF CommandFits, Available
      <4> QED BY <2>1, <4>1, IndexLemma
    <3>2. CASE ~supported
      BY <1>2, <2>1, <3>2, IndexLemma
    <3> QED BY <3>1, <3>2
  <2>3. m_state' = "Error" /\ pc' = "ret"
    BY <1>4 DEF Goto
  <2> QED BY <2>2, <2>3, AwayLemma, AwayStatesLemma
<1>5. CASE /\ Available >= Len(id) + 1 /\ Put(Append(id, byte))
           /\ IF c = EQ THEN KeepCommit /\ Goto("SSet", left)
                        ELSE Commit /\ Goto("Body", left)
  <2>1. Len(Append(id, byte)) = Len(id) + 1 /\ Len(id) \in Nat
    BY <1>2
  <2>2. m_parse_index' = m_parse_index + (Len(id) + 1)
    <3> HIDE DEF id, byte
    <3> QED BY <1>5, <2>1, PutIndex
  <2>3. m_parse_index' <= CmdlineSize
    BY <1>5, <2>1, <2>2, IndexLemma DEF Available
  <2>4. CASE c = EQ
    <3>1. m_state' = "SSet" /\ pc' = "ret"
      BY <1>5, <2>4 DEF Goto
    <3> QED BY <2>3, <3>1, AwayLemma, AwayStatesLemma
  <2>5. CASE c # EQ
    <3>1. m_state' = "Body" /\ pc' = "ret" /\ m_parse_ok_index' = m_parse_index'
      BY <1>5, <2>5 DEF Goto, Commit
    <3>2. "Body" \in BetweenCommands
      BY DEF BetweenCommands
    <3> QED BY <2>3, <3>1, <3>2, BetweenLemma
  <2> QED BY <2>4, <2>5
<1>6. \/ supported /\ ~CommandFits
      \/ (supported => CommandFits) /\ Available < Len(id) + 1
      \/ Available >= Len(id) + 1
  BY <1>2, IndexLemma DEF Available
<1> QED BY <1>3, <1>4, <1>5, <1>6 DEF SRequest

LEMMA StateSPreserves ==
    ASSUME Ready, pc = "ret", NEW c \in Char, NEW left \in Nat,
           StateS(c, left) \/ StateSSet(c, left)
    PROVE  Preserved
<1>1. CASE Stay(left)
  BY <1>1, StayPreserves
<1>2. CASE SRequest(c, left)
  BY <1>2, SRequestPreserves
<1>3. CASE FailOn(c, left) \/ Fail(left + 1)
  BY <1>3, FailOnPreserves, FailPreserves
<1>4. CASE m_state \in {"S", "SSet"} /\ NextDigit(DecNext(m_num, c), left)
  BY <1>4, NextDigitPreserves
<1>5. CASE /\ ~(m_num > 127 \/ Available = 0)
           /\ Put(<<m_num>>) /\ Commit /\ Goto("Body", left + 1)
  <2>1. m_parse_index' = m_parse_index + 1
    <3>1. Len(<<m_num>>) = 1
      OBVIOUS
    <3> QED BY <1>5, <3>1, PutIndex
  <2>2. m_parse_index' <= CmdlineSize
    BY <1>5, <2>1, IndexLemma DEF Available
  <2>3. m_state' = "Body" /\ pc' = "ret" /\ m_parse_ok_index' = m_parse_index'
    BY <1>5 DEF Goto, Commit
  <2>4. "Body" \in BetweenCommands
    BY DEF BetweenCommands
  <2> QED BY <2>2, <2>3, <2>4, BetweenLemma
<1> QED BY <1>1, <1>2, <1>3, <1>4, <1>5 DEF StateS, StateSSet

LEMMA StateAmpersandPreserves ==
    ASSUME Ready, pc = "ret", NEW c, NEW left \in Nat, StateAmpersand(c, left)
    PROVE  Preserved
<1> DEFINE i == CmdIndex(AmpCmds, c)
           n == 1 + NBasic + i
<1>1. CASE Stay(left)
  BY <1>1, StayPreserves
<1>2. CASE Fail(left)
  BY <1>2, FailPreserves
<1>3. CASE i # -1 /\ CommandFits /\ AddBasicCommand(AmpCmds[i], n, n, FALSE, left)
  <2>1. i \in 0 .. NAmp - 1
    BY <1>3, CmdIndexLemma, SizesAssumption, BasicAssumption
  <2>2. n \in 0 .. NBasic + NAmp
    BY <2>1, SizesAssumption
  <2>3. /\ NoNumbers => AmpCmds[i].ranges = {}
        /\ AmpersandsNumbered => AmpCmds[i].ranges # {}
    BY <2>1 DEF NoNumbers, AmpersandsNumbered
  <2> QED BY <1>3, <2>2, <2>3, AddBasicPreserves
<1> QED BY <1>1, <1>2, <1>3 DEF StateAmpersand

LEMMA AddNumericIndex ==
    ASSUME NEW n \in Nat, AddNumericParameter(n)
    PROVE  m_parse_index' = m_parse_index + 4 /\ m_param_index' = m_param_index + 1
BY NumBytesLemma, PutIndex DEF AddNumericParameter

LEMMA StateBasicParameterPreserves ==
    ASSUME Ready, pc = "ret", NEW c \in Char, NEW left \in Nat,
           StateBasicParameter(c, left)
    PROVE  Preserved
<1>1. CASE Stay(left)
  BY <1>1, StayPreserves
<1>2. CASE m_state = "BasicParameter" /\ NextDigit(DecNext(m_num, c), left)
  BY <1>2, NextDigitPreserves
<1>3. CASE Fail(left) \/ Fail(left + 1)
  BY <1>3, FailPreserves
<1>4. CASE /\ m_state = "BasicParameter"
           /\ AddNumericParameter(m_num) /\ Commit /\ Goto("Body", left + 2)
  <2>1. /\ m_parse_index' = m_parse_index + 4 /\ m_parse_ok_index' = m_parse_index'
        /\ m_state' = "Body" /\ pc' = "ret"
    BY <1>4, AddNumericIndex, IndexLemma DEF Goto, Commit
  <2>2. Reserved => m_parse_index' <= CmdlineSize
    BY <1>4, <2>1, IndexLemma DEF Reserved, SpaceReserved, Available
  <2>3. "Body" \in BetweenCommands
    BY DEF BetweenCommands
  <2> QED BY <2>1, <2>2, <2>3, BetweenLemma
<1> QED BY <1>1, <1>2, <1>3, <1>4 DEF StateBasicParameter

(* The id of an extended command goes where the command begins. *)
LEMMA AddCmdIndex ==
    ASSUME Ready, CommandFits, IsLeaf(m_trie), NEW t \in CmdTypes,
           AddCmd(ExtId(Command, t))
    PROVE  m_parse_index' = m_parse_index + 2 /\ m_parse_index' <= CmdlineSize
<1>1. Len(IdBytes(ExtId(Command, t))) = 2
  BY CommandLemma, IdsLemma, IdBytesLemma
<1>2. m_parse_index' = m_parse_index + 2
  BY <1>1, PutIndex DEF AddCmd
<1> QED BY <1>2, IndexLemma DEF CommandFits, Available

LEMMA AddReadTestPreserves ==
    ASSUME Ready, CommandFits, IsLeaf(m_trie), NEW t \in CmdTypes, NEW left \in Nat,
           AddReadTest(t, left)
    PROVE  Preserved
<1>1. m_parse_index' <= CmdlineSize
  BY AddCmdIndex DEF AddReadTest
<1>2. m_state' = "ExtendedReadTest" /\ pc' = "ret"
  BY DEF AddReadTest, Goto
<1> QED BY <1>1, <1>2, AwayLemma, AwayStatesLemma

(* The id is written, the first parameter is next. *)
LEMMA WriteAtField ==
    ASSUME Ready, pc = "ret", m_state \in {"Extended", "ExtendedEq"}, CommandFits,
           IsLeaf(m_trie), AddCmd(ExtId(Command, "WRITE")), m_param_index' = 0,
           m_parse_ok_index' = m_parse_ok_index
    PROVE  AtFieldKept /\ m_parse_index' \in Nat /\ m_parse_index' <= CmdlineSize
<1>1. m_parse_index' = m_parse_index + 2 /\ m_parse_index' <= CmdlineSize
  BY AddCmdIndex DEF CmdTypes
<1>2. LInv => m_parse_index = m_parse_ok_index
  BY DEF LInv, CommandStart, BetweenCommands
<1>3. ParamOffset[Command][m_param_index'] = 2
  BY OffsetLemma
<1> QED BY <1>1, <1>2, <1>3, IndexLemma DEF AtFieldKept, AtField

LEMMA ExtendedEndPreserves ==
    ASSUME Ready, pc = "ret", m_state = "Extended", NEW c, NEW left \in Nat,
           ExtendedEnd(c, left)
    PROVE  Preserved
<1>1. CASE Fail(left)
  BY <1>1, FailPreserves
<1>2. CASE FailOn(c, left)
  BY <1>2, FailOnPreserves
<1>3. CASE /\ IsLeaf(m_trie) /\ CommandFits
           /\ AddCmd(ExtId(Command, "WRITE")) /\ m_param_index' = 0
           /\ Finalize(left)
  <2>1. m_parse_ok_index' = m_parse_ok_index /\ m_state \in FillStates
    BY <1>3 DEF Finalize, FillStates
  <2>2. AtFieldKept /\ m_parse_index' \in Nat /\ m_parse_index' <= CmdlineSize
    BY <1>3, <2>1, WriteAtField
  <2> QED BY <1>3, <2>1, <2>2, FinalizePreserves
<1> QED BY <1>1, <1>2, <1>3 DEF ExtendedEnd

(* On through the name, or past it. *)
LEMMA NamePreserves ==
    ASSUME Ready, pc = "ret", m_state = "Extended", NEW left \in Nat,
           NEW state \in {"Extended", "ExtendedEq"}, Goto(state, left),
           UNCHANGED bufVars
    PROVE  Preserved
<1>1. /\ m_state' = state /\ pc' = "ret"
      /\ m_parse_index' = m_parse_index /\ m_parse_ok_index' = m_parse_ok_index
  BY DEF Goto, bufVars
<1>2. LInv => m_parse_index = m_parse_ok_index
  BY DEF LInv, CommandStart, BetweenCommands
<1>3. state \in BetweenCommands
  BY DEF BetweenCommands
<1> QED BY <1>1, <1>2, <1>3, IndexLemma, BetweenLemma

LEMMA StateExtendedPreserves ==
    ASSUME Ready, pc = "ret", NEW c, NEW left \in Nat, StateExtended(c, left)
    PROVE  Preserved
<1>0. m_state = "Extended"
  BY DEF StateExtended
<1>1. CASE Stay(left)
  BY <1>1, StayPreserves
<1>2. CASE Goto("ExtendedEq", left) /\ Keep
  BY <1>0, <1>2, NamePreserves DEF Keep
<1>3. CASE IsLeaf(m_trie) /\ CommandFits /\ AddReadTest("READ", left)
  BY <1>3, AddReadTestPreserves DEF CmdTypes
<1>4. CASE ExtendedEnd(c, left)
  BY <1>0, <1>4, ExtendedEndPreserves
<1>5. CASE Goto("Extended", left) /\ UNCHANGED <<bufVars, paramVars>>
  BY <1>0, <1>5, NamePreserves
<1>6. CASE Fail(left)
  BY <1>6, FailPreserves
<1> QED BY <1>1, <1>2, <1>3, <1>4, <1>5, <1>6 DEF StateExtended

LEMMA StateExtendedEqPreserves ==
    ASSUME Ready, pc = "ret", NEW c, NEW left \in Nat, StateExtendedEq(c, left)
    PROVE  Preserved
<1>1. CASE Stay(left)
  BY <1>1, StayPreserves
<1>2. CASE IsLeaf(m_trie) /\ CommandFits /\ AddReadTest("TEST", left)
  BY <1>2, AddReadTestPreserves DEF CmdTypes
<1>3. CASE Fail(left)
  BY <1>3, FailPreserves
<1>4. CASE /\ IsLeaf(m_trie) /\ CommandFits
           /\ AddCmd(ExtId(Command, "WRITE")) /\ KeepCommit /\ m_param_index' = 0
           /\ SetupParameterParser(left + 1) /\ m_trie' = m_trie
  <2>1. m_state = "ExtendedEq" /\ m_parse_ok_index' = m_parse_ok_index
    BY <1>4 DEF StateExtendedEq, KeepCommit
  <2>2. AtFieldKept /\ m_parse_index' \in Nat /\ m_parse_index' <= CmdlineSize
    BY <1>4, <2>1, WriteAtField
  <2> QED BY <1>4, <2>2, SetupPreserves
<1> QED BY <1>1, <1>2, <1>3, <1>4 DEF StateExtendedEq

(* The command ends where everything written ends. *)
LEMMA CommitPreserves ==
    ASSUME Ready, m_parse_index' = m_parse_index, Commit, NEW left \in Nat,
           Execute(FALSE, left) \/ NextCommand(left)
    PROVE  Preserved
<1>1. CASE Execute(FALSE, left)
  BY <1>1, ExecutePreserves
<1>2. CASE NextCommand(left)
  <2>1. m_state' = "Body" /\ pc' = "ret" /\ m_parse_ok_index' = m_parse_index'
    BY <1>2 DEF NextCommand, Goto, Commit
  <2>2. "Body" \in BetweenCommands
    BY DEF BetweenCommands
  <2> QED BY <2>1, <2>2, IndexLemma, BetweenLemma
<1> QED BY <1>1, <1>2

LEMMA StateExtendedReadTestPreserves ==
    ASSUME Ready, pc = "ret", NEW c, NEW left \in Nat, StateExtendedReadTest(c, left)
    PROVE  Preserved
BY StayPreserves, FailPreserves, CommitPreserves DEF StateExtendedReadTest

-----------------------------------------------------------------------------
(* Parameters. *)

(* The current field, and where the parameter after it goes. *)
LEMMA FieldLemma ==
    ASSUME Ready, IsLeaf(m_trie), m_param_index < Cmd.count
    PROVE  /\ FieldSize(CmdParam) \in Nat
           /\ FieldStart \in Nat
           /\ ParamOffset[Command][m_param_index] \in Nat
           /\ ParamOffset[Command][m_param_index + 1] =
                 ParamOffset[Command][m_param_index] + FieldSize(CmdParam)
           /\ m_parse_ok_index + ParamOffset[Command][m_param_index + 1] =
                 FieldStart + FieldSize(CmdParam)
<1>1. m_param_index \in Nat /\ m_parse_ok_index \in Nat /\ Cmd.count \in Nat
  BY IndexLemma, CommandLemma
<1>2. /\ ParamOffset[Command][m_param_index] \in Nat
      /\ FieldSize(CmdParam) \in Nat
      /\ ParamOffset[Command][m_param_index + 1] =
            ParamOffset[Command][m_param_index] + FieldSize(CmdParam)
  <2>1. m_param_index <= Cmd.count
    BY <1>1
  <2> QED BY <1>1, <2>1, OffsetLemma DEF CmdParam
<1> QED BY <1>1, <1>2 DEF FieldStart

(* A field filled from its start to its end leads to the next one. *)
LEMMA FilledField ==
    ASSUME Ready, IsLeaf(m_trie), m_param_index < Cmd.count,
           m_param_index' = m_param_index + 1, m_parse_ok_index' = m_parse_ok_index,
           AmpersandsNumbered /\ HexStringsRequired /\ LInv =>
              m_parse_index' = FieldStart + FieldSize(CmdParam)
    PROVE  AtFieldKept
BY FieldLemma DEF AtFieldKept, AtField

(* A parameter left out: a hex string stays in hand, any other is filled.  *)
LEMMA DefaultField ==
    ASSUME Ready, IsLeaf(m_trie), m_param_index < Cmd.count,
           AddDefault(CmdParam), m_parse_ok_index' = m_parse_ok_index,
           CmdParam.optional, LInv => m_parse_index = FieldStart
    PROVE  AtFieldKept
<1> DEFINE p == CmdParam
<1>1. /\ m_parse_index \in Nat /\ p.type \in ParamTypes /\ p.default \in Nat
      /\ p.size \in Nat
  BY IndexLemma, ParameterLemma DEF CmdParam
<1>2. CASE p.type \in NumTypes
  <2>1. AddNumericParameter(p.default) /\ FieldSize(p) = 4
    BY <1>2 DEF AddDefault, FieldSize, NumTypes
  <2>2. m_parse_index' = m_parse_index + 4 /\ m_param_index' = m_param_index + 1
    BY <1>1, <2>1, AddNumericIndex
  <2> QED BY <2>1, <2>2, FilledField
<1>3. CASE p.type = "STR"
  <2>1. AddDefaultString(p) /\ FieldSize(p) = p.size
    BY <1>3 DEF AddDefault, FieldSize, NumTypes
  <2>2. m_parse_index' = m_parse_index + p.size /\ m_param_index' = m_param_index + 1
    BY <2>1 DEF AddDefaultString, PutAt
  <2> QED BY <2>1, <2>2, FilledField
<1>4. CASE p.type = "STR_HEX"
  <2>1. Command \in ExtIndices /\ m_param_index \in Params(Command)
    BY CommandLemma, IndexLemma DEF Params, Cmd
  <2>2. ~HexStringsRequired
    BY <1>4, <2>1 DEF HexStringsRequired, CmdParam, Cmd
  <2> QED BY <2>2 DEF AtFieldKept
<1> QED BY <1>1, <1>2, <1>3, <1>4 DEF ParamTypes

(* In a state that awaits a value the parse index is where its field is,   *)
(* and the whole field fits.                                               *)
LEMMA StartLemma ==
    ASSUME Ready, pc = "ret", m_state \in StartStates
    PROVE  /\ LInv => m_parse_index = FieldStart
           /\ Reserved => m_parse_index + FieldSize(CmdParam) <= CmdlineSize
           /\ IsLeaf(m_trie) /\ m_param_index < Cmd.count /\ m_state \in FillStates
<1>1. /\ IsLeaf(m_trie) /\ m_param_index < Cmd.count /\ m_state \in FillStates
      /\ m_state \in ParamStates /\ m_state \notin {"String", "HexString"}
  BY InHandLemma, ParamStatesLemma
<1>2. LInv => m_parse_index = FieldStart
  BY <1>1 DEF LInv, Aligned
<1>3. FieldSize(CmdParam) \in Nat
  BY <1>1, FieldLemma
<1>4. m_state \in NumStates => FieldSize(CmdParam) = 4
  BY DEF Ready, IInv, ParameterInHand, FieldSize, NumTypes
<1>5. m_state \in NumStates \/ m_state \in {"StringStart", "HexStringStart"}
  BY DEF StartStates, NumStates
<1>6. Reserved => CmdlineSize - m_parse_index >= FieldSize(CmdParam)
  BY <1>4, <1>5 DEF Reserved, SpaceReserved, Available
<1> QED BY <1>1, <1>2, <1>3, <1>6, IndexLemma

LEMMA DefaultParameterPreserves ==
    ASSUME Ready, pc = "ret", m_state \in StartStates, NEW c, NEW left \in Nat,
           ProcessDefaultParameter(c, left)
    PROVE  Preserved
<1>1. /\ LInv => m_parse_index = FieldStart
      /\ Reserved => m_parse_index + FieldSize(CmdParam) <= CmdlineSize
      /\ IsLeaf(m_trie) /\ m_param_index < Cmd.count /\ m_state \in FillStates
  BY StartLemma
<1>2. CASE Stay(left)
  BY <1>2, StayPreserves
<1>3. CASE Fail(left)
  BY <1>3, FailPreserves
<1>4. CASE /\ CmdParam.optional /\ AddDefault(CmdParam) /\ SetupParameterParser(left)
           /\ UNCHANGED <<m_parse_ok_index, m_trie>>
  <2>1. /\ m_param_index' \in Nat
        /\ m_parse_index' <= m_parse_index + FieldSize(CmdParam)
        /\ m_parse_index' \in Nat
    BY <1>1, <1>4, AddDefaultLemma DEF KeepCommit, BufferPost
  <2>2. AtFieldKept
    BY <1>1, <1>4, DefaultField
  <2>3. Reserved => m_parse_index' <= CmdlineSize
    BY <1>1, <2>1, IndexLemma, FieldLemma
  <2> QED BY <1>1, <1>4, <2>1, <2>2, <2>3, SetupPreserves
<1>5. CASE Finalize(left) /\ UNCHANGED <<m_cmdline, m_parse_index, paramVars>>
  <2>1. /\ m_parse_index' = m_parse_index /\ m_parse_ok_index' = m_parse_ok_index
        /\ m_param_index' = m_param_index
    BY <1>5 DEF Finalize, paramVars
  <2>2. AtFieldKept
    BY <1>1, <2>1 DEF AtFieldKept, AtField, FieldStart
  <2> QED BY <1>1, <1>5, <2>1, <2>2, IndexLemma, FinalizePreserves
<1> QED BY <1>2, <1>3, <1>4, <1>5 DEF ProcessDefaultParameter

(* Through the digits of a number. *)
LEMMA ProcessDigitPreserves ==
    ASSUME Ready, pc = "ret", NEW type \in NumTypes, NEW n, NEW c, NEW left \in Nat,
           m_state \in NumStates, ProcessDigit(type, n, c, left)
    PROVE  Preserved
<1>1. CASE Fail(left)
  BY <1>1, FailPreserves
<1>2. CASE /\ Goto(NumState[type], left)
           /\ UNCHANGED <<bufVars, m_param_index, m_nibble, m_trie>>
  <2>1. /\ m_state' \in NumStates /\ pc' = "ret"
        /\ UNCHANGED <<m_parse_index, m_parse_ok_index, m_param_index, m_trie>>
    BY <1>2, ParamStatesLemma DEF Goto, bufVars
  <2>2. \A s \in NumStates :
           s \notin {"String", "HexString", "StringStart", "HexStringStart"}
           /\ s \in ParamStates /\ s \notin BetweenCommands
    BY DEF NumStates, ParamStates, BetweenCommands
  <2>3. CmdParam' = CmdParam /\ FieldStart' = FieldStart
    BY <2>1, SameField
  <2>4. LInv => LInv'
    BY <2>1, <2>2, <2>3 DEF LInv, CommandStart, Aligned
  <2>5. CmdlineSize - m_parse_index' = CmdlineSize - m_parse_index
    BY <2>1
  <2>6. Reserved => Reserved'
    BY <2>1, <2>2, <2>5 DEF Reserved, SpaceReserved, Available
  <2> QED BY <2>1, <2>4, <2>6, IndexLemma DEF Preserved, KeepsLayout, KeepsSpace
<1> QED BY <1>1, <1>2 DEF ProcessDigit

LEMMA NumericParameterEndPreserves ==
    ASSUME Ready, pc = "ret", m_state \in NumStates, NEW c, NEW left \in Nat,
           NumericParameterEnd(c, left)
    PROVE  Preserved
<1>1. /\ IsLeaf(m_trie) /\ m_param_index < Cmd.count /\ m_state \in FillStates
      /\ m_state \in ParamStates /\ m_state \notin {"String", "HexString"}
  BY InHandLemma, ParamStatesLemma
<1>2. FieldSize(CmdParam) = 4
  BY DEF Ready, IInv, ParameterInHand, FieldSize, NumTypes
<1>3. LInv => m_parse_index = FieldStart
  BY <1>1 DEF LInv, Aligned
<1>4. CASE Fail(left)
  BY <1>4, FailPreserves
<1>5. CASE Execute(TRUE, left) /\ Keep
  BY <1>5, ExecuteKeepPreserves
<1>6. CASE /\ AddNumericParameter(m_num)
           /\ \/ SetupParameterParser(left) /\ UNCHANGED <<m_parse_ok_index, m_trie>>
              \/ Finalize(left)
  <2>1. /\ m_parse_index' = m_parse_index + 4 /\ m_param_index' = m_param_index + 1
        /\ m_parse_ok_index' = m_parse_ok_index
        /\ m_parse_index' \in Nat /\ m_param_index' \in Nat
    BY <1>6, AddNumericIndex, IndexLemma DEF Finalize
  <2>2. AtFieldKept
    BY <1>1, <1>2, <1>3, <2>1, FilledField
  <2>3. Reserved => m_parse_index' <= CmdlineSize
    BY <2>1, IndexLemma DEF Reserved, SpaceReserved, Available
  <2> QED BY <1>1, <1>6, <2>1, <2>2, <2>3, SetupPreserves, FinalizePreserves
<1> QED BY <1>4, <1>5, <1>6 DEF NumericParameterEnd

LEMMA StateNumPreserves ==
    ASSUME Ready, pc = "ret", NEW t \in NumTypes, NEW c \in Char, NEW left \in Nat,
           StateNumStart(t, c, left) \/ StateNum(t, c, left)
    PROVE  Preserved
<1>1. m_state \in NumStates
  BY ParamStatesLemma DEF StateNumStart, StateNum
<1>2. StateNumStart(t, c, left) => m_state \in StartStates
  BY ParamStatesLemma DEF StateNumStart
<1> QED BY <1>1, <1>2, DefaultParameterPreserves, ProcessDigitPreserves,
           NumericParameterEndPreserves DEF StateNumStart, StateNum

(* What the text states know of their field. *)
LEMMA TextLemma ==
    ASSUME Ready, pc = "ret", m_state \in {"String", "HexString"}
    PROVE  /\ IsLeaf(m_trie) /\ m_param_index < Cmd.count
           /\ CmdParam.size \in Nat /\ FieldStart \in Nat
           /\ m_state = "String" =>
                 CmdParam.type = "STR" /\ FieldSize(CmdParam) = CmdParam.size
           /\ m_state = "HexString" =>
                 CmdParam.type = "STR_HEX" /\ FieldSize(CmdParam) = CmdParam.size + 2
           /\ LInv => m_parse_index = FieldStart + CmdParam.size - m_num
<1>1. m_state \in ParamStates /\ m_state # "StringEnd"
  BY ParamStatesLemma
<1>2. IsLeaf(m_trie) /\ m_param_index < Cmd.count
  BY <1>1, InHandLemma
<1>3. CmdParam.size \in Nat /\ FieldStart \in Nat
  <2>1. m_param_index \in Nat
    BY IndexLemma
  <2>2. CmdParam.size \in Nat
    BY <1>2, <2>1, ParameterLemma DEF CmdParam
  <2>3. FieldStart \in Nat
    BY <1>2, FieldLemma
  <2> QED BY <2>2, <2>3
<1>4. /\ m_state = "String" => CmdParam.type = "STR"
      /\ m_state = "HexString" => CmdParam.type = "STR_HEX"
  BY DEF Ready, IInv, ParameterInHand
<1>5. /\ CmdParam.type = "STR" => FieldSize(CmdParam) = CmdParam.size
      /\ CmdParam.type = "STR_HEX" => FieldSize(CmdParam) = CmdParam.size + 2
  BY DEF FieldSize, NumTypes
<1>6. LInv => m_parse_index = FieldStart + CmdParam.size - m_num
  BY DEF LInv, Aligned
<1> QED BY <1>2, <1>3, <1>4, <1>5, <1>6

LEMMA RoomLemma ==
    \A at, n \in Nat :
       /\ at + n <= CmdlineSize => CmdlineSize - at >= n /\ at <= CmdlineSize
       /\ at + n + 2 <= CmdlineSize => CmdlineSize - at >= n + 2 /\ at <= CmdlineSize
BY CmdlineSizeAssumption

(* Into or through the text of the same parameter. *)
LEMMA QuotedPreserves ==
    ASSUME Ready, NEW state \in {"String", "HexString"}, NEW left \in Nat,
           Goto(state, left), m_trie' = m_trie, m_param_index' = m_param_index,
           m_parse_ok_index' = m_parse_ok_index, m_parse_index' \in Nat,
           LInv => m_parse_index' = FieldStart + CmdParam.size - m_num',
           m_num' \in Nat,
           Reserved => /\ state = "String" =>
                             m_num' > 0 /\ m_parse_index' + m_num' <= CmdlineSize
                       /\ state = "HexString" =>
                             /\ m_parse_index' + m_num' + 2 <= CmdlineSize
                             /\ m_nibble' # NoNibble => m_num' > 0
    PROVE  Preserved
<1>1. m_state' = state /\ pc' = "ret"
  BY DEF Goto
<1>2. CmdParam' = CmdParam /\ FieldStart' = FieldStart
  BY SameField
<1>3. state \notin BetweenCommands /\ state \notin NumStates
      /\ state \notin {"BasicParameter", "StringStart", "HexStringStart"}
  BY DEF BetweenCommands, NumStates
<1>4. KeepsLayout
  BY <1>1, <1>2, <1>3 DEF KeepsLayout, LInv, CommandStart, Aligned
<1>5. CmdlineSize \in Nat /\ Available' = CmdlineSize - m_parse_index'
  BY IndexLemma DEF Available
<1>6. CASE state = "String"
  <2>1. Reserved => m_num' > 0 /\ Available' >= m_num' /\ m_parse_index' <= CmdlineSize
    BY <1>5, <1>6, RoomLemma, Zenon
  <2>2. Reserved => Reserved'
    BY <1>1, <1>3, <1>6, <2>1 DEF Reserved, SpaceReserved
  <2> QED BY <1>4, <2>1, <2>2 DEF Preserved, KeepsSpace
<1>7. CASE state = "HexString"
  <2>1. Reserved => Available' >= m_num' + 2 /\ m_parse_index' <= CmdlineSize
    BY <1>5, <1>7, RoomLemma, Zenon
  <2>2. Reserved => (m_nibble' # NoNibble => m_num' > 0)
    BY <1>7
  <2>3. Reserved => Reserved'
    BY <1>1, <1>3, <1>7, <2>1, <2>2 DEF Reserved, SpaceReserved
  <2> QED BY <1>4, <2>1, <2>3 DEF Preserved, KeepsSpace
<1> QED BY <1>6, <1>7

(* Past the closing quote the next field begins. *)
LEMMA ClosedPreserves ==
    ASSUME Ready, IsLeaf(m_trie), m_param_index < Cmd.count, NEW left \in Nat,
           Goto("StringEnd", left), m_trie' = m_trie,
           m_param_index' = m_param_index + 1, m_parse_ok_index' = m_parse_ok_index,
           LInv => m_parse_index' = FieldStart + FieldSize(CmdParam),
           Reserved => m_parse_index' <= CmdlineSize
    PROVE  Preserved
<1>1. m_state' = "StringEnd" /\ pc' = "ret"
  BY DEF Goto
<1>2. "StringEnd" \notin BetweenCommands /\ "StringEnd" \notin NumStates
  BY DEF BetweenCommands, NumStates
<1>3. FieldStart' = m_parse_ok_index' + ParamOffset[Command][m_param_index']
  BY DEF FieldStart, Command
<1>4. AtFieldKept
  BY FilledField
<1>5. KeepsLayout
  BY <1>1, <1>2, <1>3, <1>4
     DEF KeepsLayout, LInv, CommandStart, Aligned, AtFieldKept, AtField
<1>6. Reserved'
  BY <1>1, <1>2 DEF Reserved, SpaceReserved
<1> QED BY <1>5, <1>6 DEF Preserved, KeepsSpace

LEMMA StateQuotePreserves ==
    ASSUME Ready, pc = "ret", NEW c, NEW left \in Nat,
           StateStringStart(c, left) \/ StateHexStringStart(c, left)
    PROVE  Preserved
<1>1. m_state \in {"StringStart", "HexStringStart"} /\ m_state \in StartStates
  BY DEF StateStringStart, StateHexStringStart, StateQuote, StartStates
<1>2. CASE ProcessDefaultParameter(c, left)
  BY <1>1, <1>2, DefaultParameterPreserves
<1>3. CASE Fail(left)
  BY <1>3, FailPreserves
<1>4. CASE \/ m_state = "StringStart" /\ OpenString("String", left)
           \/ m_state = "HexStringStart" /\ OpenString("HexString", left)
  <2>1. PICK state \in {"String", "HexString"} :
           /\ OpenString(state, left)
           /\ state = "String" => m_state = "StringStart"
           /\ state = "HexString" => m_state = "HexStringStart"
    BY <1>4
  <2>2. /\ m_num' = CmdParam.size /\ m_nibble' = NoNibble /\ Goto(state, left)
        /\ UNCHANGED <<m_parse_index, m_parse_ok_index, m_param_index, m_trie>>
    BY <2>1 DEF OpenString, bufVars
  <2>3. /\ LInv => m_parse_index = FieldStart
        /\ Reserved => m_parse_index + FieldSize(CmdParam) <= CmdlineSize
        /\ IsLeaf(m_trie) /\ m_param_index < Cmd.count
    BY <1>1, StartLemma
  <2>4. /\ state = "String" => CmdParam.type = "STR"
        /\ state = "HexString" => CmdParam.type = "STR_HEX"
    BY <1>4, <2>1 DEF Ready, IInv, ParameterInHand
  <2>5. /\ CmdParam.size \in Nat
        /\ CmdParam.type = "STR" => CmdParam.size > 0
        /\ FieldStart \in Nat
    <3>1. m_param_index \in Nat
      BY IndexLemma
    <3>2. CmdParam.size \in Nat /\ (CmdParam.type = "STR" => CmdParam.size > 0)
      BY <2>3, <3>1, ParameterLemma DEF CmdParam
    <3> QED BY <2>3, <3>2, FieldLemma
  <2>6. /\ CmdParam.type = "STR" => FieldSize(CmdParam) = CmdParam.size
        /\ CmdParam.type = "STR_HEX" => FieldSize(CmdParam) = CmdParam.size + 2
    BY DEF FieldSize, NumTypes
  <2>7. LInv => m_parse_index' = FieldStart + CmdParam.size - m_num'
    BY <2>2, <2>3, <2>5
  <2>8. Reserved => /\ state = "String" =>
                          m_num' > 0 /\ m_parse_index' + m_num' <= CmdlineSize
                    /\ state = "HexString" =>
                          m_parse_index' + m_num' + 2 <= CmdlineSize
    BY <2>2, <2>3, <2>4, <2>5, <2>6, IndexLemma
  <2> QED BY <2>2, <2>5, <2>7, <2>8, IndexLemma, QuotedPreserves
<1> QED BY <1>2, <1>3, <1>4
        DEF StateStringStart, StateHexStringStart, StateQuote

LEMMA StateStringPreserves ==
    ASSUME Ready, pc = "ret", NEW c \in Char, NEW left \in Nat, StateString(c, left)
    PROVE  Preserved
<1>1. m_state = "String"
  BY DEF StateString
<1>2. /\ IsLeaf(m_trie) /\ m_param_index < Cmd.count
      /\ CmdParam.size \in Nat /\ FieldStart \in Nat
      /\ FieldSize(CmdParam) = CmdParam.size
      /\ LInv => m_parse_index = FieldStart + CmdParam.size - m_num
  BY <1>1, TextLemma
<1>3. Reserved => m_parse_index + m_num <= CmdlineSize
  BY <1>1, IndexLemma DEF Reserved, SpaceReserved, Available
<1>4. m_num > 0 /\ m_num \in Nat /\ m_parse_index \in Nat
  BY <1>1, IndexLemma DEF Ready, IInv, RoomInField
<1>5. CASE FinalizeString(m_num) /\ Goto("StringEnd", left)
           /\ UNCHANGED <<m_parse_ok_index, m_trie>>
  <2>1. m_parse_index' = m_parse_index + m_num /\ m_param_index' = m_param_index + 1
    BY <1>5 DEF FinalizeString, PutAt
  <2>2. LInv => m_parse_index' = FieldStart + FieldSize(CmdParam)
    BY <1>2, <1>4, <2>1
  <2> QED BY <1>2, <1>3, <1>5, <2>1, <2>2, ClosedPreserves
<1>6. CASE Fail(left)
  BY <1>6, FailPreserves
<1>7. CASE /\ m_num # 1 /\ Put(<<c>>) /\ m_num' = m_num - 1 /\ Goto("String", left)
           /\ UNCHANGED <<m_parse_ok_index, m_param_index, m_nibble, m_trie>>
  <2>1. m_parse_index' = m_parse_index + 1
    <3>1. Len(<<c>>) = 1
      OBVIOUS
    <3> QED BY <1>7, <3>1, PutIndex
  <2>2. m_num' \in Nat /\ m_num' > 0 /\ m_parse_index' + m_num' = m_parse_index + m_num
    BY <1>4, <1>7, <2>1
  <2>3. LInv => m_parse_index' = FieldStart + CmdParam.size - m_num'
    BY <1>2, <1>4, <1>7, <2>1
  <2> QED BY <1>3, <1>4, <1>7, <2>1, <2>2, <2>3, QuotedPreserves
<1> QED BY <1>5, <1>6, <1>7 DEF StateString

LEMMA HexDigitPreserves ==
    ASSUME Ready, pc = "ret", m_state = "HexString", NEW c \in Char,
           NEW left \in Nat, HexDigit(c, left)
    PROVE  Preserved
<1>1. /\ CmdParam.size \in Nat /\ FieldStart \in Nat
      /\ LInv => m_parse_index = FieldStart + CmdParam.size - m_num
      /\ m_num \in Nat /\ m_parse_index \in Nat
  BY TextLemma, IndexLemma
<1>2. Reserved => m_parse_index + m_num + 2 <= CmdlineSize
  BY <1>1, IndexLemma DEF Reserved, SpaceReserved, Available
<1>3. m_nibble # NoNibble => m_num > 0
  BY DEF Ready, IInv, RoomInField
<1>4. CASE FailOn(c, left) \/ Fail(left)
  BY <1>4, FailOnPreserves, FailPreserves
<1>5. CASE /\ m_num # 0 /\ Goto("HexString", left)
           /\ UNCHANGED <<bufVars, m_param_index, m_num, m_trie>>
  <2>1. UNCHANGED <<m_parse_index, m_parse_ok_index>>
    BY <1>5 DEF bufVars
  <2>2. m_num' = m_num /\ m_num > 0
    BY <1>1, <1>5
  <2>3. /\ LInv => m_parse_index' = FieldStart + CmdParam.size - m_num'
        /\ Reserved => m_parse_index' + m_num' + 2 <= CmdlineSize
    BY <1>1, <1>2, <2>1, <2>2
  <2> QED BY <1>1, <1>5, <2>1, <2>2, <2>3, QuotedPreserves
<1>6. CASE /\ m_nibble # NoNibble /\ Put(<<16 * m_nibble + GetHex(c)>>)
           /\ m_num' = m_num - 1 /\ m_nibble' = NoNibble /\ Goto("HexString", left)
           /\ UNCHANGED <<m_parse_ok_index, m_param_index, m_trie>>
  <2>1. m_parse_index' = m_parse_index + 1
    <3> DEFINE byte == 16 * m_nibble + GetHex(c)
    <3>1. Put(<<byte>>) /\ Len(<<byte>>) = 1
      BY <1>6
    <3> QED BY <3>1, PutIndex
  <2>2. m_num' \in Nat /\ m_parse_index' \in Nat
    BY <1>1, <1>3, <1>6, <2>1
  <2>3. /\ LInv => m_parse_index' = FieldStart + CmdParam.size - m_num'
        /\ Reserved => m_parse_index' + m_num' + 2 <= CmdlineSize
    BY <1>1, <1>2, <1>6, <2>1, IndexLemma
  <2> QED BY <1>6, <2>2, <2>3, QuotedPreserves
<1> QED BY <1>4, <1>5, <1>6 DEF HexDigit

LEMMA StateHexStringPreserves ==
    ASSUME Ready, pc = "ret", NEW c \in Char, NEW left \in Nat, StateHexString(c, left)
    PROVE  Preserved
<1>1. m_state = "HexString"
  BY DEF StateHexString
<1>2. /\ IsLeaf(m_trie) /\ m_param_index < Cmd.count
      /\ CmdParam.size \in Nat /\ FieldStart \in Nat
      /\ FieldSize(CmdParam) = CmdParam.size + 2
      /\ LInv => m_parse_index = FieldStart + CmdParam.size - m_num
      /\ m_num \in Nat /\ m_parse_index \in Nat
  BY <1>1, TextLemma, IndexLemma
<1>3. Reserved => m_parse_index + m_num + 2 <= CmdlineSize
  BY <1>1, <1>2, IndexLemma DEF Reserved, SpaceReserved, Available
<1>4. CASE Stay(left)
  BY <1>4, StayPreserves
<1>5. CASE Fail(left)
  BY <1>5, FailPreserves
<1>6. CASE FinalizeHexString(m_num, CmdParam.size) /\ Goto("StringEnd", left)
           /\ UNCHANGED <<m_parse_ok_index, m_trie>>
  <2>1. m_parse_index' = m_parse_index + (m_num + 2)
        /\ m_param_index' = m_param_index + 1
    BY <1>6 DEF FinalizeHexString, PutAt
  <2>2. /\ LInv => m_parse_index' = FieldStart + FieldSize(CmdParam)
        /\ Reserved => m_parse_index' <= CmdlineSize
    BY <1>2, <1>3, <2>1, IndexLemma
  <2> QED BY <1>2, <1>6, <2>1, <2>2, ClosedPreserves
<1>7. CASE HexDigit(c, left)
  BY <1>1, <1>7, HexDigitPreserves
<1> QED BY <1>4, <1>5, <1>6, <1>7 DEF StateHexString

LEMMA StateStringEndPreserves ==
    ASSUME Ready, pc = "ret", NEW c, NEW left \in Nat, StateStringEnd(c, left)
    PROVE  Preserved
<1>1. m_state = "StringEnd" /\ m_state \in FillStates /\ m_state \in ParamStates
  BY ParamStatesLemma DEF StateStringEnd
<1>2. IsLeaf(m_trie)
  BY <1>1, InHandLemma
<1>3. LInv => m_parse_index = FieldStart
  BY <1>1 DEF LInv, Aligned
<1>4. CASE \/ UNCHANGED <<bufVars, paramVars, m_trie>> /\ SetupParameterParser(left)
           \/ Finalize(left) /\ UNCHANGED <<m_cmdline, m_parse_index, paramVars>>
  <2>1. UNCHANGED <<m_parse_index, m_parse_ok_index, m_param_index>>
    BY <1>4 DEF Finalize, bufVars, paramVars
  <2>2. AtFieldKept
    BY <1>3, <2>1 DEF AtFieldKept, AtField, FieldStart
  <2>3. m_param_index' \in Nat /\ m_parse_index' \in Nat /\ m_parse_index' <= CmdlineSize
    BY <2>1, IndexLemma
  <2> QED BY <1>1, <1>2, <1>4, <2>2, <2>3, SetupPreserves, FinalizePreserves
<1>5. CASE Fail(left)
  BY <1>5, FailPreserves
<1> QED BY <1>4, <1>5 DEF StateStringEnd
-----------------------------------------------------------------------------
(* The steps. *)

LEMMA DispatchPreserves ==
    ASSUME Ready, pc = "ret", NEW c \in Char, NEW left \in Nat, Dispatch(c, left)
    PROVE  Preserved
<1>1. CASE StateA(c, left) \/ StateT(c, left) \/ StateBody(c, left)
  BY <1>1, StateTPreserves, StateBodyPreserves
<1>2. CASE StateS(c, left) \/ StateSSet(c, left)
  BY <1>2, StateSPreserves
<1>3. CASE StateAmpersand(c, left) \/ StateBasicParameter(c, left)
  BY <1>3, StateAmpersandPreserves, StateBasicParameterPreserves
<1>4. CASE \/ StateExtended(c, left) \/ StateExtendedEq(c, left)
           \/ StateExtendedReadTest(c, left)
  BY <1>4, StateExtendedPreserves, StateExtendedEqPreserves,
     StateExtendedReadTestPreserves
<1>5. CASE \E t \in NumTypes : StateNumStart(t, c, left) \/ StateNum(t, c, left)
  BY <1>5, StateNumPreserves
<1>6. CASE StateStringStart(c, left) \/ StateHexStringStart(c, left)
  BY <1>6, StateQuotePreserves
<1>7. CASE \/ StateString(c, left) \/ StateHexString(c, left)
           \/ StateStringEnd(c, left)
  BY <1>7, StateStringPreserves, StateHexStringPreserves, StateStringEndPreserves
<1>8. CASE StateError(c, left) \/ StateExecuting(c, left)
  BY <1>8, FailOnPreserves, StayPreserves DEF StateError, StateExecuting
<1> QED BY <1>1, <1>2, <1>3, <1>4, <1>5, <1>6, <1>7, <1>8 DEF Dispatch

LEMMA FinalizeExtCmdPreserves ==
    ASSUME Ready, FinalizeExtCmd
    PROVE  Preserved /\ m_parse_index' <= CmdlineSize
<1>1. /\ pc = "fill" /\ IsLeaf(m_trie) /\ m_state \in FillStates
      /\ m_param_index \in Nat /\ Cmd.count \in Nat /\ m_param_index <= Cmd.count
      /\ redo \in Nat
  BY CommandLemma, TypedLemma
     DEF FinalizeExtCmd, Ready, IInv, TypeOK, ControlOK, ParameterInHand
<1>2. m_state \notin {"String", "HexString"}
  BY <1>1 DEF FillStates
<1>3. LInv => m_parse_index = FieldStart
  BY <1>1, <1>2 DEF LInv, Aligned
<1>4. CASE m_param_index = Cmd.count
  <2>1. m_parse_index' = m_parse_index /\ Commit
    BY <1>4 DEF FinalizeExtCmd
  <2>2. Execute(FALSE, redo) \/ NextCommand(redo)
    BY <1>4 DEF FinalizeExtCmd
  <2> QED BY <1>1, <2>1, <2>2, IndexLemma, CommitPreserves
<1>5. CASE /\ m_param_index # Cmd.count
           /\ ~CmdParam.optional \/ ParameterOverflows(CmdParam)
  <2>1. Fail(redo) \/ (Execute(TRUE, redo) /\ Keep)
    BY <1>5 DEF FinalizeExtCmd
  <2>2. m_parse_index' = m_parse_index
    BY <2>1 DEF Fail, Keep, bufVars
  <2> QED BY <1>1, <2>1, <2>2, IndexLemma, FailPreserves, ExecuteKeepPreserves
<1>6. CASE /\ m_param_index # Cmd.count
           /\ CmdParam.optional /\ ~ParameterOverflows(CmdParam)
  <2>1. AddDefault(CmdParam) /\ Finalize(redo)
    BY <1>6 DEF FinalizeExtCmd
  <2>2. m_param_index < Cmd.count /\ m_parse_ok_index' = m_parse_ok_index
    BY <1>1, <1>6, <2>1 DEF Finalize
  <2>3. /\ m_parse_index' \in Nat
        /\ m_parse_index' <= m_parse_index + FieldSize(CmdParam)
    BY <1>1, <2>1, <2>2, AddDefaultLemma DEF KeepCommit, BufferPost
  <2>4. m_parse_index + FieldSize(CmdParam) <= CmdlineSize
    BY <1>1, <1>6, <2>2, IndexLemma, FieldLemma DEF ParameterOverflows, Available
  <2>5. m_parse_index' <= CmdlineSize
    BY <1>1, <2>2, <2>3, <2>4, IndexLemma, FieldLemma
  <2>6. AtFieldKept
    BY <1>1, <1>3, <1>6, <2>1, <2>2, DefaultField
  <2> QED BY <1>1, <2>1, <2>3, <2>5, <2>6, FinalizePreserves
<1> QED BY <1>4, <1>5, <1>6

(* A line that runs or ends has no fields in hand. *)
LEMMA ExecutorPreserves ==
    ASSUME Ready, UNCHANGED ParserVars, m_state' \in {"A", "Executing"},
           pc' \in {"ret", "exec"}
    PROVE  Preserved /\ UNCHANGED fault
<1>1. m_parse_index' = m_parse_index /\ fault' = fault
  BY DEF ParserVars, bufVars
<1> QED BY <1>1, IndexLemma, AwayLemma, AwayStatesLemma

LEMMA NextPreserves ==
    ASSUME IInv, Next
    PROVE  Preserved /\ (NoNumbers /\ Reserved /\ fault = "none" => fault' = "none")
<1>1. Ready
  BY DEF Ready, Next, Environment, Internal, Feed, Abort, Update, Idle, Redispatch,
         FinalizeExtCmd, ExecCommand, ExecEnd
<1>2. ASSUME NEW c \in Char, NEW left \in Nat, pc = "ret", Dispatch(c, left)
      PROVE  Preserved /\ (NoNumbers /\ Reserved /\ fault = "none" => fault' = "none")
  <2>1. Preserved
    BY <1>1, <1>2, DispatchPreserves
  <2>2. fault' = IF m_parse_index' > CmdlineSize THEN "overrun" ELSE fault
    BY <1>2 DEF Dispatch
  <2>3. m_parse_index' \in Nat /\ CmdlineSize \in Nat
    BY <1>1, <1>2, DispatchLemma, IndexLemma DEF HandlerPost, BufferPost
  <2>4. NoNumbers /\ Reserved => ~(m_parse_index' > CmdlineSize)
    BY <2>1, <2>3 DEF Preserved, KeepsSpace
  <2> QED BY <2>1, <2>2, <2>4
<1>3. CASE \E c \in Alphabet : Feed(c)
  <2>1. PICK c \in Alphabet : Feed(c)
    BY <1>3
  <2> DEFINE d == IF m_state = "String" THEN c ELSE ToUpper(c)
  <2>2. d \in Char
    BY AlphabetAssumption, ToUpperLemma
  <2>3. Dispatch(d, 0) /\ pc = "ret"
    BY <2>1 DEF Feed, Idle
  <2> HIDE DEF d
  <2> QED BY <1>2, <2>2, <2>3
<1>4. CASE Redispatch
  <2>1. redo > 0 /\ redo \in Nat /\ cur \in Char /\ pc = "ret"
    BY <1>1, <1>4 DEF Redispatch, Ready, IInv, TypeOK, ControlOK
  <2>2. Dispatch(cur, redo - 1) /\ redo - 1 \in Nat
    BY <1>4, <2>1 DEF Redispatch
  <2> QED BY <1>2, <2>1, <2>2
<1>5. CASE FinalizeExtCmd
  <2>1. fault' = fault
    BY <1>5 DEF FinalizeExtCmd
  <2> QED BY <1>1, <1>5, <2>1, FinalizeExtCmdPreserves
<1>6. CASE ExecCommand \/ ExecEnd \/ Abort \/ \E id \in Asynchronous : Update(id)
  <2>1. UNCHANGED ParserVars
    BY <1>6 DEF ExecCommand, ExecEnd, Abort, Update
  <2>2. m_state = "Executing"
    BY <1>1, <1>6 DEF ExecCommand, ExecEnd, Abort, Update, Ready, IInv, ControlOK
  <2>3. pc \in {"ret", "exec"}
    BY <1>6 DEF ExecCommand, ExecEnd, Abort, Update, Idle
  <2>4. m_state' \in {"A", "Executing"} /\ pc' \in {"ret", "exec"}
    BY <1>6, <2>2, <2>3
       DEF ExecCommand, ExecEnd, Abort, Update, HandleResult, Answer
  <2> QED BY <1>1, <2>1, <2>4, ExecutorPreserves
<1> QED BY <1>3, <1>4, <1>5, <1>6 DEF Next, Environment, Internal

LEMMA StutterPreserves ==
    ASSUME UNCHANGED vars
    PROVE  LInv' = LInv /\ Reserved' = Reserved /\ fault' = fault
<1>1. UNCHANGED <<m_parse_index, m_parse_ok_index, m_param_index, m_num, m_nibble,
                  m_trie, m_state, pc, fault>>
  BY DEF vars, serverVars, bufVars, paramVars
<1>2. CmdParam' = CmdParam /\ FieldStart' = FieldStart
  BY <1>1, SameField
<1>3. Available' = Available
  BY <1>1 DEF Available
<1> QED BY <1>1, <1>2, <1>3 DEF LInv, CommandStart, Aligned, Reserved, SpaceReserved
-----------------------------------------------------------------------------
(* The theorems. *)

(* Parser and executor agree on the layout for every table whose ampersand *)
(* commands have numbers and whose hex strings are required: while         *)
(* parameter k of an extended command is read, the parse index is at the   *)
(* offset from which the command's handler reads it.                       *)
THEOREM LayoutAgreed ==
    ASSUME AmpersandsNumbered, HexStringsRequired
    PROVE  Spec => []FieldAligned
<1>1. Init => LInv
  BY DEF Init, CmdlineInit, LInv, CommandStart, Aligned, ParamStates, NumStates,
         StartStates, BetweenCommands
<1>2. IInv /\ LInv /\ [Next]_vars => LInv'
  BY NextPreserves, StutterPreserves DEF Preserved, KeepsLayout
<1>3. LInv => FieldAligned
  BY DEF LInv, Aligned, FieldAligned
<1> QED BY <1>1, <1>2, <1>3, InvariantHolds, PTL DEF Spec

(* No write passes the end of the buffer, whatever its size, for every     *)
(* table without numbered basic and ampersand commands: ids, S parameters  *)
(* and the fields of extended commands are written into space looked at    *)
(* before, also when defaults are filled in.                               *)
THEOREM NothingBehindBuffer ==
    ASSUME NoNumbers
    PROVE  Spec => []WritesFit
<1> DEFINE SInv == fault = "none" /\ Reserved
<1>1. Init => SInv
  BY DEF Init, CmdlineInit, Reserved, SpaceReserved, NumStates
<1>2. IInv /\ SInv /\ [Next]_vars => SInv'
  BY NextPreserves, StutterPreserves DEF Preserved, KeepsSpace
<1>3. IInv /\ SInv => WritesFit
  BY DEF IInv, IndicesOrdered, Reserved, WritesFit, WritesInside
<1> QED BY <1>1, <1>2, <1>3, InvariantHolds, PTL DEF Spec

-----------------------------------------------------------------------------
(* Fields lie one behind the other: no parameter starts behind the end of  *)
(* the last. *)
LEMMA OffsetsAscend ==
    ASSUME NEW c \in ExtIndices, NEW k \in 0 .. ExtCmds[c].count
    PROVE  /\ ParamOffset[c][k] \in Nat
           /\ ParamOffset[c][k] >= 2
           /\ \A j \in k .. ExtCmds[c].count : ParamOffset[c][k] <= ParamOffset[c][j]
<1> DEFINE n == ExtCmds[c].count
           P == ParamOffset[c]
<1>1. n \in Nat /\ P \in [0 .. n -> Nat] /\ P[0] = 2
  BY ExtAssumption, LayoutAssumption
<1>2. ASSUME NEW j \in 0 .. n - 1 PROVE P[j] <= P[j + 1]
  <2>1. j \in Params(c) /\ j + 1 \in 0 .. n /\ j \in 0 .. n
    BY <1>1, <1>2 DEF Params
  <2>2. P[j + 1] = P[j] + FieldSize(ExtCmds[c].params[j])
    BY <2>1, LayoutAssumption
  <2>3. FieldSize(ExtCmds[c].params[j]) \in Nat
    <3>1. PICK p : p = ExtCmds[c].params[j]
      OBVIOUS
    <3>2. p.type \in ParamTypes /\ p.size \in Nat
      BY <2>1, <3>1, ParamAssumption
    <3>3. FieldSize(p) \in Nat
      BY <3>2 DEF FieldSize, ParamTypes, NumTypes
    <3> QED BY <3>1, <3>3
  <2>4. P[j] \in Nat /\ P[j + 1] \in Nat
    BY <1>1, <2>1
  <2> QED BY <2>2, <2>3, <2>4
<1>3. ASSUME NEW lo \in 0 .. n PROVE \A j \in lo .. n : P[lo] <= P[j]
  <2> HIDE DEF n, P
  <2> DEFINE T == {j \in lo .. n : P[lo] <= P[j]}
  <2>1. lo \in Int /\ n \in Int /\ lo \in T
    BY <1>1
  <2>2. ASSUME NEW j \in lo .. n - 1, j \in T PROVE j + 1 \in T
    <3>1. P[lo] \in Nat /\ P[j] \in Nat /\ P[j + 1] \in Nat
      BY <1>1
    <3>2. P[j] <= P[j + 1]
      BY <1>1, <1>2
    <3> QED BY <2>2, <3>1, <3>2, <1>1
  <2>3. lo .. n \subseteq T
    <3> HIDE DEF T
    <3> QED BY <2>1, <2>2, IntervalInduction
  <2> QED BY <2>3
<1>4. P[0] <= P[k]
  BY <1>1, <1>3
<1> QED BY <1>1, <1>3, <1>4

(* The buffer holds any one command. *)
LEMMA CommandsFitBuffer ==
    ASSUME NEW c \in Writable
    PROVE  WriteSize(c) \in Nat /\ WriteSize(c) <= CmdlineSize
<1>1. c \in ExtIndices /\ ExtCmds[c].count \in Nat
  BY ExtAssumption DEF Writable
<1>2. WriteSize(c) \in Nat
  BY <1>1, OffsetsAscend DEF WriteSize
<1>3. PICK r \in {6} \cup {WriteSize(d) : d \in Writable} :
        /\ \A s \in {6} \cup {WriteSize(d) : d \in Writable} : s <= r
        /\ CmdlineSize = r * MaxCommandsPerLine
  BY CmdlineSizeAssumption
<1>4. r \in Nat
  <2>1. ASSUME NEW d \in Writable PROVE WriteSize(d) \in Nat
    <3>1. d \in ExtIndices /\ ExtCmds[d].count \in Nat
      BY ExtAssumption DEF Writable
    <3> QED BY <3>1, OffsetsAscend DEF WriteSize
  <2> QED BY <2>1
<1>5. WriteSize(c) <= r /\ MaxCommandsPerLine \in Nat \ {0}
  BY <1>3, CmdlineSizeAssumption
<1>6. r <= r * MaxCommandsPerLine
  BY <1>4, <1>5
<1> QED BY <1>2, <1>3, <1>4, <1>5, <1>6

LEMMA FirstCommandFits ==
    ASSUME Ready, LInv, pc = "fill", m_parse_ok_index = 0, m_param_index # Cmd.count
    PROVE  ~ParameterOverflows(CmdParam)
<1>1. IsLeaf(m_trie) /\ Cmd.write /\ m_param_index <= Cmd.count /\ m_param_index \in Nat
  BY DEF Ready, IInv, ParameterInHand, TypeOK, CmdlineTypeOK
<1>2. Command \in ExtIndices /\ Cmd.count \in Nat /\ Command \in Writable
  BY <1>1, CommandLemma DEF Cmd, Writable
<1>3. m_param_index \in 0 .. Cmd.count - 1 /\ m_param_index + 1 \in 0 .. Cmd.count
  BY <1>1, <1>2
<1>4. m_parse_index = ParamOffset[Command][m_param_index]
  <2>1. m_state \notin {"String", "HexString"}
    BY DEF Ready, IInv, ControlOK, FillStates
  <2>2. m_parse_index = m_parse_ok_index + ParamOffset[Command][m_param_index]
    BY <2>1 DEF LInv, Aligned, FieldStart
  <2>3. ParamOffset[Command][m_param_index] \in Nat
    BY <1>2, <1>3, OffsetsAscend DEF Cmd
  <2> QED BY <2>2, <2>3
<1>5. ParamOffset[Command][m_param_index + 1] =
         ParamOffset[Command][m_param_index] + FieldSize(CmdParam)
  BY <1>2, <1>3, LayoutAssumption DEF Params, Cmd, CmdParam
<1>6. ParamOffset[Command][m_param_index + 1] <= WriteSize(Command)
  BY <1>2, <1>3, OffsetsAscend DEF WriteSize, Cmd
<1>7. WriteSize(Command) \in Nat /\ WriteSize(Command) <= CmdlineSize
  BY <1>2, CommandsFitBuffer
<1>8. FieldSize(CmdParam) \in Nat
  BY <1>1, <1>2, <1>3, ParameterLemma DEF CmdParam
<1>9. ParamOffset[Command][m_param_index] \in Nat /\ CmdlineSize \in Nat
      /\ ParamOffset[Command][m_param_index + 1] \in Nat
  BY <1>2, <1>3, OffsetsAscend, CmdlineSizeAssumption DEF Cmd
<1> QED BY <1>4, <1>5, <1>6, <1>7, <1>8, <1>9 DEF ParameterOverflows, Available

LEMMA OptionalFilled ==
    ASSUME IInv, LInv, [Next]_vars, pc = "fill", m_parse_ok_index = 0,
           \A k \in Params(Command) : ExtCmds[Command].params[k].optional
    PROVE  m_state' # "Error" /\ (m_state' = "Executing" => ~m_error')
<1>1. m_state \notin {"Error", "Executing"}
  BY DEF IInv, ControlOK, FillStates, ParamStates, NumStates, StartStates
<1>2. CASE UNCHANGED vars
  BY <1>1, <1>2 DEF vars, serverVars
<1>3. CASE FinalizeExtCmd
  <2>1. Ready
    BY <1>3 DEF FinalizeExtCmd, Ready
  <2>2. CASE m_param_index = Cmd.count
    BY <1>3, <2>2 DEF FinalizeExtCmd, Execute, StartCmdExec, NextCommand, Goto
  <2>3. CASE m_param_index # Cmd.count
    <3>1. IsLeaf(m_trie) /\ m_param_index <= Cmd.count /\ m_param_index \in Nat
      BY DEF IInv, ParameterInHand, TypeOK, CmdlineTypeOK
    <3>2. m_param_index \in Params(Command)
      BY <2>3, <3>1, CommandLemma DEF Params, Cmd
    <3>3. CmdParam.optional /\ ~ParameterOverflows(CmdParam)
      BY <2>1, <2>3, <3>2, FirstCommandFits DEF CmdParam, Cmd
    <3>4. Finalize(redo)
      BY <1>3, <2>3, <3>3 DEF FinalizeExtCmd
    <3> QED BY <1>1, <3>4 DEF Finalize
  <2> QED BY <2>2, <2>3
<1>4. Next => FinalizeExtCmd
  BY DEF Next, Environment, Internal, Feed, Abort, Update, Idle, Redispatch,
         ExecCommand, ExecEnd
<1> QED BY <1>2, <1>3, <1>4

(* Parameters that may be left out can be left out: when every parameter   *)
(* of a line's first command is optional, filling in defaults neither      *)
(* fails for room nor spoils the line, whatever the buffer was sized for.  *)
THEOREM OptionalParametersOmitted ==
    ASSUME AmpersandsNumbered, HexStringsRequired
    PROVE  Spec => OptionalParametersMayBeOmitted
<1> DEFINE Omit == pc = "fill" /\ m_parse_ok_index = 0
                     /\ (\A k \in Params(Command) : ExtCmds[Command].params[k].optional)
                   => m_state' # "Error" /\ (m_state' = "Executing" => ~m_error')
<1>1. Init => LInv
  BY DEF Init, CmdlineInit, LInv, CommandStart, Aligned, ParamStates, NumStates,
         StartStates, BetweenCommands
<1>2. IInv /\ LInv /\ [Next]_vars => LInv'
  BY NextPreserves, StutterPreserves DEF Preserved, KeepsLayout
<1>3. IInv /\ LInv /\ [Next]_vars => [Omit]_vars
  BY OptionalFilled
<1>4. OptionalParametersMayBeOmitted <=> [][Omit]_vars
  BY DEF OptionalParametersMayBeOmitted
<1> QED BY <1>1, <1>2, <1>3, <1>4, InvariantHolds, PTL DEF Spec
-----------------------------------------------------------------------------
(* The line goes on. *)
GoesOn == /\ m_state' \notin {"A", "T", "Executing"} /\ pc' # "exec"
          /\ UNCHANGED execVars
          /\ m_state = "Error" => m_state' = "Error"

(* The line is run; all of it, if it is run without an error. *)
Ended == /\ m_state' = "Executing" /\ pc' = "exec"
         /\ reply' = NoReply /\ m_last_result_code' = "OK" /\ m_error' \in BOOLEAN
         /\ m_state = "Error" => m_error'
         /\ CommandStart /\ ~m_error' => m_parse_ok_index' = m_parse_index'

StepPost == GoesOn \/ Ended
-----------------------------------------------------------------------------
(* The ways a handler ends. *)

LEMMA GotoStep ==
    ASSUME NEW state, state \notin {"A", "T", "Executing"}, NEW n, Goto(state, n),
           m_state # "Error" \/ state = "Error"
    PROVE  StepPost
BY DEF Goto, StepPost, GoesOn

LEMMA FailStep ==
    ASSUME NEW n, Fail(n)
    PROVE  StepPost
BY GotoStep DEF Fail

LEMMA StayStep ==
    ASSUME NEW n, Stay(n), m_state \notin {"A", "T", "Executing", "Error"}
    PROVE  StepPost
BY GotoStep DEF Stay

LEMMA ExecuteStep ==
    ASSUME NEW error \in BOOLEAN, NEW n, Execute(error, n),
           \/ error = TRUE
           \/ m_state # "Error" /\ (CommandStart => m_parse_ok_index' = m_parse_index')
    PROVE  StepPost
<1>1. /\ m_state' = "Executing" /\ pc' = "exec" /\ reply' = NoReply
      /\ m_last_result_code' = "OK" /\ m_error' = error
  BY DEF Execute, StartCmdExec
<1>2. CASE error = TRUE
  BY <1>1, <1>2 DEF StepPost, Ended
<1>3. CASE error = FALSE
  BY <1>1, <1>3 DEF StepPost, Ended
<1>4. error = TRUE \/ error = FALSE
  OBVIOUS
<1> QED BY <1>2, <1>3, <1>4

LEMMA ExecuteErrorStep ==
    ASSUME NEW n, Execute(TRUE, n)
    PROVE  StepPost
BY ExecuteStep

LEMMA FailOnStep ==
    ASSUME NEW c, NEW n, FailOn(c, n)
    PROVE  StepPost
BY FailStep, ExecuteErrorStep DEF FailOn

LEMMA FinalizeStep ==
    ASSUME NEW n, Finalize(n), m_state \notin {"A", "T", "Executing", "Error"}
    PROVE  StepPost
BY DEF Finalize, StepPost, GoesOn

LEMMA SetupStep ==
    ASSUME IsLeaf(m_trie), m_trie' = m_trie, m_param_index' \in Nat, NEW n,
           SetupParameterParser(n), m_state # "Error"
    PROVE  StepPost
<1>1. m_state' \in StartStates \cup {"Error"} /\ Goto(m_state', n)
  BY SetupState
<1>2. PICK state : state = m_state'
  OBVIOUS
<1>3. state \notin {"A", "T", "Executing"}
  BY <1>1, <1>2 DEF StartStates
<1> QED BY <1>1, <1>2, <1>3, GotoStep

(* Parameter states are states of a line being entered. *)
LEMMA EntryStates ==
    ASSUME NEW s \in ParamStates
    PROVE  s \notin {"A", "T", "Executing", "Error"}
BY DEF ParamStates, NumStates, StartStates
-----------------------------------------------------------------------------
(* The handlers. *)

LEMMA BodyStep ==
    ASSUME Ready, pc = "ret", NEW c, NEW left, StateBody(c, left)
    PROVE  StepPost
<1>0. m_state = "Body" /\ m_state \in BetweenCommands
  BY DEF StateBody, BetweenCommands
<1>1. CASE Stay(left)
  BY <1>0, <1>1, StayStep
<1>2. CASE BodyLetter(c, left)
  <2> DEFINE i == CmdIndex(BasicCmds, c)
  <2>1. \/ Goto("S", left) \/ Fail(left)
        \/ AddBasicCommand(BasicCmds[i], 1 + i, i, TRUE, left)
    BY <1>2 DEF BodyLetter
  <2>2. Goto("S", left) \/ Fail(left) \/ Goto("Body", left) \/ Goto("BasicParameter", left)
    BY <2>1 DEF AddBasicCommand
  <2> QED BY <1>0, <2>2, GotoStep, FailStep
<1>3. CASE Goto("Extended", left) \/ Goto("Error", left) \/ Goto("Ampersand", left)
  BY <1>0, <1>3, GotoStep
<1>4. CASE Execute(FALSE, left) /\ Keep
  <2>1. CommandStart => m_parse_ok_index' = m_parse_index'
    BY <1>0, <1>4 DEF CommandStart, Keep, bufVars
  <2> QED BY <1>0, <1>4, <2>1, ExecuteStep
<1>5. CASE Fail(left)
  BY <1>5, FailStep
<1> QED BY <1>1, <1>2, <1>3, <1>4, <1>5 DEF StateBody

LEMMA SStep ==
    ASSUME Ready, NEW c, NEW left, StateS(c, left) \/ StateSSet(c, left)
    PROVE  StepPost
<1>0. m_state \in {"S", "SSet"}
  BY DEF StateS, StateSSet
<1>1. CASE Stay(left)
  BY <1>0, <1>1, StayStep
<1>2. CASE SRequest(c, left)
  <2> DEFINE supported == m_num \in {3, 4}
             id   == IF supported THEN IdBytes(BasicId(0)) ELSE <<>>
  <2>1. Len(id) \in Nat
    BY IdsLemma, IdBytesLemma, SizesAssumption
  <2>2. \/ supported /\ ~CommandFits
        \/ (supported => CommandFits) /\ Available < Len(id) + 1
        \/ Available >= Len(id) + 1
    BY <2>1, IndexLemma DEF Available
  <2>3. Fail(left) \/ Goto("Error", left) \/ Goto("SSet", left) \/ Goto("Body", left)
    BY <1>2, <2>2 DEF SRequest
  <2> QED BY <1>0, <2>3, FailStep, GotoStep
<1>3. CASE \E n : NextDigit(n, left)
  <2>1. Goto(m_state, left)
    BY <1>3 DEF NextDigit
  <2> QED BY <1>0, <2>1, GotoStep
<1>4. CASE FailOn(c, left) \/ Fail(left + 1)
  BY <1>4, FailOnStep, FailStep
<1>5. CASE Goto("Body", left + 1)
  BY <1>0, <1>5, GotoStep
<1> QED BY <1>1, <1>2, <1>3, <1>4, <1>5 DEF StateS, StateSSet

LEMMA AmpersandStep ==
    ASSUME NEW c, NEW left, StateAmpersand(c, left)
    PROVE  StepPost
<1> DEFINE i == CmdIndex(AmpCmds, c)
           n == 1 + NBasic + i
<1>0. m_state = "Ampersand"
  BY DEF StateAmpersand
<1>1. Stay(left) \/ Fail(left) \/ AddBasicCommand(AmpCmds[i], n, n, FALSE, left)
  BY DEF StateAmpersand
<1>2. Stay(left) \/ Fail(left) \/ Goto("Body", left) \/ Goto("BasicParameter", left)
  BY <1>1 DEF AddBasicCommand
<1> QED BY <1>0, <1>2, StayStep, FailStep, GotoStep

LEMMA BasicParameterStep ==
    ASSUME NEW c, NEW left, StateBasicParameter(c, left)
    PROVE  StepPost
<1>0. m_state = "BasicParameter"
  BY DEF StateBasicParameter
<1>1. \/ Stay(left) \/ Goto(m_state, left) \/ Fail(left) \/ Goto("Body", left + 2)
      \/ Fail(left + 1)
  BY DEF StateBasicParameter, NextDigit
<1> QED BY <1>0, <1>1, StayStep, FailStep, GotoStep

LEMMA ExtendedStep ==
    ASSUME NEW c, NEW left, StateExtended(c, left)
    PROVE  StepPost
<1>0. m_state = "Extended"
  BY DEF StateExtended
<1>1. CASE ExtendedEnd(c, left)
  <2>1. Fail(left) \/ FailOn(c, left) \/ Finalize(left)
    <3>1. CASE ~IsLeaf(m_trie)
      BY <1>1, <3>1 DEF ExtendedEnd
    <3>2. CASE IsLeaf(m_trie) /\ ~Cmd.write
      BY <1>1, <3>2 DEF ExtendedEnd
    <3>3. CASE IsLeaf(m_trie) /\ Cmd.write /\ ~CommandFits
      BY <1>1, <3>3 DEF ExtendedEnd
    <3>4. CASE IsLeaf(m_trie) /\ Cmd.write /\ CommandFits
      BY <1>1, <3>4 DEF ExtendedEnd
    <3> QED BY <3>1, <3>2, <3>3, <3>4
  <2> QED BY <1>0, <2>1, FailStep, FailOnStep, FinalizeStep
<1>2. CASE ~ExtendedEnd(c, left)
  <2>1. \/ Stay(left) \/ Fail(left) \/ AddReadTest("READ", left)
        \/ Goto("ExtendedEq", left) \/ Goto("Extended", left)
    BY <1>2 DEF StateExtended
  <2>2. \/ Stay(left) \/ Fail(left) \/ Goto("ExtendedReadTest", left)
        \/ Goto("ExtendedEq", left) \/ Goto("Extended", left)
    BY <2>1 DEF AddReadTest
  <2> QED BY <1>0, <2>2, StayStep, FailStep, GotoStep
<1> QED BY <1>1, <1>2

LEMMA ExtendedEqStep ==
    ASSUME NEW c, NEW left, StateExtendedEq(c, left)
    PROVE  StepPost
<1>0. m_state = "ExtendedEq"
  BY DEF StateExtendedEq
<1>1. \/ Stay(left) \/ Fail(left) \/ AddReadTest("TEST", left)
      \/ /\ IsLeaf(m_trie) /\ m_trie' = m_trie /\ m_param_index' = 0
         /\ SetupParameterParser(left + 1)
  BY DEF StateExtendedEq
<1>2. CASE Stay(left) \/ Fail(left)
  BY <1>0, <1>2, StayStep, FailStep
<1>3. CASE AddReadTest("TEST", left)
  <2>1. Goto("ExtendedReadTest", left)
    BY <1>3 DEF AddReadTest
  <2> QED BY <1>0, <2>1, GotoStep
<1>4. CASE /\ IsLeaf(m_trie) /\ m_trie' = m_trie /\ m_param_index' = 0
           /\ SetupParameterParser(left + 1)
  BY <1>0, <1>4, SetupStep
<1> QED BY <1>1, <1>2, <1>3, <1>4

(* The line is complete, and run or continued. *)
LEMMA CommitStep ==
    ASSUME Commit, NEW n, m_state # "Error", Execute(FALSE, n) \/ NextCommand(n)
    PROVE  StepPost
BY ExecuteStep, GotoStep DEF Commit, NextCommand

LEMMA ExtendedReadTestStep ==
    ASSUME NEW c, NEW left, StateExtendedReadTest(c, left)
    PROVE  StepPost
<1>0. m_state = "ExtendedReadTest"
  BY DEF StateExtendedReadTest
<1>1. \/ Stay(left) \/ Fail(left)
      \/ Commit /\ (Execute(FALSE, left) \/ NextCommand(left))
  BY DEF StateExtendedReadTest
<1> QED BY <1>0, <1>1, StayStep, FailStep, CommitStep
-----------------------------------------------------------------------------
(* The parameters. *)

LEMMA DefaultParameterStep ==
    ASSUME Ready, pc = "ret", m_state \in StartStates, NEW c, NEW left,
           ProcessDefaultParameter(c, left)
    PROVE  StepPost
<1>0. m_state \in ParamStates /\ m_state # "StringEnd" /\ m_state \notin {"A", "T", "Executing", "Error"}
  BY EntryStates DEF StartStates, ParamStates
<1>1. IsLeaf(m_trie) /\ m_param_index < Cmd.count
  BY <1>0, InHandLemma
<1>2. CASE Stay(left) \/ Fail(left) \/ Finalize(left)
  BY <1>0, <1>2, StayStep, FailStep, FinalizeStep
<1>3. CASE /\ AddDefault(CmdParam) /\ SetupParameterParser(left)
           /\ UNCHANGED <<m_parse_ok_index, m_trie>>
  <2>1. m_param_index' \in Nat
    BY <1>1, <1>3, AddDefaultLemma DEF KeepCommit
  <2> QED BY <1>0, <1>1, <1>3, <2>1, SetupStep
<1> QED BY <1>2, <1>3 DEF ProcessDefaultParameter

LEMMA NumStep ==
    ASSUME Ready, pc = "ret", NEW t \in NumTypes, NEW c, NEW left,
           StateNumStart(t, c, left) \/ StateNum(t, c, left)
    PROVE  StepPost
<1>1. m_state \in NumStates /\ m_state \in ParamStates
  BY ParamStatesLemma DEF StateNumStart, StateNum
<1>2. m_state \notin {"A", "T", "Executing", "Error"}
  BY <1>1, EntryStates
<1>3. ASSUME NEW n, ProcessDigit(t, n, c, left)
      PROVE  StepPost
  <2>1. Goto(NumState[t], left) \/ Fail(left)
    BY <1>3 DEF ProcessDigit
  <2>2. NumState[t] \notin {"A", "T", "Executing"}
    BY DEF NumState, NumTypes
  <2> QED BY <1>2, <2>1, <2>2, GotoStep, FailStep
<1>4. CASE NumericParameterEnd(c, left)
  <2>1. IsLeaf(m_trie) /\ m_param_index \in Nat
    BY <1>1, InHandLemma
  <2>2. CASE Fail(left) \/ Execute(TRUE, left) \/ Finalize(left)
    BY <1>2, <2>2, FailStep, ExecuteErrorStep, FinalizeStep
  <2>3. CASE /\ AddNumericParameter(m_num) /\ SetupParameterParser(left)
             /\ UNCHANGED <<m_parse_ok_index, m_trie>>
    <3>1. m_param_index' \in Nat
      BY <2>1, <2>3 DEF AddNumericParameter
    <3> QED BY <1>2, <2>1, <2>3, <3>1, SetupStep
  <2> QED BY <1>4, <2>2, <2>3 DEF NumericParameterEnd
<1>5. CASE StateNumStart(t, c, left)
  <2>1. m_state \in StartStates
    BY <1>5, ParamStatesLemma DEF StateNumStart
  <2> QED BY <1>3, <1>5, <2>1, DefaultParameterStep DEF StateNumStart
<1> QED BY <1>3, <1>4, <1>5 DEF StateNum

LEMMA QuoteStep ==
    ASSUME Ready, pc = "ret", NEW c, NEW left,
           StateStringStart(c, left) \/ StateHexStringStart(c, left)
    PROVE  StepPost
<1>1. m_state \in StartStates /\ m_state # "Error"
  BY DEF StateStringStart, StateHexStringStart, StateQuote, StartStates
<1>2. \/ ProcessDefaultParameter(c, left) \/ Fail(left)
      \/ Goto("String", left) \/ Goto("HexString", left)
  BY DEF StateStringStart, StateHexStringStart, StateQuote, OpenString
<1> QED BY <1>1, <1>2, DefaultParameterStep, FailStep, GotoStep

LEMMA StringStep ==
    ASSUME NEW c, NEW left, StateString(c, left)
    PROVE  StepPost
<1>1. m_state = "String"
  BY DEF StateString
<1>2. Goto("StringEnd", left) \/ Fail(left) \/ Goto("String", left)
  BY DEF StateString
<1> QED BY <1>1, <1>2, FailStep, GotoStep

LEMMA HexStringStep ==
    ASSUME NEW c, NEW left, StateHexString(c, left)
    PROVE  StepPost
<1>1. m_state = "HexString"
  BY DEF StateHexString
<1>2. \/ Stay(left) \/ Goto("StringEnd", left) \/ Fail(left) \/ HexDigit(c, left)
  BY DEF StateHexString
<1>3. CASE HexDigit(c, left)
  <2>1. CASE GetHex(c) = -1
    <3>1. FailOn(c, left)
      BY <1>3, <2>1 DEF HexDigit
    <3> QED BY <3>1, FailOnStep
  <2>2. CASE GetHex(c) # -1
    <3>1. Fail(left) \/ Goto("HexString", left)
      <4>1. CASE m_nibble = NoNibble
        BY <1>3, <2>2, <4>1 DEF HexDigit
      <4>2. CASE m_nibble # NoNibble
        BY <1>3, <2>2, <4>2 DEF HexDigit
      <4> QED BY <4>1, <4>2
    <3> QED BY <1>1, <3>1, FailStep, GotoStep
  <2> QED BY <2>1, <2>2
<1> QED BY <1>1, <1>2, <1>3, StayStep, FailStep, GotoStep

LEMMA StringEndStep ==
    ASSUME Ready, pc = "ret", NEW c, NEW left, StateStringEnd(c, left)
    PROVE  StepPost
<1>1. m_state = "StringEnd" /\ m_state \in ParamStates
  BY ParamStatesLemma DEF StateStringEnd
<1>2. IsLeaf(m_trie) /\ m_param_index \in Nat
  BY <1>1, InHandLemma
<1>3. CASE Finalize(left) \/ Fail(left)
  BY <1>1, <1>3, FinalizeStep, FailStep
<1>4. CASE UNCHANGED <<bufVars, paramVars, m_trie>> /\ SetupParameterParser(left)
  <2>1. m_param_index' \in Nat /\ m_trie' = m_trie
    BY <1>2, <1>4 DEF paramVars
  <2> QED BY <1>1, <1>2, <1>4, <2>1, SetupStep
<1> QED BY <1>3, <1>4 DEF StateStringEnd
-----------------------------------------------------------------------------
(* Steps. *)

(* A character while a line is entered. *)
LEMMA EntryStep ==
    ASSUME Ready, pc = "ret", NEW c, NEW left, Dispatch(c, left),
           m_state \notin {"A", "T", "Executing"}
    PROVE  StepPost
<1>1. CASE StateBody(c, left) \/ StateS(c, left) \/ StateSSet(c, left)
  BY <1>1, BodyStep, SStep
<1>2. CASE StateAmpersand(c, left) \/ StateBasicParameter(c, left)
  BY <1>2, AmpersandStep, BasicParameterStep
<1>3. CASE \/ StateExtended(c, left) \/ StateExtendedEq(c, left)
           \/ StateExtendedReadTest(c, left)
  BY <1>3, ExtendedStep, ExtendedEqStep, ExtendedReadTestStep
<1>4. CASE \E t \in NumTypes : StateNumStart(t, c, left) \/ StateNum(t, c, left)
  BY <1>4, NumStep
<1>5. CASE StateStringStart(c, left) \/ StateHexStringStart(c, left)
  BY <1>5, QuoteStep
<1>6. CASE \/ StateString(c, left) \/ StateHexString(c, left)
           \/ StateStringEnd(c, left)
  BY <1>6, StringStep, HexStringStep, StringEndStep
<1>7. CASE StateError(c, left)
  BY <1>7, FailOnStep DEF StateError
<1>8. ~StateA(c, left) /\ ~StateT(c, left) /\ ~StateExecuting(c, left)
  BY DEF StateA, StateT, StateExecuting
<1> QED BY <1>1, <1>2, <1>3, <1>4, <1>5, <1>6, <1>7, <1>8 DEF Dispatch

LEMMA FillStep ==
    ASSUME Ready, FinalizeExtCmd
    PROVE  StepPost /\ m_state \notin {"A", "T", "Executing"}
<1>1. m_state \in FillStates
  BY DEF FinalizeExtCmd, Ready, IInv, ControlOK
<1>2. m_state \notin {"A", "T", "Executing", "Error"}
  BY <1>1, EntryStates DEF FillStates
<1>3. \/ Commit /\ (Execute(FALSE, redo) \/ NextCommand(redo))
      \/ Fail(redo) \/ Execute(TRUE, redo) \/ Finalize(redo)
  BY DEF FinalizeExtCmd
<1> QED BY <1>2, <1>3, CommitStep, FailStep, ExecuteErrorStep, FinalizeStep
-----------------------------------------------------------------------------
(* The refinement. *)

SessionStep == [Session!SessionNext]_(Session!sessionVars)

(* What the client sees of a state. *)
LEMMA SeenEntry ==
    ASSUME m_state \notin {"A", "T", "Executing"}, pc # "exec"
    PROVE  /\ SessionPhase = "entry"
           /\ m_state = "Error" => SessionFailed = TRUE
           /\ m_state # "Error" => SessionFailed = FALSE
BY DEF SessionPhase, SessionFailed

LEMMA SeenIdle ==
    ASSUME m_state \in {"A", "T"}, pc # "exec"
    PROVE  SessionPhase = "idle" /\ SessionFailed = FALSE
BY DEF SessionPhase, SessionFailed

LEMMA SeenExecuting ==
    ASSUME m_state = "Executing", m_error \in BOOLEAN
    PROVE  /\ pc = "exec" => SessionPhase = "run"
           /\ pc # "exec" => SessionPhase = "wait"
           /\ SessionFailed = m_error
BY DEF SessionPhase, SessionFailed

LEMMA EntryRefines ==
    ASSUME m_state \notin {"A", "T", "Executing"}, pc # "exec", StepPost
    PROVE  SessionStep
<1>1. /\ SessionPhase = "entry"
      /\ m_state = "Error" => SessionFailed = TRUE
      /\ m_state # "Error" => SessionFailed = FALSE
  BY SeenEntry
<1>2. CASE GoesOn
  <2>1. reply' = reply
    BY <1>2 DEF GoesOn, execVars
  <2>2. /\ SessionPhase' = "entry"
        /\ m_state' = "Error" => SessionFailed' = TRUE
        /\ m_state' # "Error" => SessionFailed' = FALSE
    BY <1>2 DEF GoesOn, SessionPhase, SessionFailed
  <2>3. CASE m_state' = "Error"
    <3>1. Session!Spoil
      BY <1>1, <2>1, <2>2, <2>3 DEF Session!Spoil
    <3> QED BY <3>1 DEF SessionStep, Session!SessionNext
  <2>4. CASE m_state' # "Error"
    <3>1. m_state # "Error"
      BY <1>2, <2>4 DEF GoesOn
    <3>2. UNCHANGED Session!sessionVars
      BY <1>1, <2>1, <2>2, <2>4, <3>1 DEF Session!sessionVars
    <3> QED BY <3>2 DEF SessionStep
  <2> QED BY <2>3, <2>4
<1>3. CASE Ended
  <2>1. SessionPhase' = "run" /\ reply' = NoReply
    BY <1>3 DEF Ended, SessionPhase
  <2>2. SessionFailed' \in {TRUE, FALSE} /\ (m_state = "Error" => SessionFailed' = TRUE)
    BY <1>3 DEF Ended, SessionFailed
  <2>3. SessionFailed' \in {SessionFailed, TRUE}
    BY <1>1, <2>2
  <2>4. Session!Submit
    BY <1>1, <2>1, <2>3 DEF Session!Submit
  <2> QED BY <2>4 DEF SessionStep, Session!SessionNext
<1> QED BY <1>2, <1>3 DEF StepPost

(* Between lines, and while one waits. *)
LEMMA DispatchRefines ==
    ASSUME Ready, pc = "ret", NEW c, NEW left, Dispatch(c, left)
    PROVE  SessionStep
<1>1. CASE m_state \notin {"A", "T", "Executing"}
  BY <1>1, EntryStep, EntryRefines
<1>2. CASE m_state \in {"A", "T"}
  <2>1. StateA(c, left) \/ StateT(c, left)
    BY <1>2, ParamStatesLemma
       DEF Dispatch, StateBody, StateS, StateSSet, StateAmpersand, StateBasicParameter,
           StateExtended, StateExtendedEq, StateExtendedReadTest, StateNumStart, StateNum,
           StateStringStart, StateHexStringStart, StateQuote, StateString, StateHexString,
           StateStringEnd, StateError, StateExecuting, NumStates
  <2>2. SessionPhase = "idle" /\ SessionFailed = FALSE
    BY <1>2, SeenIdle
  <2>3. CASE Goto("A", left) \/ Goto("T", left)
    <3>1. m_state' \in {"A", "T"} /\ pc' = "ret" /\ reply' = reply
      BY <2>3 DEF Goto, execVars
    <3>2. SessionPhase' = "idle" /\ SessionFailed' = FALSE
      BY <3>1 DEF SessionPhase, SessionFailed
    <3>3. UNCHANGED Session!sessionVars
      BY <2>2, <3>1, <3>2 DEF Session!sessionVars
    <3> QED BY <3>3 DEF SessionStep
  <2>4. CASE Goto("Body", left)
    <3>1. m_state' = "Body" /\ pc' = "ret" /\ reply' = reply
      BY <2>4 DEF Goto, execVars
    <3>2. SessionPhase' = "entry" /\ SessionFailed' = FALSE
      BY <3>1 DEF SessionPhase, SessionFailed
    <3>3. Session!Open
      BY <2>2, <3>1, <3>2 DEF Session!Open
    <3> QED BY <3>3 DEF SessionStep, Session!SessionNext
  <2>5. CASE Execute(FALSE, left)
    <3>1. m_state' = "Executing" /\ pc' = "exec" /\ reply' = NoReply /\ m_error' = FALSE
      BY <2>5 DEF Execute, StartCmdExec
    <3>2. SessionPhase' = "run" /\ SessionFailed' = FALSE
      BY <3>1 DEF SessionPhase, SessionFailed
    <3>3. Session!Repeat
      BY <2>2, <3>1, <3>2 DEF Session!Repeat
    <3> QED BY <3>3 DEF SessionStep, Session!SessionNext
  <2>6. CASE Stay(left)
    <3>1. Goto("A", left) \/ Goto("T", left)
      BY <1>2, <2>6 DEF Stay
    <3> QED BY <2>3, <3>1
  <2> QED BY <2>1, <2>3, <2>4, <2>5, <2>6 DEF StateA, StateT
<1>3. CASE m_state = "Executing"
  <2>1. StateExecuting(c, left)
    BY <1>3, ParamStatesLemma
       DEF Dispatch, StateA, StateT, StateBody, StateS, StateSSet, StateAmpersand,
           StateBasicParameter, StateExtended, StateExtendedEq, StateExtendedReadTest,
           StateNumStart, StateNum, StateStringStart, StateHexStringStart, StateQuote,
           StateString, StateHexString, StateStringEnd, StateError, NumStates
  <2>2. m_state' = m_state /\ pc' = pc /\ UNCHANGED execVars
    BY <2>1 DEF StateExecuting, Stay, Goto
  <2>3. UNCHANGED Session!sessionVars
    BY <2>2 DEF Session!sessionVars, SessionPhase, SessionFailed, execVars
  <2> QED BY <2>3 DEF SessionStep
<1> QED BY <1>1, <1>2, <1>3

(* The line is answered. *)
LEMMA AnswerSeen ==
    ASSUME NEW code, Answer(code)
    PROVE  SessionPhase' = "idle" /\ SessionFailed' = FALSE /\ reply' = code
BY DEF Answer, SessionPhase, SessionFailed

Resumed == pc = "exec" /\ m_exec_index = m_parse_ok_index => m_last_result_code # "ASYNC"

LEMMA ResultRefines ==
    ASSUME m_state = "Executing", pc = "exec", m_error \in BOOLEAN,
           NEW code \in ResultCodes, NEW next, HandleResult(code, next)
    PROVE  SessionStep /\ Resumed'
<1>1. SessionPhase = "run" /\ SessionFailed = m_error
  BY SeenExecuting
<1>2. CASE code = "ASYNC"
  <2>1. pc' = "ret" /\ UNCHANGED <<m_state, m_error, reply>>
    BY <1>2 DEF HandleResult
  <2>2. SessionPhase' = "wait" /\ SessionFailed' = SessionFailed
    BY <2>1 DEF SessionPhase, SessionFailed
  <2>3. Session!Suspend
    BY <1>1, <2>1, <2>2 DEF Session!Suspend
  <2> QED BY <2>1, <2>3 DEF SessionStep, Session!SessionNext, Resumed
<1>3. CASE code = "ERROR"
  <2>1. Answer("ERROR")
    BY <1>3 DEF HandleResult
  <2>2. "ERROR" \in ResultCodes \ {"ASYNC"} /\ Session!Complete("ERROR")
    BY <1>1, <2>1, AnswerSeen DEF Session!Complete, Session!Answer, ResultCodes
  <2>3. Resumed'
    BY <2>1 DEF Answer, Resumed
  <2> QED BY <2>2, <2>3 DEF SessionStep, Session!SessionNext
<1>4. CASE code \notin {"ASYNC", "ERROR"}
  <2>1. m_last_result_code' = code /\ UNCHANGED <<m_error, m_state, pc, reply>>
    BY <1>4 DEF HandleResult
  <2>2. UNCHANGED Session!sessionVars
    BY <2>1 DEF Session!sessionVars, SessionPhase, SessionFailed
  <2> QED BY <1>4, <2>1, <2>2 DEF SessionStep, Resumed
<1> QED BY <1>2, <1>3, <1>4

LEMMA ExecutorRefines ==
    ASSUME Ready, Resumed,
           ExecCommand \/ ExecEnd \/ Abort \/ (\E id \in Asynchronous : Update(id))
    PROVE  SessionStep /\ Resumed'
<1>1. /\ m_state = "Executing" /\ m_error \in BOOLEAN
      /\ m_last_result_code \in ResultCodes
  BY DEF ExecCommand, ExecEnd, Abort, Update, Ready, IInv, ControlOK, TypeOK,
         CmdlineTypeOK
<1>2. SessionFailed = m_error
  BY <1>1, SeenExecuting
<1>3. CASE ExecCommand
  <2>1. PICK code \in ResultCodes :
           HandleResult(code, m_exec_index + CmdLength(CurrentCmdId))
    BY <1>3 DEF ExecCommand, MayReturn, ResultCodes
  <2> QED BY <1>1, <1>3, <2>1, ResultRefines DEF ExecCommand
<1>4. CASE ExecEnd
  <2>1. pc = "exec" /\ m_exec_index = m_parse_ok_index /\ Answer(FinalCode)
    BY <1>4 DEF ExecEnd
  <2>2. m_last_result_code # "ASYNC"
    BY <2>1 DEF Resumed
  <2>3. PICK code \in ResultCodes \ {"ASYNC"} :
           code = FinalCode /\ (m_error => code = "ERROR")
    BY <1>1, <2>2 DEF FinalCode, ResultCodes
  <2>4. SessionPhase = "run" /\ SessionPhase' = "idle" /\ SessionFailed' = FALSE
        /\ reply' = code
    BY <1>1, <2>1, <2>3, SeenExecuting, AnswerSeen
  <2>5. Session!Complete(code)
    BY <1>2, <2>3, <2>4 DEF Session!Complete, Session!Answer
  <2>6. Resumed'
    BY <2>1 DEF Answer, Resumed
  <2> QED BY <2>5, <2>6 DEF SessionStep, Session!SessionNext
<1>5. CASE Abort
  <2>1. pc = "ret" /\ SessionPhase = "wait"
    BY <1>1, <1>5, SeenExecuting DEF Abort, Idle
  <2>2. PICK code \in ResultCodes :
           IF code = "ASYNC" THEN UNCHANGED <<m_state, pc, reply>> ELSE Answer(code)
    BY <1>5 DEF Abort, MayReturn, ResultCodes
  <2>3. CASE code = "ASYNC"
    <3>1. UNCHANGED <<m_state, pc, reply, m_error>>
      BY <1>5, <2>2, <2>3 DEF Abort
    <3>2. UNCHANGED Session!sessionVars
      BY <3>1 DEF Session!sessionVars, SessionPhase, SessionFailed
    <3> QED BY <2>1, <3>1, <3>2 DEF SessionStep, Resumed
  <2>4. CASE code # "ASYNC"
    <3>1. Answer(code)
      BY <2>2, <2>4
    <3>2. Session!Abort(code)
      BY <2>1, <3>1, AnswerSeen DEF Session!Abort, Session!Answer
    <3>3. Resumed'
      BY <3>1 DEF Answer, Resumed
    <3> QED BY <2>4, <3>2, <3>3 DEF SessionStep, Session!SessionNext
  <2> QED BY <2>3, <2>4
<1>6. CASE \E id \in Asynchronous : Update(id)
  <2>1. pc = "ret" /\ pc' = "exec" /\ UNCHANGED <<m_state, execVars>>
        /\ m_parse_ok_index' = m_parse_ok_index
    BY <1>6 DEF Update, Idle, ParserVars, bufVars
  <2>2. SessionPhase = "wait" /\ SessionPhase' = "run" /\ SessionFailed' = SessionFailed
    BY <1>1, <2>1, SeenExecuting DEF SessionPhase, SessionFailed, execVars
  <2>3. Session!Resume
    BY <2>1, <2>2 DEF Session!Resume, execVars
  <2>4. m_exec_index # m_parse_ok_index /\ m_exec_index' = m_exec_index
    BY <1>1, <2>1 DEF Ready, IInv, Suspended, TypeOK, CmdlineTypeOK, execVars
  <2> QED BY <2>1, <2>3, <2>4 DEF SessionStep, Session!SessionNext, Resumed
<1> QED BY <1>3, <1>4, <1>5, <1>6

(* A line given to the executor starts with OK as its last result. *)
LEMMA DispatchResumed ==
    ASSUME Ready, pc = "ret", NEW c, NEW left, Dispatch(c, left)
    PROVE  Resumed'
<1>1. CASE m_state \notin {"A", "T", "Executing"}
  BY <1>1, EntryStep DEF StepPost, GoesOn, Ended, Resumed
<1>2. CASE m_state \in {"A", "T"}
  <2>1. StateA(c, left) \/ StateT(c, left)
    BY <1>2, ParamStatesLemma
       DEF Dispatch, StateBody, StateS, StateSSet, StateAmpersand, StateBasicParameter,
           StateExtended, StateExtendedEq, StateExtendedReadTest, StateNumStart, StateNum,
           StateStringStart, StateHexStringStart, StateQuote, StateString, StateHexString,
           StateStringEnd, StateError, StateExecuting, NumStates
  <2>2. pc' = "ret" \/ m_last_result_code' = "OK"
    BY <2>1 DEF StateA, StateT, Stay, Goto, Execute, StartCmdExec
  <2> QED BY <2>2 DEF Resumed
<1>3. CASE m_state = "Executing"
  <2>1. StateExecuting(c, left)
    BY <1>3, ParamStatesLemma
       DEF Dispatch, StateA, StateT, StateBody, StateS, StateSSet, StateAmpersand,
           StateBasicParameter, StateExtended, StateExtendedEq, StateExtendedReadTest,
           StateNumStart, StateNum, StateStringStart, StateHexStringStart, StateQuote,
           StateString, StateHexString, StateStringEnd, StateError, NumStates
  <2>2. pc' = "ret"
    BY <2>1 DEF StateExecuting, Stay, Goto
  <2> QED BY <2>2 DEF Resumed
<1> QED BY <1>1, <1>2, <1>3

LEMMA FillRefines ==
    ASSUME Ready, FinalizeExtCmd
    PROVE  SessionStep /\ Resumed'
<1>1. StepPost /\ m_state \notin {"A", "T", "Executing"}
  BY FillStep
<1>2. pc # "exec"
  BY DEF FinalizeExtCmd
<1>3. SessionStep
  BY <1>1, <1>2, EntryRefines
<1>4. Resumed'
  BY <1>1 DEF StepPost, GoesOn, Ended, Resumed
<1> QED BY <1>3, <1>4

LEMMA NextRefines ==
    ASSUME IInv, Resumed, Next
    PROVE  SessionStep /\ Resumed'
<1>1. Ready
  BY DEF Ready, Next, Environment, Internal, Feed, Abort, Update, Idle, Redispatch,
         FinalizeExtCmd, ExecCommand, ExecEnd
<1>2. CASE \E c \in Alphabet : Feed(c)
  <2>1. PICK c \in Alphabet : Feed(c)
    BY <1>2
  <2>2. PICK d : d = IF m_state = "String" THEN c ELSE ToUpper(c)
    OBVIOUS
  <2>3. Dispatch(d, 0) /\ pc = "ret"
    BY <2>1, <2>2 DEF Feed, Idle
  <2> QED BY <1>1, <2>3, DispatchRefines, DispatchResumed
<1>3. CASE Redispatch
  <2>1. PICK left : left = redo - 1
    OBVIOUS
  <2>2. Dispatch(cur, left) /\ pc = "ret"
    BY <1>3, <2>1 DEF Redispatch
  <2> QED BY <1>1, <2>2, DispatchRefines, DispatchResumed
<1>4. CASE FinalizeExtCmd
  BY <1>1, <1>4, FillRefines
<1>5. CASE ExecCommand \/ ExecEnd \/ Abort \/ \E id \in Asynchronous : Update(id)
  BY <1>1, <1>5, ExecutorRefines
<1> QED BY <1>2, <1>3, <1>4, <1>5 DEF Next, Environment, Internal

LEMMA StutterRefines ==
    ASSUME Resumed, UNCHANGED vars
    PROVE  SessionStep /\ Resumed'
<1>1. UNCHANGED <<pc, m_state, m_error, reply, m_exec_index, m_parse_ok_index,
                  m_last_result_code>>
  BY DEF vars, serverVars, bufVars, execVars
<1>2. UNCHANGED Session!sessionVars
  BY <1>1 DEF Session!sessionVars, SessionPhase, SessionFailed
<1> QED BY <1>1, <1>2 DEF SessionStep, Resumed
-----------------------------------------------------------------------------
(* What a line that is submitted commits. *)

LEMMA DispatchSubmits ==
    ASSUME Ready, LInv, pc = "ret", NEW c, NEW left, Dispatch(c, left), Submitted, ~m_error'
    PROVE  m_parse_ok_index' = m_parse_index'
<1>1. StepPost /\ CommandStart
  BY EntryStep DEF Submitted, Entry, LInv
<1> QED BY <1>1 DEF StepPost, GoesOn, Ended, Submitted

LEMMA NextReady ==
    ASSUME IInv, Next
    PROVE  Ready
BY DEF Ready, Next, Environment, Internal, Feed, Abort, Update, Idle, Redispatch,
       FinalizeExtCmd, ExecCommand, ExecEnd

LEMMA DispatchWaits ==
    ASSUME m_state = "Executing", NEW c, NEW left, Dispatch(c, left)
    PROVE  Stay(left)
BY ParamStatesLemma
   DEF Dispatch, StateA, StateT, StateBody, StateS, StateSSet, StateAmpersand,
       StateBasicParameter, StateExtended, StateExtendedEq, StateExtendedReadTest,
       StateNumStart, StateNum, StateStringStart, StateHexStringStart, StateQuote,
       StateString, StateHexString, StateStringEnd, StateError, StateExecuting, NumStates

LEMMA NextSubmits ==
    ASSUME IInv, LInv, Next, Submitted, ~m_error'
    PROVE  m_parse_ok_index' = m_parse_index'
<1>1. Ready
  BY NextReady
<1>2. CASE \E c \in Alphabet : Feed(c)
  <2>1. PICK c \in Alphabet : Feed(c)
    BY <1>2
  <2>2. PICK d : d = IF m_state = "String" THEN c ELSE ToUpper(c)
    OBVIOUS
  <2>3. Dispatch(d, 0) /\ pc = "ret"
    BY <2>1, <2>2 DEF Feed, Idle
  <2> QED BY <1>1, <2>3, DispatchSubmits
<1>3. CASE Redispatch
  <2>1. PICK left : left = redo - 1
    OBVIOUS
  <2>2. Dispatch(cur, left) /\ pc = "ret"
    BY <1>3, <2>1 DEF Redispatch
  <2> QED BY <1>1, <2>2, DispatchSubmits
<1>4. CASE FinalizeExtCmd
  <2>1. StepPost /\ CommandStart
    BY <1>1, <1>4, FillStep DEF LInv
  <2> QED BY <2>1 DEF StepPost, GoesOn, Ended, Submitted
<1>5. CASE ExecCommand \/ ExecEnd \/ Abort \/ \E id \in Asynchronous : Update(id)
  <2>1. m_state = "Executing"
    BY <1>1, <1>5 DEF ExecCommand, ExecEnd, Abort, Update, Ready, IInv, ControlOK
  <2> QED BY <2>1 DEF Submitted, Entry
<1> QED BY <1>2, <1>3, <1>4, <1>5 DEF Next, Environment, Internal
-----------------------------------------------------------------------------
(* What a terminator does to a line of basic commands. *)

BasicStates == {"A", "T", "Body", "S", "SSet", "BasicParameter", "Error", "Executing"}

(* Where a character that is no syntax is dispatched once more. *)
AgainStates == {"A", "Body", "Error", "Executing"}

OnlyBasic == m_state \in BasicStates
AgainThere == redo > 0 /\ ~Syntax(cur) => m_state \in AgainStates

LEMMA BasicHandlers ==
    ASSUME OnlyBasic, NEW c, NEW left, Dispatch(c, left)
    PROVE  \/ StateA(c, left) \/ StateT(c, left) \/ StateBody(c, left)
           \/ StateS(c, left) \/ StateSSet(c, left) \/ StateBasicParameter(c, left)
           \/ StateError(c, left) \/ StateExecuting(c, left)
BY ParamStatesLemma
   DEF Dispatch, StateAmpersand, StateExtended, StateExtendedEq, StateExtendedReadTest,
       StateNumStart, StateNum, StateStringStart, StateHexStringStart, StateQuote,
       StateString, StateHexString, StateStringEnd, NumStates, OnlyBasic, BasicStates

LEMMA RequestEnds ==
    ASSUME Ready, NEW c, NEW left, SRequest(c, left)
    PROVE  m_state' \in {"Error", "SSet", "Body"} /\ pc' = "ret" /\ redo' = left
<1> DEFINE supported == m_num \in {3, 4}
           id   == IF supported THEN IdBytes(BasicId(0)) ELSE <<>>
<1>1. Len(id) \in Nat
  BY IdsLemma, IdBytesLemma, SizesAssumption
<1>2. \/ supported /\ ~CommandFits
      \/ (supported => CommandFits) /\ Available < Len(id) + 1
      \/ Available >= Len(id) + 1
  BY <1>1, IndexLemma DEF Available
<1>3. Fail(left) \/ Goto("Error", left) \/ Goto("SSet", left) \/ Goto("Body", left)
  BY <1>2 DEF SRequest
<1> QED BY <1>3 DEF Fail, Goto

LEMMA BasicDispatch ==
    ASSUME Ready, NAmp = 0, NExt = 0, OnlyBasic, NEW c \in Char, NEW left \in Nat,
           Dispatch(c, left)
    PROVE  OnlyBasic'
<1>1. CASE Stay(left) \/ Fail(left) \/ FailOn(c, left)
  BY <1>1 DEF Stay, Fail, FailOn, Goto, Execute, OnlyBasic, BasicStates
<1>2. CASE StateA(c, left) \/ StateT(c, left) \/ StateSSet(c, left)
             \/ StateBasicParameter(c, left)
  BY <1>1, <1>2 DEF StateA, StateT, StateSSet, StateBasicParameter, Stay, Goto, Fail, NextDigit,
                    Execute, OnlyBasic, BasicStates
<1>3. CASE StateBody(c, left)
  <2>1. CASE BodyLetter(c, left)
    BY <2>1, <1>1 DEF BodyLetter, AddBasicCommand, Goto, OnlyBasic, BasicStates
  <2>2. CASE \/ Stay(left) \/ Fail(left) \/ Execute(FALSE, left)
             \/ Goto("Error", left)
    BY <2>2, <1>1 DEF Goto, Execute, OnlyBasic, BasicStates
  <2>3. ~(NAmp > 0) /\ ~(NExt > 0)
    OBVIOUS
  <2> QED BY <1>3, <2>1, <2>2, <2>3 DEF StateBody
<1>4. CASE StateS(c, left)
  <2>1. CASE SRequest(c, left)
    BY <2>1, RequestEnds DEF OnlyBasic, BasicStates
  <2> QED BY <1>1, <1>4, <2>1 DEF StateS, NextDigit, Goto, OnlyBasic, BasicStates
<1>5. CASE StateError(c, left) \/ StateExecuting(c, left)
  BY <1>1, <1>5 DEF StateError, StateExecuting
<1> QED BY <1>2, <1>3, <1>4, <1>5, BasicHandlers

(* A character that is no syntax. *)
LEMMA OddDispatch ==
    ASSUME Ready, OnlyBasic, NEW c, ~Syntax(c),
           NEW left \in Nat, Dispatch(c, left)
    PROVE  /\ left = 0 /\ redo' > 0 => m_state' \in AgainStates
           /\ m_state \in AgainStates => m_state' \in AgainStates
           /\ (/\ c = m_s3 /\ pc' = "ret" /\ redo' = 0
               /\ m_state \in AgainStates \cup Entry)
                => m_state' \in {"A", "Executing"}
<1>0. /\ c \notin {SPACE, DQUOTE, AMP, PLUS, COMMA, DASH, SLASH, SEMI, EQ, QM}
      /\ c # 65 /\ ~IsAlphabetic(c) /\ ~IsNumeric(c) /\ ~DecFits(m_num, c)
  BY DEF Syntax, IsAlphabetic, DecFits, GetNumeric, IsUpper, IsLower
<1>1. CASE StateA(c, left)
  BY <1>0, <1>1 DEF StateA, Goto, AgainStates
<1>2. CASE StateT(c, left)
  <2>1. redo' = left /\ m_state = "T"
    BY <1>0, <1>2 DEF StateT, Stay, Goto, Execute
  <2> QED BY <2>1 DEF AgainStates, Entry
<1>3. CASE StateBody(c, left)
  BY <1>0, <1>3 DEF StateBody, Execute, Fail, Goto, AgainStates
<1>4. CASE StateS(c, left)
  <2>1. m_state' \in AgainStates /\ (c = m_s3 => m_state' = "Executing")
    BY <1>0, <1>4 DEF StateS, FailOn, Execute, Fail, Goto, AgainStates
  <2>2. m_state = "S"
    BY <1>4 DEF StateS
  <2> QED BY <2>1, <2>2
<1>5. CASE StateSSet(c, left)
  <2>1. m_state' \in AgainStates /\ redo' = left + 1 /\ m_state = "SSet"
    BY <1>0, <1>5 DEF StateSSet, Fail, Goto, AgainStates
  <2> QED BY <2>1
<1>6. CASE StateBasicParameter(c, left)
  <2>1. m_state' \in AgainStates /\ redo' > 0 /\ m_state = "BasicParameter"
    BY <1>0, <1>6 DEF StateBasicParameter, Fail, Goto, AgainStates
  <2> QED BY <2>1
<1>7. CASE StateError(c, left)
  BY <1>7 DEF StateError, FailOn, Fail, Execute, Goto, AgainStates
<1>8. CASE StateExecuting(c, left)
  BY <1>8 DEF StateExecuting, Stay, Goto, AgainStates
<1> QED BY <1>1, <1>2, <1>3, <1>4, <1>5, <1>6, <1>7, <1>8, BasicHandlers

LEMMA NothingToFill ==
    ASSUME NExt = 0, IInv
    PROVE  ~FinalizeExtCmd
<1>1. ~IsLeaf(m_trie)
  BY DEF IsLeaf, ExtIndices
<1> QED BY <1>1 DEF FinalizeExtCmd, IInv, ParameterInHand

LEMMA TerminatorNext ==
    ASSUME NAmp = 0, NExt = 0, IInv, OnlyBasic, AgainThere, Next
    PROVE  OnlyBasic' /\ AgainThere'
<1>1. Ready
  BY DEF Ready, Next, Environment, Internal, Feed, Abort, Update, Idle, Redispatch,
         FinalizeExtCmd, ExecCommand, ExecEnd
<1>2. CASE \E c \in Alphabet : Feed(c)
  <2>1. PICK c \in Alphabet : Feed(c)
    BY <1>2
  <2>2. PICK d \in Char : d = ToUpper(c)
    BY AlphabetAssumption, ToUpperLemma
  <2>3. Dispatch(d, 0)
    BY <2>1, <2>2 DEF Feed, OnlyBasic, BasicStates
  <2>4. cur' = d \/ ~(redo' > 0)
    BY <2>3 DEF Dispatch
  <2> QED BY <1>1, <2>3, <2>4, BasicDispatch, OddDispatch DEF AgainThere
<1>3. CASE Redispatch
  <2>1. redo > 0 /\ cur \in Char
    BY <1>3 DEF Redispatch, IInv, ControlOK
  <2>2. PICK left \in Nat : left = redo - 1
    BY <2>1 DEF IInv, TypeOK
  <2>3. Dispatch(cur, left)
    BY <1>3, <2>2 DEF Redispatch
  <2>4. cur' = cur \/ ~(redo' > 0)
    BY <2>3 DEF Dispatch
  <2> QED BY <1>1, <2>1, <2>3, <2>4, BasicDispatch, OddDispatch DEF AgainThere
<1>4. ~FinalizeExtCmd
  BY NothingToFill
<1>5. CASE ExecCommand \/ ExecEnd \/ Abort \/ \E id \in Asynchronous : Update(id)
  <2>1. UNCHANGED <<redo, cur>> /\ m_state' \in {m_state, "A"}
    BY <1>5 DEF ExecCommand, ExecEnd, Abort, Update, HandleResult, Answer, ParserVars
  <2> QED BY <2>1 DEF OnlyBasic, AgainThere, BasicStates, AgainStates
<1> QED BY <1>2, <1>3, <1>4, <1>5 DEF Next, Environment, Internal

LEMMA TerminatorEnds ==
    ASSUME NAmp = 0, NExt = 0, IInv, OnlyBasic, AgainThere, TerminatorHandled
    PROVE  m_state' \in {"A", "Executing"}
<1>1. CASE m_state \in Entry /\ Feed(m_s3)
  <2>1. Ready
    BY <1>1 DEF Feed, Idle, Ready
  <2>2. ToUpper(m_s3) = m_s3
    BY DEF TerminatorHandled, Syntax, IsAlphabetic, ToUpper
  <2>3. Dispatch(m_s3, 0)
    BY <1>1, <2>2 DEF Feed
  <2> QED BY <1>1, <2>1, <2>3, OddDispatch DEF TerminatorHandled
<1>2. CASE Redispatch /\ cur = m_s3
  <2>1. Ready /\ redo > 0 /\ cur \in Char
    BY <1>2 DEF Redispatch, Ready, IInv, ControlOK
  <2>2. PICK left \in Nat : left = redo - 1
    BY <2>1 DEF IInv, TypeOK
  <2>3. Dispatch(cur, left)
    BY <1>2, <2>2 DEF Redispatch
  <2>4. m_state \in AgainStates /\ ~Syntax(cur)
    BY <1>2, <2>1 DEF TerminatorHandled, AgainThere
  <2> QED BY <1>2, <2>1, <2>3, <2>4, OddDispatch DEF TerminatorHandled
<1>3. ~FinalizeExtCmd
  BY NothingToFill
<1> QED BY <1>1, <1>2, <1>3 DEF TerminatorHandled
-----------------------------------------------------------------------------
(* The theorems. *)

(* The server keeps the line protocol, whatever its commands, its buffer   *)
(* and what is typed: a line is opened, possibly spoiled, submitted once,  *)
(* suspended and resumed, and gets one result code, which is ERROR if the  *)
(* line was spoiled and is not aborted, and never ASYNC.                   *)
THEOREM ServerKeepsProtocol == Spec => ImplementsSession
<1>1. Init => Session!SessionInit /\ Resumed
  BY DEF Init, CmdlineInit, Session!SessionInit, SessionPhase, SessionFailed, Resumed
<1>2. IInv /\ Resumed /\ [Next]_vars => [Session!SessionNext]_(Session!sessionVars) /\ Resumed'
  BY NextRefines, StutterRefines DEF SessionStep
<1> QED BY <1>1, <1>2, InvariantHolds, PTL
        DEF Spec, ImplementsSession, Session!SessionSpec

(* A line run without an error is run in full, for every table whose       *)
(* ampersand commands have numbers and whose hex strings are required:     *)
(* every command typed on it has been committed when the executor starts.  *)
THEOREM NoCommandDropped ==
    ASSUME AmpersandsNumbered, HexStringsRequired
    PROVE  Spec => NothingDropped
<1> DEFINE Full == Submitted /\ ~m_error' => m_parse_ok_index' = m_parse_index'
<1>1. Init => LInv
  BY DEF Init, CmdlineInit, LInv, CommandStart, Aligned, ParamStates, NumStates,
         StartStates, BetweenCommands
<1>2. IInv /\ LInv /\ [Next]_vars => LInv'
  BY NextPreserves, StutterPreserves DEF Preserved, KeepsLayout
<1>3. IInv /\ LInv /\ [Next]_vars => [Full]_vars
  BY NextSubmits
<1>4. NothingDropped <=> [][Full]_vars
  BY DEF NothingDropped
<1> QED BY <1>1, <1>2, <1>3, <1>4, InvariantHolds, PTL DEF Spec

(* On a server of basic commands the terminator ends a line whatever is    *)
(* wrong with it, also when it ends a number and is dispatched again, to   *)
(* another state, by the handler of that number: when the call that fed it *)
(* returns, the line has been answered or runs.  Extended and ampersand    *)
(* commands break this; the code answers "AT+" and "AT&" with nothing.     *)
THEOREM TerminatorEndsLine ==
    ASSUME NAmp = 0, NExt = 0
    PROVE  Spec => TerminatorAnswered
<1> DEFINE Ends == TerminatorHandled => m_state' \in {"A", "Executing"}
<1>1. Init => OnlyBasic /\ AgainThere
  BY DEF Init, OnlyBasic, BasicStates, AgainThere
<1>2. IInv /\ OnlyBasic /\ AgainThere /\ [Next]_vars => OnlyBasic' /\ AgainThere'
  <2>1. UNCHANGED vars /\ OnlyBasic /\ AgainThere => OnlyBasic' /\ AgainThere'
    BY DEF vars, serverVars, OnlyBasic, AgainThere
  <2> QED BY <2>1, TerminatorNext
<1>3. IInv /\ OnlyBasic /\ AgainThere /\ [Next]_vars => [Ends]_vars
  BY TerminatorEnds
<1>4. TerminatorAnswered <=> [][Ends]_vars
  BY DEF TerminatorAnswered
<1> QED BY <1>1, <1>2, <1>3, <1>4, InvariantHolds, PTL DEF Spec
=============================================================================
