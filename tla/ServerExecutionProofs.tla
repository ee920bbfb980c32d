------------------------ MODULE ServerExecutionProofs ------------------------
(***************************************************************************)
(* The executor decodes nothing but whole commands, for every buffer and   *)
(* for every command table outside the reach of the faults of the code     *)
(* that the hypotheses of the theorem name.                                *)
(*                                                                         *)
(* The inductive invariant is Line: there is a set of places in the        *)
(* committed part of the buffer, its two ends among them, such that a      *)
(* whole command begins at every place but the last and ends at another.   *)
(* The executor stands at one of them.  A commit adds one place; that what *)
(* lies between it and the one before is a whole command is what Pending   *)
(* says, state by state, of the command that is being written.  A write    *)
(* command is whole when each of its fields holds a value of its parameter *)
(* (Filled): that is what its handler reads later.                         *)
(***************************************************************************)
EXTENDS ServerLayoutProofs

(* The command at a place of a buffer whose committed part ends at end:    *)
(* CurrentCmdId, CmdLength and AtCommand for any place.                    *)
IdAt(buf, i) == buf[i] + 256 * buf[i + 1]

LengthOf(id, s) ==
    CASE IsSCmd(id)                       -> IF s < 128 THEN 3 ELSE 4
      [] id > BasicOffset                 -> IF BasicDef(id - BasicOffset).ranges = {}
                                             THEN 2 ELSE 6
      [] \E c \in ExtIndices : id = ExtId(c, "WRITE") -> WriteSize(id \div 4)
      [] OTHER                            -> 2
LengthAt(buf, i) == LengthOf(IdAt(buf, i), buf[i + 2])

Known(id) ==
    /\ id \in CmdIds
    /\ id >= BasicOffset => NBasic + NAmp > 0
    /\ \A c \in ExtIndices :
          /\ id = ExtId(c, "READ")  => ExtCmds[c].read
          /\ id = ExtId(c, "WRITE") => ExtCmds[c].write

(* What stands in the field of a parameter: a number inside its ranges, a  *)
(* text that ends inside the field, or bytes and how many they are.        *)
Filled(buf, at, p) ==
    /\ p.type \in NumTypes =>
          \E v \in Value : /\ ValidateRanges(p.ranges, v)
                           /\ \A k \in 0 .. 3 : buf[at + k] = NumBytes(v)[k + 1]
    /\ p.type = "STR" => \E k \in 0 .. p.size - 1 : buf[at + k] = 0
    /\ p.type = "STR_HEX" =>
          \E n \in 0 .. p.size : /\ buf[at + p.size] = IdBytes(n)[1]
                                 /\ buf[at + p.size + 1] = IdBytes(n)[2]

(* The first k fields of write command c, and the fields of any command.   *)
Fields(buf, i, c, k) ==
    \A j \in 0 .. k - 1 : Filled(buf, i + ParamOffset[c][j], ExtCmds[c].params[j])
NoWrite(id) == \A c \in ExtIndices : id # ExtId(c, "WRITE")
FieldsAt(buf, i, id) ==
    \A c \in ExtIndices : id = ExtId(c, "WRITE") => Fields(buf, i, c, ExtCmds[c].count)

CommandAt(buf, end, i) ==
    /\ i + 2 <= end
    /\ buf[i] # Stale
    /\ buf[i + 1] # Stale
    /\ Known(IdAt(buf, i))
    /\ IsSCmd(IdAt(buf, i)) => i + 3 <= end
    /\ i + LengthAt(buf, i) <= end
    /\ IsSCmd(IdAt(buf, i)) => buf[i + LengthAt(buf, i) - 1] # Stale
    /\ FieldsAt(buf, i, IdAt(buf, i))

Chain(buf, end, places) ==
    /\ places \subseteq 0 .. end
    /\ 0 \in places /\ end \in places
    /\ \A b \in places \ {end} :
          CommandAt(buf, end, b) /\ b + LengthAt(buf, b) \in places

Line == \E places \in SUBSET Nat :
           /\ Chain(m_cmdline, m_parse_ok_index, places)
           /\ m_state = "Executing" => m_exec_index \in places

(* The id of the command being written stands behind the committed part.   *)
Holds(buf, i, id) == buf[i] # Stale /\ buf[i + 1] # Stale /\ IdAt(buf, i) = id
Begun(id) ==
    /\ m_parse_ok_index + 2 <= m_parse_index
    /\ Holds(m_cmdline, m_parse_ok_index, id)

(* S requests are recognised when they are run only if there is a basic or *)
(* an ampersand command; one for a number the server does not know leaves  *)
(* its byte without an id.                                                 *)
SKnown == SupportedSOnly /\ NBasic + NAmp > 0

NumberedIds == {BasicId(k) : k \in {j \in 1 .. NBasic + NAmp : BasicDef(j).ranges # {}}}
RequestIds  == {ExtId(c, "READ") : c \in {d \in ExtIndices : ExtCmds[d].read}}
                  \cup {ExtId(c, "TEST") : c \in ExtIndices}

Pending ==
    /\ m_state \in {"S", "Ampersand"} => m_parse_index = m_parse_ok_index
    /\ m_state = "SSet" =>
          /\ Begun(BasicId(0)) /\ m_parse_index = m_parse_ok_index + 3
          /\ m_cmdline[m_parse_ok_index + 2] \in 128 .. 255
    /\ m_state = "BasicParameter" =>
          /\ \E id \in NumberedIds : Begun(id)
          /\ m_parse_index = m_parse_ok_index + 2
    /\ m_state = "ExtendedReadTest" =>
          /\ \E id \in RequestIds : Begun(id)
          /\ m_parse_index = m_parse_ok_index + 2
    /\ m_state \in ParamStates \/ pc = "fill" =>
          /\ Begun(ExtId(Command, "WRITE"))
          /\ Fields(m_cmdline, m_parse_ok_index, Command, m_param_index)
    /\ m_state = "String" => m_num <= CmdParam.size
    /\ m_state \in {"S", "SSet"} => SKnown

(* A character that is dispatched again in state S is the letter that led  *)
(* there.                                                                  *)
Letter == /\ pc = "ret" /\ redo > 0 /\ m_state = "S" => cur = 83
          /\ cur = 83 => SKnown

Start == Ready /\ LInv /\ NumberFits /\ Line /\ Pending
ToS(c, left) == m_state' = "S" =>
                   redo' = left /\ (IF m_state = "S" THEN c # 83 ELSE c = 83)

(* What a step of the parser does to the line: a line begins, or what is   *)
(* committed stays and no more than one whole command is added to it, a    *)
(* write command only where its last parameters have been filled in.       *)
Added ==
    /\ CommandAt(m_cmdline', m_parse_ok_index', m_parse_ok_index)
    /\ m_parse_ok_index + LengthAt(m_cmdline', m_parse_ok_index) = m_parse_ok_index'
    /\ \/ pc = "fill"
       \/ NoWrite(IdAt(m_cmdline', m_parse_ok_index))
Moved ==
    \/ m_state = "T" /\ m_state' = "Body" /\ m_parse_ok_index' = 0
    \/ /\ \A j \in 0 .. m_parse_ok_index - 1 : m_cmdline'[j] = m_cmdline[j]
       /\ m_parse_ok_index' = m_parse_ok_index \/ Added
       /\ m_state' = "Executing" =>
             \/ m_exec_index' = 0
             \/ m_state = "Executing" /\ m_exec_index' = m_exec_index
LineMoved == Line' /\ Moved
Post(c, left) == LineMoved /\ Pending' /\ ToS(c, left)
-----------------------------------------------------------------------------
(* Ids and lengths. *)

LEMMA ExtIdLemma ==
    ASSUME NEW c \in ExtIndices, NEW t \in CmdTypes
    PROVE  /\ ExtId(c, t) \in Nat /\ ExtId(c, t) < BasicOffset
           /\ ExtId(c, t) \div 4 = c
           /\ \A d \in ExtIndices : \A u \in CmdTypes :
                 ExtId(c, t) = ExtId(d, u) => c = d /\ t = u
<1>1. c \in Nat /\ c + 1 <= NExt /\ NExt \in Nat
  BY SizesAssumption DEF ExtIndices
<1>2. CmdTypeCode[t] \in 0 .. 2
  BY DEF CmdTypes, CmdTypeCode
<1>3. ASSUME NEW d \in ExtIndices, NEW u \in CmdTypes, ExtId(c, t) = ExtId(d, u)
      PROVE  c = d /\ t = u
  <2>1. d \in Nat /\ CmdTypeCode[u] \in 0 .. 2
    BY SizesAssumption DEF ExtIndices, CmdTypes, CmdTypeCode
  <2>2. c = d /\ CmdTypeCode[t] = CmdTypeCode[u]
    BY <1>1, <1>2, <1>3, <2>1 DEF ExtId
  <2> QED BY <2>2 DEF CmdTypes, CmdTypeCode
<1>4. ExtId(c, t) \in Nat /\ ExtId(c, t) < BasicOffset /\ ExtId(c, t) \div 4 = c
  BY <1>1, <1>2 DEF ExtId, BasicOffset
<1> QED BY <1>3, <1>4

LEMMA LengthLemma ==
    /\ \A s : LengthOf(BasicId(0), s) = IF s < 128 THEN 3 ELSE 4
    /\ \A k \in 1 .. NBasic + NAmp : \A s :
          LengthOf(BasicId(k), s) = IF BasicDef(k).ranges = {} THEN 2 ELSE 6
    /\ \A c \in ExtIndices : \A s :
          /\ LengthOf(ExtId(c, "READ"), s) = 2
          /\ LengthOf(ExtId(c, "TEST"), s) = 2
          /\ LengthOf(ExtId(c, "WRITE"), s) = WriteSize(c)
<1>1. BasicOffset \in Nat /\ NBasic \in Nat /\ NAmp \in Nat
  BY SizesAssumption DEF BasicOffset
<1>2. "READ" \in CmdTypes /\ "TEST" \in CmdTypes /\ "WRITE" \in CmdTypes
  BY DEF CmdTypes
<1>3. ASSUME NEW s
      PROVE  LengthOf(BasicId(0), s) = IF s < 128 THEN 3 ELSE 4
  <2>1. IsSCmd(BasicId(0)) /\ ~(BasicId(0) > BasicOffset)
    BY <1>1 DEF IsSCmd, BasicId
  <2>2. ~\E c \in ExtIndices : BasicId(0) = ExtId(c, "WRITE")
    BY <1>1, <1>2, ExtIdLemma DEF BasicId
  <2> QED BY <2>1, <2>2 DEF LengthOf
<1>4. ASSUME NEW k \in 1 .. NBasic + NAmp, NEW s
      PROVE  LengthOf(BasicId(k), s) = IF BasicDef(k).ranges = {} THEN 2 ELSE 6
  <2>1. ~IsSCmd(BasicId(k)) /\ BasicId(k) > BasicOffset /\ BasicId(k) - BasicOffset = k
    BY <1>1 DEF IsSCmd, BasicId
  <2>2. ~\E c \in ExtIndices : BasicId(k) = ExtId(c, "WRITE")
    BY <1>1, <1>2, ExtIdLemma DEF BasicId
  <2> QED BY <2>1, <2>2 DEF LengthOf
<1>5. ASSUME NEW c \in ExtIndices, NEW t \in CmdTypes
      PROVE  ~IsSCmd(ExtId(c, t)) /\ ~(ExtId(c, t) > BasicOffset)
  BY <1>1, ExtIdLemma DEF IsSCmd, BasicId
<1>6. ASSUME NEW c \in ExtIndices, NEW t \in {"READ", "TEST"}, NEW s
      PROVE  LengthOf(ExtId(c, t), s) = 2
  <2>1. ~\E d \in ExtIndices : ExtId(c, t) = ExtId(d, "WRITE")
    BY <1>2, ExtIdLemma
  <2> QED BY <1>2, <1>5, <2>1 DEF LengthOf
<1>7. ASSUME NEW c \in ExtIndices, NEW s
      PROVE  LengthOf(ExtId(c, "WRITE"), s) = WriteSize(c)
  BY <1>2, <1>5, ExtIdLemma DEF LengthOf
<1> QED BY <1>3, <1>4, <1>6, <1>7

(* Two bytes of an id make the id again. *)
LEMMA IdBytesBack ==
    ASSUME NEW id \in Nat, id < 65536
    PROVE  /\ Len(IdBytes(id)) = 2
           /\ IdBytes(id)[1] \in Byte /\ IdBytes(id)[2] \in Byte
           /\ IdBytes(id)[1] + 256 * IdBytes(id)[2] = id
BY DEF IdBytes, Byte

LEMMA KnownLemma ==
    /\ \A k \in 1 .. NBasic + NAmp : Known(BasicId(k))
    /\ SKnown => Known(BasicId(0)) /\ IsSCmd(BasicId(0))
    /\ \A c \in ExtIndices :
          /\ ExtCmds[c].read => Known(ExtId(c, "READ"))
          /\ ExtCmds[c].write => Known(ExtId(c, "WRITE"))
          /\ Known(ExtId(c, "TEST"))
<1>1. BasicOffset \in Nat /\ NBasic \in Nat /\ NAmp \in Nat
  BY SizesAssumption DEF BasicOffset
<1>2. "READ" \in CmdTypes /\ "TEST" \in CmdTypes /\ "WRITE" \in CmdTypes
      /\ "READ" # "WRITE" /\ "READ" # "TEST" /\ "TEST" # "WRITE"
  BY DEF CmdTypes
<1>3. ASSUME NEW k \in 0 .. NBasic + NAmp, NBasic + NAmp > 0
      PROVE  Known(BasicId(k))
  <2>1. ASSUME NEW c \in ExtIndices, NEW t \in CmdTypes
        PROVE  BasicId(k) # ExtId(c, t)
    BY <1>1, ExtIdLemma DEF BasicId
  <2> QED BY <1>2, <1>3, <2>1 DEF Known, CmdIds
<1>4. ASSUME NEW c \in ExtIndices, NEW t \in CmdTypes
      PROVE  ExtId(c, t) \in CmdIds /\ ~(ExtId(c, t) >= BasicOffset)
  BY <1>1, ExtIdLemma DEF CmdIds
<1>5. ASSUME NEW c \in ExtIndices, NEW t \in CmdTypes,
             t = "READ" => ExtCmds[c].read, t = "WRITE" => ExtCmds[c].write
      PROVE  Known(ExtId(c, t))
  <2>1. ASSUME NEW d \in ExtIndices
        PROVE  /\ ExtId(c, t) = ExtId(d, "READ") => ExtCmds[d].read
               /\ ExtId(c, t) = ExtId(d, "WRITE") => ExtCmds[d].write
    BY <1>2, <1>5, ExtIdLemma
  <2> QED BY <1>4, <2>1 DEF Known
<1>6. SKnown => Known(BasicId(0)) /\ IsSCmd(BasicId(0))
  BY <1>1, <1>3 DEF SKnown, IsSCmd
<1>7. \A k \in 1 .. NBasic + NAmp : Known(BasicId(k))
  BY <1>1, <1>3
<1> QED BY <1>2, <1>5, <1>6, <1>7

(* Only write commands have fields. *)
LEMMA NoFields ==
    /\ \A k \in 0 .. NBasic + NAmp : NoWrite(BasicId(k))
    /\ \A c \in ExtIndices : \A t \in {"READ", "TEST"} : NoWrite(ExtId(c, t))
<1>1. BasicOffset \in Nat /\ NBasic \in Nat /\ NAmp \in Nat
  BY SizesAssumption DEF BasicOffset
<1>2. "READ" \in CmdTypes /\ "TEST" \in CmdTypes /\ "WRITE" \in CmdTypes
      /\ "READ" # "WRITE" /\ "TEST" # "WRITE"
  BY DEF CmdTypes
<1>3. \A k \in 0 .. NBasic + NAmp : NoWrite(BasicId(k))
  BY <1>1, <1>2, ExtIdLemma DEF BasicId, NoWrite
<1> QED BY <1>2, <1>3, ExtIdLemma DEF NoWrite
-----------------------------------------------------------------------------
(* Chains of commands. *)

LEMMA LengthNat ==
    ASSUME NEW id, Known(id), NEW s
    PROVE  /\ LengthOf(id, s) \in Nat
           /\ IsSCmd(id) => LengthOf(id, s) \in {3, 4}
<1>1. BasicOffset \in Nat /\ NBasic \in Nat /\ NAmp \in Nat
  BY SizesAssumption DEF BasicOffset
<1>2. CASE \E k \in 0 .. NBasic + NAmp : id = BasicId(k)
  <2>1. PICK k \in 0 .. NBasic + NAmp : id = BasicId(k)
    BY <1>2
  <2>2. CASE k = 0
    BY <2>1, <2>2, LengthLemma
  <2>3. CASE k # 0
    <3>1. k \in 1 .. NBasic + NAmp /\ ~IsSCmd(id)
      BY <1>1, <2>1, <2>3 DEF BasicId, IsSCmd
    <3> QED BY <2>1, <3>1, LengthLemma
  <2> QED BY <2>2, <2>3
<1>3. CASE \E c \in ExtIndices, t \in CmdTypes : id = ExtId(c, t)
  <2>1. PICK c \in ExtIndices, t \in CmdTypes : id = ExtId(c, t)
    BY <1>3
  <2>2. ~IsSCmd(id)
    BY <1>1, <2>1, ExtIdLemma DEF IsSCmd, BasicId
  <2>3. CASE t # "WRITE"
    BY <2>1, <2>2, <2>3, LengthLemma DEF CmdTypes
  <2>4. CASE t = "WRITE"
    <3>1. LengthOf(id, s) = WriteSize(c)
      BY <2>1, <2>4, LengthLemma
    <3>2. WriteSize(c) \in Nat
      BY <2>1, LayoutAssumption, ExtAssumption DEF WriteSize
    <3> QED BY <2>2, <3>1, <3>2
  <2> QED BY <2>3, <2>4
<1> QED BY <1>2, <1>3 DEF Known, CmdIds

(* A field depends on nothing but its own bytes. *)
LEMMA FilledFrame ==
    ASSUME NEW buf, NEW buf2, NEW at \in Nat, NEW c \in ExtIndices, NEW k \in Params(c),
           \A j \in at .. at + FieldSize(ExtCmds[c].params[k]) - 1 : buf2[j] = buf[j],
           Filled(buf, at, ExtCmds[c].params[k])
    PROVE  Filled(buf2, at, ExtCmds[c].params[k])
<1> DEFINE p == ExtCmds[c].params[k]
<1>1. p.type \in ParamTypes /\ p.size \in Nat
  BY ParamAssumption
<1>2. /\ p.type \in NumTypes => FieldSize(p) = 4
      /\ p.type = "STR" => FieldSize(p) = p.size
      /\ p.type = "STR_HEX" => FieldSize(p) = p.size + 2
  BY DEF FieldSize, NumTypes
<1> HIDE DEF p
<1>3. \A j \in at .. at + FieldSize(p) - 1 : buf2[j] = buf[j]
  BY DEF p
<1>4. ASSUME p.type \in NumTypes
      PROVE  \E v \in Value : /\ ValidateRanges(p.ranges, v)
                              /\ \A i \in 0 .. 3 : buf2[at + i] = NumBytes(v)[i + 1]
  <2>1. PICK v \in Value : /\ ValidateRanges(p.ranges, v)
                            /\ \A i \in 0 .. 3 : buf[at + i] = NumBytes(v)[i + 1]
    BY <1>4 DEF Filled, p
  <2>2. \A i \in 0 .. 3 : buf2[at + i] = buf[at + i]
    BY <1>2, <1>3, <1>4
  <2> QED BY <2>1, <2>2
<1>5. ASSUME p.type = "STR"
      PROVE  \E i \in 0 .. p.size - 1 : buf2[at + i] = 0
  <2>1. PICK i \in 0 .. p.size - 1 : buf[at + i] = 0
    BY <1>5 DEF Filled, p
  <2>2. buf2[at + i] = buf[at + i]
    BY <1>1, <1>2, <1>3, <1>5
  <2> QED BY <2>1, <2>2
<1>6. ASSUME p.type = "STR_HEX"
      PROVE  \E n \in 0 .. p.size : /\ buf2[at + p.size] = IdBytes(n)[1]
                                    /\ buf2[at + p.size + 1] = IdBytes(n)[2]
  <2>1. PICK n \in 0 .. p.size : /\ buf[at + p.size] = IdBytes(n)[1]
                                  /\ buf[at + p.size + 1] = IdBytes(n)[2]
    BY <1>6 DEF Filled, p
  <2>2. buf2[at + p.size] = buf[at + p.size] /\ buf2[at + p.size + 1] = buf[at + p.size + 1]
    BY <1>1, <1>2, <1>3, <1>6
  <2> QED BY <2>1, <2>2
<1>7. Filled(buf2, at, p)
  BY <1>4, <1>5, <1>6 DEF Filled
<1> QED BY <1>7 DEF p

LEMMA FieldsFrame ==
    ASSUME NEW buf, NEW buf2, NEW i \in Nat, NEW c \in ExtIndices,
           NEW k \in 0 .. ExtCmds[c].count,
           \A j \in 0 .. i + ParamOffset[c][k] - 1 : buf2[j] = buf[j],
           Fields(buf, i, c, k)
    PROVE  Fields(buf2, i, c, k)
<1>1. ExtCmds[c].count \in Nat /\ k \in Nat /\ ParamOffset[c][k] \in Nat
  BY ExtAssumption, OffsetsAscend
<1>2. ASSUME NEW j \in 0 .. k - 1
      PROVE  Filled(buf2, i + ParamOffset[c][j], ExtCmds[c].params[j])
  <2> DEFINE at == i + ParamOffset[c][j]
             f == FieldSize(ExtCmds[c].params[j])
  <2>1. j \in Params(c) /\ j \in 0 .. ExtCmds[c].count /\ j + 1 \in 0 .. ExtCmds[c].count
        /\ k \in j + 1 .. ExtCmds[c].count
    BY <1>1 DEF Params
  <2>2. /\ ParamOffset[c][j] \in Nat /\ ParamOffset[c][j + 1] \in Nat
        /\ ParamOffset[c][j + 1] <= ParamOffset[c][k]
        /\ ParamOffset[c][j + 1] = ParamOffset[c][j] + f
    BY <2>1, OffsetsAscend, LayoutAssumption
  <2>3. at \in Nat /\ f \in Nat
    <3>1. ExtCmds[c].params[j].type \in ParamTypes /\ ExtCmds[c].params[j].size \in Nat
      BY <2>1, ParamAssumption
    <3>2. f \in Nat
      BY <3>1 DEF FieldSize, ParamTypes, NumTypes
    <3> QED BY <2>2, <3>2
  <2>4. at + f <= i + ParamOffset[c][k]
    BY <1>1, <2>2, <2>3
  <2>5. Filled(buf, at, ExtCmds[c].params[j])
    BY DEF Fields
  <2> HIDE DEF at, f
  <2>6. \A x \in at .. at + f - 1 : buf2[x] = buf[x]
    BY <1>1, <2>3, <2>4
  <2>7. Filled(buf2, at, ExtCmds[c].params[j])
    BY <2>1, <2>3, <2>5, <2>6, FilledFrame DEF f
  <2> QED BY <2>7 DEF at
<1> QED BY <1>2 DEF Fields

(* A command depends on nothing but its own bytes. *)
LEMMA CommandFrame ==
    ASSUME NEW buf, NEW buf2, NEW end \in Nat, NEW end2 \in Nat, NEW i \in Nat,
           end <= end2, \A j \in 0 .. end - 1 : buf2[j] = buf[j],
           CommandAt(buf, end, i)
    PROVE  CommandAt(buf2, end2, i) /\ LengthAt(buf2, i) = LengthAt(buf, i)
<1> DEFINE id == IdAt(buf, i)
           n == LengthAt(buf, i)
<1>1. i + 2 <= end /\ Known(id) /\ i + n <= end /\ n \in Nat
  BY LengthNat DEF CommandAt, LengthAt
<1>2. buf2[i] = buf[i] /\ buf2[i + 1] = buf[i + 1] /\ IdAt(buf2, i) = id
  BY <1>1 DEF IdAt
<1>3. LengthAt(buf2, i) = n
  <2>1. CASE IsSCmd(id)
    <3>1. i + 3 <= end
      BY <2>1 DEF CommandAt
    <3>2. buf2[i + 2] = buf[i + 2]
      BY <3>1
    <3> QED BY <1>2, <3>2 DEF LengthAt
  <2>2. CASE ~IsSCmd(id)
    BY <1>2, <2>2 DEF LengthAt, LengthOf
  <2> QED BY <2>1, <2>2
<1>4. ASSUME IsSCmd(id)
      PROVE  i + 3 <= end2 /\ buf2[i + n - 1] # Stale
  <2>1. n \in {3, 4} /\ i + 3 <= end /\ buf[i + n - 1] # Stale
    BY <1>1, <1>4, LengthNat DEF CommandAt, LengthAt
  <2>2. i + n - 1 \in 0 .. end - 1
    BY <1>1, <2>1
  <2>3. buf2[i + n - 1] = buf[i + n - 1]
    BY <2>2
  <2> QED BY <2>1, <2>3
<1>5. i + 2 <= end2 /\ i + n <= end2
  BY <1>1
<1>6. buf[i] # Stale /\ buf[i + 1] # Stale
  BY DEF CommandAt
<1>7. /\ buf2[i] # Stale /\ buf2[i + 1] # Stale
      /\ Known(IdAt(buf2, i)) /\ i + LengthAt(buf2, i) <= end2
      /\ IsSCmd(IdAt(buf2, i)) =>
            i + 3 <= end2 /\ buf2[i + LengthAt(buf2, i) - 1] # Stale
  BY <1>1, <1>2, <1>3, <1>4, <1>5, <1>6, Zenon
<1>8. FieldsAt(buf2, i, id)
  <2>1. ASSUME NEW c \in ExtIndices, id = ExtId(c, "WRITE")
        PROVE  Fields(buf2, i, c, ExtCmds[c].count)
    <3>1. Fields(buf, i, c, ExtCmds[c].count)
      BY <2>1 DEF CommandAt, FieldsAt
    <3>2. n = ParamOffset[c][ExtCmds[c].count]
      BY <2>1, LengthLemma DEF LengthAt, WriteSize
    <3>3. ExtCmds[c].count \in 0 .. ExtCmds[c].count
      BY ExtAssumption
    <3>4. \A j \in 0 .. i + ParamOffset[c][ExtCmds[c].count] - 1 : buf2[j] = buf[j]
      <4> HIDE DEF n
      <4> QED BY <1>1, <3>2
    <3> QED BY <3>1, <3>3, <3>4, FieldsFrame
  <2> QED BY <2>1 DEF FieldsAt
<1>9. FieldsAt(buf2, i, IdAt(buf2, i))
  BY <1>2, <1>8
<1> QED BY <1>3, <1>5, <1>7, <1>9, Zenon DEF CommandAt

LEMMA ChainKept ==
    ASSUME NEW buf, NEW buf2, NEW end \in Nat, NEW places,
           \A j \in 0 .. end - 1 : buf2[j] = buf[j], Chain(buf, end, places)
    PROVE  Chain(buf2, end, places)
<1>1. ASSUME NEW b \in places \ {end}
      PROVE  CommandAt(buf2, end, b) /\ b + LengthAt(buf2, b) \in places
  <2>1. b \in Nat /\ CommandAt(buf, end, b) /\ b + LengthAt(buf, b) \in places
    BY DEF Chain
  <2> QED BY <2>1, CommandFrame
<1> QED BY <1>1 DEF Chain

(* One more command. *)
LEMMA ChainGrows ==
    ASSUME NEW buf, NEW buf2, NEW end \in Nat, NEW end2 \in Nat, NEW places,
           end <= end2, \A j \in 0 .. end - 1 : buf2[j] = buf[j],
           Chain(buf, end, places),
           CommandAt(buf2, end2, end), end + LengthAt(buf2, end) = end2
    PROVE  Chain(buf2, end2, places \cup {end2})
<1>1. ASSUME NEW b \in places \ {end}
      PROVE  CommandAt(buf2, end2, b) /\ b + LengthAt(buf2, b) \in places
  <2>1. b \in Nat /\ CommandAt(buf, end, b) /\ b + LengthAt(buf, b) \in places
    BY DEF Chain
  <2> QED BY <2>1, CommandFrame
<1>2. places \cup {end2} \subseteq 0 .. end2 /\ 0 \in places
  BY DEF Chain
<1> QED BY <1>1, <1>2 DEF Chain

(* A command that was begun and is as long as its id says is whole.        *)
LEMMA WholeCommand ==
    ASSUME NEW buf, NEW i \in Nat, NEW end \in Nat, NEW id, Known(id),
           Holds(buf, i, id), i + 2 <= end, end = i + LengthOf(id, buf[i + 2]),
           IsSCmd(id) => buf[end - 1] # Stale, FieldsAt(buf, i, id)
    PROVE  CommandAt(buf, end, i) /\ i + LengthAt(buf, i) = end
<1>1. IdAt(buf, i) = id /\ buf[i] # Stale /\ buf[i + 1] # Stale
  BY DEF Holds
<1>2. LengthAt(buf, i) = LengthOf(id, buf[i + 2])
  BY <1>1 DEF LengthAt
<1>3. LengthOf(id, buf[i + 2]) \in Nat /\ (IsSCmd(id) => i + 3 <= end)
  BY LengthNat
<1>4. i + LengthAt(buf, i) = end /\ end <= end
  BY <1>2
<1>5. IsSCmd(IdAt(buf, i)) => i + 3 <= end /\ buf[i + LengthAt(buf, i) - 1] # Stale
  <2>1. i + LengthAt(buf, i) - 1 = end - 1
    BY <1>2, <1>3, <1>4
  <2>2. IsSCmd(id) => buf[i + LengthAt(buf, i) - 1] # Stale
    BY <2>1
  <2> QED BY <1>1, <1>3, <2>2
<1> QED BY <1>1, <1>4, <1>5, Zenon DEF CommandAt
-----------------------------------------------------------------------------
(* What writing does to the line. *)

(* Nothing below the parse index changes. *)
Frame == /\ m_parse_index' \in Nat /\ m_parse_index' >= m_parse_index
         /\ \A j \in 0 .. m_parse_index - 1 : m_cmdline'[j] = m_cmdline[j]

LEMMA PutAtFrame ==
    ASSUME Ready, NEW bytes, NEW offset \in Nat, NEW advance \in Nat,
           PutAt(offset, bytes, advance)
    PROVE  Frame /\ m_parse_index' = m_parse_index + advance
<1>1. /\ m_parse_index \in Nat /\ CmdlineSize \in Nat /\ m_parse_index <= CmdlineSize
  BY IndexLemma
<1>2. m_parse_index' = m_parse_index + advance
  BY DEF PutAt
<1>3. ASSUME NEW j \in 0 .. m_parse_index - 1
      PROVE  m_cmdline'[j] = m_cmdline[j]
  <2>1. j \in 0 .. CmdlineSize - 1 /\ j < m_parse_index + offset
    BY <1>1
  <2> QED BY <1>1, <2>1 DEF PutAt
<1> QED BY <1>1, <1>2, <1>3 DEF Frame

LEMMA PutFrame ==
    ASSUME Ready, NEW bytes, Len(bytes) \in Nat, Put(bytes)
    PROVE  Frame /\ m_parse_index' = m_parse_index + Len(bytes)
BY PutAtFrame DEF Put

LEMMA KeptFrame ==
    ASSUME Ready, UNCHANGED <<m_cmdline, m_parse_index>>
    PROVE  Frame
BY IndexLemma DEF Frame

(* What is put inside the buffer is there. *)
LEMMA PutAtCells ==
    ASSUME Ready, NEW bytes, NEW n \in Nat, Len(bytes) = n, NEW offset \in Nat,
           NEW advance, PutAt(offset, bytes, advance),
           m_parse_index + offset + n <= CmdlineSize
    PROVE  \A k \in 0 .. n - 1 : m_cmdline'[m_parse_index + offset + k] = bytes[k + 1]
<1>1. m_parse_index \in Nat /\ CmdlineSize \in Nat
  BY IndexLemma
<1>2. ASSUME NEW k \in 0 .. n - 1
      PROVE  m_cmdline'[m_parse_index + offset + k] = bytes[k + 1]
  <2> DEFINE at == m_parse_index + offset
             i == at + k
  <2>1. /\ i \in 0 .. CmdlineSize - 1
        /\ i \in at .. at + n - 1
        /\ i - at + 1 = k + 1
    BY <1>1
  <2>2. m_cmdline' = [j \in 0 .. CmdlineSize - 1 |->
               IF j \in at .. at + n - 1 THEN bytes[j - at + 1] ELSE m_cmdline[j]]
    BY DEF PutAt
  <2> HIDE DEF at
  <2>3. m_cmdline'[i] = bytes[i - at + 1]
    BY <2>1, <2>2
  <2>4. m_cmdline'[i] = bytes[k + 1]
    BY <2>1, <2>3
  <2> QED BY <2>4 DEF at
<1> QED BY <1>2

LEMMA PutCells ==
    ASSUME Ready, NEW bytes, NEW n \in Nat, Len(bytes) = n, Put(bytes),
           m_parse_index' <= CmdlineSize
    PROVE  \A k \in 0 .. n - 1 : m_cmdline'[m_parse_index + k] = bytes[k + 1]
<1>1. m_parse_index \in Nat /\ CmdlineSize \in Nat
      /\ m_parse_index + n <= CmdlineSize /\ PutAt(0, bytes, Len(bytes))
  BY IndexLemma DEF Put, PutAt
<1>2. m_parse_index + 0 + n <= CmdlineSize /\ 0 \in Nat
  BY <1>1
<1>3. \A k \in 0 .. n - 1 : m_cmdline'[m_parse_index + 0 + k] = bytes[k + 1]
  BY <1>1, <1>2, PutAtCells
<1> QED BY <1>1, <1>3
-----------------------------------------------------------------------------
(* The ways a handler ends. *)

(* No command is completed, and a line that starts starts at its first.    *)
LEMMA LineKept ==
    ASSUME Start, m_parse_ok_index' = m_parse_ok_index, Frame,
           m_state' = "Executing" =>
              \/ m_exec_index' = 0
              \/ m_state = "Executing" /\ m_exec_index' = m_exec_index
    PROVE  LineMoved
<1>1. PICK places \in SUBSET Nat :
         /\ Chain(m_cmdline, m_parse_ok_index, places)
         /\ m_state = "Executing" => m_exec_index \in places
  BY DEF Start, Line
<1>2. m_parse_ok_index \in Nat /\ m_parse_index \in Nat
      /\ m_parse_ok_index <= m_parse_index
  BY IndexLemma DEF Start, Ready, IInv, IndicesOrdered
<1>3. \A j \in 0 .. m_parse_ok_index - 1 : m_cmdline'[j] = m_cmdline[j]
  BY <1>2 DEF Frame
<1>4. Chain(m_cmdline', m_parse_ok_index, places)
  BY <1>1, <1>2, <1>3, ChainKept
<1>5. m_state' = "Executing" => m_exec_index' \in places
  BY <1>1 DEF Chain
<1>6. Chain(m_cmdline, m_parse_ok_index, places)'
  BY <1>4
<1>7. Line'
  BY <1>5, <1>6 DEF Line
<1> QED BY <1>3, <1>7 DEF LineMoved, Moved

(* The command behind the committed part is completed. *)
LEMMA LineGrown ==
    ASSUME Start, Commit, Frame, NEW id, Known(id),
           Holds(m_cmdline', m_parse_ok_index, id),
           m_parse_index' = m_parse_ok_index
                               + LengthOf(id, m_cmdline'[m_parse_ok_index + 2]),
           m_parse_index' >= m_parse_ok_index + 2,
           IsSCmd(id) => m_cmdline'[m_parse_index' - 1] # Stale,
           (pc = "fill" /\ FieldsAt(m_cmdline', m_parse_ok_index, id)) \/ NoWrite(id),
           m_state' = "Executing" => m_exec_index' = 0
    PROVE  LineMoved
<1>1. PICK places \in SUBSET Nat : Chain(m_cmdline, m_parse_ok_index, places)
  BY DEF Start, Line
<1>2. m_parse_ok_index \in Nat /\ m_parse_index \in Nat
      /\ m_parse_ok_index <= m_parse_index
  BY IndexLemma DEF Start, Ready, IInv, IndicesOrdered
<1>3. \A j \in 0 .. m_parse_ok_index - 1 : m_cmdline'[j] = m_cmdline[j]
  BY <1>2 DEF Frame
<1>4. m_parse_index' \in Nat /\ m_parse_ok_index' = m_parse_index'
  BY DEF Frame, Commit
<1>5. /\ CommandAt(m_cmdline', m_parse_index', m_parse_ok_index)
      /\ m_parse_ok_index + LengthAt(m_cmdline', m_parse_ok_index) = m_parse_index'
  <2>1. FieldsAt(m_cmdline', m_parse_ok_index, id)
    BY DEF FieldsAt, NoWrite
  <2> QED BY <1>2, <1>4, <2>1, WholeCommand
<1> DEFINE more == places \cup {m_parse_index'}
<1>6. Chain(m_cmdline', m_parse_index', more)
  <2>1. PICK buf, end2 : buf = m_cmdline' /\ end2 = m_parse_index'
    OBVIOUS
  <2>2. /\ end2 \in Nat /\ m_parse_ok_index <= end2
        /\ \A j \in 0 .. m_parse_ok_index - 1 : buf[j] = m_cmdline[j]
        /\ CommandAt(buf, end2, m_parse_ok_index)
        /\ m_parse_ok_index + LengthAt(buf, m_parse_ok_index) = end2
    BY <1>2, <1>3, <1>4, <1>5, <2>1
  <2>3. Chain(buf, end2, places \cup {end2})
    BY <1>1, <1>2, <2>2, ChainGrows
  <2> QED BY <2>1, <2>3
<1>7. Chain(m_cmdline', m_parse_ok_index', more) /\ more \in SUBSET Nat
  BY <1>4, <1>6
<1>8. m_state' = "Executing" => m_exec_index' \in more
  BY <1>7 DEF Chain
<1> HIDE DEF more
<1>9. Line'
  BY <1>7, <1>8 DEF Line
<1>10. IdAt(m_cmdline', m_parse_ok_index) = id
  BY DEF Holds
<1>11. Added
  BY <1>4, <1>5, <1>10, Zenon DEF Added
<1> QED BY <1>3, <1>9, <1>11 DEF LineMoved, Moved

QuietStates == {"A", "T", "Body", "Extended", "ExtendedEq", "Error", "Executing"}

LEMMA QuietPending ==
    ASSUME m_state' \in QuietStates, pc' # "fill"
    PROVE  Pending' /\ \A c, left : ToS(c, left)
<1>1. m_state' \notin ParamStates
  BY DEF QuietStates, ParamStates, NumStates, StartStates
<1> QED BY <1>1 DEF Pending, QuietStates, ToS

(* To a state that holds no command, without completing one. *)
LEMMA QuietPost ==
    ASSUME Start, NEW c, NEW left, NEW state \in QuietStates \ {"Executing"}, NEW n,
           Goto(state, n), m_parse_ok_index' = m_parse_ok_index, Frame
    PROVE  Post(c, left)
<1>1. m_state' = state /\ pc' = "ret"
  BY DEF Goto
<1> QED BY <1>1, LineKept, QuietPending DEF Post

LEMMA FailPost ==
    ASSUME Start, NEW c, NEW left, NEW n, Fail(n)
    PROVE  Post(c, left)
<1>1. Goto("Error", n) /\ Keep
  BY DEF Fail
<1>2. m_parse_ok_index' = m_parse_ok_index /\ Frame
  BY <1>1, KeptFrame DEF Keep, bufVars, Start
<1>3. "Error" \in QuietStates \ {"Executing"}
  BY DEF QuietStates
<1> QED BY <1>1, <1>2, <1>3, QuietPost

LEMMA ExecutePost ==
    ASSUME Start, NEW c, NEW left, NEW n, NEW error, Execute(error, n), Keep
    PROVE  Post(c, left)
<1>1. m_state' = "Executing" /\ pc' = "exec" /\ m_exec_index' = 0
  BY DEF Execute, StartCmdExec
<1>2. m_parse_ok_index' = m_parse_ok_index /\ Frame
  BY KeptFrame DEF Keep, bufVars, Start
<1>3. m_state' \in QuietStates
  BY <1>1 DEF QuietStates
<1> QED BY <1>1, <1>2, <1>3, LineKept, QuietPending DEF Post

LEMMA FailOnPost ==
    ASSUME Start, NEW c, NEW left, NEW n, NEW d, FailOn(d, n)
    PROVE  Post(c, left)
BY FailPost, ExecutePost DEF FailOn

(* Another character of what is being read. *)
LEMMA SamePost ==
    ASSUME Start, pc = "ret", NEW c, NEW left, Goto(m_state, left),
           UNCHANGED <<m_cmdline, m_parse_index, m_parse_ok_index>>,
           m_state \in ParamStates => UNCHANGED <<m_trie, m_param_index, m_num>>,
           m_state = "S" => c # 83
    PROVE  Post(c, left)
<1>1. /\ m_state' = m_state /\ pc' = "ret" /\ redo' = left
      /\ m_exec_index' = m_exec_index
  BY DEF Goto, execVars
<1>2. LineMoved
  BY <1>1, KeptFrame, LineKept DEF Start
<1>3. \A id : Begun(id)' = Begun(id)
  BY DEF Begun, Holds, IdAt
<1>4. ToS(c, left)
  BY <1>1 DEF ToS
<1>5. Pending'
  <2>1. /\ m_state' \in {"S", "Ampersand"} => m_parse_index' = m_parse_ok_index'
        /\ m_state' = "SSet" =>
              /\ Begun(BasicId(0))' /\ m_parse_index' = m_parse_ok_index' + 3
              /\ m_cmdline'[m_parse_ok_index' + 2] \in 128 .. 255
    BY <1>1, <1>3 DEF Start, Pending
  <2>2. /\ m_state' = "BasicParameter" =>
              /\ \E id \in NumberedIds : Begun(id)'
              /\ m_parse_index' = m_parse_ok_index' + 2
        /\ m_state' = "ExtendedReadTest" =>
              /\ \E id \in RequestIds : Begun(id)'
              /\ m_parse_index' = m_parse_ok_index' + 2
    BY <1>1, <1>3 DEF Start, Pending
  <2>3. ASSUME m_state' \in ParamStates \/ pc' = "fill"
        PROVE  /\ Begun(ExtId(Command, "WRITE"))'
               /\ Fields(m_cmdline, m_parse_ok_index, Command, m_param_index)'
               /\ m_state' = "String" => m_num' <= CmdParam'.size
    <3>1. m_state \in ParamStates
      BY <1>1, <2>3
    <3>2. /\ Begun(ExtId(Command, "WRITE"))
          /\ Fields(m_cmdline, m_parse_ok_index, Command, m_param_index)
          /\ m_state = "String" => m_num <= CmdParam.size
      BY <3>1 DEF Start, Pending
    <3>3. Command' = Command /\ CmdParam' = CmdParam
      BY <3>1 DEF Command, Cmd, CmdParam
    <3>4. Fields(m_cmdline, m_parse_ok_index, Command, m_param_index)'
      BY <3>1, <3>2, <3>3 DEF Fields, Filled
    <3> QED BY <1>1, <3>1, <3>2, <3>3, <3>4 DEF Begun, Holds, IdAt
  <2>4. "String" \in ParamStates
    BY DEF ParamStates
  <2>5. m_state' \in {"S", "SSet"} => SKnown'
    BY <1>1 DEF Start, Pending, SKnown
  <2> QED BY <2>1, <2>2, <2>3, <2>4, <2>5 DEF Pending
<1> QED BY <1>2, <1>4, <1>5 DEF Post

LEMMA StayPost ==
    ASSUME Start, pc = "ret", NEW c, NEW left, Stay(left), m_state = "S" => c # 83
    PROVE  Post(c, left)
BY SamePost DEF Stay, Keep, bufVars, paramVars

(* What a handler does to the field in hand: nothing, or it fills it and   *)
(* turns to the next.                                                      *)
Fills == \/ m_param_index' = m_param_index
         \/ /\ m_param_index < Cmd.count /\ m_param_index' = m_param_index + 1
            /\ Filled(m_cmdline', FieldStart, CmdParam)

(* Inside a text no more than its field is left. *)
InText == m_state' = "String" => m_num' <= CmdParam.size /\ m_param_index' = m_param_index

(* The parse index has passed the start of the field in hand.              *)
LEMMA BehindStart ==
    ASSUME Start, m_state \in ParamStates \/ pc = "fill"
    PROVE  /\ Ready /\ IsLeaf(m_trie) /\ m_param_index \in Nat /\ m_param_index <= Cmd.count
           /\ m_parse_index \in Nat /\ m_parse_ok_index \in Nat
           /\ Command \in ExtIndices /\ Cmd.count \in Nat /\ Cmd = ExtCmds[Command]
           /\ m_param_index \in 0 .. ExtCmds[Command].count
           /\ ParamOffset[Command][m_param_index] \in Nat /\ FieldStart \in Nat
           /\ m_parse_index >= FieldStart
<1>1. /\ Ready /\ IsLeaf(m_trie) /\ m_param_index \in Nat /\ m_param_index <= Cmd.count
      /\ m_parse_index \in Nat /\ m_parse_ok_index \in Nat /\ m_num \in Nat
  BY IndexLemma DEF Start, Ready, IInv, ParameterInHand
<1>2. Command \in ExtIndices /\ Cmd.count \in Nat /\ Cmd = ExtCmds[Command]
      /\ m_param_index \in 0 .. ExtCmds[Command].count
  BY <1>1, CommandLemma DEF Cmd
<1>3. ParamOffset[Command][m_param_index] \in Nat /\ FieldStart \in Nat
  BY <1>1, <1>2, OffsetsAscend DEF FieldStart
<1>4. m_parse_index >= FieldStart
  <2>1. CASE m_state \in {"String", "HexString"}
    <3>1. pc = "ret" => CmdParam.size \in Nat /\ m_num <= CmdParam.size
      <4>1. pc = "ret" => CmdParam.size \in Nat
        BY <1>1, <2>1, TextLemma
      <4>2. m_num <= CmdParam.size
        BY <2>1 DEF Start, Pending, Ready, IInv, RoomInField
      <4> QED BY <4>1, <4>2
    <3>2. pc = "ret"
      BY <2>1 DEF Start, Ready, IInv, TypeOK, ControlOK, ParamStates, FillStates, NumStates,
                  StartStates
    <3>3. m_parse_index = FieldStart + CmdParam.size - m_num
      BY <2>1 DEF Start, LInv, Aligned
    <3> QED BY <1>1, <1>3, <3>1, <3>2, <3>3
  <2>2. CASE m_state \notin {"String", "HexString"}
    <3>1. m_parse_index = FieldStart
      BY <2>2 DEF Start, LInv, Aligned
    <3> QED BY <1>3, <3>1
  <2> QED BY <2>1, <2>2
<1> QED BY <1>1, <1>2, <1>3, <1>4

(* The fields filled before lie below the parse index.                     *)
LEMMA FieldsKept ==
    ASSUME Start, m_state \in ParamStates \/ pc = "fill", m_trie' = m_trie,
           m_parse_ok_index' = m_parse_ok_index, Frame, Fills
    PROVE  Fields(m_cmdline', m_parse_ok_index, Command, m_param_index')
<1>1. /\ m_param_index \in Nat /\ m_parse_index \in Nat /\ m_parse_ok_index \in Nat
      /\ Command \in ExtIndices /\ m_param_index \in 0 .. ExtCmds[Command].count
      /\ FieldStart \in Nat /\ m_parse_index >= FieldStart
      /\ ParamOffset[Command][m_param_index] \in Nat
  BY BehindStart
<1>5. Fields(m_cmdline', m_parse_ok_index, Command, m_param_index)
  <2>1. Fields(m_cmdline, m_parse_ok_index, Command, m_param_index)
    BY DEF Start, Pending
  <2>2. \A j \in 0 .. m_parse_ok_index + ParamOffset[Command][m_param_index] - 1 :
           m_cmdline'[j] = m_cmdline[j]
    BY <1>1 DEF Frame, FieldStart
  <2> QED BY <1>1, <2>1, <2>2, FieldsFrame
<1>6. CASE m_param_index' = m_param_index
  BY <1>5, <1>6
<1>7. CASE /\ m_param_index < Cmd.count /\ m_param_index' = m_param_index + 1
           /\ Filled(m_cmdline', FieldStart, CmdParam)
  <2>1. Filled(m_cmdline', m_parse_ok_index + ParamOffset[Command][m_param_index],
               ExtCmds[Command].params[m_param_index])
    BY <1>7 DEF FieldStart, CmdParam, Cmd
  <2>2. ASSUME NEW j \in 0 .. m_param_index' - 1
        PROVE  Filled(m_cmdline', m_parse_ok_index + ParamOffset[Command][j],
                      ExtCmds[Command].params[j])
    <3>1. j = m_param_index \/ j \in 0 .. m_param_index - 1
      BY <1>1, <1>7
    <3> QED BY <1>5, <2>1, <3>1 DEF Fields
  <2> QED BY <2>2 DEF Fields
<1> QED BY <1>6, <1>7 DEF Fills

(* Among the parameters of the command that was begun. *)
LEMMA ParamPost2 ==
    ASSUME Start, NEW c, NEW left, m_state \in ParamStates \/ pc = "fill",
           m_state' \in ParamStates \cup {"Extended"}, m_trie' = m_trie,
           m_parse_ok_index' = m_parse_ok_index, Frame, Fills, InText
    PROVE  Post(c, left)
<1>1. m_state' \notin {"S", "Ampersand", "SSet", "BasicParameter", "ExtendedReadTest",
                       "Executing"}
  BY DEF ParamStates, NumStates, StartStates
<1>2. LineMoved
  BY <1>1, LineKept
<1>3. ToS(c, left)
  BY <1>1 DEF ToS
<1>4. Command' = Command
  BY DEF Command
<1>5. Begun(ExtId(Command, "WRITE"))'
  <2>1. Begun(ExtId(Command, "WRITE"))
    BY DEF Start, Pending
  <2>2. m_parse_ok_index \in Nat /\ m_parse_index \in Nat /\ m_parse_index' \in Nat
        /\ m_parse_index' >= m_parse_index /\ m_parse_ok_index + 2 <= m_parse_index
    BY <2>1, IndexLemma DEF Start, Frame, Begun
  <2>3. /\ m_cmdline'[m_parse_ok_index] = m_cmdline[m_parse_ok_index]
        /\ m_cmdline'[m_parse_ok_index + 1] = m_cmdline[m_parse_ok_index + 1]
    BY <2>2 DEF Frame
  <2>4. m_parse_ok_index' + 2 <= m_parse_index'
    BY <2>2
  <2> QED BY <1>4, <2>1, <2>3, <2>4 DEF Begun, Holds, IdAt
<1>6. Fields(m_cmdline', m_parse_ok_index', Command', m_param_index')
  BY <1>4, FieldsKept
<1>7. m_state' = "String" => m_num' <= CmdParam'.size
  BY <1>4 DEF InText, CmdParam, Cmd
<1> QED BY <1>1, <1>2, <1>3, <1>5, <1>6, <1>7 DEF Pending, Post, Fields, Filled
-----------------------------------------------------------------------------
(* The handlers outside the parameters. *)

(* The tables and the typing for which the code works as it is meant to:   *)
(* the letter S is not typed, or what is typed after it is known.          *)
Meant == AmpersandsNumbered /\ HexStringsRequired
            /\ (SKnown \/ Alphabet \cap {83, 115} = {})

LEMMA StartLemma2 ==
    ASSUME Start
    PROVE  /\ Ready
           /\ m_parse_index \in Nat /\ m_parse_ok_index \in Nat
           /\ m_parse_ok_index <= m_parse_index /\ m_parse_index <= CmdlineSize
           /\ m_num \in Nat /\ CmdlineSize \in Nat
           /\ pc = "ret" /\ m_state \in BetweenCommands =>
                 m_parse_index = m_parse_ok_index
BY IndexLemma DEF Start, Ready, IInv, IndicesOrdered, LInv, CommandStart

LEMMA StateTPost ==
    ASSUME Start, pc = "ret", NEW c, NEW left, StateA(c, left) \/ StateT(c, left)
    PROVE  Post(c, left)
<1>0. m_state \in {"A", "T"}
  BY DEF StateA, StateT
<1>1. CASE Stay(left)
  BY <1>0, <1>1, StayPost
<1>2. CASE m_state = "T" /\ ResetCmdline /\ Goto("Body", left)
  <2>1. /\ m_state' = "Body" /\ pc' = "ret"
        /\ m_parse_ok_index' = 0
    BY <1>2 DEF ResetCmdline, Goto
  <2>2. Chain(m_cmdline', m_parse_ok_index', {0}) /\ {0} \in SUBSET Nat
    BY <2>1 DEF Chain
  <2>3. LineMoved
    BY <1>2, <2>1, <2>2 DEF Line, LineMoved, Moved
  <2>4. m_state' \in QuietStates
    BY <2>1 DEF QuietStates
  <2> QED BY <2>1, <2>3, <2>4, QuietPending DEF Post
<1>3. CASE Execute(FALSE, left) /\ Keep
  BY <1>3, ExecutePost
<1>4. CASE (Goto("A", left) \/ Goto("T", left)) /\ Keep
  <2>1. m_parse_ok_index' = m_parse_ok_index /\ Frame
    BY <1>4, KeptFrame DEF Keep, bufVars, Start
  <2>2. {"A", "T"} \subseteq QuietStates \ {"Executing"}
    BY DEF QuietStates
  <2> QED BY <1>4, <2>1, <2>2, QuietPost
<1> QED BY <1>1, <1>2, <1>3, <1>4 DEF StateA, StateT

(* Bytes that begin with an id are written behind the committed part.      *)
LEMMA BeginBytes ==
    ASSUME Start, m_parse_index = m_parse_ok_index, NEW bytes, NEW n \in Nat,
           Len(bytes) = n, n >= 2, bytes[1] \in Byte, bytes[2] \in Byte,
           Put(bytes), m_parse_index' <= CmdlineSize
    PROVE  /\ Frame /\ m_parse_index' = m_parse_ok_index + n
           /\ Holds(m_cmdline', m_parse_ok_index, bytes[1] + 256 * bytes[2])
           /\ \A k \in 0 .. n - 1 : m_cmdline'[m_parse_ok_index + k] = bytes[k + 1]
<1>1. Ready /\ m_parse_ok_index \in Nat
  BY StartLemma2
<1>2. Frame /\ m_parse_index' = m_parse_index + Len(bytes)
  BY <1>1, PutFrame
<1>3. \A k \in 0 .. n - 1 : m_cmdline'[m_parse_index + k] = bytes[k + 1]
  BY <1>1, PutCells
<1>4. /\ m_cmdline'[m_parse_ok_index] = bytes[1]
      /\ m_cmdline'[m_parse_ok_index + 1] = bytes[2]
  <2>1. 0 \in 0 .. n - 1 /\ 1 \in 0 .. n - 1
    OBVIOUS
  <2>2. /\ m_cmdline'[m_parse_index + 0] = bytes[0 + 1]
        /\ m_cmdline'[m_parse_index + 1] = bytes[1 + 1]
    BY <1>3, <2>1
  <2> QED BY <1>1, <2>2
<1>5. Stale \notin Byte
  BY DEF Stale, Byte
<1>6. Holds(m_cmdline', m_parse_ok_index, bytes[1] + 256 * bytes[2])
  BY <1>4, <1>5 DEF Holds, IdAt
<1> QED BY <1>2, <1>3, <1>6

(* An id is written behind the committed part. *)
LEMMA BeginLemma ==
    ASSUME Start, m_parse_index = m_parse_ok_index, NEW id \in Nat, id < 65536,
           AddCmd(id), m_parse_index' <= CmdlineSize
    PROVE  /\ Frame /\ m_parse_index' = m_parse_ok_index + 2
           /\ Holds(m_cmdline', m_parse_ok_index, id)
<1>1. PICK bytes : bytes = IdBytes(id)
  OBVIOUS
<1>2. /\ Len(bytes) = 2 /\ bytes[1] \in Byte /\ bytes[2] \in Byte
      /\ bytes[1] + 256 * bytes[2] = id
  BY <1>1, IdBytesBack
<1>3. Put(bytes)
  BY <1>1 DEF AddCmd
<1>4. /\ Frame /\ m_parse_index' = m_parse_ok_index + 2
      /\ Holds(m_cmdline', m_parse_ok_index, bytes[1] + 256 * bytes[2])
  <2>1. PICK n \in Nat : n = 2
    OBVIOUS
  <2>2. Len(bytes) = n /\ n >= 2 /\ bytes[1] \in Byte /\ bytes[2] \in Byte
    BY <1>2, <2>1
  <2>3. m_parse_index = m_parse_ok_index /\ m_parse_index' <= CmdlineSize /\ Start
    OBVIOUS
  <2>4. /\ Frame /\ m_parse_index' = m_parse_ok_index + n
        /\ Holds(m_cmdline', m_parse_ok_index, bytes[1] + 256 * bytes[2])
    BY <1>3, <2>2, <2>3, BeginBytes
  <2> QED BY <2>1, <2>4
<1> QED BY <1>2, <1>4

LEMMA AddBasicPost ==
    ASSUME Start, Meant, m_parse_index = m_parse_ok_index, NEW c, NEW left,
           NEW index \in 1 .. NBasic + NAmp, NEW entry, NEW committed \in BOOLEAN,
           AddBasicCommand(BasicDef(index), index, entry, committed, left),
           committed \/ BasicDef(index).ranges # {},
           m_parse_index' <= CmdlineSize
    PROVE  Post(c, left)
<1> DEFINE id == BasicId(index)
<1>1. index \in 0 .. NBasic + NAmp
  OBVIOUS
<1>2. id \in Nat /\ id < 65536 /\ Known(id) /\ ~IsSCmd(id)
      /\ NoWrite(id)
  <2>1. id \in Nat /\ id < 65536 /\ NoWrite(id)
    BY <1>1, IdsLemma, NoFields
  <2> QED BY <2>1, KnownLemma, SizesAssumption DEF IsSCmd, BasicId, BasicOffset
<1>3. /\ Frame /\ m_parse_index' = m_parse_ok_index + 2
      /\ Holds(m_cmdline', m_parse_ok_index, id)
  BY <1>2, BeginLemma DEF AddBasicCommand
<1>4. CASE BasicDef(index).ranges = {}
  <2>1. Commit /\ Goto("Body", left)
    BY <1>4 DEF AddBasicCommand
  <2>2. m_state' = "Body" /\ pc' = "ret" /\ m_state' \in QuietStates
    BY <2>1 DEF Goto, QuietStates
  <2>3. LengthOf(id, m_cmdline'[m_parse_ok_index + 2]) = 2
    BY <1>4, LengthLemma
  <2>4. m_parse_index' >= m_parse_ok_index + 2
    BY <1>3, StartLemma2
  <2>5. LineMoved
    BY <1>2, <1>3, <2>1, <2>2, <2>3, <2>4, LineGrown
  <2> QED BY <2>2, <2>5, QuietPending DEF Post
<1>5. CASE BasicDef(index).ranges # {}
  <2>1. KeepCommit /\ Goto("BasicParameter", left)
    BY <1>5 DEF AddBasicCommand
  <2>2. /\ m_state' = "BasicParameter" /\ pc' = "ret"
        /\ m_parse_ok_index' = m_parse_ok_index
    BY <2>1 DEF Goto, KeepCommit
  <2>3. LineMoved
    BY <1>3, <2>2, LineKept
  <2>4. id \in NumberedIds
    BY <1>5 DEF NumberedIds
  <2>5. Begun(id)'
    BY <1>3, <2>2, StartLemma2 DEF Begun
  <2>6. m_state' \notin ParamStates
    BY <2>2 DEF ParamStates, NumStates, StartStates
  <2>7. Pending'
    BY <1>3, <2>2, <2>4, <2>5, <2>6 DEF Pending
  <2> QED BY <2>2, <2>3, <2>7 DEF Post, ToS
<1> QED BY <1>4, <1>5

LEMMA StateBodyPost ==
    ASSUME Start, Meant, pc = "ret", NEW c, NEW left, StateBody(c, left),
           m_parse_index' <= CmdlineSize, c = 83 => SKnown
    PROVE  Post(c, left)
<1>0. m_state = "Body" /\ m_parse_index = m_parse_ok_index
  BY StartLemma2 DEF StateBody, BetweenCommands
<1>1. CASE Stay(left)
  BY <1>0, <1>1, StayPost
<1>2. CASE BodyLetter(c, left)
  <2> DEFINE i == CmdIndex(BasicCmds, c)
  <2>1. CASE c = 83
    <3>1. /\ m_state' = "S" /\ pc' = "ret" /\ redo' = left
          /\ UNCHANGED <<m_cmdline, m_parse_index, m_parse_ok_index>>
      BY <1>2, <2>1 DEF BodyLetter, bufVars, Goto
    <3>2. LineMoved
      BY <3>1, KeptFrame, LineKept, StartLemma2
    <3>3. m_state' \notin ParamStates
      BY <3>1 DEF ParamStates, NumStates, StartStates
    <3>4. Pending'
      BY <1>0, <2>1, <3>1, <3>3 DEF Pending, SKnown
    <3> QED BY <1>0, <2>1, <3>1, <3>2, <3>4 DEF Post, ToS
  <2>2. CASE c # 83 /\ Fail(left)
    BY <2>2, FailPost
  <2>3. CASE i # -1 /\ AddBasicCommand(BasicCmds[i], 1 + i, i, TRUE, left)
    <3>1. i \in 0 .. NBasic - 1
      BY <2>3, CmdIndexLemma, SizesAssumption, BasicAssumption
    <3>2. 1 + i \in 1 .. NBasic + NAmp /\ BasicDef(1 + i) = BasicCmds[i]
      BY <3>1, SizesAssumption DEF BasicDef
    <3> QED BY <1>0, <2>3, <3>2, AddBasicPost
  <2> QED BY <1>2, <2>1, <2>2, <2>3 DEF BodyLetter
<1>3. CASE Keep /\ (Goto("Extended", left) \/ Goto("Error", left))
  <2>1. m_parse_ok_index' = m_parse_ok_index /\ Frame
    BY <1>3, KeptFrame DEF Keep, bufVars, Start
  <2>2. {"Extended", "Error"} \subseteq QuietStates \ {"Executing"}
    BY DEF QuietStates
  <2> QED BY <1>3, <2>1, <2>2, QuietPost
<1>4. CASE Keep /\ Goto("Ampersand", left)
  <2>1. /\ m_state' = "Ampersand" /\ pc' = "ret"
        /\ UNCHANGED <<m_cmdline, m_parse_index, m_parse_ok_index>>
    BY <1>4 DEF Keep, bufVars, Goto
  <2>2. LineMoved
    BY <2>1, KeptFrame, LineKept, StartLemma2
  <2>3. m_state' \notin ParamStates
    BY <2>1 DEF ParamStates, NumStates, StartStates
  <2>4. Pending'
    BY <1>0, <2>1, <2>3 DEF Pending
  <2> QED BY <2>1, <2>2, <2>4 DEF Post, ToS
<1>5. CASE Execute(FALSE, left) /\ Keep
  BY <1>5, ExecutePost
<1>6. CASE Fail(left)
  BY <1>6, FailPost
<1> QED BY <1>1, <1>2, <1>3, <1>4, <1>5, <1>6 DEF StateBody

LEMMA StateAmpersandPost ==
    ASSUME Start, Meant, pc = "ret", NEW c, NEW left, StateAmpersand(c, left),
           m_parse_index' <= CmdlineSize
    PROVE  Post(c, left)
<1> DEFINE i == CmdIndex(AmpCmds, c)
           n == 1 + NBasic + i
<1>0. m_state = "Ampersand" /\ m_parse_index = m_parse_ok_index
  BY DEF StateAmpersand, Start, Pending
<1>1. CASE Stay(left)
  BY <1>0, <1>1, StayPost
<1>2. CASE Fail(left)
  BY <1>2, FailPost
<1>3. CASE i # -1 /\ AddBasicCommand(AmpCmds[i], n, n, FALSE, left)
  <2>1. i \in 0 .. NAmp - 1
    BY <1>3, CmdIndexLemma, SizesAssumption, BasicAssumption
  <2>2. n \in 1 .. NBasic + NAmp /\ BasicDef(n) = AmpCmds[i]
    BY <2>1, SizesAssumption DEF BasicDef
  <2>3. BasicDef(n).ranges # {}
    BY <2>1, <2>2 DEF Meant, AmpersandsNumbered
  <2> HIDE DEF n
  <2> QED BY <1>0, <1>3, <2>2, <2>3, AddBasicPost
<1> QED BY <1>1, <1>2, <1>3 DEF StateAmpersand

(* The digits of a number that is not a parameter. *)
LEMMA NextDigitPost ==
    ASSUME Start, pc = "ret", NEW c, NEW left, NEW next, NextDigit(next, left),
           m_state \in {"S", "SSet", "BasicParameter"}, m_state = "S" => c # 83
    PROVE  Post(c, left)
<1>1. m_state \notin ParamStates
  BY DEF ParamStates, NumStates, StartStates
<1> QED BY <1>1, SamePost DEF NextDigit, bufVars

(* Any byte behind an id. *)
LEMMA AppendLemma ==
    ASSUME NEW id \in Nat, id < 65536, NEW byte \in Byte, NEW bytes,
           bytes = Append(IdBytes(id), byte)
    PROVE  /\ Len(bytes) = 3 /\ bytes[3] = byte
           /\ bytes[1] \in Byte /\ bytes[2] \in Byte
           /\ bytes[1] + 256 * bytes[2] = id
BY DEF IdBytes, Byte

LEMMA SRequestPost ==
    ASSUME Start, Meant, pc = "ret", m_state = "S", NEW c \in {EQ, QM}, NEW left,
           SRequest(c, left), m_num \in {3, 4}, m_parse_index' <= CmdlineSize
    PROVE  Post(c, left)
<1> DEFINE id == BasicId(0)
           byte == IF c = EQ THEN 128 + (m_num % 128) ELSE m_num % 256
<1>0. m_parse_index = m_parse_ok_index /\ Ready /\ m_parse_index \in Nat
      /\ CmdlineSize \in Nat /\ m_parse_index <= CmdlineSize
  BY StartLemma2 DEF Start, Pending
<1>1. id \in Nat /\ id < 65536 /\ Known(id) /\ IsSCmd(id) /\ SKnown
      /\ NoWrite(id)
  <2>1. 0 \in 0 .. NBasic + NAmp
    BY SizesAssumption
  <2>2. SKnown
    BY DEF Start, Pending
  <2> QED BY <2>1, <2>2, IdsLemma, KnownLemma, NoFields
<1>2. byte \in Byte /\ (c = EQ => byte \in 128 .. 255) /\ (c # EQ => byte < 128)
  BY DEF Byte
<1>3. CASE Fail(left)
  BY <1>3, FailPost
<1>4. CASE Put(IdBytes(id)) /\ KeepCommit /\ Goto("Error", left)
  <2>1. Frame /\ m_parse_ok_index' = m_parse_ok_index
    <3>1. AddCmd(id)
      BY <1>4 DEF AddCmd
    <3> QED BY <1>0, <1>1, <1>4, <3>1, BeginLemma DEF KeepCommit
  <2>2. "Error" \in QuietStates \ {"Executing"}
    BY DEF QuietStates
  <2> QED BY <1>4, <2>1, <2>2, QuietPost
<1>5. CASE /\ Put(Append(IdBytes(id), byte))
           /\ IF c = EQ THEN KeepCommit /\ Goto("SSet", left)
                        ELSE Commit /\ Goto("Body", left)
  <2>1. PICK b : b = byte
    OBVIOUS
  <2>2. PICK bytes : bytes = Append(IdBytes(id), b)
    OBVIOUS
  <2>3. b \in Byte
    BY <1>2, <2>1
  <2>4. /\ Len(bytes) = 3 /\ bytes[3] = b
        /\ bytes[1] \in Byte /\ bytes[2] \in Byte
        /\ bytes[1] + 256 * bytes[2] = id
    <3>1. PICK i \in Nat : i = id /\ i < 65536
      BY <1>1
    <3>2. bytes = Append(IdBytes(i), b)
      BY <2>2, <3>1
    <3>3. /\ Len(bytes) = 3 /\ bytes[3] = b
          /\ bytes[1] \in Byte /\ bytes[2] \in Byte
          /\ bytes[1] + 256 * bytes[2] = i
      BY <2>3, <3>1, <3>2, AppendLemma, SMTT(20)
    <3> HIDE DEF id
    <3> QED BY <3>1, <3>3
  <2>5. Put(bytes)
    BY <1>5, <2>1, <2>2
  <2>6. /\ Frame /\ m_parse_index' = m_parse_ok_index + 3
        /\ Holds(m_cmdline', m_parse_ok_index, bytes[1] + 256 * bytes[2])
        /\ \A k \in 0 .. 2 : m_cmdline'[m_parse_ok_index + k] = bytes[k + 1]
    <3>1. 3 \in Nat /\ 3 >= 2 /\ 3 - 1 = 2
      OBVIOUS
    <3>2. Len(bytes) = 3 /\ bytes[1] \in Byte /\ bytes[2] \in Byte
      BY <2>4
    <3>3. /\ Frame /\ m_parse_index' = m_parse_ok_index + 3
          /\ Holds(m_cmdline', m_parse_ok_index, bytes[1] + 256 * bytes[2])
          /\ \A k \in 0 .. 3 - 1 : m_cmdline'[m_parse_ok_index + k] = bytes[k + 1]
      BY <1>0, <2>5, <3>1, <3>2, BeginBytes, Zenon
    <3> QED BY <3>1, <3>3
  <2>7. /\ Holds(m_cmdline', m_parse_ok_index, id)
        /\ m_cmdline'[m_parse_ok_index + 2] = byte
        /\ Stale \notin Byte
    BY <2>1, <2>4, <2>6 DEF Stale, Byte
  <2>8. CASE c = EQ
    <3>1. /\ m_state' = "SSet" /\ pc' = "ret" /\ m_parse_ok_index' = m_parse_ok_index
      BY <1>5, <2>8 DEF Goto, KeepCommit
    <3>2. LineMoved
      BY <2>6, <3>1, LineKept
    <3>3. m_state' \notin ParamStates
      BY <3>1 DEF ParamStates, NumStates, StartStates
    <3>4. Begun(id)'
      BY <1>0, <2>6, <2>7, <3>1 DEF Begun
    <3>5. m_cmdline'[m_parse_ok_index' + 2] \in 128 .. 255
      BY <1>2, <2>7, <2>8, <3>1
    <3>6. Pending'
      BY <1>1, <2>6, <3>1, <3>3, <3>4, <3>5 DEF Pending, SKnown
    <3> QED BY <3>1, <3>2, <3>6 DEF Post, ToS
  <2>9. CASE c # EQ
    <3>1. Commit /\ m_state' = "Body" /\ pc' = "ret"
      BY <1>5, <2>9 DEF Goto
    <3>2. LengthOf(id, m_cmdline'[m_parse_ok_index + 2]) = 3
      BY <1>2, <2>7, <2>9, LengthLemma
    <3>3. /\ m_parse_index' - 1 = m_parse_ok_index + 2
          /\ m_parse_index' >= m_parse_ok_index + 2
      BY <1>0, <2>6
    <3>4. m_cmdline'[m_parse_index' - 1] # Stale
      BY <1>2, <2>7, <3>3
    <3>5. LineMoved
      BY <1>1, <2>6, <2>7, <3>1, <3>2, <3>3, <3>4, LineGrown
    <3>6. m_state' \in QuietStates
      BY <3>1 DEF QuietStates
    <3> QED BY <3>1, <3>5, <3>6, QuietPending DEF Post
  <2> QED BY <2>8, <2>9
<1>6. /\ (IF m_num \in {3, 4} THEN IdBytes(BasicId(0)) ELSE <<>>) = IdBytes(id)
      /\ \/ ~CommandFits
         \/ CommandFits /\ Available < Len(IdBytes(id)) + 1
         \/ Available >= Len(IdBytes(id)) + 1
  BY <1>0, <1>1, IdBytesBack DEF Available
<1> QED BY <1>3, <1>4, <1>5, <1>6 DEF SRequest

(* The value of an S parameter completes the request. *)
LEMMA SValuePost ==
    ASSUME Start, Meant, pc = "ret", m_state = "SSet", NEW c, NEW left, NEW n,
           m_num <= 127, Put(<<m_num>>), Commit, Goto("Body", n),
           m_parse_index' <= CmdlineSize
    PROVE  Post(c, left)
<1> DEFINE id == BasicId(0)
<1>1. /\ Ready /\ m_parse_index \in Nat /\ m_parse_ok_index \in Nat /\ m_num \in Nat
      /\ m_parse_index = m_parse_ok_index + 3
      /\ Holds(m_cmdline, m_parse_ok_index, id)
      /\ m_cmdline[m_parse_ok_index + 2] \in 128 .. 255
  BY StartLemma2 DEF Start, Pending, Begun
<1>2. Known(id) /\ IsSCmd(id) /\ NoWrite(id)
  <2>1. 0 \in 0 .. NBasic + NAmp
    BY SizesAssumption
  <2>2. SKnown
    BY DEF Start, Pending
  <2> QED BY <2>1, <2>2, KnownLemma, NoFields
<1>3. PICK bytes : bytes = <<m_num>>
  OBVIOUS
<1>4. Frame /\ m_parse_index' = m_parse_ok_index + 4
  <2>1. Len(bytes) = 1 /\ Len(bytes) \in Nat /\ Put(bytes)
    BY <1>3
  <2>2. Frame /\ m_parse_index' = m_parse_index + Len(bytes)
    BY <1>1, <2>1, PutFrame
  <2> QED BY <1>1, <2>1, <2>2
<1>5. m_cmdline'[m_parse_ok_index + 3] = m_num
  <2>1. Len(bytes) = 1 /\ bytes[0 + 1] = m_num /\ Put(bytes)
    BY <1>3
  <2>2. \A k \in 0 .. 1 - 1 : m_cmdline'[m_parse_index + k] = bytes[k + 1]
    BY <1>1, <2>1, PutCells
  <2> QED BY <1>1, <2>1, <2>2
<1>6. \A k \in 0 .. 2 : m_cmdline'[m_parse_ok_index + k] = m_cmdline[m_parse_ok_index + k]
  <2>1. \A k \in 0 .. 2 : m_parse_ok_index + k \in 0 .. m_parse_index - 1
    BY <1>1
  <2> QED BY <1>4, <2>1 DEF Frame
<1>7. /\ m_cmdline'[m_parse_ok_index] = m_cmdline[m_parse_ok_index]
      /\ m_cmdline'[m_parse_ok_index + 1] = m_cmdline[m_parse_ok_index + 1]
      /\ m_cmdline'[m_parse_ok_index + 2] = m_cmdline[m_parse_ok_index + 2]
  <2>1. m_parse_ok_index + 0 = m_parse_ok_index
    BY <1>1
  <2> QED BY <1>6, <2>1
<1>8. Holds(m_cmdline', m_parse_ok_index, id)
  BY <1>1, <1>7 DEF Holds, IdAt
<1>9. LengthOf(id, m_cmdline'[m_parse_ok_index + 2]) = 4
  BY <1>1, <1>7, LengthLemma
<1>10. m_parse_index' >= m_parse_ok_index + 2 /\ m_parse_index' - 1 = m_parse_ok_index + 3
  BY <1>1, <1>4
<1>11. m_cmdline'[m_parse_index' - 1] # Stale
  BY <1>1, <1>5, <1>10 DEF Stale
<1>12. m_state' = "Body" /\ pc' = "ret"
  BY DEF Goto
<1>13. LineMoved
  BY <1>2, <1>4, <1>8, <1>9, <1>10, <1>11, <1>12, LineGrown
<1>14. m_state' \in QuietStates
  BY <1>12 DEF QuietStates
<1> QED BY <1>12, <1>13, <1>14, QuietPending DEF Post

LEMMA StateSPost ==
    ASSUME Start, Meant, pc = "ret", NEW c, NEW left, StateS(c, left) \/ StateSSet(c, left),
           m_state = "S" /\ c \in {EQ, QM} => m_num \in {3, 4},
           m_parse_index' <= CmdlineSize
    PROVE  Post(c, left)
<1>1. CASE StateS(c, left)
  <2>0. m_state = "S"
    BY <1>1 DEF StateS
  <2>1. CASE c = SPACE /\ Stay(left)
    BY <2>1, StayPost DEF SPACE
  <2>2. CASE c \in {EQ, QM} /\ SRequest(c, left)
    BY <2>0, <2>2, SRequestPost
  <2>3. CASE DecFits(m_num, c) /\ NextDigit(DecNext(m_num, c), left)
    <3>1. c # 83
      BY <2>3 DEF DecFits, GetNumeric, IsNumeric
    <3> QED BY <2>0, <2>3, <3>1, NextDigitPost
  <2>4. CASE FailOn(c, left)
    BY <2>4, FailOnPost
  <2> QED BY <1>1, <2>1, <2>2, <2>3, <2>4 DEF StateS
<1>2. CASE StateSSet(c, left)
  <2>0. m_state = "SSet"
    BY <1>2 DEF StateSSet
  <2>1. CASE Stay(left)
    BY <2>0, <2>1, StayPost
  <2>2. CASE NextDigit(DecNext(m_num, c), left)
    BY <2>0, <2>2, NextDigitPost
  <2>3. CASE Fail(left + 1)
    BY <2>3, FailPost
  <2>4. CASE ~(m_num > 127) /\ Put(<<m_num>>) /\ Commit /\ Goto("Body", left + 1)
    <3>1. m_num <= 127
      BY <2>4, StartLemma2
    <3> QED BY <2>0, <2>4, <3>1, SValuePost
  <2> QED BY <1>2, <2>1, <2>2, <2>3, <2>4 DEF StateSSet
<1> QED BY <1>1, <1>2

(* Cells of an id that was begun stay when more is written. *)
LEMMA BegunKept ==
    ASSUME Start, Frame, NEW id, Begun(id)
    PROVE  /\ Holds(m_cmdline', m_parse_ok_index, id)
           /\ m_parse_index' >= m_parse_ok_index + 2
<1>1. m_parse_ok_index \in Nat /\ m_parse_index \in Nat /\ m_parse_index' \in Nat
      /\ m_parse_index' >= m_parse_index /\ m_parse_ok_index + 2 <= m_parse_index
  BY StartLemma2 DEF Frame, Begun
<1>2. /\ m_cmdline'[m_parse_ok_index] = m_cmdline[m_parse_ok_index]
      /\ m_cmdline'[m_parse_ok_index + 1] = m_cmdline[m_parse_ok_index + 1]
  BY <1>1 DEF Frame
<1>3. m_parse_index' >= m_parse_ok_index + 2
  BY <1>1
<1> QED BY <1>2, <1>3 DEF Begun, Holds, IdAt

LEMMA AddNumericFrame ==
    ASSUME Ready, NEW n \in Nat, AddNumericParameter(n)
    PROVE  Frame /\ m_parse_index' = m_parse_index + 4
<1>1. Len(NumBytes(n)) = 4 /\ Put(NumBytes(n)) /\ Len(NumBytes(n)) \in Nat
  BY NumBytesLemma DEF AddNumericParameter
<1> QED BY <1>1, PutFrame

LEMMA StateBasicParameterPost ==
    ASSUME Start, Meant, pc = "ret", NEW c, NEW left, StateBasicParameter(c, left),
           m_parse_index' <= CmdlineSize
    PROVE  Post(c, left)
<1>0. m_state = "BasicParameter"
  BY DEF StateBasicParameter
<1>1. CASE Stay(left)
  BY <1>0, <1>1, StayPost
<1>2. CASE NextDigit(DecNext(m_num, c), left)
  BY <1>0, <1>2, NextDigitPost
<1>3. CASE Fail(left) \/ Fail(left + 1)
  BY <1>3, FailPost
<1>4. CASE AddNumericParameter(m_num) /\ Commit /\ Goto("Body", left + 2)
  <2>1. /\ Ready /\ m_num \in Nat /\ m_parse_ok_index \in Nat
        /\ m_parse_index = m_parse_ok_index + 2
    BY <1>0, StartLemma2 DEF Start, Pending
  <2>2. PICK k \in 1 .. NBasic + NAmp : BasicDef(k).ranges # {} /\ Begun(BasicId(k))
    BY <1>0 DEF Start, Pending, NumberedIds
  <2>3. Known(BasicId(k)) /\ ~IsSCmd(BasicId(k))
        /\ NoWrite(BasicId(k))
    <3>1. k \in 0 .. NBasic + NAmp /\ ~IsSCmd(BasicId(k))
      BY SizesAssumption DEF IsSCmd, BasicId, BasicOffset
    <3> QED BY <3>1, KnownLemma, NoFields
  <2>4. Frame /\ m_parse_index' = m_parse_ok_index + 6
    <3>1. Frame /\ m_parse_index' = m_parse_index + 4
      BY <1>4, <2>1, AddNumericFrame
    <3> QED BY <2>1, <3>1
  <2>5. Holds(m_cmdline', m_parse_ok_index, BasicId(k))
    BY <2>2, <2>4, BegunKept
  <2>6. LengthOf(BasicId(k), m_cmdline'[m_parse_ok_index + 2]) = 6
    BY <2>2, LengthLemma
  <2>7. m_parse_index' >= m_parse_ok_index + 2
    BY <2>1, <2>4
  <2>8. m_state' = "Body" /\ pc' = "ret"
    BY <1>4 DEF Goto
  <2>9. LineMoved
    BY <1>4, <2>3, <2>4, <2>5, <2>6, <2>7, <2>8, LineGrown
  <2>10. m_state' \in QuietStates
    BY <2>8 DEF QuietStates
  <2> QED BY <2>8, <2>9, <2>10, QuietPending DEF Post
<1> QED BY <1>1, <1>2, <1>3, <1>4 DEF StateBasicParameter
-----------------------------------------------------------------------------
(* Extended commands. *)

(* A request or a write command is begun with the name in hand. *)
LEMMA BeginExtended ==
    ASSUME Start, pc = "ret", m_state \in {"Extended", "ExtendedEq"}, IsLeaf(m_trie),
           NEW t \in CmdTypes, AddCmd(ExtId(Command, t)), m_parse_index' <= CmdlineSize,
           m_parse_ok_index' = m_parse_ok_index, m_trie' = m_trie
    PROVE  /\ Frame /\ m_parse_index' = m_parse_ok_index + 2
           /\ Begun(ExtId(Command, t))'
<1> DEFINE id == ExtId(Command, t)
<1>1. m_parse_index = m_parse_ok_index /\ m_parse_ok_index \in Nat
  BY StartLemma2 DEF BetweenCommands
<1>2. id \in Nat /\ id < 65536
  BY CommandLemma, IdsLemma
<1>3. /\ Frame /\ m_parse_index' = m_parse_ok_index + 2
      /\ Holds(m_cmdline', m_parse_ok_index, id)
  BY <1>1, <1>2, BeginLemma
<1>4. m_parse_ok_index' + 2 <= m_parse_index'
  BY <1>1, <1>3
<1> HIDE DEF id
<1>5. PICK n : n = id
  OBVIOUS
<1>6. Holds(m_cmdline', m_parse_ok_index', n)
  BY <1>3, <1>5
<1>7. Begun(n)'
  BY <1>4, <1>6 DEF Begun, Holds, IdAt
<1>8. Command' = Command
  BY DEF Command
<1>9. ExtId(Command', t) = n
  BY <1>5, <1>8 DEF id
<1> QED BY <1>3, <1>7, <1>9

LEMMA AddReadTestPost ==
    ASSUME Start, Meant, pc = "ret", m_state \in {"Extended", "ExtendedEq"},
           IsLeaf(m_trie), NEW t \in {"READ", "TEST"}, t = "READ" => Cmd.read,
           NEW c, NEW left, AddReadTest(t, left), m_parse_index' <= CmdlineSize
    PROVE  Post(c, left)
<1>1. /\ AddCmd(ExtId(Command, t)) /\ m_parse_ok_index' = m_parse_ok_index
      /\ m_state' = "ExtendedReadTest" /\ pc' = "ret" /\ m_trie' = m_trie
  BY DEF AddReadTest, KeepCommit, Goto
<1>2. t \in CmdTypes
  BY DEF CmdTypes
<1>3. PICK id : id = ExtId(Command, t)
  OBVIOUS
<1>4. Frame /\ m_parse_index' = m_parse_ok_index' + 2 /\ Begun(ExtId(Command, t))'
  BY <1>1, <1>2, BeginExtended
<1>5. \E n \in RequestIds : Begun(n)'
  <2>1. Command \in ExtIndices /\ Cmd = ExtCmds[Command]
    BY CommandLemma DEF Cmd
  <2>2. ExtId(Command, t) \in RequestIds
    BY <2>1 DEF RequestIds
  <2>3. Command' = Command
    BY DEF AddReadTest, Command
  <2>4. Begun(id)'
    BY <1>3, <1>4, <2>3 DEF Begun
  <2> QED BY <1>3, <2>2, <2>4
<1>6. LineMoved
  BY <1>1, <1>4, LineKept
<1>7. m_state' \notin ParamStates
  BY <1>1 DEF ParamStates, NumStates, StartStates
<1>8. Pending'
  BY <1>1, <1>4, <1>5, <1>7 DEF Pending
<1> QED BY <1>1, <1>6, <1>8 DEF Post, ToS

(* finalizeExtCmd, or the first parameter, of a command that was begun. *)
LEMMA WritePost ==
    ASSUME Start, m_parse_ok_index' = m_parse_ok_index, Frame,
           Begun(ExtId(Command, "WRITE"))', NEW c, NEW left, m_param_index' = 0,
           m_state' \in StartStates \cup {"Extended"}
    PROVE  Post(c, left)
<1>1. m_state' \notin {"S", "Ampersand", "SSet", "BasicParameter", "ExtendedReadTest",
                       "Executing", "String"}
  BY DEF StartStates
<1>2. LineMoved
  BY <1>1, LineKept
<1>3. Fields(m_cmdline, m_parse_ok_index, Command, m_param_index)'
  BY DEF Fields
<1> QED BY <1>1, <1>2, <1>3 DEF Pending, Post, ToS

(* setupParameterParser for the first parameter. *)
LEMMA SetupWritePost ==
    ASSUME Start, m_parse_ok_index' = m_parse_ok_index, Frame,
           Begun(ExtId(Command, "WRITE"))', NEW c, NEW left, NEW n,
           IsLeaf(m_trie), m_trie' = m_trie, m_param_index' = 0,
           SetupParameterParser(n)
    PROVE  Post(c, left)
<1>1. /\ m_state' \in StartStates \cup {"Error"} /\ pc' = "ret" /\ Goto(m_state', n)
  BY SetupState
<1>2. CASE m_state' \in StartStates
  BY <1>2, WritePost
<1>3. CASE m_state' = "Error"
  <2>1. Goto("Error", n)
    BY <1>1, <1>3
  <2>2. "Error" \in QuietStates \ {"Executing"}
    BY DEF QuietStates
  <2> QED BY <2>1, <2>2, QuietPost
<1> QED BY <1>1, <1>2, <1>3

LEMMA ExtendedEndPost ==
    ASSUME Start, Meant, pc = "ret", m_state = "Extended", NEW c, NEW left,
           ExtendedEnd(c, left), m_parse_index' <= CmdlineSize
    PROVE  Post(c, left)
<1>1. CASE ~IsLeaf(m_trie)
  BY <1>1, FailPost DEF ExtendedEnd
<1>2. CASE IsLeaf(m_trie) /\ ~Cmd.write
  BY <1>2, FailOnPost DEF ExtendedEnd
<1>3. CASE IsLeaf(m_trie) /\ Cmd.write /\ ~CommandFits
  BY <1>3, FailPost DEF ExtendedEnd
<1>4. CASE IsLeaf(m_trie) /\ Cmd.write /\ CommandFits
  <2>1. AddCmd(ExtId(Command, "WRITE")) /\ Finalize(left)
    BY <1>4 DEF ExtendedEnd
  <2>2. /\ m_state' = "Extended" /\ m_parse_ok_index' = m_parse_ok_index
        /\ m_trie' = m_trie /\ m_param_index' = 0
    BY <1>4, <2>1 DEF Finalize, ExtendedEnd
  <2>3. Frame /\ Begun(ExtId(Command, "WRITE"))'
    BY <1>4, <2>1, <2>2, BeginExtended DEF CmdTypes
  <2> QED BY <2>2, <2>3, WritePost
<1> QED BY <1>1, <1>2, <1>3, <1>4

(* Another part of a name. *)
LEMMA NamePost ==
    ASSUME Start, pc = "ret", m_state \in {"Extended", "ExtendedEq"}, NEW c, NEW left,
           NEW state \in {"Extended", "ExtendedEq"}, Goto(state, left), UNCHANGED bufVars
    PROVE  Post(c, left)
<1>1. m_parse_ok_index' = m_parse_ok_index /\ Frame
  BY KeptFrame DEF bufVars, Start
<1>2. state \in QuietStates \ {"Executing"}
  BY DEF QuietStates
<1> QED BY <1>1, <1>2, QuietPost

LEMMA StateExtendedPost ==
    ASSUME Start, Meant, pc = "ret", NEW c, NEW left, StateExtended(c, left),
           m_parse_index' <= CmdlineSize
    PROVE  Post(c, left)
<1>0. m_state = "Extended"
  BY DEF StateExtended
<1>1. CASE Stay(left)
  BY <1>0, <1>1, StayPost
<1>2. CASE Goto("ExtendedEq", left) /\ Keep
  BY <1>0, <1>2, NamePost DEF Keep
<1>3. CASE Fail(left)
  BY <1>3, FailPost
<1>4. CASE IsLeaf(m_trie) /\ Cmd.read /\ AddReadTest("READ", left)
  BY <1>0, <1>4, AddReadTestPost
<1>5. CASE ExtendedEnd(c, left)
  BY <1>0, <1>5, ExtendedEndPost
<1>6. CASE Goto("Extended", left) /\ UNCHANGED <<bufVars, paramVars>>
  BY <1>0, <1>6, NamePost
<1> QED BY <1>1, <1>2, <1>3, <1>4, <1>5, <1>6 DEF StateExtended

LEMMA StateExtendedEqPost ==
    ASSUME Start, Meant, pc = "ret", NEW c, NEW left, StateExtendedEq(c, left),
           m_parse_index' <= CmdlineSize
    PROVE  Post(c, left)
<1>0. m_state = "ExtendedEq"
  BY DEF StateExtendedEq
<1>1. CASE Stay(left)
  BY <1>0, <1>1, StayPost
<1>2. CASE Fail(left)
  BY <1>2, FailPost
<1>3. CASE IsLeaf(m_trie) /\ AddReadTest("TEST", left)
  BY <1>0, <1>3, AddReadTestPost
<1>4. CASE /\ IsLeaf(m_trie) /\ AddCmd(ExtId(Command, "WRITE")) /\ KeepCommit
           /\ m_param_index' = 0 /\ SetupParameterParser(left + 1) /\ m_trie' = m_trie
  <2>1. m_parse_ok_index' = m_parse_ok_index
    BY <1>4 DEF KeepCommit
  <2>2. Frame /\ Begun(ExtId(Command, "WRITE"))'
    BY <1>0, <1>4, <2>1, BeginExtended DEF CmdTypes
  <2> QED BY <1>4, <2>1, <2>2, SetupWritePost
<1> QED BY <1>1, <1>2, <1>3, <1>4 DEF StateExtendedEq

LEMMA StateExtendedReadTestPost ==
    ASSUME Start, Meant, pc = "ret", NEW c, NEW left, StateExtendedReadTest(c, left)
    PROVE  Post(c, left)
<1>0. m_state = "ExtendedReadTest"
  BY DEF StateExtendedReadTest
<1>1. CASE Stay(left)
  BY <1>0, <1>1, StayPost
<1>2. CASE Fail(left)
  BY <1>2, FailPost
<1>3. CASE /\ UNCHANGED <<m_cmdline, m_parse_index, paramVars>> /\ Commit
           /\ Execute(FALSE, left) \/ NextCommand(left)
  <2>1. PICK id \in RequestIds : Begun(id)
    BY <1>0 DEF Start, Pending
  <2>2. /\ Known(id) /\ ~IsSCmd(id) /\ (\A s : LengthOf(id, s) = 2)
        /\ NoWrite(id)
    <3>1. PICK i \in ExtIndices, t \in {"READ", "TEST"} :
             id = ExtId(i, t) /\ (t = "READ" => ExtCmds[i].read)
      BY <2>1 DEF RequestIds
    <3>2. Known(id)
      BY <3>1, KnownLemma DEF Meant
    <3>3. t \in CmdTypes
      BY DEF CmdTypes
    <3>4. ~IsSCmd(id)
      BY <3>1, <3>3, ExtIdLemma, SizesAssumption DEF IsSCmd, BasicId, BasicOffset
    <3>5. \A s : LengthOf(id, s) = 2
      BY <3>1, LengthLemma
    <3>6. NoWrite(id)
      BY <3>1, NoFields
    <3> QED BY <3>2, <3>4, <3>5, <3>6
  <2>3. Frame
    BY <1>3, KeptFrame DEF Start
  <2>4. /\ Holds(m_cmdline', m_parse_ok_index, id)
        /\ m_parse_index' >= m_parse_ok_index + 2
    BY <2>1, <2>3, BegunKept
  <2>5. m_parse_index' = m_parse_ok_index + 2
    BY <1>0, <1>3 DEF Start, Pending
  <2>6. /\ m_state' \in {"Executing", "Body"} /\ pc' \in {"ret", "exec"}
        /\ m_state' = "Executing" => m_exec_index' = 0
    BY <1>3 DEF Execute, StartCmdExec, NextCommand, Goto
  <2>7. LengthOf(id, m_cmdline'[m_parse_ok_index + 2]) = 2
    BY <2>2
  <2>8. LineMoved
    BY <1>3, <2>2, <2>3, <2>4, <2>5, <2>6, <2>7, LineGrown
  <2>9. m_state' \in QuietStates /\ pc' # "fill"
    BY <2>6 DEF QuietStates
  <2> QED BY <2>8, <2>9, QuietPending DEF Post
<1> QED BY <1>1, <1>2, <1>3 DEF StateExtendedReadTest
-----------------------------------------------------------------------------
(* Parameters. *)

LEMMA InParamStates ==
    ASSUME NEW s \in NumStates \cup StartStates \cup {"String", "HexString", "StringEnd"}
    PROVE  s \in ParamStates
BY DEF ParamStates

(* Within a parameter, or out of it with an error. *)
LEMMA ParamGoto ==
    ASSUME Start, pc = "ret", m_state \in ParamStates, NEW c, NEW left, NEW n,
           NEW state \in ParamStates \cup {"Error"}, Goto(state, n), m_trie' = m_trie,
           m_parse_ok_index' = m_parse_ok_index, Frame, Fills, InText
    PROVE  Post(c, left)
<1>1. m_state' = state
  BY DEF Goto
<1>2. CASE state \in ParamStates
  BY <1>1, <1>2, ParamPost2
<1>3. CASE state = "Error"
  <2>1. "Error" \in QuietStates \ {"Executing"}
    BY DEF QuietStates
  <2> QED BY <1>3, <2>1, QuietPost
<1> QED BY <1>2, <1>3

LEMMA ParamSetup ==
    ASSUME Start, pc = "ret", m_state \in ParamStates, NEW c, NEW left, NEW n,
           IsLeaf(m_trie), m_param_index' \in Nat, m_trie' = m_trie,
           SetupParameterParser(n), m_parse_ok_index' = m_parse_ok_index, Frame, Fills
    PROVE  Post(c, left)
<1>1. m_state' \in StartStates \cup {"Error"} /\ Goto(m_state', n)
  BY SetupState
<1>2. PICK state : state = m_state'
  OBVIOUS
<1>3. state \in ParamStates \cup {"Error"} /\ Goto(state, n)
  BY <1>1, <1>2, InParamStates
<1>4. InText
  BY <1>1 DEF InText, StartStates
<1> QED BY <1>3, <1>4, ParamGoto

LEMMA ParamFinalize ==
    ASSUME Start, pc = "ret", m_state \in ParamStates \ {"String"}, NEW c, NEW left, NEW n,
           Finalize(n), Frame, Fills
    PROVE  Post(c, left)
<1>1. /\ m_state' \in ParamStates \cup {"Extended"} /\ m_trie' = m_trie
      /\ m_parse_ok_index' = m_parse_ok_index /\ InText
  BY DEF Finalize, InText
<1> QED BY <1>1, ParamPost2

(* Four bytes of a number inside the ranges. *)
LEMMA NumberFilled ==
    ASSUME Ready, CmdParam.type \in NumTypes, m_parse_index = FieldStart,
           NEW v \in Value, ValidateRanges(CmdParam.ranges, v), AddNumericParameter(v),
           m_parse_index' <= CmdlineSize
    PROVE  Filled(m_cmdline', FieldStart, CmdParam)
<1>1. PICK bytes : bytes = NumBytes(v)
  OBVIOUS
<1>2. v \in Nat
  BY NumMaxAssumption DEF Value
<1>3. Len(bytes) = 4 /\ Put(bytes)
  BY <1>1, <1>2, NumBytesLemma DEF AddNumericParameter
<1>4. \A k \in 0 .. 4 - 1 : m_cmdline'[m_parse_index + k] = bytes[k + 1]
  BY <1>3, PutCells
<1>5. CmdParam.type \notin {"STR", "STR_HEX"}
  BY DEF NumTypes
<1> QED BY <1>1, <1>4, <1>5 DEF Filled

(* The NUL behind a text. *)
LEMMA TextFilled ==
    ASSUME Ready, CmdParam.type = "STR", CmdParam.size \in Nat, FieldStart \in Nat,
           m_num > 0, m_num <= CmdParam.size,
           m_parse_index = FieldStart + CmdParam.size - m_num,
           FinalizeString(m_num), m_parse_index' <= CmdlineSize
    PROVE  Filled(m_cmdline', FieldStart, CmdParam)
<1>1. /\ m_parse_index \in Nat /\ m_num \in Nat /\ CmdlineSize \in Nat
      /\ m_parse_index + m_num <= CmdlineSize
  BY IndexLemma DEF FinalizeString, PutAt
<1>2. PICK bytes : bytes = <<0>>
  OBVIOUS
<1>3. /\ Len(bytes) = 1 /\ bytes[0 + 1] = 0 /\ PutAt(0, bytes, m_num)
      /\ m_parse_index + 0 + 1 <= CmdlineSize
  BY <1>1, <1>2 DEF FinalizeString
<1>4. \A k \in 0 .. 1 - 1 : m_cmdline'[m_parse_index + 0 + k] = bytes[k + 1]
  <2>1. 1 \in Nat /\ 0 \in Nat
    OBVIOUS
  <2> QED BY <1>3, <2>1, PutAtCells
<1>5. m_cmdline'[m_parse_index] = 0
  BY <1>1, <1>3, <1>4
<1>6. /\ CmdParam.size - m_num \in 0 .. CmdParam.size - 1
      /\ m_parse_index = FieldStart + (CmdParam.size - m_num)
  BY <1>1
<1> QED BY <1>5, <1>6 DEF Filled, NumTypes

(* How many bytes, behind the field's unused rest. *)
LEMMA BytesFilled ==
    ASSUME Ready, CmdParam.type = "STR_HEX", CmdParam.size \in Nat, FieldStart \in Nat,
           m_num <= CmdParam.size, CmdParam.size < 65536,
           m_parse_index = FieldStart + CmdParam.size - m_num,
           FinalizeHexString(m_num, CmdParam.size), m_parse_index' <= CmdlineSize
    PROVE  Filled(m_cmdline', FieldStart, CmdParam)
<1>1. /\ m_parse_index \in Nat /\ m_num \in Nat /\ CmdlineSize \in Nat
      /\ m_parse_index + (m_num + 2) <= CmdlineSize
  BY IndexLemma DEF FinalizeHexString, PutAt
<1>2. PICK n : n = CmdParam.size - m_num
  OBVIOUS
<1>3. n \in 0 .. CmdParam.size /\ n \in Nat /\ n < 65536
  BY <1>1, <1>2
<1>4. PICK bytes : bytes = IdBytes(n)
  OBVIOUS
<1>5. Len(bytes) = 2
  BY <1>3, <1>4, IdBytesLemma
<1>6. \A k \in 0 .. 2 - 1 : m_cmdline'[m_parse_index + m_num + k] = bytes[k + 1]
  <2>1. PICK offset, advance : offset = m_num /\ advance = m_num + 2
    OBVIOUS
  <2>2. PutAt(offset, bytes, advance)
    BY <1>2, <1>4, <2>1 DEF FinalizeHexString
  <2>3. PICK two \in Nat : two = 2
    OBVIOUS
  <2>4. /\ m_parse_index + offset + two <= CmdlineSize /\ Len(bytes) = two
        /\ offset \in Nat
    BY <1>1, <1>5, <2>1, <2>3
  <2>5. \A k \in 0 .. two - 1 : m_cmdline'[m_parse_index + offset + k] = bytes[k + 1]
    BY <2>2, <2>4, PutAtCells
  <2> QED BY <2>1, <2>3, <2>5
<1>7. /\ m_parse_index + m_num + 0 = FieldStart + CmdParam.size
      /\ m_parse_index + m_num + 1 = FieldStart + CmdParam.size + 1
  BY <1>1
<1>8. /\ m_cmdline'[FieldStart + CmdParam.size] = IdBytes(n)[1]
      /\ m_cmdline'[FieldStart + CmdParam.size + 1] = IdBytes(n)[2]
  <2>1. 0 \in 0 .. 2 - 1 /\ 1 \in 0 .. 2 - 1 /\ 0 + 1 = 1 /\ 1 + 1 = 2
    OBVIOUS
  <2>2. /\ m_cmdline'[m_parse_index + m_num + 0] = bytes[0 + 1]
        /\ m_cmdline'[m_parse_index + m_num + 1] = bytes[1 + 1]
    BY <1>6, <2>1
  <2> QED BY <1>4, <1>7, <2>1, <2>2
<1>9. CmdParam.type \notin NumTypes /\ CmdParam.type # "STR"
  BY DEF NumTypes
<1> QED BY <1>3, <1>8, <1>9 DEF Filled

LEMMA DefaultFrame ==
    ASSUME Ready, IsLeaf(m_trie), m_param_index < Cmd.count, AddDefault(CmdParam)
    PROVE  Frame
<1> DEFINE p == CmdParam
<1>1. /\ p.type \in ParamTypes /\ p.size \in Nat /\ p.default \in Nat
      /\ p.text \in Seq(Byte) /\ p.size < 65536
      /\ p.type = "STR_HEX" => Len(p.text) <= p.size
  <2>1. PICK k \in Nat : k = m_param_index /\ k < Cmd.count
    BY IndexLemma
  <2>2. LET q == Cmd.params[k]
        IN  /\ q.type \in ParamTypes /\ q.size \in Nat /\ q.default \in Nat
            /\ q.text \in Seq(Byte) /\ q.size < 65536
            /\ q.type = "STR_HEX" => Len(q.text) <= q.size
    BY <2>1, ParameterLemma
  <2> QED BY <2>1, <2>2 DEF CmdParam
<1>2. CASE p.type \in NumTypes
  <2>1. AddNumericParameter(p.default)
    BY <1>2 DEF AddDefault, NumTypes
  <2> QED BY <1>1, <2>1, AddNumericFrame
<1>3. CASE p.type = "STR"
  <2>1. AddDefaultString(p)
    BY <1>3 DEF AddDefault, NumTypes
  <2>2. PutAt(0, p.text \o <<0>>, p.size)
    BY <2>1 DEF AddDefaultString
  <2> QED BY <1>1, <2>2, PutAtFrame
<1>4. CASE p.type = "STR_HEX"
  <2>1. AddDefaultHexString(p)
    BY <1>4 DEF AddDefault, NumTypes
  <2>2. Len(p.text) \in Nat /\ Len(p.text) < 65536
    BY <1>1, <1>4
  <2> DEFINE text == p.text
             size == IdBytes(Len(text))
  <2>3. text \in Seq(Byte) /\ size \in Seq(Byte) /\ Len(size) = 2
    BY <1>1, <2>2, IdBytesLemma
  <2>4. Put(text \o size)
    BY <2>1 DEF AddDefaultHexString
  <2>5. Len(text \o size) \in Nat
    <3> HIDE DEF text, size
    <3> QED BY <2>3, ConcatLemma
  <2> QED BY <2>4, <2>5, PutFrame
<1> QED BY <1>1, <1>2, <1>3, <1>4 DEF ParamTypes

(* The default of a parameter fills its field as a typed value does. *)
LEMMA DefaultFills ==
    ASSUME Ready, HexStringsRequired, IsLeaf(m_trie), m_param_index < Cmd.count,
           CmdParam.optional, m_parse_index = FieldStart, AddDefault(CmdParam),
           m_parse_index' <= CmdlineSize
    PROVE  Fills
<1> DEFINE p == CmdParam
<1>1. /\ m_parse_index \in Nat /\ CmdlineSize \in Nat
      /\ Command \in ExtIndices /\ m_param_index \in Params(Command)
      /\ p = ExtCmds[Command].params[m_param_index]
  BY IndexLemma, CommandLemma DEF Params, Cmd, CmdParam
<1>2. /\ p.type \in ParamTypes /\ p.size \in Nat /\ p.default \in Value
      /\ p.text \in Seq(Byte)
      /\ p.type \in NumTypes => \A r \in p.ranges : r[1] <= p.default /\ p.default <= r[2]
      /\ p.type = "STR" => p.size > 0 /\ Len(p.text) < p.size
  BY <1>1, ParamAssumption
<1>3. CASE p.type \in NumTypes
  <2>1. AddNumericParameter(p.default) /\ FieldSize(p) = 4
    BY <1>3 DEF AddDefault, FieldSize, NumTypes
  <2>2. m_parse_index' = m_parse_index + 4 /\ m_param_index' = m_param_index + 1
    <3>1. p.default \in Nat
      BY <1>2, NumMaxAssumption DEF Value
    <3> QED BY <2>1, <3>1, AddNumericIndex
  <2>3. ValidateRanges(p.ranges, p.default)
    BY <1>2, <1>3 DEF ValidateRanges
  <2>4. Filled(m_cmdline', FieldStart, p)
    BY <1>2, <1>3, <2>1, <2>2, <2>3, NumberFilled
  <2> QED BY <2>2, <2>4 DEF Fills
<1>4. CASE p.type = "STR"
  <2>1. PICK text, bytes : text = p.text /\ bytes = text \o <<0>>
    OBVIOUS
  <2>2. /\ PutAt(0, bytes, p.size) /\ m_param_index' = m_param_index + 1
        /\ m_parse_index + p.size <= CmdlineSize
    BY <1>4, <2>1 DEF AddDefault, AddDefaultString, PutAt, NumTypes
  <2>3. PICK n \in Nat : n = Len(text)
    BY <1>2, <2>1
  <2>4. Len(bytes) = n + 1 /\ bytes[n + 1] = 0 /\ n < p.size
    BY <1>2, <1>4, <2>1, <2>3
  <2>5. \A k \in 0 .. n + 1 - 1 : m_cmdline'[m_parse_index + 0 + k] = bytes[k + 1]
    <3>1. n + 1 \in Nat /\ 0 \in Nat /\ m_parse_index + 0 + (n + 1) <= CmdlineSize
      BY <1>1, <1>2, <2>2, <2>3, <2>4
    <3>2. PICK m \in Nat : m = n + 1
      BY <3>1
    <3>3. \A k \in 0 .. m - 1 : m_cmdline'[m_parse_index + 0 + k] = bytes[k + 1]
      BY <2>2, <2>4, <3>1, <3>2, PutAtCells
    <3> QED BY <3>2, <3>3
  <2>6. n \in 0 .. n + 1 - 1 /\ m_parse_index + 0 + n = FieldStart + n
        /\ n \in 0 .. p.size - 1
    BY <1>1, <1>2, <2>3, <2>4
  <2>7. m_cmdline'[FieldStart + n] = 0
    BY <2>4, <2>5, <2>6
  <2>8. Filled(m_cmdline', FieldStart, p)
    BY <1>4, <2>6, <2>7 DEF Filled, NumTypes
  <2> QED BY <2>2, <2>8 DEF Fills
<1>5. CASE p.type = "STR_HEX"
  BY <1>1, <1>5 DEF HexStringsRequired
<1> QED BY <1>2, <1>3, <1>4, <1>5 DEF ParamTypes

LEMMA DefaultParameterPost ==
    ASSUME Start, HexStringsRequired, pc = "ret", m_state \in StartStates, NEW c, NEW left,
           ProcessDefaultParameter(c, left), m_parse_index' <= CmdlineSize
    PROVE  Post(c, left)
<1>0. /\ m_state \in ParamStates /\ m_state # "StringEnd" /\ m_state # "S"
      /\ Ready
  BY InParamStates, StartLemma2 DEF StartStates
<1>1. IsLeaf(m_trie) /\ m_param_index < Cmd.count /\ m_parse_index = FieldStart
  BY <1>0, StartLemma DEF Start
<1>2. CASE Stay(left)
  BY <1>0, <1>2, StayPost
<1>3. CASE Fail(left)
  BY <1>3, FailPost
<1>4. CASE /\ CmdParam.optional /\ AddDefault(CmdParam) /\ SetupParameterParser(left)
           /\ UNCHANGED <<m_parse_ok_index, m_trie>>
  <2>1. m_param_index' \in Nat
    BY <1>0, <1>1, <1>4, AddDefaultLemma DEF KeepCommit
  <2>2. Frame /\ Fills
    BY <1>0, <1>1, <1>4, DefaultFrame, DefaultFills
  <2> QED BY <1>0, <1>1, <1>4, <2>1, <2>2, ParamSetup
<1>5. CASE Finalize(left) /\ UNCHANGED <<m_cmdline, m_parse_index, paramVars>>
  <2>1. Fills /\ m_state # "String"
    BY <1>5 DEF Fills, paramVars, StartStates
  <2> QED BY <1>0, <1>5, <2>1, KeptFrame, ParamFinalize
<1> QED BY <1>2, <1>3, <1>4, <1>5 DEF ProcessDefaultParameter

LEMMA ProcessDigitPost ==
    ASSUME Start, pc = "ret", NEW type \in NumTypes, NEW n, NEW c, NEW left,
           m_state \in NumStates, ProcessDigit(type, n, c, left)
    PROVE  Post(c, left)
<1>0. m_state \in ParamStates /\ Ready
  BY InParamStates, StartLemma2
<1>1. CASE Fail(left)
  BY <1>1, FailPost
<1>2. CASE /\ Goto(NumState[type], left)
           /\ UNCHANGED <<bufVars, m_param_index, m_nibble, m_trie>>
  <2>1. NumState[type] \in ParamStates \cup {"Error"}
    BY ParamStatesLemma, InParamStates
  <2>2. Frame /\ m_parse_ok_index' = m_parse_ok_index
    BY <1>0, <1>2, KeptFrame DEF bufVars
  <2>3. Fills /\ InText
    BY <1>2 DEF Fills, InText, Goto, NumState, NumTypes
  <2> QED BY <1>0, <1>2, <2>1, <2>2, <2>3, ParamGoto
<1> QED BY <1>1, <1>2 DEF ProcessDigit

(* The number typed is in its ranges when it fills its field. *)
LEMMA NumericParameterEndPost ==
    ASSUME Start, pc = "ret", NEW t \in NumTypes, m_state = NumState[t], NEW c, NEW left,
           NumericParameterEnd(c, left), m_parse_index' <= CmdlineSize
    PROVE  Post(c, left)
<1>0. /\ m_state \in NumStates /\ m_state \in ParamStates /\ Ready
      /\ m_state \notin {"String", "HexString", "StringEnd"}
  BY ParamStatesLemma, StartLemma2
<1>1. /\ IsLeaf(m_trie) /\ m_param_index \in Nat /\ m_param_index < Cmd.count
      /\ CmdParam.type \in NumTypes /\ m_parse_index = FieldStart
  BY <1>0, InHandLemma DEF Ready, IInv, ParameterInHand, Start, LInv, Aligned
<1>2. m_num \in Value /\ m_num \in Nat
  <2>1. m_state \in {"NumDec", "NumHex", "NumBin"}
    BY DEF NumState, NumTypes
  <2> QED BY <2>1, StartLemma2 DEF Start, NumberFits
<1>3. CASE Fail(left)
  BY <1>3, FailPost
<1>4. CASE Execute(TRUE, left) /\ Keep
  BY <1>4, ExecutePost
<1>5. ASSUME ValidateRanges(CmdParam.ranges, m_num), AddNumericParameter(m_num)
      PROVE  Frame /\ m_param_index' \in Nat /\ Fills
  <2>1. Frame /\ m_param_index' = m_param_index + 1
    BY <1>0, <1>2, <1>5, AddNumericFrame DEF AddNumericParameter
  <2>2. PICK v \in Value : v = m_num
    BY <1>2
  <2>3. ValidateRanges(CmdParam.ranges, v) /\ AddNumericParameter(v)
    BY <1>5, <2>2
  <2>4. Filled(m_cmdline', FieldStart, CmdParam)
    BY <1>0, <1>1, <2>3, NumberFilled
  <2> QED BY <1>1, <2>1, <2>4 DEF Fills
<1>6. CASE /\ ValidateRanges(CmdParam.ranges, m_num)
           /\ AddNumericParameter(m_num) /\ SetupParameterParser(left)
           /\ UNCHANGED <<m_parse_ok_index, m_trie>>
  BY <1>0, <1>1, <1>5, <1>6, ParamSetup
<1>7. CASE /\ ValidateRanges(CmdParam.ranges, m_num)
           /\ AddNumericParameter(m_num) /\ Finalize(left)
  BY <1>0, <1>5, <1>7, ParamFinalize
<1> QED BY <1>3, <1>4, <1>6, <1>7 DEF NumericParameterEnd

LEMMA StateNumPost ==
    ASSUME Start, HexStringsRequired, pc = "ret", NEW t \in NumTypes, NEW c, NEW left,
           StateNumStart(t, c, left) \/ StateNum(t, c, left), m_parse_index' <= CmdlineSize
    PROVE  Post(c, left)
<1>1. m_state \in NumStates
  BY ParamStatesLemma DEF StateNumStart, StateNum
<1>2. CASE StateNumStart(t, c, left)
  <2>1. m_state \in StartStates
    BY <1>2, ParamStatesLemma DEF StateNumStart
  <2> QED BY <1>1, <1>2, <2>1, DefaultParameterPost, ProcessDigitPost DEF StateNumStart
<1>3. CASE StateNum(t, c, left)
  BY <1>1, <1>3, NumericParameterEndPost, ProcessDigitPost DEF StateNum
<1> QED BY <1>2, <1>3

LEMMA StateQuotePost ==
    ASSUME Start, HexStringsRequired, pc = "ret", NEW c, NEW left,
           StateStringStart(c, left) \/ StateHexStringStart(c, left),
           m_parse_index' <= CmdlineSize
    PROVE  Post(c, left)
<1>1. m_state \in StartStates
  BY DEF StateStringStart, StateHexStringStart, StateQuote, StartStates
<1>2. m_state \in ParamStates /\ Ready
  BY <1>1, InParamStates, StartLemma2
<1>3. CASE ProcessDefaultParameter(c, left)
  BY <1>1, <1>3, DefaultParameterPost
<1>4. CASE Fail(left)
  BY <1>4, FailPost
<1>5. CASE OpenString("String", left) \/ OpenString("HexString", left)
  <2>1. /\ Goto("String", left) \/ Goto("HexString", left)
        /\ Frame /\ m_parse_ok_index' = m_parse_ok_index /\ m_trie' = m_trie
    BY <1>2, <1>5, KeptFrame DEF OpenString, bufVars
  <2>2. "String" \in ParamStates /\ "HexString" \in ParamStates
    BY InParamStates
  <2>3. Fills /\ InText
    <3>1. CmdParam.size \in Nat
      <4>1. IsLeaf(m_trie) /\ m_param_index < Cmd.count /\ m_param_index \in Nat
        BY <1>1, <1>2, StartLemma, IndexLemma
      <4> QED BY <4>1, ParameterLemma DEF CmdParam
    <3> QED BY <1>5, <3>1 DEF Fills, InText, OpenString
  <2> QED BY <1>2, <2>1, <2>2, <2>3, ParamGoto
<1> QED BY <1>3, <1>4, <1>5 DEF StateStringStart, StateHexStringStart, StateQuote

LEMMA StateStringPost ==
    ASSUME Start, pc = "ret", NEW c, NEW left, StateString(c, left),
           m_parse_index' <= CmdlineSize
    PROVE  Post(c, left)
<1>1. m_state = "String" /\ m_state \in ParamStates /\ Ready /\ m_num \in Nat
  BY InParamStates, StartLemma2 DEF StateString
<1>2. /\ m_param_index < Cmd.count /\ CmdParam.type = "STR"
      /\ CmdParam.size \in Nat /\ FieldStart \in Nat /\ m_num > 0 /\ m_num <= CmdParam.size
      /\ m_parse_index = FieldStart + CmdParam.size - m_num
  BY <1>1, TextLemma DEF Start, Ready, IInv, RoomInField, Pending
<1>3. CASE /\ FinalizeString(m_num) /\ Goto("StringEnd", left)
           /\ UNCHANGED <<m_parse_ok_index, m_trie>>
  <2>1. PutAt(0, <<0>>, m_num) /\ 0 \in Nat
    BY <1>3 DEF FinalizeString
  <2>2. Frame
    BY <1>1, <2>1, PutAtFrame
  <2>3. "StringEnd" \in ParamStates
    BY InParamStates
  <2>4. Filled(m_cmdline', FieldStart, CmdParam)
    BY <1>1, <1>2, <1>3, TextFilled
  <2>5. Fills /\ InText
    BY <1>2, <1>3, <2>4 DEF Fills, InText, Goto, FinalizeString
  <2> QED BY <1>1, <1>3, <2>2, <2>3, <2>5, ParamGoto
<1>4. CASE Fail(left)
  BY <1>4, FailPost
<1>5. CASE /\ Put(<<c>>) /\ m_num' = m_num - 1 /\ Goto("String", left)
           /\ UNCHANGED <<m_parse_ok_index, m_param_index, m_nibble, m_trie>>
  <2>1. PICK bytes : bytes = <<c>>
    OBVIOUS
  <2>2. Len(bytes) \in Nat /\ Put(bytes)
    BY <1>5, <2>1
  <2>3. Frame
    BY <1>1, <2>2, PutFrame
  <2>4. "String" \in ParamStates
    BY InParamStates
  <2>5. Fills /\ InText
    <3>1. m_num - 1 <= CmdParam.size
      BY <1>1, <1>2
    <3> QED BY <1>5, <3>1 DEF Fills, InText
  <2> QED BY <1>1, <1>5, <2>3, <2>4, <2>5, ParamGoto
<1> QED BY <1>3, <1>4, <1>5 DEF StateString

LEMMA HexDigitPost ==
    ASSUME Start, pc = "ret", m_state = "HexString", NEW c, NEW left, HexDigit(c, left)
    PROVE  Post(c, left)
<1>1. m_state \in ParamStates /\ Ready /\ "HexString" \in ParamStates
  BY InParamStates, StartLemma2
<1>2. CASE FailOn(c, left)
  BY <1>2, FailOnPost
<1>3. CASE Fail(left)
  BY <1>3, FailPost
<1>4. CASE Goto("HexString", left) /\ UNCHANGED <<bufVars, m_param_index, m_num, m_trie>>
  <2>1. Frame /\ m_parse_ok_index' = m_parse_ok_index
    BY <1>1, <1>4, KeptFrame DEF bufVars
  <2>2. Fills /\ InText
    BY <1>4 DEF Fills, InText, Goto
  <2> QED BY <1>1, <1>4, <2>1, <2>2, ParamGoto
<1>5. CASE /\ Put(<<16 * m_nibble + GetHex(c)>>) /\ Goto("HexString", left)
           /\ UNCHANGED <<m_parse_ok_index, m_param_index, m_trie>>
  <2>1. PICK bytes : bytes = <<16 * m_nibble + GetHex(c)>>
    OBVIOUS
  <2>2. Len(bytes) \in Nat /\ Put(bytes)
    BY <1>5, <2>1
  <2>3. Frame
    BY <1>1, <2>2, PutFrame
  <2>4. Fills /\ InText
    BY <1>5 DEF Fills, InText, Goto
  <2> QED BY <1>1, <1>5, <2>3, <2>4, ParamGoto
<1>6. /\ GetHex(c) = -1 => FailOn(c, left)
      /\ GetHex(c) # -1 /\ m_nibble = NoNibble =>
           \/ Fail(left)
           \/ /\ Goto("HexString", left)
              /\ UNCHANGED <<bufVars, m_param_index, m_num, m_trie>>
      /\ GetHex(c) # -1 /\ m_nibble # NoNibble =>
           /\ Put(<<16 * m_nibble + GetHex(c)>>) /\ Goto("HexString", left)
           /\ UNCHANGED <<m_parse_ok_index, m_param_index, m_trie>>
  BY DEF HexDigit
<1> QED BY <1>2, <1>3, <1>4, <1>5, <1>6

LEMMA StateHexStringPost ==
    ASSUME Start, pc = "ret", NEW c, NEW left, StateHexString(c, left),
           m_parse_index' <= CmdlineSize
    PROVE  Post(c, left)
<1>1. /\ m_state = "HexString" /\ m_state \in ParamStates /\ Ready
      /\ "StringEnd" \in ParamStates /\ m_num \in Nat
  BY InParamStates, StartLemma2 DEF StateHexString
<1>0. /\ m_param_index < Cmd.count /\ CmdParam.type = "STR_HEX"
      /\ CmdParam.size \in Nat /\ CmdParam.size < 65536 /\ FieldStart \in Nat
      /\ m_num <= CmdParam.size /\ m_parse_index = FieldStart + CmdParam.size - m_num
  <2>1. /\ IsLeaf(m_trie) /\ m_param_index < Cmd.count /\ CmdParam.type = "STR_HEX"
        /\ FieldStart \in Nat /\ m_num <= CmdParam.size
        /\ m_parse_index = FieldStart + CmdParam.size - m_num
    BY <1>1, TextLemma DEF Start, Ready, IInv, RoomInField
  <2> QED BY <1>1, <2>1, IndexLemma, ParameterLemma DEF CmdParam
<1>2. CASE Stay(left)
  BY <1>1, <1>2, StayPost
<1>3. CASE Fail(left)
  BY <1>3, FailPost
<1>4. CASE /\ FinalizeHexString(m_num, CmdParam.size) /\ Goto("StringEnd", left)
           /\ UNCHANGED <<m_parse_ok_index, m_trie>>
  <2>1. /\ PutAt(m_num, IdBytes(CmdParam.size - m_num), m_num + 2)
        /\ m_num + 2 \in Nat
    BY <1>1, <1>4 DEF FinalizeHexString
  <2>2. Frame
    BY <1>1, <2>1, PutAtFrame
  <2>3. Filled(m_cmdline', FieldStart, CmdParam)
    BY <1>0, <1>1, <1>4, BytesFilled
  <2>4. Fills /\ InText
    BY <1>0, <1>4, <2>3 DEF Fills, InText, Goto, FinalizeHexString
  <2> QED BY <1>1, <1>4, <2>2, <2>4, ParamGoto
<1>5. CASE HexDigit(c, left)
  BY <1>1, <1>5, HexDigitPost
<1> QED BY <1>2, <1>3, <1>4, <1>5 DEF StateHexString

LEMMA StateStringEndPost ==
    ASSUME Start, pc = "ret", NEW c, NEW left, StateStringEnd(c, left)
    PROVE  Post(c, left)
<1>1. m_state = "StringEnd" /\ m_state \in ParamStates /\ Ready
  BY InParamStates, StartLemma2 DEF StateStringEnd
<1>2. IsLeaf(m_trie) /\ m_param_index \in Nat
  BY <1>1, InHandLemma
<1>3. CASE UNCHANGED <<bufVars, paramVars, m_trie>> /\ SetupParameterParser(left)
  <2>1. /\ Frame /\ m_parse_ok_index' = m_parse_ok_index
        /\ m_param_index' \in Nat /\ m_trie' = m_trie /\ Fills
    BY <1>1, <1>2, <1>3, KeptFrame DEF bufVars, paramVars, Fills
  <2> QED BY <1>1, <1>2, <1>3, <2>1, ParamSetup
<1>4. CASE Finalize(left) /\ UNCHANGED <<m_cmdline, m_parse_index, paramVars>>
  <2>1. Fills /\ m_state # "String"
    BY <1>1, <1>4 DEF Fills, paramVars
  <2> QED BY <1>1, <1>4, <2>1, KeptFrame, ParamFinalize
<1>5. CASE Fail(left)
  BY <1>5, FailPost
<1> QED BY <1>3, <1>4, <1>5 DEF StateStringEnd
-----------------------------------------------------------------------------
(* Steps. *)

LEMMA DispatchPost ==
    ASSUME Start, Meant, pc = "ret", NEW c, NEW left, Dispatch(c, left),
           m_state = "S" /\ c \in {EQ, QM} => m_num \in {3, 4}, c = 83 => SKnown,
           m_parse_index' <= CmdlineSize
    PROVE  Post(c, left)
<1>0. HexStringsRequired
  BY DEF Meant
<1>1. CASE StateA(c, left) \/ StateT(c, left)
  BY <1>1, StateTPost
<1>2. CASE StateBody(c, left)
  BY <1>2, StateBodyPost
<1>3. CASE StateS(c, left) \/ StateSSet(c, left)
  BY <1>3, StateSPost
<1>4. CASE StateAmpersand(c, left)
  BY <1>4, StateAmpersandPost
<1>5. CASE StateBasicParameter(c, left)
  BY <1>5, StateBasicParameterPost
<1>6. CASE StateExtended(c, left)
  BY <1>6, StateExtendedPost
<1>7. CASE StateExtendedEq(c, left)
  BY <1>7, StateExtendedEqPost
<1>8. CASE StateExtendedReadTest(c, left)
  BY <1>8, StateExtendedReadTestPost
<1>9. CASE \E t \in NumTypes : StateNumStart(t, c, left) \/ StateNum(t, c, left)
  BY <1>0, <1>9, StateNumPost
<1>10. CASE StateStringStart(c, left) \/ StateHexStringStart(c, left)
  BY <1>0, <1>10, StateQuotePost
<1>11. CASE StateString(c, left)
  BY <1>11, StateStringPost
<1>12. CASE StateHexString(c, left)
  BY <1>12, StateHexStringPost
<1>13. CASE StateStringEnd(c, left)
  BY <1>13, StateStringEndPost
<1>14. CASE StateError(c, left)
  BY <1>14, FailOnPost DEF StateError
<1>15. CASE StateExecuting(c, left)
  <2>1. m_state = "Executing" /\ Stay(left)
    BY <1>15 DEF StateExecuting
  <2> QED BY <2>1, StayPost
<1> QED BY <1>1, <1>2, <1>3, <1>4, <1>5, <1>6, <1>7, <1>8, <1>9, <1>10, <1>11,
           <1>12, <1>13, <1>14, <1>15 DEF Dispatch

(* The command that finalizeExtCmd completes is as long as its id says:    *)
(* the parse index is where the field behind the last one would start.     *)
LEMMA CompletePost ==
    ASSUME Start, Meant, pc = "fill", m_param_index = Cmd.count,
           UNCHANGED <<m_cmdline, m_parse_index>>, Commit,
           Execute(FALSE, redo) \/ NextCommand(redo)
    PROVE  LineMoved /\ Pending' /\ \A c, left : ToS(c, left)
<1> DEFINE id == ExtId(Command, "WRITE")
<1>1. /\ Ready /\ IsLeaf(m_trie) /\ Cmd.write /\ m_state \in FillStates
      /\ m_state \notin {"String", "HexString"}
  BY DEF Start, Ready, IInv, ControlOK, ParameterInHand, FillStates
<1>2. Command \in ExtIndices /\ ExtCmds[Command].write
  BY <1>1, CommandLemma DEF Cmd
<1>3. Known(id) /\ ~IsSCmd(id) /\ (\A s : LengthOf(id, s) = WriteSize(Command))
  <2>1. Known(id)
    BY <1>2, KnownLemma
  <2>2. ~IsSCmd(id)
    BY <1>2, ExtIdLemma, SizesAssumption DEF IsSCmd, BasicId, BasicOffset, CmdTypes
  <2> QED BY <1>2, <2>1, <2>2, LengthLemma
<1>4. m_parse_index = m_parse_ok_index + WriteSize(Command)
  <2>1. m_parse_index = FieldStart
    BY <1>1 DEF Start, LInv, Aligned
  <2> QED BY <2>1 DEF FieldStart, WriteSize, Cmd
<1>5. Frame
  BY <1>1, KeptFrame
<1>6. Begun(id)
  BY DEF Start, Pending
<1>7. Holds(m_cmdline', m_parse_ok_index, id) /\ m_parse_index' >= m_parse_ok_index + 2
  BY <1>5, <1>6, BegunKept
<1>8. /\ m_state' \in {"Executing", "Body"} /\ pc' \in {"ret", "exec"}
      /\ m_state' = "Executing" => m_exec_index' = 0
  BY DEF Execute, StartCmdExec, NextCommand, Goto
<1>9. m_parse_index' = m_parse_ok_index
                          + LengthOf(id, m_cmdline'[m_parse_ok_index + 2])
  BY <1>3, <1>4
<1>12. FieldsAt(m_cmdline', m_parse_ok_index, id)
  <2>1. Fields(m_cmdline, m_parse_ok_index, Command, ExtCmds[Command].count)
    BY DEF Start, Pending, Cmd
  <2>2. \A d \in ExtIndices : id = ExtId(d, "WRITE") => d = Command
    BY <1>2, ExtIdLemma DEF CmdTypes
  <2> QED BY <2>1, <2>2 DEF FieldsAt
<1>10. LineMoved
  <2> HIDE DEF id
  <2>1. PICK n : n = id
    OBVIOUS
  <2>2. /\ Known(n) /\ ~IsSCmd(n) /\ Holds(m_cmdline', m_parse_ok_index, n)
        /\ m_parse_index' = m_parse_ok_index
                               + LengthOf(n, m_cmdline'[m_parse_ok_index + 2])
        /\ FieldsAt(m_cmdline', m_parse_ok_index, n)
    BY <1>3, <1>7, <1>9, <1>12, <2>1
  <2> QED BY <1>5, <1>7, <1>8, <2>2, LineGrown
<1>11. m_state' \in QuietStates /\ pc' # "fill"
  BY <1>8 DEF QuietStates
<1> QED BY <1>10, <1>11, QuietPending

LEMMA FinalizeExtCmdPost ==
    ASSUME Start, Meant, FinalizeExtCmd
    PROVE  LineMoved /\ Pending' /\ m_state' # "S"
<1>1. /\ pc = "fill" /\ Ready /\ IsLeaf(m_trie) /\ m_state \in FillStates
      /\ m_param_index \in Nat /\ Cmd.count \in Nat /\ m_param_index <= Cmd.count
  BY CommandLemma, TypedLemma
     DEF FinalizeExtCmd, Start, Ready, IInv, TypeOK, ControlOK, ParameterInHand
<1>2. CASE m_param_index = Cmd.count
  <2>1. /\ UNCHANGED <<m_cmdline, m_parse_index>> /\ Commit
        /\ Execute(FALSE, redo) \/ NextCommand(redo)
    BY <1>2 DEF FinalizeExtCmd
  <2>2. m_state' # "S"
    BY <2>1 DEF Execute, NextCommand, Goto
  <2> QED BY <1>1, <1>2, <2>1, <2>2, CompletePost
<1>3. CASE /\ m_param_index # Cmd.count
           /\ ~CmdParam.optional \/ ParameterOverflows(CmdParam)
  <2>1. Fail(redo) \/ (Execute(TRUE, redo) /\ Keep)
    BY <1>3 DEF FinalizeExtCmd
  <2>2. m_state' # "S"
    BY <2>1 DEF Fail, Execute, Goto
  <2>3. Post(0, 0)
    BY <2>1, FailPost, ExecutePost
  <2> QED BY <2>2, <2>3 DEF Post
<1>4. CASE /\ m_param_index # Cmd.count
           /\ CmdParam.optional /\ ~ParameterOverflows(CmdParam)
  <2>1. AddDefault(CmdParam) /\ Finalize(redo)
    BY <1>4 DEF FinalizeExtCmd
  <2>2. m_param_index < Cmd.count
    BY <1>1, <1>4
  <2>3. Frame
    BY <1>1, <2>1, <2>2, DefaultFrame
  <2>4. /\ m_state' \in ParamStates \cup {"Extended"} /\ m_trie' = m_trie
        /\ m_parse_ok_index' = m_parse_ok_index /\ m_state' # "String"
    BY <1>1, <2>1 DEF Finalize, FillStates, NumStates, StartStates
  <2>7. m_parse_index' <= CmdlineSize
    <3>1. /\ m_parse_index' <= m_parse_index + FieldSize(CmdParam)
          /\ m_parse_index' \in Nat
      BY <1>1, <2>1, <2>2, <2>3, <2>4, AddDefaultLemma DEF KeepCommit, Frame
    <3>2. /\ m_parse_index \in Nat /\ CmdlineSize \in Nat /\ FieldSize(CmdParam) \in Nat
      BY <1>1, <2>2, FieldLemma, IndexLemma
    <3> QED BY <1>4, <3>1, <3>2 DEF ParameterOverflows, Available
  <2>8. m_parse_index = FieldStart
    <3>1. m_state \notin {"String", "HexString"}
      BY <1>1 DEF FillStates, NumStates, StartStates
    <3> QED BY <1>1, <3>1 DEF Start, LInv, Aligned
  <2>9. Fills
    BY <1>1, <1>4, <2>1, <2>2, <2>7, <2>8, DefaultFills DEF Meant
  <2>5. Post(0, 0)
    BY <1>1, <2>3, <2>4, <2>9, ParamPost2 DEF InText
  <2>6. m_state' # "S"
    BY <2>4 DEF ParamStates, NumStates, StartStates
  <2> QED BY <2>5, <2>6 DEF Post
<1> QED BY <1>2, <1>3, <1>4
-----------------------------------------------------------------------------
(* The executor stands where a command begins, or behind the last.         *)

LEMMA StandsAtCommand ==
    ASSUME Line, m_state = "Executing"
    PROVE  \/ m_exec_index = m_parse_ok_index
           \/ AtCommand
<1>1. PICK places \in SUBSET Nat :
         Chain(m_cmdline, m_parse_ok_index, places) /\ m_exec_index \in places
  BY DEF Line
<1>2. SUFFICES ASSUME m_exec_index # m_parse_ok_index
               PROVE  AtCommand
  OBVIOUS
<1>3. CommandAt(m_cmdline, m_parse_ok_index, m_exec_index)
  BY <1>1, <1>2 DEF Chain
<1>4. IdAt(m_cmdline, m_exec_index) = CurrentCmdId
  BY DEF IdAt, CurrentCmdId
<1>5. LengthAt(m_cmdline, m_exec_index) = CmdLength(CurrentCmdId)
  BY <1>4 DEF LengthAt, LengthOf, CmdLength, SLength, SParameter
<1> QED BY <1>3, <1>4, <1>5 DEF CommandAt, AtCommand, Known

(* And so it does one command later. *)
LEMMA NextCommandStands ==
    ASSUME Line, m_state = "Executing", m_exec_index # m_parse_ok_index,
           UNCHANGED <<m_cmdline, m_parse_ok_index>>,
           m_exec_index' \in {m_exec_index, m_exec_index + CmdLength(CurrentCmdId)}
    PROVE  Line'
<1>1. PICK places \in SUBSET Nat :
         Chain(m_cmdline, m_parse_ok_index, places) /\ m_exec_index \in places
  BY DEF Line
<1>2. LengthAt(m_cmdline, m_exec_index) = CmdLength(CurrentCmdId)
  BY DEF IdAt, CurrentCmdId, LengthAt, LengthOf, CmdLength, SLength, SParameter
<1>3. m_exec_index + LengthAt(m_cmdline, m_exec_index) \in places
  BY <1>1 DEF Chain
<1>4. m_exec_index' \in places
  BY <1>1, <1>2, <1>3
<1>5. Chain(m_cmdline', m_parse_ok_index', places)
  BY <1>1
<1> QED BY <1>4, <1>5 DEF Line

LEMMA LineUnmoved ==
    ASSUME Line, UNCHANGED <<m_cmdline, m_parse_ok_index, m_exec_index>>,
           m_state' = "Executing" => m_state = "Executing"
    PROVE  Line'
<1>1. PICK places \in SUBSET Nat :
         /\ Chain(m_cmdline, m_parse_ok_index, places)
         /\ m_state = "Executing" => m_exec_index \in places
  BY DEF Line
<1>2. Chain(m_cmdline', m_parse_ok_index', places)
  BY <1>1
<1> QED BY <1>1, <1>2 DEF Line

LEMMA ExecutorPost ==
    ASSUME Start, ExecCommand \/ ExecEnd \/ Abort \/ (\E id \in Asynchronous : Update(id))
    PROVE  Line' /\ Pending' /\ m_state' # "S"
<1>1. m_state = "Executing" /\ UNCHANGED <<m_cmdline, m_parse_ok_index>> /\ Line
  BY DEF ExecCommand, ExecEnd, Abort, Update, ParserVars, bufVars, Start, Ready, IInv,
         ControlOK
<1>2. m_state' \in {"A", "Executing"} /\ pc' \in {"ret", "exec"}
  BY <1>1 DEF ExecCommand, ExecEnd, Abort, Update, HandleResult, Answer, Idle
<1>3. m_state' \in QuietStates /\ pc' # "fill" /\ m_state' # "S"
  BY <1>2 DEF QuietStates
<1>4. CASE ExecCommand
  <2>1. /\ m_exec_index # m_parse_ok_index
        /\ m_exec_index' \in {m_exec_index, m_exec_index + CmdLength(CurrentCmdId)}
    BY <1>4 DEF ExecCommand, HandleResult
  <2> QED BY <1>1, <1>3, <2>1, NextCommandStands, QuietPending
<1>5. CASE ExecEnd \/ Abort \/ \E id \in Asynchronous : Update(id)
  <2>1. m_exec_index' = m_exec_index
    BY <1>5 DEF ExecEnd, Abort, Update, execVars
  <2> QED BY <1>1, <1>3, <2>1, LineUnmoved, QuietPending
<1> QED BY <1>4, <1>5
-----------------------------------------------------------------------------
(* The theorem. *)

WInv == fault = "none" => Line /\ Pending /\ Letter

LEMMA WInit == Init => WInv
<1> SUFFICES ASSUME Init PROVE WInv
  OBVIOUS
<1>1. m_parse_ok_index = 0 /\ m_state = "A" /\ pc = "ret"
  BY DEF Init, CmdlineInit
<1>2. Chain(m_cmdline, 0, {0}) /\ {0} \in SUBSET Nat
  BY DEF Chain
<1>3. Line
  BY <1>1, <1>2 DEF Line
<1>4. m_state \notin ParamStates /\ "String" \in ParamStates
  BY <1>1 DEF ParamStates, NumStates, StartStates
<1>5. redo = 0 /\ cur # 83
  BY DEF Init, NoChar
<1> QED BY <1>1, <1>3, <1>4, <1>5 DEF WInv, Pending, Letter

LEMMA WNext ==
    ASSUME Meant, IInv, LInv, NumberFits, WInv, Next
    PROVE  WInv'
<1>1. fault = "none"
  BY DEF Next, Environment, Internal, Feed, Abort, Update, Idle, Redispatch,
         FinalizeExtCmd, ExecCommand, ExecEnd
<1>2. Start /\ Ready /\ Letter
  BY <1>1 DEF Start, Ready, WInv
<1>3. ASSUME NEW c \in Char, NEW left \in Nat, pc = "ret", Dispatch(c, left),
             m_state = "S" /\ c \in {EQ, QM} => m_num \in {3, 4},
             m_state = "S" /\ left > 0 => c = 83, c = 83 => SKnown
      PROVE  WInv'
  <2>1. SUFFICES ASSUME fault' = "none"
                 PROVE  Line' /\ Pending' /\ Letter'
    BY DEF WInv
  <2>2. /\ fault' = IF m_parse_index' > CmdlineSize THEN "overrun" ELSE fault
        /\ cur' = IF pc' = "fill" \/ redo' > 0 THEN c ELSE NoChar
    BY <1>3 DEF Dispatch
  <2>3. m_parse_index' \in Nat /\ CmdlineSize \in Nat
    BY <1>2, <1>3, DispatchLemma, IndexLemma DEF HandlerPost, BufferPost
  <2>4. m_parse_index' <= CmdlineSize
    BY <2>1, <2>2, <2>3
  <2>5. Post(c, left)
    BY <1>2, <1>3, <2>4, DispatchPost
  <2>6. Letter'
    BY <1>3, <2>2, <2>5 DEF Post, ToS, Letter, SKnown, NoChar
  <2> QED BY <2>5, <2>6 DEF Post, LineMoved
<1>4. CASE \E c \in Alphabet : Feed(c)
  <2>1. PICK c \in Alphabet : Feed(c)
    BY <1>4
  <2> DEFINE d == IF m_state = "String" THEN c ELSE ToUpper(c)
  <2>2. d \in Char /\ c \in Char
    BY AlphabetAssumption, ToUpperLemma
  <2>3. Dispatch(d, 0) /\ pc = "ret" /\ Typed(c)
    BY <2>1 DEF Feed, Idle
  <2>4. m_state = "S" /\ d \in {EQ, QM} => m_num \in {3, 4}
    <3>1. d \in {EQ, QM} => c \in {EQ, QM}
      BY <2>2 DEF ToUpper, IsLower, EQ, QM, Char
    <3>2. m_state = "S" => SupportedSOnly
      BY <1>2 DEF Start, Pending, SKnown
    <3> QED BY <2>3, <3>1, <3>2 DEF Typed
  <2>5. d = 83 => SKnown
    <3>1. d = 83 => c \in {83, 115}
      BY <2>2 DEF ToUpper, IsLower, Char
    <3> QED BY <3>1 DEF Meant
  <2> HIDE DEF d
  <2> QED BY <1>3, <2>2, <2>3, <2>4, <2>5
<1>5. CASE Redispatch
  <2>1. redo > 0 /\ redo \in Nat /\ cur \in Char /\ pc = "ret"
    BY <1>2, <1>5 DEF Redispatch, Ready, IInv, TypeOK, ControlOK
  <2>2. Dispatch(cur, redo - 1) /\ redo - 1 \in Nat
    BY <1>5, <2>1 DEF Redispatch
  <2>3. (m_state = "S" => cur = 83) /\ (cur = 83 => SKnown)
    BY <1>2, <2>1 DEF Letter
  <2>4. m_state = "S" => cur \notin {EQ, QM}
    BY <2>3 DEF EQ, QM
  <2> QED BY <1>3, <2>1, <2>2, <2>3, <2>4
<1>6. CASE FinalizeExtCmd
  <2>1. LineMoved /\ Pending' /\ m_state' # "S"
    BY <1>2, <1>6, FinalizeExtCmdPost
  <2>2. cur' = cur \/ cur' # 83
    BY <1>6 DEF FinalizeExtCmd, NoChar
  <2> QED BY <1>2, <2>1, <2>2 DEF WInv, Letter, SKnown, LineMoved
<1>7. CASE ExecCommand \/ ExecEnd \/ Abort \/ \E id \in Asynchronous : Update(id)
  <2>1. Line' /\ Pending' /\ m_state' # "S"
    BY <1>2, <1>7, ExecutorPost
  <2>2. cur' = cur
    BY <1>7 DEF ExecCommand, ExecEnd, Abort, Update, ParserVars
  <2> QED BY <1>2, <2>1, <2>2 DEF WInv, Letter, SKnown
<1> QED BY <1>4, <1>5, <1>6, <1>7 DEF Next, Environment, Internal

LEMMA WStutter ==
    ASSUME UNCHANGED vars
    PROVE  WInv' = WInv
<1>1. UNCHANGED <<m_cmdline, m_parse_index, m_parse_ok_index, m_exec_index, m_state,
                  m_trie, pc, redo, cur, fault, m_param_index, m_num>>
  BY DEF vars, serverVars, bufVars, execVars, paramVars
<1>2. Line' = Line /\ Letter' = Letter
  BY <1>1 DEF Line, Letter, SKnown
<1>3. Command' = Command /\ CmdParam' = CmdParam
  BY <1>1 DEF Command, CmdParam, Cmd
<1>4. \A id : Begun(id)' = Begun(id)
  BY <1>1 DEF Begun, Holds, IdAt
<1>5. Begun(ExtId(Command, "WRITE"))' = Begun(ExtId(Command, "WRITE"))
  BY <1>1, <1>3 DEF Begun, Holds, IdAt
<1>7. Fields(m_cmdline, m_parse_ok_index, Command, m_param_index)'
         = Fields(m_cmdline, m_parse_ok_index, Command, m_param_index)
  BY <1>1, <1>3 DEF Fields, Filled
<1>6. Pending' = Pending
  BY <1>1, <1>3, <1>4, <1>5, <1>7 DEF Pending, SKnown
<1> QED BY <1>1, <1>2, <1>6 DEF WInv

(* What holds of the line at every moment. *)
LEMMA LineHolds ==
    ASSUME Meant
    PROVE  Spec => [](IInv /\ LInv /\ WInv)
<1>1. Init => LInv
  BY DEF Init, CmdlineInit, LInv, CommandStart, Aligned, ParamStates, NumStates,
         StartStates, BetweenCommands
<1>2. IInv /\ LInv /\ [Next]_vars => LInv'
  BY NextPreserves, StutterPreserves DEF Preserved, KeepsLayout, Meant
<1>3. Init => WInv
  BY WInit
<1>4. IInv /\ LInv /\ NumberFits /\ WInv /\ [Next]_vars => WInv'
  BY WNext, WStutter
<1> QED BY <1>1, <1>2, <1>3, <1>4, InvariantHolds, NumbersFit, PTL DEF Spec

(* The executor finds a whole command that the parser completed wherever   *)
(* it stops, and a value of its parameter in every field of a write        *)
(* command, for every table and buffer, if no hex string can be left out,  *)
(* no ampersand command comes without a number, and either the letter S is *)
(* not typed or the server has a basic or an ampersand command and only S  *)
(* parameters it knows are typed: it never decodes bytes of an earlier     *)
(* line, half a command or an id without a method, and never runs past the *)
(* end of the line.                                                        *)
THEOREM WholeCommandsRun ==
    ASSUME Meant
    PROVE  Spec => []ExecutesWholeCommands
<1>1. IInv /\ WInv => ExecutesWholeCommands
  BY StandsAtCommand DEF IInv, ControlOK, WInv, ExecutesWholeCommands
<1> QED BY <1>1, LineHolds, PTL
=============================================================================
