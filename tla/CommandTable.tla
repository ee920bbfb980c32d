---------------------------- MODULE CommandTable ----------------------------
(***************************************************************************)
(* The compile-time tables a server is instantiated with: its basic,       *)
(* ampersand and extended commands, the shape of their parameters, the     *)
(* 16-bit identifiers the parser writes for them and the size of the       *)
(* command-line buffer.  Tables are indexed from 0, as in the source.      *)
(***************************************************************************)
EXTENDS Characters, Sequences

CONSTANTS
    NBasic, NAmp, NExt,   \* sizes of the three command lists
    BasicCmds, AmpCmds,   \* index -> [name, ranges]; no ranges = no parameter
    ExtCmds,              \* index -> [name, read, write, count, params], where
                          \* params: position -> [type, optional, size, ranges,
                          \* default, text]; size is string_max_len (its NUL
                          \* included) or hexstring_max_size; default and text
                          \* are the default number and the default bytes
    ParamOffset,          \* [c][k]: where parameter k of write command c starts
    CmdlineSize,          \* sizeof(m_cmdline)
    MaxCommandsPerLine,
    NumMax                \* largest value of the 32-bit accumulator

NumTypes    == {"NUM_DEC", "NUM_HEX", "NUM_BIN"}
ParamTypes  == NumTypes \cup {"STR", "STR_HEX"}
CmdTypes    == {"READ", "WRITE", "TEST"}
CmdTypeCode == [t \in CmdTypes |-> CASE t = "READ"  -> 0
                                     [] t = "WRITE" -> 1
                                     [] t = "TEST"  -> 2]

Byte  == 0 .. 255
Value == 0 .. NumMax
NumericRange == Value \X Value

(* The bytes of a parameter in the command line. *)
FieldSize(p) == CASE p.type \in NumTypes -> 4
                  [] p.type = "STR"      -> p.size
                  [] p.type = "STR_HEX"  -> p.size + 2

ExtIndices == 0 .. NExt - 1
Params(c)  == 0 .. ExtCmds[c].count - 1

(* Two bytes of identifier, then the fields of the parameters. *)
WriteSize(c) == ParamOffset[c][ExtCmds[c].count]

Writable == {c \in ExtIndices : ExtCmds[c].write}

-----------------------------------------------------------------------------
(* What the class templates accept.  A writable command has a parameter:   *)
(* calcCmdlineSize dereferences its parameter list at compile time.        *)
ASSUME SizesAssumption ==
    /\ NBasic \in Nat /\ NAmp \in Nat /\ NExt \in Nat
    /\ 4 * NExt + NBasic + NAmp < 65536      \* an id has two bytes

ASSUME BasicAssumption ==
    /\ BasicCmds \in [0 .. NBasic - 1 -> [name : Char, ranges : SUBSET NumericRange]]
    /\ AmpCmds \in [0 .. NAmp - 1 -> [name : Char, ranges : SUBSET NumericRange]]

ASSUME ExtAssumption ==
    /\ DOMAIN ExtCmds = ExtIndices
    /\ \A c \in ExtIndices :
          /\ ExtCmds[c].name \in Seq(Char) \ {<<>>}
          /\ ExtCmds[c].read \in BOOLEAN
          /\ ExtCmds[c].write \in BOOLEAN
          /\ ExtCmds[c].count \in Nat
          /\ ExtCmds[c].write => ExtCmds[c].count > 0
          /\ DOMAIN ExtCmds[c].params = Params(c)

(* string_max_len counts the NUL, a default fits its field, and the size   *)
(* of a field is a 16-bit number.  The ranges of a number are an array,    *)
(* which has an element, and the concept ExtendedNumericParameter takes no *)
(* default that validateNumericRanges refuses.                             *)
ASSUME ParamAssumption ==
    \A c \in ExtIndices : \A k \in Params(c) :
       LET p == ExtCmds[c].params[k]
       IN  /\ p.type \in ParamTypes
           /\ p.optional \in BOOLEAN
           /\ p.size \in Nat /\ p.size < 65536
           /\ p.ranges \subseteq NumericRange
           /\ p.default \in Value
           /\ p.type \in NumTypes =>
                 /\ p.ranges # {}
                 /\ p.optional => \A r \in p.ranges : r[1] <= p.default /\ p.default <= r[2]
           /\ p.text \in Seq(Byte)
           /\ p.type = "STR" => p.size > 0 /\ Len(p.text) < p.size
           /\ p.type = "STR_HEX" => Len(p.text) <= p.size

ASSUME LayoutAssumption ==
    \A c \in ExtIndices :
       /\ ParamOffset[c] \in [0 .. ExtCmds[c].count -> Nat]
       /\ ParamOffset[c][0] = 2
       /\ \A k \in Params(c) :
             ParamOffset[c][k + 1] =
                ParamOffset[c][k] + FieldSize(ExtCmds[c].params[k])

(* calcCmdlineSize: room for max_commands_per_line of the widest command;  *)
(* a basic command takes at most 6 bytes.                                  *)
ASSUME CmdlineSizeAssumption ==
    /\ MaxCommandsPerLine \in Nat \ {0}
    /\ CmdlineSize \in Nat
    /\ \E r \in {6} \cup {WriteSize(c) : c \in Writable} :
          /\ \A s \in {6} \cup {WriteSize(c) : c \in Writable} : s <= r
          /\ CmdlineSize = r * MaxCommandsPerLine

(* 2^32 - 1 in the code.  Any value of the form 2^(8k) - 1 has the three   *)
(* residues the overflow tests rely on, so 255 serves for model checking.  *)
(* A number takes four bytes in the buffer.                                *)
ASSUME NumMaxAssumption ==
    /\ NumMax \in Nat /\ NumMax % 10 = 5 /\ NumMax % 256 = 255
    /\ NumMax \div 16777216 < 256

-----------------------------------------------------------------------------
(* Command identifiers. *)
ExtId(c, t)    == 4 * c + CmdTypeCode[t]
BasicOffset    == 4 * NExt
BasicId(index) == BasicOffset + index      \* 0 is the S parameter

CmdIds == {ExtId(c, t) : c \in ExtIndices, t \in CmdTypes}
             \cup {BasicId(i) : i \in 0 .. NBasic + NAmp}

(* A basic command by its position in the combined list: 1 + i for basic   *)
(* command i, then the ampersand commands.                                 *)
BasicDef(index) == IF index <= NBasic THEN BasicCmds[index - 1]
                                      ELSE AmpCmds[index - 1 - NBasic]

(* getCmdIndex: -1 when no command of a sorted list has the name. *)
CmdIndex(cmds, ch) ==
    IF \E i \in DOMAIN cmds : cmds[i].name = ch
    THEN CHOOSE i \in DOMAIN cmds : cmds[i].name = ch
    ELSE -1

(* The trie the names are fed to is modelled by the characters read so     *)
(* far: a node is a prefix of a name, a leaf (in the source's sense: a     *)
(* node that ends a name) is a name.                                       *)
NamePrefixes == {<<>>} \cup
    UNION {{SubSeq(ExtCmds[c].name, 1, k) : k \in 0 .. Len(ExtCmds[c].name)}
             : c \in ExtIndices}
IsLeaf(prefix) == \E c \in ExtIndices : ExtCmds[c].name = prefix
CommandIndex(prefix) == CHOOSE c \in ExtIndices : ExtCmds[c].name = prefix

-----------------------------------------------------------------------------
(* Numeric parameters. *)

(* Mutant of ValidateRanges: without the upper limit. *)
ValidateRangesMin(ranges, n) == \A r \in ranges : r[1] <= n

(* A value is accepted when EVERY range holds it. *)
ValidateRanges(ranges, n) == \A r \in ranges : r[1] <= n /\ n <= r[2]

(* Mutant of DecFits: any last digit of a number with all its digits. *)
DecFitsAny(n, ch) == GetNumeric(ch) # -1 /\ n <= NumMax \div 10

(* processDecNumericChar: the digit fits unless n*10+dec exceeds NumMax,   *)
(* which the code tests against a tenth of it (0x19999999) and a last      *)
(* digit of 5.                                                             *)
DecFits(n, ch) ==
    /\ GetNumeric(ch) # -1
    /\ \/ n < NumMax \div 10
       \/ n = NumMax \div 10 /\ GetNumeric(ch) <= 5
DecNext(n, ch) == 10 * n + GetNumeric(ch)

HexFits(n, ch) == GetHex(ch) # -1 /\ n <= NumMax \div 16
HexNext(n, ch) == 16 * n + GetHex(ch)

BinFits(n, ch) == ch \in {48, 49} /\ n <= NumMax \div 2
BinNext(n, ch) == 2 * n + (ch - 48)

(* Little-endian bytes of a 16-bit and of a 32-bit value. *)
IdBytes(id)  == <<id % 256, id \div 256>>
NumBytes(n)  == <<n % 256, (n \div 256) % 256, (n \div 65536) % 256,
                  (n \div 16777216) % 256>>
=============================================================================
