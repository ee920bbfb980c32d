------------------------------- MODULE Handles -------------------------------
(***************************************************************************)
(* What the handlers of extended commands see and print: the parameter     *)
(* list of a write command, which reads the buffer at offsets the compiler *)
(* computed from the types of the parameters, the text of a read command,  *)
(* which prints parameters the way they are typed, the answer to a test    *)
(* command and the note that a command is the last of its line.            *)
(*                                                                         *)
(* typed and entered, the characters of the command being entered and of   *)
(* those that are complete, are added to the state of Server, so that what *)
(* handlers get can be compared with what was entered.  No action depends  *)
(* on them.                                                                *)
(***************************************************************************)
EXTENDS Server, SequencesExt

VARIABLES
    typed,     \* the characters of the command being entered
    entered    \* those of a command of the line, by its place in the buffer

hvars == <<vars, typed, entered>>

NothingEntered == [i \in 0 .. CmdlineSize - 1 |-> <<>>]

(* The states in which a command is entered, and what is passed over there. *)
Entering == Entry \ {"Error"}
PassedOver(c) ==
    \/ c = SPACE /\ m_state \notin {"String", "StringEnd", "NumDec", "NumHex", "NumBin"}
    \/ c = DASH /\ m_state = "HexString"

(* c is the last character of text.  A command is complete with it, unless *)
(* it is handed on: then it is the first of the next.                      *)
Record(text, c) ==
    LET complete == m_parse_ok_index' > m_parse_ok_index
    IN  /\ entered' = IF m_state = "T" /\ m_state' = "Body" THEN NothingEntered
                      ELSE IF complete THEN [entered EXCEPT ![m_parse_ok_index] = text]
                      ELSE entered
        /\ typed' = IF m_state' \notin Entering \/ (complete /\ redo' = 0) THEN <<>>
                    ELSE IF complete THEN <<c>>
                    ELSE text

HandlesInit == Init /\ typed = <<>> /\ entered = NothingEntered

HandlesNext ==
    \/ \E c \in Alphabet :
          /\ Feed(c)
          /\ Record(IF m_state \in Entering /\ ~PassedOver(c) THEN Append(typed, c)
                                                            ELSE typed, c)
    \/ /\ Abort \/ (\E id \in Asynchronous : Update(id)) \/ Internal
       /\ Record(typed, cur)

HandlesSpec == /\ HandlesInit
               /\ [][HandlesNext]_hvars
               /\ WF_hvars(~Idle /\ HandlesNext)

-----------------------------------------------------------------------------
(* What was entered. *)

(* The parts of a text between commas that are not in quotes. *)
NextPart(read, c) ==
    IF c = COMMA /\ ~read.quoted
    THEN [read EXCEPT !.parts = Append(@, <<>>)]
    ELSE [parts  |-> [read.parts EXCEPT ![Len(read.parts)] = Append(@, c)],
          quoted |-> IF c = DQUOTE THEN ~read.quoted ELSE read.quoted]
Reading(text) ==
    LET read[i \in 0 .. Len(text)] ==
          IF i = 0 THEN [parts |-> << <<>> >>, quoted |-> FALSE]
                   ELSE NextPart(read[i - 1], text[i])
    IN  read[Len(text)]
Parts(text) == Reading(text).parts

(* The parameters of a command: one left out is empty.                     *)
ParametersOf(text) ==
    LET equals == SelectInSeq(text, LAMBDA c : c = EQ)
    IN  IF equals = 0 THEN <<>> ELSE Parts(SubSeq(text, equals + 1, Len(text)))

(* What was entered for the command at a place, without what ended it. *)
EnteredParameters(place) == ParametersOf(Front(entered[place]))

Base(type) == CASE type = "NUM_DEC" -> 10 [] type = "NUM_HEX" -> 16 [] type = "NUM_BIN" -> 2

(* The number a text of digits stands for. *)
ValueOf(text, base) ==
    LET value[i \in 0 .. Len(text)] ==
          IF i = 0 THEN 0 ELSE base * value[i - 1] + GetHex(text[i])
    IN  value[Len(text)]

(* text is a way to write the value v of parameter p. *)
Spells(text, p, v) ==
    CASE p.type \in NumTypes ->
           /\ text # <<>> /\ \A i \in DOMAIN text : GetHex(text[i]) \in 0 .. Base(p.type) - 1
           /\ v = ValueOf(text, Base(p.type))
      [] p.type = "STR" -> text = <<DQUOTE>> \o v \o <<DQUOTE>>
      [] p.type = "STR_HEX" ->
           /\ Len(text) = 2 * Len(v) + 2
           /\ text[1] = DQUOTE /\ Last(text) = DQUOTE
           /\ \A i \in DOMAIN v : v[i] = 16 * GetHex(text[2 * i]) + GetHex(text[2 * i + 1])

DefaultOf(p) == IF p.type \in NumTypes THEN p.default ELSE p.text

Means(text, p, v) == IF text = <<>> THEN p.optional /\ v = DefaultOf(p)
                                    ELSE Spells(text, p, v)

-----------------------------------------------------------------------------
(* The parameter list a write handler is given. *)

IsNumber(c, k) == ExtCmds[c].params[k].type \in NumTypes

(* Behind a number the offsets are those of a list of numbers, and a list  *)
(* with a text there does not compile if the handler asks for a parameter  *)
(* behind the text.  The handlers ask for all of theirs.                   *)
OffsetsCompile ==
    \A c \in Writable : \A i, j, k \in Params(c) :
       i < j /\ j < k /\ IsNumber(c, i) => IsNumber(c, j)
ASSUME OffsetAssumption == OffsetsCompile

BaseOffsetCalc(j, k) == 4 * (k - j)

(* Mutant of OffsetCalc: a string's NUL is not counted. *)
OffsetCalcBare(c, k) ==
    LET offset[j \in 0 .. k] ==
          IF j = k THEN 0
          ELSE IF IsNumber(c, j) THEN 4 + BaseOffsetCalc(j + 1, k)
          ELSE FieldSize(ExtCmds[c].params[j]) - 1 + offset[j + 1]
    IN  offset[0]

OffsetCalc(c, k) ==
    LET offset[j \in 0 .. k] ==
          IF j = k THEN 0
          ELSE IF IsNumber(c, j) THEN 4 + BaseOffsetCalc(j + 1, k)
          ELSE FieldSize(ExtCmds[c].params[j]) + offset[j + 1]
    IN  offset[0]

GetNumeric_(at) == m_cmdline[at] + 256 * m_cmdline[at + 1]
                     + 65536 * m_cmdline[at + 2] + 16777216 * m_cmdline[at + 3]

(* A pointer into the buffer: the characters up to the first NUL. *)
GetString(at) ==
    LET nul == CHOOSE i \in at .. CmdlineSize - 1 :
                  m_cmdline[i] = 0 /\ \A j \in at .. i - 1 : m_cmdline[j] # 0
    IN  [i \in 1 .. nul - at |-> m_cmdline[at + i - 1]]

GetHexString(at, max_size) ==
    [i \in 1 .. m_cmdline[at + max_size] + 256 * m_cmdline[at + max_size + 1]
        |-> m_cmdline[at + i - 1]]

(* Parameter k of write command c, whose bytes are at start. *)
Argument(c, start, k) ==
    LET p  == ExtCmds[c].params[k]
        at == start + 2 + OffsetCalc(c, k)
    IN  CASE p.type \in NumTypes -> GetNumeric_(at)
          [] p.type = "STR"      -> GetString(at)
          [] p.type = "STR_HEX"  -> GetHexString(at, p.size)

(* The write command at a place in the buffer. *)
IsWriteAt(start) == \E c \in Writable : IdBytes(ExtId(c, "WRITE")) =
                                          <<m_cmdline[start], m_cmdline[start + 1]>>
TableAt(start)   == (m_cmdline[start] + 256 * m_cmdline[start + 1]) \div 4

-----------------------------------------------------------------------------
(* What read and test handlers print. *)

numbers == <<48, 49, 50, 51, 52, 53, 54, 55, 56, 57, 65, 66, 67, 68, 69, 70>>

(* The digits of a number from the last to the first, and how many. *)
ReverseDigit(last, base) ==
    [number   |-> last.number \div base,
     reversed |-> base * last.reversed + (last.number % base)]
Reversed(number, base) ==
    LET loop[i \in 0 .. number + 1] ==
          IF i = 0 THEN [number |-> number, reversed |-> 0] ELSE ReverseDigit(loop[i - 1], base)
        digit_count == CHOOSE i \in 1 .. number + 1 :
                          loop[i].number = 0 /\ \A j \in 1 .. i - 1 : loop[j].number # 0
    IN  [digits |-> loop[digit_count].reversed, count |-> digit_count]

(* count digits of a number, from the last. *)
PrintDigit(last, base) ==
    [text     |-> Append(last.text, numbers[(last.reversed % base) + 1]),
     reversed |-> last.reversed \div base]
PrintDigits(number_reversed, base, count) ==
    LET loop[i \in 0 .. count] ==
          IF i = 0 THEN [text |-> <<>>, reversed |-> number_reversed] ELSE PrintDigit(loop[i - 1], base)
    IN  loop[count].text

(* Mutant of PrintNumber: as many digits as the reversed number has. *)
PrintNumberReversed(number, base) ==
    LET all == Reversed(number, base)
    IN  PrintDigits(all.digits, base, Reversed(all.digits, base).count)

(* The digits are taken from the reversed number, counted because zeros at *)
(* the end of the number vanish from it.  The 64 bits of the code hold     *)
(* what a 32-bit number is in reverse.                                     *)
PrintNumber(number, base) ==
    LET all == Reversed(number, base)
    IN  PrintDigits(all.digits, base, all.count)

PrintString(string) == <<DQUOTE>> \o string \o <<DQUOTE>>

PrintHexadecimalString(data) ==
    LET digit(i) == IF i % 2 = 1 THEN data[(i + 1) \div 2] \div 16 ELSE data[i \div 2] % 16
    IN  <<DQUOTE>> \o [i \in 1 .. 2 * Len(data) |-> numbers[digit(i) + 1]] \o <<DQUOTE>>

(* printNumericParameter_, printStringParameter_ and the other: the base   *)
(* is that of the parameter's type.                                        *)
PrintParameter(p, v) ==
    CASE p.type \in NumTypes -> PrintNumber(v, Base(p.type))
      [] p.type = "STR"      -> PrintString(v)
      [] p.type = "STR_HEX"  -> PrintHexadecimalString(v)

(* The types of a text admit the parameters in their order only: the first *)
(* is printed as it is and returns a text that prints the second, and each *)
(* after it, behind a comma.                                               *)
PrintFirst(c, values) == PrintParameter(ExtCmds[c].params[0], values[0])
PrintNext(c, k, values) == <<COMMA>> \o PrintParameter(ExtCmds[c].params[k], values[k])
PrintParameters(c, values) ==
    LET printed[k \in Params(c)] == IF k = 0 THEN PrintFirst(c, values)
                                           ELSE printed[k - 1] \o PrintNext(c, k, values)
    IN  printed[ExtCmds[c].count - 1]

(* printCmdParameterRanges: what is told of a parameter, here without its  *)
(* parentheses and with numbers in place of their digits.                  *)
ToldLimits(p) ==
    CASE p.type \in NumTypes -> [kind |-> "ranges", ranges |-> p.ranges]
      [] p.type = "STR"      -> [kind |-> "s", max |-> p.size - 1]
      [] p.type = "STR_HEX"  -> [kind |-> "hs", max |-> p.size]

Allowed(limits, v) ==
    IF limits.kind = "ranges" THEN \E r \in limits.ranges : r[1] <= v /\ v <= r[2]
                              ELSE Len(v) <= limits.max

-----------------------------------------------------------------------------
(* A write handler is called, or has been called and will be once more.    *)
WriteRuns == /\ m_state = "Executing" /\ fault = "none"
             /\ m_exec_index # m_parse_ok_index
             /\ IsWriteAt(m_exec_index)
Written   == TableAt(m_exec_index)
Arguments == [k \in Params(Written) |-> Argument(Written, m_exec_index, k)]

(* The handler of a write command is handed the values that were typed for *)
(* it and the defaults of the parameters left out: digits, quotes and      *)
(* separators, the layout of the buffer, the commands written later and    *)
(* the offsets of the parameter list taken together.                       *)
ArgumentsAsTyped ==
    WriteRuns =>
      LET texts == EnteredParameters(m_exec_index)
      IN  \A k \in Params(Written) :
             Means(IF k < Len(texts) THEN texts[k + 1] ELSE <<>>,
                   ExtCmds[Written].params[k], Arguments[k])

(* What a read handler prints for those values can be typed back: it has   *)
(* one text per parameter and each means the same value.                   *)
PrintedCanBeTyped ==
    WriteRuns =>
      LET texts == Parts(PrintParameters(Written, Arguments))
      IN  /\ Len(texts) = ExtCmds[Written].count
          /\ \A k \in Params(Written) :
                Spells(texts[k + 1], ExtCmds[Written].params[k], Arguments[k])

(* No handler is given a value that the test command rules out.            *)
WithinToldLimits ==
    WriteRuns => \A k \in Params(Written) :
                    Allowed(ToldLimits(ExtCmds[Written].params[k]), Arguments[k])

(* No handler is told that its command is the last while another command   *)
(* of the line is to be run behind it, also when what follows was rejected *)
(* half-way; and on a line without an error the last one is told so.       *)
LastCommandTold ==
    m_state = "Executing" /\ fault = "none" /\ m_exec_index # m_parse_ok_index =>
      LET isLast == m_exec_index + CmdLength(CurrentCmdId) = m_parse_ok_index
      IN  /\ IsLastCommand => isLast
          /\ isLast /\ ~m_error => IsLastCommand
=============================================================================
