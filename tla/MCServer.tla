------------------------------ MODULE MCServer ------------------------------
EXTENDS Server, SequencesExt, FiniteSetsExt

ZeroBased(s) == [i \in 0 .. Len(s) - 1 |-> s[i + 1]]

(* Parameters, by type; the letter of a command is its ASCII code. *)
Num(type, optional, ranges, default) ==
    [type |-> type, optional |-> optional, size |-> 0, ranges |-> ranges,
     default |-> default, text |-> <<>>]
Str(type, optional, size, text) ==
    [type |-> type, optional |-> optional, size |-> size, ranges |-> {},
     default |-> 0, text |-> text]

Write(name, read, params) ==
    [name |-> name, read |-> read, write |-> TRUE, count |-> Len(params),
     params |-> ZeroBased(params)]
Read(name) ==
    [name |-> name, read |-> TRUE, write |-> FALSE, count |-> 0,
     params |-> ZeroBased(<<>>)]

Plain(name)          == [name |-> name, ranges |-> {}]
Numbered(name, l, h) == [name |-> name, ranges |-> {<<l, h>>}]

(* The layout and the size of the buffer are computed from the tables. *)
MCParamOffset ==
    [c \in 0 .. NExt - 1 |->
       [k \in 0 .. ExtCmds[c].count |->
          2 + FoldLeft(+, 0, [i \in 1 .. k |-> FieldSize(ExtCmds[c].params[i - 1])])]]
MCCmdlineSize ==
    MaxCommandsPerLine *
       Max({6} \cup {MCParamOffset[c][ExtCmds[c].count] : c \in Writable})

NoCommands == ZeroBased(<<>>)

MCNumMax   == 255
NoIds      == {}

-----------------------------------------------------------------------------
(* Everything that shares a buffer, and may go on asynchronously: I, +X?   *)
(* and +X[=<hex>], and S3 with the values that can be typed with a 3.      *)
AsyncTable == ZeroBased(<<
    Write(<<88>>, TRUE, <<Num("NUM_HEX", TRUE, {<<3, 3>>}, 3)>>) >>)
AsyncAlphabet == {65, 84, 73, 83, 88, 51, PLUS, EQ, QM, SEMI, CR, SLASH}
AsyncIds == {0, 1, 5}

(* Numbered basic and ampersand commands, asynchronous: V<0..2>, &V<0..9>; *)
(* and +V, which can only be read, where the lines below cannot complete   *)
(* it, so that every command on a line has six bytes.  With 2, 5 and 6 the *)
(* largest number and the one after it can be typed.                       *)
NumberTable    == ZeroBased(<<Numbered(86, 0, 2)>>)
NumberAmpTable == ZeroBased(<<Numbered(86, 0, 9)>>)
NumberExtTable == ZeroBased(<<Read(<<86>>)>>)
NumberAlphabet == {65, 84, 86, 50, 53, 54, AMP, PLUS, SEMI, CR, SLASH, SPACE}
NumberAsync    == {5, 6}

(* Parameterless basic commands and S parameters: I, S3 and S4.            *)
PlainTable    == ZeroBased(<<Plain(73)>>)
PlainAlphabet == {65, 84, 73, 83, 51, 52, 33, EQ, QM, CR, SLASH}
PlainAsync    == {1}

-----------------------------------------------------------------------------
(* Instances in which the code departs from what is said of it.            *)

(* &F, an ampersand command without a number. *)
FactoryTable    == ZeroBased(<<Plain(70)>>)
FactoryAlphabet == {65, 84, 70, AMP, CR}

(* I and V<0..9>: commands of two and of six bytes in one buffer of six. *)
TwoSizesTable    == ZeroBased(<<Plain(73), Numbered(86, 0, 9)>>)
TwoSizesAlphabet == {65, 84, 73, 86, 49, CR}
=============================================================================
