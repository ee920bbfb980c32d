----------------------------- MODULE Characters -----------------------------
(***************************************************************************)
(* The character classes the parser distinguishes.  A character is its     *)
(* ASCII code: the S3 parameter is typed as a number and compared with     *)
(* characters afterwards, so the two must live in one set.                 *)
(***************************************************************************)
EXTENDS Integers

Char == 0 .. 127

CR     == 13
SPACE  == 32
DQUOTE == 34
AMP    == 38
PLUS   == 43
COMMA  == 44
DASH   == 45
SLASH  == 47
SEMI   == 59
EQ     == 61
QM     == 63

IsUpper(ch)      == ch \in 65 .. 90
IsLower(ch)      == ch \in 97 .. 122
IsAlphabetic(ch) == IsUpper(ch) \/ IsLower(ch)
IsNumeric(ch)    == ch \in 48 .. 57

ToUpper(ch) == IF IsLower(ch) THEN ch - 32 ELSE ch

(* getNumeric and getHex return -1 for a character that is no digit. *)
GetNumeric(ch) == IF IsNumeric(ch) THEN ch - 48 ELSE -1

GetHex(ch) == CASE IsNumeric(ch)    -> ch - 48
                [] ch \in 97 .. 102 -> ch - 87
                [] ch \in 65 .. 70  -> ch - 55
                [] OTHER            -> -1
=============================================================================
