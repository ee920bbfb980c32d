----------------------------- MODULE NameLookup -----------------------------
(***************************************************************************)
(* What looking up the name of an extended command promises the parser:    *)
(* a character is accepted as long as some command has a name that goes on *)
(* with it, and a name read to its end gives the position of its command   *)
(* in the list.  After a rejection nothing is asked before a reset.        *)
(***************************************************************************)
EXTENDS Naturals, SequencesExt

CONSTANTS
    Tables,    \* lists of names, one of which is compiled in
    Chars,     \* characters the parser can be fed
    none       \* no character

VARIABLES
    names,     \* the names, in the order of the commands
    read,      \* the characters accepted since the reset
    asked,     \* the character being looked up, or none
    rejected,  \* the last one was refused
    found      \* the command that is named so far, 0 if there is none

vars == <<names, read, asked, rejected, found>>

Extends(name) == \E i \in DOMAIN names : IsPrefix(name, names[i])

Named(name) == IF \E i \in DOMAIN names : names[i] = name
               THEN CHOOSE i \in DOMAIN names : names[i] = name
               ELSE 0

Init == /\ names \in Tables
        /\ read = <<>> /\ asked = none /\ rejected = FALSE /\ found = 0

Reset == /\ asked = none
         /\ read' = <<>> /\ rejected' = FALSE /\ found' = 0
         /\ UNCHANGED <<names, asked>>

Ask(ch) == /\ asked = none /\ ~rejected
           /\ asked' = ch /\ found' = 0
           /\ UNCHANGED <<names, read, rejected>>

(* No name is longer: there is nothing to look through. *)
Refuse(ch) == /\ asked = none /\ ~rejected
              /\ ~Extends(Append(read, ch))
              /\ rejected' = TRUE /\ found' = 0
              /\ UNCHANGED <<names, read, asked>>

Answer == /\ asked # none
          /\ asked' = none
          /\ \/ /\ Extends(Append(read, asked))
                /\ read' = Append(read, asked)
                /\ found' = Named(read')
                /\ UNCHANGED rejected
             \/ /\ ~Extends(Append(read, asked))
                /\ rejected' = TRUE
                /\ UNCHANGED <<read, found>>
          /\ UNCHANGED names

Next == Reset \/ (\E ch \in Chars : Ask(ch) \/ Refuse(ch)) \/ Answer

Spec == Init /\ [][Next]_vars /\ WF_vars(Answer)
=============================================================================
