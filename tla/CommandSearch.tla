---------------------------- MODULE CommandSearch ----------------------------
(***************************************************************************)
(* getCmdIndex: how the basic command, or the ampersand command, a letter  *)
(* names is found in its list.  It is a binary search, and nothing checks  *)
(* that the list is sorted: that is left to whoever writes the list down.  *)
(***************************************************************************)
EXTENDS Integers

CONSTANTS
    Sizes,     \* sizes of the lists
    Names      \* command names, as character codes

ASSUME SizesAssumption == Sizes \subseteq Nat
ASSUME NamesAssumption == Names \subseteq Nat

Sorted(cmds) ==
    \A i, j \in DOMAIN cmds : i < j => cmds[i] < cmds[j]

VARIABLES
    m_cmd_defs,  \* the names of the commands, by position
    size,
    name,        \* the letter looked for
    l, r,        \* the part of the list still to be searched: l .. r - 1
    done,
    index        \* what is returned

vars == <<m_cmd_defs, size, name, l, r, done, index>>

Init == /\ size \in Sizes
        /\ m_cmd_defs \in {cmds \in [0 .. size - 1 -> Names] : Sorted(cmds)}
        /\ name \in Names
        /\ l = 0 /\ r = size
        /\ done = FALSE /\ index = -1

mid == (l + r) \div 2

Return(i) == done' = TRUE /\ index' = i /\ UNCHANGED <<l, r>>

Found == /\ ~done /\ l # r /\ name = m_cmd_defs[mid]
         /\ Return(mid)

(* Mutant of GoLeft: the element in the middle is left out as well. *)
GoLeftTooFar == /\ ~done /\ l # r /\ name < m_cmd_defs[mid]
                /\ r' = (IF mid = l THEN l ELSE mid - 1)
                /\ UNCHANGED <<l, done, index>>

GoLeft == /\ ~done /\ l # r /\ name < m_cmd_defs[mid]
          /\ r' = mid
          /\ UNCHANGED <<l, done, index>>

(* Mutant of GoRight: the middle is not excluded. *)
GoRightFrom == /\ ~done /\ l # r /\ name > m_cmd_defs[mid]
               /\ l' = mid
               /\ UNCHANGED <<r, done, index>>

GoRight == /\ ~done /\ l # r /\ name > m_cmd_defs[mid]
           /\ l' = mid + 1
           /\ UNCHANGED <<r, done, index>>

NotFound == /\ ~done /\ l = r
            /\ Return(-1)

Step == Found \/ GoLeft \/ GoRight \/ NotFound

Next == Step /\ UNCHANGED <<m_cmd_defs, size, name>>

Spec == Init /\ [][Next]_vars /\ WF_vars(Next)

-----------------------------------------------------------------------------
(* The loop ends with the position of the command of that name, and with   *)
(* -1 only when no command has it: what the parser takes CmdIndex for.     *)
FindsCommand ==
    done => \/ index \in DOMAIN m_cmd_defs /\ m_cmd_defs[index] = name
            \/ index = -1 /\ \A i \in DOMAIN m_cmd_defs : m_cmd_defs[i] # name

(* It ends: the part left to search shrinks in every step. *)
SearchReturns == <>done
=============================================================================
