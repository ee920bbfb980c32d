----------------------------- MODULE MCTerminal -----------------------------
EXTENDS Terminal

MCValues == 0 .. 2
Write(p, q, r) ==
    [type |-> "write",
     params |-> [i \in Registers |-> CASE i = 0 -> p [] i = 1 -> q [] i = 2 -> r]]

(* A write and a read, a write behind a character that may abort the line  *)
(* before it, and Enter alone.                                             *)
MCLines == { [lead |-> FALSE, cmds |-> <<Write(1, 2, 2), Read>>],
             [lead |-> TRUE,  cmds |-> <<Write(2, 1, 1)>>],
             [lead |-> FALSE, cmds |-> <<>>] }

(* Several commands on a line, for a client that aborts nothing. *)
MCLongLines == { [lead |-> FALSE, cmds |-> <<Write(1, 2, 2), Read>>],
                 [lead |-> FALSE, cmds |-> <<Read, Write(2, 2, 1)>>],
                 [lead |-> TRUE,  cmds |-> <<Write(2, 1, 1), Write(0, 1, 2), Read>>],
                 [lead |-> FALSE, cmds |-> <<>>] }
=============================================================================
