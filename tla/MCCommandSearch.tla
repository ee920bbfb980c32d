--------------------------- MODULE MCCommandSearch ---------------------------
(* Every sorted list of up to six of nine names, searched for each of them. *)
EXTENDS CommandSearch

MCSizes == 0 .. 6
MCNames == 65 .. 73
=============================================================================
