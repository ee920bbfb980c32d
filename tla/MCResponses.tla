----------------------------- MODULE MCResponses -----------------------------
(* I and +X?, whose handlers print, +X=? and S4?, for which the server      *)
(* does; any three of them on a line.                                       *)
EXTENDS MCServer, Responses

QueryTable    == ZeroBased(<<Write(<<88>>, TRUE, <<Num("NUM_DEC", FALSE, {<<4, 4>>}, 0)>>)>>)
QueryAlphabet == {65, 84, 73, 83, 88, 52, PLUS, EQ, QM, SEMI, CR, SLASH}
ReadX         == {0}
=============================================================================
