------------------------------ MODULE MCHandles ------------------------------
(* Every type of parameter that can be left out, and the others:           *)
(* +X=["<one character>"][,<0..20>] and +T=<binary 0..1>,<hex string of up *)
(* to two bytes>, in a buffer of ten bytes: +T fills it alone, +X together *)
(* with an A before or behind it.                                          *)
EXTENDS MCServer, Handles

AnswerTable    == ZeroBased(<<Plain(65)>>)
ParameterTable == ZeroBased(<<
    Write(<<88>>, FALSE, <<Str("STR", TRUE, 2, <<49>>),
                           Num("NUM_DEC", TRUE, {<<0, 20>>}, 10)>>),
    Write(<<84>>, FALSE, <<Num("NUM_BIN", FALSE, {<<0, 1>>}, 0),
                           Str("STR_HEX", FALSE, 2, <<>>)>>) >>)
ParameterAlphabet ==
    {65, 84, 88, 49, PLUS, EQ, COMMA, SEMI, DQUOTE, CR}

(* The handler of +T may go on asynchronously. *)
MCWriteT == {5}
=============================================================================
