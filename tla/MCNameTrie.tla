----------------------------- MODULE MCNameTrie -----------------------------
(* Tables of names for model checking: every list of at most three of six  *)
(* names, some of which begin others, and lists of 20 names, whose indices *)
(* take two bytes and whose root takes three bytes for its size.           *)
EXTENDS NameTrie

MCAlphabetic == <<"A", "B">>
MCNumeric    == <<"0">>
MCSpecial    == <<"_">>
MCChars      == {"A", "B", "0", "_", "#"}

Pool == {<<"A">>, <<"A", "B">>, <<"A", "B", "A">>, <<"B", "0">>, <<"0">>, <<"_", "A">>}

ShortTables == {t \in UNION {[1 .. n -> Pool] : n \in 1 .. 3} : IsInjective(t)}

ByLength == [i \in 1 .. 20 |-> IF i <= 4 THEN <<alphabet[i]>>
                               ELSE <<alphabet[(i - 5) \div 4 + 1],
                                      alphabet[((i - 5) % 4) + 1]>>]
MCTables == ShortTables \cup {ByLength, Reverse(ByLength)}
=============================================================================
