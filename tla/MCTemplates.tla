---------------------------- MODULE MCTemplates ----------------------------
(* Instances of Templates for TLC.                                         *)
EXTENDS Templates

place(name) == <<"{{", name, "}}">>
\* text, placeholders, braces without a partner
TightPieces == {<<"text">>, place("a"), place("b"), <<"{{">>, <<"}}">>}
\* a placeholder with blanks, which is a variable all the same
LoosePieces == {<<"text">>, place("a"), <<"{{", " ", "a", " ", "}}">>}

PlainPairs == {<<"a", "=", "1">>, <<" ", "a", " ", "=", "2", " ">>,
               <<"b", "=", "3", "=", "4">>, <<"b", "=">>,
               <<"=", "5">>, <<"a">>}
\* a value that looks like a placeholder
BracePairs == {<<"a", "=", "{{", "b", "}}">>, <<"b", "=", "1">>}
=============================================================================
