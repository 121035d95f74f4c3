------------------------------- MODULE MCGrep -------------------------------
EXTENDS Grep

\* Patterns of each operator on every line of up to three characters.
Short == [re : {<<"^", "a">>, <<"a", "$">>, <<"a", "*", "b">>, <<"a", ".", "b">>, <<"a", ".", "*", "b">>},
          i : BOOLEAN, file : {Append(t, NL) : t \in SeqOf({"a", "b"}, 3)}]
=============================================================================
