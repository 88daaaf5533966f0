--------------------------- MODULE MCFunctionTable --------------------------
EXTENDS FunctionTable

\* Names that are prefixes of each other, and one with an invalid character.
MCName == {<<"a">>, <<"a", "b", "a">>, <<"a", "-">>}
MCAlphabet == {"a", "b"}

\* Two signatures that overlap, and one that does not parse.
MCParses(sig) == sig # "bad"
MCAccepts(sig, type) ==
    CASE sig = "int" -> type = "int"
      [] sig = "any" -> TRUE
      [] sig = "bad" -> FALSE
=============================================================================
