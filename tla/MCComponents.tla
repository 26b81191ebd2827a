---- MODULE MCComponents ----
(* Declarative scripts for Components: one that is imported and the one     *)
(* that is added.                                                           *)
EXTENDS Components

CONSTANTS a, b

MCNames == {a, b}
Symmetry == Permutations(MCNames)

MCAccesses == {<<"name">>, <<"files", "public">>, <<"files">>}
MCVariables == [present |-> [text |-> "x;y", parts |-> <<"x", "y">>]]
MCReads == {[type |-> "list", variable |-> "present"]}
MCTexts == <<"one", "two">>
MCAvoided == {"no base", "base of a script", "declaration of another script", "component in a component",
              "no string in a list", "appending to a string", "appending no string", "no target", "shared library"}
WithBases == MCAvoided \ {"base of a script"}
====
