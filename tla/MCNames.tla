---- MODULE MCNames ----
(***************************************************************************)
(* Small instances of QualifiedEntries: a module and the script that       *)
(* imports it, or two modules of which one imports the other.              *)
(***************************************************************************)
EXTENDS QualifiedEntries, TLC

CONSTANTS a, b
SomeNames == {a, b}
Symmetry == Permutations(SomeNames)

TwoFiles == << "module", "root" >>
Decls == <<1, 1>>
Scopes == <<2, 2>>

\* A builtin name, as int is one, and a builtin namespace, as cmake is one.
Builtins ==
  << [name |-> "", parent |-> BadId, nodes |-> [cmake |-> 2],
      entries |-> {[name |-> "int", what |-> <<0, 1>>, exported |-> FALSE]}],
     [name |-> "cmake", parent |-> Root, nodes |-> <<>>,
      entries |-> {[name |-> "version", what |-> <<0, 2>>, exported |-> FALSE]}] >>
====
