---- MODULE MCInstances ----
(***************************************************************************)
(* Small instances of Instances: an int and a list, and in an inner block  *)
(* or a called function an int, a list and a reference.                    *)
(***************************************************************************)
EXTENDS Instances

CONSTANTS x, l, y, m, r

TypeOfVariable == [v \in {x, l, y, m, r} |-> CASE v \in {x, y} -> "int" [] v \in {l, m} -> "list" [] v = r -> "int&"]
Types == TypeOfVariable     \* evaluated once
====
