---- MODULE VariableValues ----
(***************************************************************************)
(* Value semantics, as doc/builtin/list.cmsl and the user guide tell it: a *)
(* variable of type int or list holds a value of its own, which only a     *)
(* statement about that variable, or about a reference to it, changes.     *)
(***************************************************************************)
EXTENDS ListScript, Sequences

VARIABLES value,   \* of declared variables: a number, a sequence, a variable (references)
          ended    \* the script was stopped

vars == <<value, ended>>

Init == value = <<>> /\ ~ended

(* Steps from the values old to the values new.                             *)
Kept(old) == DOMAIN old \intersect Outer
Named(old, v) == IF Refers(v) THEN old[v] ELSE v
Holding(held, old, v, n) == [w \in held \union {v} |-> IF w = v THEN n ELSE old[w]]

\* Declared or changed, one variable at a time.
Set(v, old, new) == /\ v \in DOMAIN new /\ ~Refers(v)
                    /\ new = Holding(DOMAIN old, old, v, new[v])
Bind(r, v, old, new) == /\ Refers(r) /\ r \notin DOMAIN old /\ v \in DOMAIN old
                        /\ new = Holding(DOMAIN old, old, r, Named(old, v))
LeaveBlock(old, new) == new = [v \in Kept(old) |-> old[v]]
\* A call whose function returns the value of its variable w initializes v.
Return(v, w, old, new) ==
  /\ v \notin DOMAIN old /\ w \in DOMAIN old /\ (IsList(v) <=> IsList(w))
  /\ new = Holding(Kept(old), old, v, old[Named(old, w)])

Step(old, new) == \/ new = old
                  \/ \E v \in Variables : Set(v, old, new)
                  \/ \E r, v \in Variables : Bind(r, v, old, new)
                  \/ LeaveBlock(old, new)
                  \/ \E v \in Outer, w \in DOMAIN old \ Outer : Return(v, w, old, new)
Next == LET old == value  new == value' IN
        ~ended /\ Step(old, new) /\ (ended' => new = old)

Spec == Init /\ [][Next]_vars
====
