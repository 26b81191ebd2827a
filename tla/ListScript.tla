---- MODULE ListScript ----
(***************************************************************************)
(* What scripts can say about lists: the variables of a block and of the   *)
(* blocks or calls inside it, their types, and the arguments that are      *)
(* given to the methods of list<int>.                                      *)
(***************************************************************************)
EXTENDS Integers

CONSTANTS Variables, TypeOf,
          Outer,     \* variables of the surrounding block
          Numbers,   \* the values of int
          MaxSize,   \* bound on the size of a list
          Forms      \* the forms that arguments and initializers take

ASSUME TypesAssumption == TypeOf \in [Variables -> {"int", "int&", "list", "list&"}]
ASSUME ScopesAssumption == Outer \subseteq Variables
ASSUME NumbersAssumption == Numbers \subseteq Int /\ 0 \in Numbers
ASSUME SizesAssumption == MaxSize \in Nat \ {0}
ASSUME FormsAssumption ==
  Forms \subseteq {"literal", "variable", "copy", "braces", "element", "reference"}

Refers(v) == TypeOf[v] \in {"int&", "list&"}
IsList(v) == TypeOf[v] \in {"list", "list&"}
OfType(types) == {v \in Variables : TypeOf[v] \in types}
Ints == {v \in Variables : ~IsList(v)}
Lists == {v \in Variables : IsList(v)}
References == {v \in Variables : Refers(v)}
Inner == Variables \ Outer

\* Positions and counts start at 0; -1 is k_special_value.
Special == -1
Positions == Special .. MaxSize + 1
Counts == Special .. MaxSize - 1

\* "element": l.at(i), and l.front() and l.back() where they are one.
Elements == [form : {"element"}, list : Lists, position : 0 .. MaxSize - 1]
Operands == [form : {"literal"}, number : Numbers]
             \union [form : {"variable"}, name : Ints] \union Elements
Arguments == {e \in Operands : e.form \in Forms}
\* "reference": a variable that is an int&, next to + or += of a list.
Addends == {e \in Arguments : e.form = "variable" /\ Refers(e.name) => "reference" \in Forms}

\* What a list is initialized with: nothing, another list, values in braces.
Initializers == {i \in [form : {"default"}]
                        \union [form : {"copy"}, list : Lists]
                        \union [form : {"braces"}, first : Arguments, last : Arguments] :
                  i.form \in Forms \union {"default"}}
====
