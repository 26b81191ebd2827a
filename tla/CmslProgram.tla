---- MODULE CmslProgram ----
(***************************************************************************)
(* What the interpreter is given: a program that semantic analysis has     *)
(* accepted.  A node is a record of the sema tree; an expression is the    *)
(* post-order sequence of the operations in it that can be told apart from *)
(* outside: calls, reads of variables, unary operators.  Values are left   *)
(* out: a condition is whatever the run makes it.                          *)
(***************************************************************************)
EXTENDS Naturals, Sequences

CONSTANTS Node,     \* sema nodes that can be executed (sema_nodes.hpp)
          Fun,      \* user functions (user_sema_function)
          Main,     \* the function the executor calls
          Breaking, \* nodes with a break that leaves a loop around them
          Free,     \* the variables that a node reads and does not itself declare
          Var,      \* identifier indices of local variables
          Programs  \* the programs considered: a body for each function

NodeKinds == {"infix", "return", "implicit_return", "decl", "if", "while",
              "for", "break", "block", "old_script"}
Loops == {"while", "for"}

(* "call": a user function; "subdir": add_subdirectory, which calls the main *)
(* function of the other script; "builtin": a builtin that acts on the CMake *)
(* facade; "fatal": a builtin that raises the facade's fatal error;          *)
(* "component": creation of a declarative component; "use": an id node;      *)
(* "unary": a unary operator applied to what stands just before it.          *)
CallOps  == {"call", "subdir"}
Operation == [op : CallOps, fun : Fun]
              \union [op : {"use"}, var : Var]
              \union [op : {"builtin", "fatal", "component", "unary"}]
Expression == {e \in Seq(Operation) : e # <<>> => e[1].op # "unary"}

(* if_else_node: the conditional bodies in order, and the else body.         *)
ConditionalNodes == [cond : Expression, body : Seq(Node)]

ASSUME NodeAssumption ==
  \A n \in Node : /\ n.kind \in NodeKinds
                  /\ n.expr \in Expression        \* value, initializer, condition
                  /\ n.ifs \in Seq(ConditionalNodes)
                  /\ n.body \in Seq(Node)         \* block, loop body, else body
                  /\ n.init \in Seq(Node)         \* at most one: for's init
                  /\ n.iteration \in Expression   \* for's iteration
                  /\ n.hasExpr \in BOOLEAN        \* for: has a condition; decl: has an initializer
                  /\ n.var \in Var
                  /\ n.kind = "if" => n.ifs # <<>>
                  /\ Len(n.init) <= 1 /\ (n.kind # "for" => n.init = <<>>)
                  /\ \A i \in 1 .. Len(n.init) : n.init[i].kind \in {"infix", "decl"}

ASSUME ProgramAssumption == /\ Main \in Fun
                            /\ Programs \subseteq [Fun -> Seq(Node)]

(* A break is refused where no loop is parsed, so that it belongs to a loop  *)
(* that it can reach through blocks and ifs.                                *)
Contains(body, S) == \E i \in 1 .. Len(body) : body[i] \in S
BreaksOut(n, S) ==
  \/ n.kind = "break"
  \/ n.kind \in {"block", "if"} /\ Contains(n.body, S)
  \/ n.kind = "if" /\ \E i \in 1 .. Len(n.ifs) : Contains(n.ifs[i].body, S)

ASSUME BreakAssumption ==
  /\ \A n \in Node : BreaksOut(n, Breaking) => n \in Breaking
  /\ \A p \in Programs, f \in Fun : ~Contains(p[f], Breaking)

\* A name is looked up among those declared before it in the scopes around it,
\* and a name that is not found is refused.  A node has the parts of its kind,
\* the others are empty; what a for declares ends with it.
Reads(expr, k) == {expr[i].var : i \in {j \in k + 1 .. Len(expr) : expr[j].op = "use"}}
Declared(body, first, last) ==
  {body[i].var : i \in {j \in first .. last : body[j].kind = "decl"}}
FreeFrom(body, k, free) ==
  UNION {free[body[i]] \ Declared(body, k + 1, i - 1) : i \in k + 1 .. Len(body)}
FreeInside(n, free) ==
  Reads(n.expr, 0) \union Reads(n.iteration, 0) \union FreeFrom(n.body, 0, free)
  \union UNION {Reads(n.ifs[i].cond, 0) \union FreeFrom(n.ifs[i].body, 0, free) : i \in 1 .. Len(n.ifs)}
FreeIn(n, free) ==
  FreeFrom(n.init, 0, free) \union (FreeInside(n, free) \ Declared(n.init, 1, Len(n.init)))

ASSUME ScopeAssumption ==
  /\ Free \in [Node -> SUBSET Var]
  /\ \A n \in Node : FreeIn(n, Free) \subseteq Free[n]
  /\ \A p \in Programs, f \in Fun : FreeFrom(p[f], 0, Free) = {}

\* A body that does not end in a return is given an implicit one.
Returns == {"return", "implicit_return"}
ASSUME ReturnAssumption ==
  \A p \in Programs, f \in Fun : p[f] # <<>> /\ p[f][Len(p[f])].kind \in Returns

----------------------------------------------------------------------------
\* Where the program p may raise a fatal error: an operation does, or calls a
\* function with a node that does; S is the nodes that may, or more.
RaisesAt(o, p, S) == o.op = "fatal" \/ (o.op \in CallOps /\ Contains(p[o.fun], S))
RaisesIn(expr, p, S) == \E i \in 1 .. Len(expr) : RaisesAt(expr[i], p, S)
Raises(n, p, S) ==
  \/ RaisesIn(n.expr, p, S) \/ RaisesIn(n.iteration, p, S)
  \/ Contains(n.init, S) \/ Contains(n.body, S)
  \/ \E i \in 1 .. Len(n.ifs) : RaisesIn(n.ifs[i].cond, p, S) \/ Contains(n.ifs[i].body, S)

\* A unary operator applied to a result that a fatal error may leave out.
AppliesToNothing(expr, p, S) ==
  \E i \in 1 .. Len(expr) - 1 : RaisesAt(expr[i], p, S) /\ expr[i + 1].op = "unary"

\* The places where a fatal error goes unnoticed: a loop, a condition and the
\* operand of a unary operator; T is the nodes with such a place, or more.
Overlooks(n, p, S, T) ==
  \/ n.kind \in Loops /\ n \in S
  \/ \E i \in 1 .. Len(n.ifs) : RaisesIn(n.ifs[i].cond, p, S)
  \/ AppliesToNothing(n.expr, p, S)
  \/ Contains(n.init, T) \/ Contains(n.body, T)
  \/ \E i \in 1 .. Len(n.ifs) : Contains(n.ifs[i].body, T)

\* The program never raises a fatal error there.
CarefulWith(p, S, T) == /\ \A n \in Node : Raises(n, p, S) => n \in S
                        /\ \A n \in Node : Overlooks(n, p, S, T) => n \in T
                        /\ \A f \in Fun : ~Contains(p[f], T)
Careful(p) == \E S, T \in SUBSET Node : CarefulWith(p, S, T)
----------------------------------------------------------------------------
\* The targets of jumps in a sequence of activations, the innermost last: a
\* break leaves the innermost loop, a return ends the body of the innermost call.
Innermost(s, kinds) == CHOOSE i \in DOMAIN s :
                         /\ s[i].kind \in kinds
                         /\ \A j \in i + 1 .. Len(s) : s[j].kind \notin kinds
OutOfLoop(s) == SubSeq(s, 1, Innermost(s, Loops) - 1)
EndOfCall(s) == SubSeq(s, 1, Innermost(s, CallOps))
====
