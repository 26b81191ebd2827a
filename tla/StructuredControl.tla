---- MODULE StructuredControl ----
(***************************************************************************)
(* What the control statements of the language promise, with no flags: a   *)
(* program is run off a stack of what is left to do, a jump cuts the stack *)
(* at its target at once, and a fatal error empties it.                    *)
(***************************************************************************)
EXTENDS CmslProgram

VARIABLES program, stack, acts, outcome

Last == stack[Len(stack)]
Rest == SubSeq(stack, 1, Len(stack) - 1)
Continue(item) == [stack EXCEPT ![Len(stack)] = item]
Ready(kinds) == stack # <<>> /\ Last.kind \in kinds

Nodes(body) == [kind |-> "block", rest |-> body]
Expr(n, e, goal) == [kind |-> "eval", node |-> n, rest |-> e, goal |-> goal]
Branch(n, pc, stage) == [kind |-> "if", node |-> n, pc |-> pc, stage |-> stage]
Loop(n, stage) == [kind |-> n.kind, node |-> n, stage |-> stage]
\* Parity of the acts on CMake so far: a step cannot hide one.
Act(yes) == acts' = IF yes THEN ~acts ELSE acts
Called(op) == [kind |-> op]
----------------------------------------------------------------------------
\* One node of a block.
Start(n, s) ==
  CASE n.kind \in {"infix", "return"} -> Append(s, Expr(n, n.expr, n.kind))
    [] n.kind = "decl"   -> IF n.hasExpr THEN Append(s, Expr(n, n.expr, "decl")) ELSE s
    [] n.kind = "block"  -> Append(s, Nodes(n.body))
    [] n.kind = "if"     -> s \o << Branch(n, 1, "cond"), Expr(n, n.ifs[1].cond, "cond") >>
    [] n.kind = "while"  -> s \o << Loop(n, "cond"), Expr(n, n.expr, "cond") >>
    [] n.kind = "for"    -> Append(s, Loop(n, "init"))
    [] n.kind = "break"  -> OutOfLoop(s)
    [] n.kind = "implicit_return" -> EndOfCall(s)
    [] n.kind = "old_script" -> s

RunNode == /\ Ready({"block"}) /\ Last.rest # <<>>
           /\ Act(Head(Last.rest).kind = "old_script")
           /\ stack' = Start(Head(Last.rest), Continue([Last EXCEPT !.rest = Tail(@)]))
           /\ UNCHANGED outcome

EndBlock == /\ Ready({"block"}) /\ Last.rest = <<>>
            /\ stack' = Rest
            /\ UNCHANGED <<acts, outcome>>

\* One operation of an expression.
Operate == /\ Ready({"eval"}) /\ Last.rest # <<>>
           /\ LET o == Head(Last.rest)
                  s == Continue([Last EXCEPT !.rest = Tail(@)])
              IN /\ Act(o.op \in {"builtin", "component"})
                 /\ IF o.op = "fatal"
                    THEN stack' = <<>> /\ outcome' = "fatal"
                    ELSE /\ stack' = IF o.op \in CallOps
                                     THEN s \o << Called(o.op), Nodes(program[o.fun]) >>
                                     ELSE s
                         /\ UNCHANGED outcome

EndExpression == /\ Ready({"eval"}) /\ Last.rest = <<>>
                 /\ \/ /\ Last.goal \in {"infix", "decl"}
                       /\ stack' = Rest
                    \/ /\ Last.goal = "return"
                       /\ stack' = EndOfCall(Rest)
                    \/ /\ Last.goal = "cond"
                       /\ \E value \in {"true", "false"} :
                            stack' = [Rest EXCEPT ![Len(Rest)] = [@ EXCEPT !.stage = value]]
                 /\ UNCHANGED <<acts, outcome>>

ChooseBranch ==
  /\ Ready({"if"})
  /\ \/ /\ Last.stage = "true"
        /\ stack' = Append(Continue(Branch(Last.node, Last.pc, "body")),
                           Nodes(Last.node.ifs[Last.pc].body))
     \/ /\ Last.stage = "false"
        /\ stack' = IF Last.pc = Len(Last.node.ifs)
                    THEN Append(Continue(Branch(Last.node, Last.pc, "body")),
                                Nodes(Last.node.body))
                    ELSE Append(Continue(Branch(Last.node, Last.pc + 1, "cond")),
                                Expr(Last.node, Last.node.ifs[Last.pc + 1].cond, "cond"))
     \/ /\ Last.stage = "body"
        /\ stack' = Rest
  /\ UNCHANGED <<acts, outcome>>

Test(n) == IF n.kind = "for" /\ ~n.hasExpr
           THEN Continue(Loop(n, "true"))
           ELSE Append(Continue(Loop(n, "cond")), Expr(n, n.expr, "cond"))

Iterate ==
  /\ Ready(Loops)
  /\ LET n == Last.node
     IN CASE Last.stage = "true"  -> stack' = Append(Continue(Loop(n, "body")), Nodes(n.body))
          [] Last.stage = "false" -> stack' = Rest
          [] Last.stage = "iteration" -> stack' = Test(n)
          [] Last.stage = "init" ->
               stack' = IF n.init = <<>> THEN Test(n)
                        ELSE Start(n.init[1], Continue(Loop(n, "iteration")))
          [] Last.stage = "body" ->
               stack' = IF n.kind = "for" /\ n.iteration # <<>>
                        THEN Append(Continue(Loop(n, "iteration")),
                                    Expr(n, n.iteration, "infix"))
                        ELSE Test(n)
  /\ UNCHANGED <<acts, outcome>>

Return == /\ Ready(CallOps)
          /\ stack' = Rest
          /\ UNCHANGED acts
          /\ outcome' = IF Rest = <<>> THEN "value" ELSE outcome

Init == /\ program \in Programs
        /\ stack = << Called("call"), Nodes(program[Main]) >>
        /\ acts = FALSE
        /\ outcome = "none"

Step == RunNode \/ EndBlock \/ Operate \/ EndExpression \/ ChooseBranch \/ Iterate \/ Return
Next == Step /\ UNCHANGED program

Spec == Init /\ [][Next]_<<program, stack, acts, outcome>>
====
