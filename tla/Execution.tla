---- MODULE Execution ----
(***************************************************************************)
(* The tree-walking interpreter, source/exec/execution.cpp with its        *)
(* expression visitor.  The C++ call stack of the interpreter is ctrl, one *)
(* level per activation of execute_block, execute_if_else_node,            *)
(* execute_while_node, execute_for_node, execute_infix_expression or call. *)
(* m_callstack is frames, a sequence of scopes for each function that runs.*)
(* Jumps are not jumps: return, break and the facade's fatal error are     *)
(* flags, and every activation has to look at them on its way out.         *)
(***************************************************************************)
EXTENDS CmslProgram, FiniteSets

CONSTANTS MaxFrames,  \* user functions the native stack has room for
          Careless    \* programs that may raise a fatal error in a condition or a loop

ASSUME MaxFramesAssumption == MaxFrames \in Nat \ {0}
ASSUME CarelessAssumption == Careless \subseteq Programs

VARIABLES prog,      \* the program that runs
          ctrl,      \* activations of the interpreter, the innermost last
          frames,    \* m_callstack: the scopes of each frame
          returning, \* m_function_return_value != nullptr
          brk,       \* m_breaking_from_loop
          fatal,     \* cmake_facade::did_fatal_error_occure()
          dirs,      \* directories the facade was told to enter
          acts,      \* history: parity of the acts on the facade before a fatal error
          late,      \* history: the facade was acted on after a fatal error
          status

vars == <<prog, ctrl, frames, returning, brk, fatal, dirs, acts, late, status>>
----------------------------------------------------------------------------
\* Activations.  frame and height say where an activation runs: the frame on
\* top of m_callstack and the number of scopes that frame had.  block, for and
\* call activations hold a scope of their own, the last one counted by height.
Goals  == {"infix", "return", "decl", "cond"}
Stages == {"init", "cond", "true", "false", "null", "body", "iteration"}
Where  == [frame : Nat, height : Nat]

BlockLevel == [kind : {"block"}, nodes : Seq(Node), pc : Nat, at : Where]
EvalLevel  == [kind : {"eval"}, goal : Goals, node : Node, expr : Expression,
               pc : Nat, at : Where]
IfLevel    == {l \in [kind : {"if"}, node : Node, pc : Nat, stage : Stages, at : Where] :
                 l.pc \in 1 .. Len(l.node.ifs)}
LoopLevel  == [kind : {"while", "for"}, node : Node, stage : Stages, at : Where]
CallLevel  == [kind : CallOps, at : Where]
Level == BlockLevel \union EvalLevel \union IfLevel \union LoopLevel \union CallLevel

Top == ctrl[Len(ctrl)]
Below == SubSeq(ctrl, 1, Len(ctrl) - 1)
Replaced(level) == [ctrl EXCEPT ![Len(ctrl)] = level]

Here == [frame |-> Len(frames), height |-> Len(frames[Len(frames)])]
Inner == [Here EXCEPT !.height = @ + 1]

Block(body, at) == [kind |-> "block", nodes |-> body, pc |-> 0, at |-> at]
Eval(n, expr, goal, at) == [kind |-> "eval", goal |-> goal, node |-> n,
                            expr |-> expr, pc |-> 0, at |-> at]
\* A call: enter_function_scope pushes a frame with one scope, for the parameters.
Called(op, frame) == [kind |-> op, at |-> [frame |-> frame, height |-> 1]]
Body(f, frame) == Block(prog[f], [frame |-> frame, height |-> 2])

EnterScope == [frames EXCEPT ![Len(frames)] = Append(@, {})]
\* scope_leaving_guard keeps a reference to the scopes of the frame it was made in.
LeaveScope(at) == [frames EXCEPT ![at.frame] = SubSeq(@, 1, Len(@) - 1)]
AddVariable(v) ==
  LET scopes == frames[Len(frames)]
  IN [frames EXCEPT ![Len(frames)] = [scopes EXCEPT ![Len(scopes)] = @ \union {v}]]
\* execution::lookup_identifier: the scopes of the innermost frame only.  A
\* variable whose initializer failed holds no instance and is as good as absent.
VisibleInnermost(v) == v \in frames[Len(frames)][Len(frames[Len(frames)])]  \* mutant
Visible(v) == \E i \in 1 .. Len(frames[Len(frames)]) : v \in frames[Len(frames)][i]

ActOnFacade == /\ acts' = IF fatal THEN acts ELSE ~acts
               /\ late' = (late \/ fatal)

Running(kinds) == status = "running" /\ Top.kind \in kinds
AbruptWithoutBreak == returning \/ fatal  \* mutant
AbruptWithoutFatal == returning \/ brk    \* mutant
Abrupt == returning \/ brk \/ fatal
----------------------------------------------------------------------------
\* execute_block: the flags are looked at after each node, not before the first.
NodeReady == /\ Top.pc < Len(Top.nodes)
             /\ Top.pc = 0 \/ ~Abrupt
TheNode == Top.nodes[Top.pc + 1]
AtNode(kinds) == Running({"block"}) /\ NodeReady /\ TheNode.kind \in kinds
Stepped == Replaced([Top EXCEPT !.pc = @ + 1])

ExecuteExpression ==
  /\ AtNode({"infix", "return", "decl"})
  /\ TheNode.kind = "decl" => TheNode.hasExpr
  /\ ctrl' = Append(Stepped, Eval(TheNode, TheNode.expr, TheNode.kind, Here))
  /\ UNCHANGED <<prog, frames, returning, brk, fatal, dirs, acts, late, status>>

\* A declaration with no initializer creates the default value of its type.
ExecuteDefaultDeclaration ==
  /\ AtNode({"decl"})
  /\ ~TheNode.hasExpr
  /\ ctrl' = Stepped
  /\ frames' = AddVariable(TheNode.var)
  /\ UNCHANGED <<prog, returning, brk, fatal, dirs, acts, late, status>>

ExecuteImplicitReturn ==
  /\ AtNode({"implicit_return"})
  /\ ctrl' = Stepped
  /\ returning' = TRUE
  /\ UNCHANGED <<prog, frames, brk, fatal, dirs, acts, late, status>>

ExecuteBreak ==
  /\ AtNode({"break"})
  /\ ctrl' = Stepped
  /\ brk' = TRUE
  /\ UNCHANGED <<prog, frames, returning, fatal, dirs, acts, late, status>>

ExecuteBlock ==
  /\ AtNode({"block"})
  /\ ctrl' = Append(Stepped, Block(TheNode.body, Inner))
  /\ frames' = EnterScope
  /\ UNCHANGED <<prog, returning, brk, fatal, dirs, acts, late, status>>

\* add_subdirectory of an old CMake script acts on the facade unconditionally.
ExecuteOldScript ==
  /\ AtNode({"old_script"})
  /\ ctrl' = Stepped
  /\ ActOnFacade
  /\ UNCHANGED <<prog, frames, returning, brk, fatal, dirs, status>>

ExecuteIf ==
  /\ AtNode({"if"})
  /\ LET branch == [kind |-> "if", node |-> TheNode, pc |-> 1, stage |-> "cond", at |-> Here]
     IN ctrl' = Append(Append(Stepped, branch),
                       Eval(TheNode, TheNode.ifs[1].cond, "cond", Here))
  /\ UNCHANGED <<prog, frames, returning, brk, fatal, dirs, acts, late, status>>

ExecuteWhile ==
  /\ AtNode({"while"})
  /\ LET loop == [kind |-> "while", node |-> TheNode, stage |-> "cond", at |-> Here]
     IN ctrl' = Append(Append(Stepped, loop), Eval(TheNode, TheNode.expr, "cond", Here))
  /\ UNCHANGED <<prog, frames, returning, brk, fatal, dirs, acts, late, status>>

\* execute_for_node opens a scope for what its init declares.
ExecuteFor ==
  /\ AtNode({"for"})
  /\ LET loop == [kind |-> "for", node |-> TheNode, stage |-> "init", at |-> Inner]
     IN ctrl' = Append(Stepped, loop)
  /\ frames' = EnterScope
  /\ UNCHANGED <<prog, returning, brk, fatal, dirs, acts, late, status>>

LeaveBlock ==
  /\ Running({"block"})
  /\ ~NodeReady
  /\ ctrl' = Below
  /\ frames' = LeaveScope(Top.at)
  /\ UNCHANGED <<prog, returning, brk, fatal, dirs, acts, late, status>>
----------------------------------------------------------------------------
\* Expressions.  Top.pc operations of Top.expr were visited, e[pc] the last.
Visited(i) == Top.expr[i]
Pending == Top.pc < Len(Top.expr)
Operand == Visited(Top.pc + 1)
Advanced == Replaced([Top EXCEPT !.pc = @ + 1])
AtOperation(ops) == Running({"eval"}) /\ Pending /\ Operand.op \in ops

\* A call node evaluates its parameters, and looks for a fatal error before it
\* makes the call.  A component is created with no such look, but as a leaf of
\* the tree it is not reached once a node to its left has failed.
CallAlwaysAllowed == TRUE  \* mutant
CallAllowed == ~fatal
LeafReached == ~fatal \/ Top.pc = 0

EvaluateUse ==
  /\ AtOperation({"use"})
  /\ LeafReached
  /\ ctrl' = Advanced
  /\ status' = IF ~fatal /\ ~Visible(Operand.var) THEN "crashed" ELSE "running"
  /\ UNCHANGED <<prog, frames, returning, brk, fatal, dirs, acts, late>>

EvaluateBuiltin ==
  /\ AtOperation({"builtin"})
  /\ CallAllowed
  /\ ctrl' = Advanced
  /\ ActOnFacade
  /\ UNCHANGED <<prog, frames, returning, brk, fatal, dirs, status>>

EvaluateFatal ==
  /\ AtOperation({"fatal"})
  /\ CallAllowed
  /\ ctrl' = Advanced
  /\ fatal' = TRUE
  /\ UNCHANGED <<prog, frames, returning, brk, dirs, acts, late, status>>

EvaluateComponent ==
  /\ AtOperation({"component"})
  /\ LeafReached
  /\ ctrl' = Advanced
  /\ ActOnFacade
  /\ UNCHANGED <<prog, frames, returning, brk, fatal, dirs, status>>

\* execution::call and enter_function_scope.  Nothing limits the recursion but
\* the native stack: one call too many kills the interpreter.
EvaluateCall ==
  /\ AtOperation(CallOps)
  /\ CallAllowed
  /\ IF Len(frames) < MaxFrames
     THEN /\ frames' = Append(frames, << {}, {} >>)
          /\ ctrl' = Append(Append(Advanced, Called(Operand.op, Len(frames) + 1)),
                            Body(Operand.fun, Len(frames) + 1))
          /\ dirs' = IF Operand.op = "subdir" THEN dirs + 1 ELSE dirs
          /\ UNCHANGED status
     ELSE /\ status' = "overflow"
          /\ UNCHANGED <<frames, ctrl, dirs>>
  /\ UNCHANGED <<prog, returning, brk, fatal, acts, late>>

\* A call node that finds a fatal error before its call leaves no result.
SkipCall ==
  /\ AtOperation(CallOps \union {"builtin", "fatal"})
  /\ ~CallAllowed
  /\ Top.pc = 0
  /\ ctrl' = Advanced
  /\ UNCHANGED <<prog, frames, returning, brk, fatal, dirs, acts, late, status>>

\* unary_operator_node does not look for a fatal error: the result of a call
\* that was given up is an uninitialized pointer.
HasResult(i) == \/ Visited(i).op = "unary"
                \/ Visited(i).op = "use" /\ Visible(Visited(i).var)
EvaluateUnary ==
  /\ AtOperation({"unary"})
  /\ ctrl' = Advanced
  /\ status' \in IF fatal /\ ~HasResult(Top.pc) THEN {"crashed", "running"} ELSE {"running"}
  /\ UNCHANGED <<prog, frames, returning, brk, fatal, dirs, acts, late>>

\* Every other node gives up when it finds a fatal error after its operands.
Evaluated == \/ ~Pending
             \/ Pending /\ fatal /\ Top.pc > 0 /\ Operand.op # "unary"

EndInfix ==
  /\ Running({"eval"}) /\ Evaluated /\ Top.goal = "infix"
  /\ ctrl' = Below
  /\ UNCHANGED <<prog, frames, returning, brk, fatal, dirs, acts, late, status>>

EndReturn ==
  /\ Running({"eval"}) /\ Evaluated /\ Top.goal = "return"
  /\ ctrl' = Below
  /\ returning' = ~fatal
  /\ UNCHANGED <<prog, frames, brk, fatal, dirs, acts, late, status>>

EndDeclaration ==
  /\ Running({"eval"}) /\ Evaluated /\ Top.goal = "decl"
  /\ ctrl' = Below
  /\ frames' = IF fatal THEN frames ELSE AddVariable(Top.node.var)
  /\ UNCHANGED <<prog, returning, brk, fatal, dirs, acts, late, status>>

\* The value of a condition is handed to the activation below.
EndCondition ==
  /\ Running({"eval"}) /\ Evaluated /\ Top.goal = "cond"
  /\ \E value \in (IF fatal THEN {"null"} ELSE {"true", "false"}) :
       ctrl' = [Below EXCEPT ![Len(Below)] = [@ EXCEPT !.stage = value]]
  /\ UNCHANGED <<prog, frames, returning, brk, fatal, dirs, acts, late, status>>
----------------------------------------------------------------------------
AtStage(kinds, stage) == Running(kinds) /\ Top.stage = stage
Stage(stage) == Replaced([Top EXCEPT !.stage = stage])

\* The value of a condition is dereferenced without looking for an error.
NullCondition ==
  /\ AtStage(Loops \union {"if"}, "null")
  /\ status' = "crashed"
  /\ UNCHANGED <<prog, ctrl, frames, returning, brk, fatal, dirs, acts, late>>

\* An absent else body is an empty one.
IfBody ==
  /\ \/ AtStage({"if"}, "true")
     \/ AtStage({"if"}, "false") /\ Top.pc = Len(Top.node.ifs)
  /\ LET body == IF Top.stage = "true" THEN Top.node.ifs[Top.pc].body ELSE Top.node.body
     IN ctrl' = Append(Stage("body"), Block(body, Inner))
  /\ frames' = EnterScope
  /\ UNCHANGED <<prog, returning, brk, fatal, dirs, acts, late, status>>

ElseIf ==
  /\ AtStage({"if"}, "false")
  /\ Top.pc < Len(Top.node.ifs)
  /\ ctrl' = Append(Replaced([Top EXCEPT !.stage = "cond", !.pc = @ + 1]),
                    Eval(Top.node, Top.node.ifs[Top.pc + 1].cond, "cond", Here))
  /\ UNCHANGED <<prog, frames, returning, brk, fatal, dirs, acts, late, status>>

LeaveIf ==
  /\ AtStage({"if"}, "body")
  /\ ctrl' = Below
  /\ UNCHANGED <<prog, frames, returning, brk, fatal, dirs, acts, late, status>>

\* should_continue: a for with no condition goes on without looking at anything.
CheckCondition ==
  ctrl' = IF Top.kind = "for" /\ ~Top.node.hasExpr
          THEN Stage("true")
          ELSE Append(Stage("cond"), Eval(Top.node, Top.node.expr, "cond", Here))

EndLoopKeepingScope == ctrl' = Below /\ UNCHANGED frames  \* mutant
EndLoop == /\ ctrl' = Below
           /\ frames' = IF Top.kind = "for" THEN LeaveScope(Top.at) ELSE frames

\* Stage "iteration": the init or the iteration expression has been evaluated.
ForInit ==
  /\ AtStage({"for"}, "init")
  /\ Top.node.init # <<>>
  /\ LET n == Top.node.init[1]
     IN IF n.kind = "decl" /\ ~n.hasExpr
        THEN ctrl' = Stage("iteration") /\ frames' = AddVariable(n.var)
        ELSE /\ ctrl' = Append(Stage("iteration"), Eval(n, n.expr, n.kind, Here))
             /\ UNCHANGED frames
  /\ UNCHANGED <<prog, returning, brk, fatal, dirs, acts, late, status>>

ForCondition ==
  /\ \/ AtStage({"for"}, "iteration")
     \/ AtStage({"for"}, "init") /\ Top.node.init = <<>>
  /\ CheckCondition
  /\ UNCHANGED <<prog, frames, returning, brk, fatal, dirs, acts, late, status>>

LoopBody ==
  /\ AtStage(Loops, "true")
  /\ ctrl' = Append(Stage("body"), Block(Top.node.body, Inner))
  /\ frames' = EnterScope
  /\ UNCHANGED <<prog, returning, brk, fatal, dirs, acts, late, status>>

LoopFalse ==
  /\ AtStage(Loops, "false")
  /\ EndLoop
  /\ UNCHANGED <<prog, returning, brk, fatal, dirs, acts, late, status>>

\* After the body: a return leaves the loop, a break leaves it and is used up.
LoopLeftByBreak == brk                                \* mutant
LoopLeft == returning \/ brk
BreakKept == brk                                      \* mutant
BreakAfterLoop == Top.kind = "for" /\ returning /\ brk
LeaveLoop ==
  /\ AtStage(Loops, "body")
  /\ LoopLeft
  /\ EndLoop
  /\ brk' = BreakAfterLoop
  /\ UNCHANGED <<prog, returning, fatal, dirs, acts, late, status>>

LoopAgain ==
  /\ AtStage(Loops, "body")
  /\ ~LoopLeft
  /\ IF Top.kind = "for" /\ Top.node.iteration # <<>>
     THEN ctrl' = Append(Stage("iteration"), Eval(Top.node, Top.node.iteration, "infix", Here))
     ELSE CheckCondition
  /\ UNCHANGED <<prog, frames, returning, brk, fatal, dirs, acts, late, status>>
----------------------------------------------------------------------------
\* The end of execution::call, and what the visitor does with the result; a null
\* result with no fatal error is dereferenced.  Whether or not the directory's
\* main failed, the facade is told to leave the directory.
AnyCallLeaves == TRUE                                 \* mutant
LeavesOnSuccess == Top.kind = "subdir" /\ ~fatal      \* mutant
LeavesDirectory == Top.kind = "subdir"
LeaveFunction ==
  /\ Running(CallOps)
  /\ ctrl' = Below
  /\ frames' = SubSeq(frames, 1, Len(frames) - 1)
  /\ returning' = FALSE
  /\ dirs' = IF LeavesDirectory THEN dirs - 1 ELSE dirs
  /\ status' = IF ~returning /\ ~fatal THEN "crashed"
               ELSE IF Below = <<>> THEN "done" ELSE "running"
  /\ UNCHANGED <<prog, brk, fatal, acts, late>>

\* global_executor::execute(function) calls main on a fresh execution.
Init ==
  /\ prog \in Programs
  /\ ctrl = << Called("call", 1), Body(Main, 1) >>
  /\ frames = << << {}, {} >> >>
  /\ returning = FALSE /\ brk = FALSE /\ fatal = FALSE
  /\ dirs = 0
  /\ acts = FALSE /\ late = FALSE
  /\ status = "running"

BlockStep == \/ ExecuteExpression \/ ExecuteDefaultDeclaration
             \/ ExecuteImplicitReturn \/ ExecuteBreak \/ ExecuteBlock
             \/ ExecuteOldScript \/ ExecuteIf \/ ExecuteWhile \/ ExecuteFor
             \/ LeaveBlock
EvalStep == \/ EvaluateUse \/ EvaluateBuiltin \/ EvaluateFatal
            \/ EvaluateComponent \/ EvaluateCall \/ SkipCall \/ EvaluateUnary
            \/ EndInfix \/ EndReturn \/ EndDeclaration \/ EndCondition
BranchStep == NullCondition \/ IfBody \/ ElseIf \/ LeaveIf
LoopStep == ForInit \/ ForCondition \/ LoopBody \/ LoopFalse \/ LeaveLoop \/ LoopAgain

Step == BlockStep \/ EvalStep \/ BranchStep \/ LoopStep \/ LeaveFunction
Stopped == status # "running" /\ UNCHANGED vars
Next == Step \/ Stopped

Spec == Init /\ [][Next]_vars
\* One thread runs the interpreter and never waits.
FairSpec == Spec /\ WF_vars(Step)
----------------------------------------------------------------------------
(***************************************************************************)
(* Properties.                                                             *)
(***************************************************************************)

TypeOK ==
  /\ prog \in Programs
  /\ ctrl \in Seq(Level)
  /\ frames \in Seq(Seq(SUBSET Var))
  /\ returning \in BOOLEAN /\ brk \in BOOLEAN /\ fatal \in BOOLEAN
  /\ dirs \in Nat
  /\ acts \in BOOLEAN /\ late \in BOOLEAN
  /\ status \in {"running", "done", "crashed", "overflow"}

\* However a body ends, by its last node, return, break or a fatal error, the
\* activation that goes on finds m_callstack as it left it: the same frame on
\* top, with the same number of scopes, and each suspended frame untouched.
ScopesAsLeft ==
  /\ (ctrl = <<>>) <=> (frames = <<>>)
  /\ ctrl # <<>> => Top.at = Here
  /\ \A i \in 1 .. Len(ctrl) - 1 :
       LET outer == ctrl[i].at
           inner == ctrl[i + 1].at
       IN \/ inner.frame = outer.frame /\ inner.height \in {outer.height, outer.height + 1}
          \/ /\ inner = [frame |-> outer.frame + 1, height |-> 1]
             /\ Len(frames[outer.frame]) = outer.height

\* m_breaking_from_loop is one flag for the whole execution.  While it is set,
\* only blocks and ifs stand between the execution and a loop that will reset
\* it: it never crosses a call and never meets an expression.
BreakStaysInLoop ==
  brk => \E i \in 1 .. Len(ctrl) :
           /\ ctrl[i].kind \in Loops /\ ctrl[i].stage = "body"
           /\ \A j \in i + 1 .. Len(ctrl) : ctrl[j].kind \in {"block", "if"}

\* m_function_return_value is one slot for the whole execution.  No expression
\* is evaluated, and so no function called, while it holds a value or while a
\* break is under way: no call can pick up the value of another.
JumpsFinishFirst ==
  status = "running" /\ Top.kind = "eval" => ~returning /\ ~brk

\* The facade has been told to enter one directory for each add_subdirectory
\* call that is still running, whichever way the earlier ones ended.
Subdirectories(c) == {i \in 1 .. Len(c) : c[i].kind = "subdir"}
DirectoriesMatchCalls == dirs = Cardinality(Subdirectories(ctrl))

\* No null instance is ever used: every function hands over a value, every read
\* finds a variable, and a fatal error ends in the result null of execute.
NeverCrashes == status = "crashed" => fatal /\ prog \in Careless

\* Configuration stops at a fatal error: nothing acts on CMake after it.
NothingAfterFatal == late => prog \in Careless

\* Configuration stops at a fatal error: the interpreter comes to an end.
FatalStops == fatal /\ prog \notin Careless ~> status # "running"

\* The flags implement jumps.  What is left to do, with the part a pending jump
\* is going to skip taken away, is a run of the structured semantics.
Remaining(level) ==
  CASE level.kind = "block" -> [kind |-> "block",
                                rest |-> SubSeq(level.nodes, level.pc + 1, Len(level.nodes))]
    [] level.kind = "eval" -> [kind |-> "eval", node |-> level.node, goal |-> level.goal,
                               rest |-> SubSeq(level.expr, level.pc + 1, Len(level.expr))]
    [] level.kind = "if" -> [kind |-> "if", node |-> level.node, pc |-> level.pc,
                             stage |-> level.stage]
    [] level.kind \in Loops -> [kind |-> level.kind, node |-> level.node, stage |-> level.stage]
    [] level.kind \in CallOps -> [kind |-> level.kind]

Left(c) == [i \in 1 .. Len(c) |-> Remaining(c[i])]

MeantStack == CASE fatal -> <<>>
                [] ~fatal /\ returning -> EndOfCall(Left(ctrl))
                [] ~fatal /\ ~returning /\ brk -> OutOfLoop(Left(ctrl))
                [] OTHER -> Left(ctrl)
MeantOutcome == CASE fatal -> "fatal"
                  [] ~fatal /\ ctrl = <<>> -> "value"
                  [] OTHER -> "none"

Meant == INSTANCE StructuredControl WITH
  program <- prog, stack <- MeantStack, outcome <- MeantOutcome

ImplementsStructuredControl == Meant!Spec
====
