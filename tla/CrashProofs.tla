---- MODULE CrashProofs ----
(***************************************************************************)
(* The interpreter uses no instance that is not there: a function hands    *)
(* over a value, a read finds its variable, and nothing goes on after a    *)
(* fatal error, in every program that takes care where it may raise one.   *)
(***************************************************************************)
EXTENDS ExecutionProofs, WellFoundedInduction

\* What the theorems assume of the programs that are not listed as careless.
CarefulPrograms == \A p \in Programs \ Careless : Careful(p)

Raising(p) == CHOOSE S \in SUBSET Node : \E T \in SUBSET Node : CarefulWith(p, S, T)
Overlooking(p) == CHOOSE T \in SUBSET Node : CarefulWith(p, Raising(p), T)

\* An activation in which no fatal error can be raised, and one in which none is
\* raised as long as what it waits for is not over.
Quiet(l, p) ==
  /\ l.kind = "block" => ~Contains(l.nodes, Raising(p))
  /\ l.kind = "eval" => ~RaisesIn(l.expr, p, Raising(p))
  /\ l.kind \in Loops \union {"if"} => l.node \notin Raising(p)
Calm(l, p) ==
  /\ l.kind \notin CallOps
  /\ l.kind = "eval" => /\ l.pc \in 1 .. Len(l.expr)
                        /\ ~RaisesAt(l.expr[l.pc], p, Raising(p))
  /\ l.kind # "eval" => Quiet(l, p)

\* An activation that notices every fatal error raised inside it.
Watchful(l, p) ==
  /\ l.kind = "block" => ~Contains(l.nodes, Overlooking(p))
  /\ l.kind = "eval" => /\ ~AppliesToNothing(l.expr, p, Raising(p))
                        /\ l.goal = "cond" => ~RaisesIn(l.expr, p, Raising(p))
  /\ l.kind \in Loops \union {"if"} => l.node \notin Overlooking(p)

\* What an activation waits for, and what it is going to do with it.
AtReturn(l) == l.pc > 0 /\ l.nodes[l.pc].kind \in Returns
EndsInReturn(nodes) == nodes # <<>> /\ nodes[Len(nodes)].kind \in Returns
Waits(outer, inner) ==
  /\ outer.kind = "block" =>
       /\ outer.pc \in 1 .. Len(outer.nodes)
       /\ AtReturn(outer) => inner.kind = "eval" /\ inner.goal = "return"
  /\ outer.kind = "eval" => outer.pc \in 1 .. Len(outer.expr)
  /\ outer.kind = "if" => outer.stage = "body" \/ (inner.kind = "eval" /\ inner.goal = "cond")
  /\ outer.kind \in Loops => outer.stage \notin {"init", "null"}
  /\ outer.kind \in CallOps => inner.kind = "block" /\ EndsInReturn(inner.nodes)

Chained(c, p) ==
  /\ \A i \in 1 .. Len(c) - 1 : Waits(c[i], c[i + 1])
  /\ p \notin Careless =>
       /\ \A i \in 1 .. Len(c) : Watchful(c[i], p)
       /\ \A i, j \in 1 .. Len(c) : i < j /\ Calm(c[i], p) => Quiet(c[j], p)
----------------------------------------------------------------------------
\* The nodes that may raise a fatal error, and those that may overlook one.
LEMMA Analysis ==
  ASSUME CarefulPrograms, NEW p \in Programs, p \notin Careless
  PROVE  CarefulWith(p, Raising(p), Overlooking(p))
<1>1. \E S \in SUBSET Node : \E T \in SUBSET Node : CarefulWith(p, S, T)
  BY DEF CarefulPrograms, Careful
<1>2. \E T \in SUBSET Node : CarefulWith(p, Raising(p), T) BY <1>1 DEF Raising
<1> QED BY <1>2 DEF Overlooking

LEMMA QuietParts ==
  ASSUME CarefulPrograms, NEW p \in Programs, p \notin Careless,
         NEW n \in Node, n \notin Raising(p)
  PROVE  /\ ~RaisesIn(n.expr, p, Raising(p)) /\ ~RaisesIn(n.iteration, p, Raising(p))
         /\ ~Contains(n.init, Raising(p)) /\ ~Contains(n.body, Raising(p))
         /\ \A i \in 1 .. Len(n.ifs) : /\ ~RaisesIn(n.ifs[i].cond, p, Raising(p))
                                       /\ ~Contains(n.ifs[i].body, Raising(p))
<1>1. ~Raises(n, p, Raising(p)) BY Analysis DEF CarefulWith
<1> QED BY <1>1 DEF Raises

LEMMA WatchfulParts ==
  ASSUME CarefulPrograms, NEW p \in Programs, p \notin Careless,
         NEW n \in Node, n \notin Overlooking(p)
  PROVE  /\ n.kind \in Loops => n \notin Raising(p)
         /\ ~AppliesToNothing(n.expr, p, Raising(p))
         /\ ~Contains(n.init, Overlooking(p)) /\ ~Contains(n.body, Overlooking(p))
         /\ \A i \in 1 .. Len(n.ifs) : /\ ~RaisesIn(n.ifs[i].cond, p, Raising(p))
                                       /\ ~Contains(n.ifs[i].body, Overlooking(p))
<1>1. ~Overlooks(n, p, Raising(p), Overlooking(p)) BY Analysis DEF CarefulWith
<1> QED BY <1>1 DEF Overlooks

\* An expression in which nothing raises has no operand that may be missing.
LEMMA QuietOperands ==
  ASSUME NEW e \in Expression, NEW p, NEW S, ~RaisesIn(e, p, S)
  PROVE  ~AppliesToNothing(e, p, S)
<1>1. Len(e) \in Nat BY LenProperties DEF Expression
<1>2. \A i \in 1 .. Len(e) - 1 : i \in 1 .. Len(e) BY <1>1
<1> QED BY <1>2 DEF RaisesIn, AppliesToNothing

----------------------------------------------------------------------------
\* The chain, when activations come and go.
Alike(l, m) ==
  /\ l.kind = m.kind
  /\ l.kind = "block" => l.nodes = m.nodes
  /\ l.kind = "eval" => l.goal = m.goal /\ l.expr = m.expr
  /\ l.kind \in Loops \union {"if"} => l.node = m.node

LEMMA ChainedReplace ==
  ASSUME NEW c \in Seq(Level), c # <<>>, NEW p, Chained(c, p), NEW l, Alike(l, c[Len(c)])
  PROVE  Chained(LastIs(c, l), p)
<1> DEFINE e == LastIs(c, l)
           n == Len(c)
<1>1. n \in Nat /\ n \in 1 .. n BY NonEmpty, Positions
<1>2. Len(e) = n /\ \A i \in 1 .. n : e[i] = IF i = n THEN l ELSE c[i]
  <2>1. c \in Seq(Level \union {l}) BY SeqMonotonic
  <2> QED BY <1>1, <2>1, ExceptSeq DEF LastIs
<1> HIDE DEF e
<1>3. ASSUME NEW i \in 1 .. n - 1 PROVE Waits(e[i], e[i + 1])
  <2>1. i \in 1 .. n /\ i + 1 \in 1 .. n /\ i # n BY <1>1
  <2>2. Waits(c[i], c[i + 1]) BY DEF Chained
  <2>3. CASE i + 1 # n BY <2>1, <2>2, <2>3, <1>2
  <2>4. CASE i + 1 = n
    <3>1. e[i] = c[i] /\ e[i + 1] = l /\ Alike(l, c[i + 1]) BY <2>1, <2>4, <1>2
    <3> QED BY <2>2, <3>1 DEF Waits, Alike
  <2> QED BY <2>3, <2>4
<1>4. ASSUME p \notin Careless
      PROVE  /\ \A i \in 1 .. n : Watchful(e[i], p)
             /\ \A i, j \in 1 .. n : i < j /\ Calm(e[i], p) => Quiet(e[j], p)
  <2>1. Watchful(l, p) = Watchful(c[n], p) BY DEF Alike, Watchful
  <2>2. Quiet(l, p) = Quiet(c[n], p) BY DEF Alike, Quiet
  <2>3. \A i \in 1 .. n : Watchful(e[i], p) = Watchful(c[i], p) BY <2>1, <1>2
  <2>4. \A i \in 1 .. n : Quiet(e[i], p) = Quiet(c[i], p) BY <2>2, <1>2
  <2>5. \A i, j \in 1 .. n : i < j => e[i] = c[i] BY <1>1, <1>2
  <2> QED BY <2>3, <2>4, <2>5, <1>4 DEF Chained
<1> QED BY <1>2, <1>3, <1>4 DEF Chained, e

LEMMA ChainedAppend ==
  ASSUME NEW c \in Seq(Level), c # <<>>, NEW p, Chained(c, p), NEW l \in Level, Waits(c[Len(c)], l),
         p \notin Careless => /\ Watchful(l, p)
                              /\ \A i \in 1 .. Len(c) : Calm(c[i], p) => Quiet(l, p)
  PROVE  /\ Chained(Append(c, l), p) /\ Append(c, l) \in Seq(Level) /\ Append(c, l) # <<>>
         /\ Len(Append(c, l)) = Len(c) + 1 /\ Append(c, l)[Len(c) + 1] = l
         /\ \A i \in 1 .. Len(c) : Append(c, l)[i] = c[i]
<1> DEFINE e == Append(c, l)
           n == Len(c)
<1>1. n \in Nat /\ n \in 1 .. n BY NonEmpty, Positions
<1>2. /\ e \in Seq(Level) /\ e # <<>>
      /\ Len(e) = n + 1 /\ e[n + 1] = l /\ \A i \in 1 .. n : e[i] = c[i]
  BY <1>1, AppendProperties
<1> HIDE DEF e
<1>3. ASSUME NEW i \in 1 .. n + 1 - 1 PROVE Waits(e[i], e[i + 1])
  <2>1. CASE i = n BY <2>1, <1>1, <1>2
  <2>2. CASE i # n
    <3>1. i \in 1 .. n - 1 /\ i \in 1 .. n /\ i + 1 \in 1 .. n BY <2>2, <1>1
    <3> QED BY <3>1, <1>2 DEF Chained
  <2> QED BY <2>1, <2>2
<1>4. ASSUME p \notin Careless
      PROVE  /\ \A i \in 1 .. n + 1 : Watchful(e[i], p)
             /\ \A i, j \in 1 .. n + 1 : i < j /\ Calm(e[i], p) => Quiet(e[j], p)
  <2>1. \A i \in 1 .. n + 1 : i \in 1 .. n \/ i = n + 1 BY <1>1
  <2>2. \A i, j \in 1 .. n + 1 : i < j => i \in 1 .. n /\ (j \in 1 .. n \/ j = n + 1) BY <1>1
  <2>3. \A i \in 1 .. n + 1 : Watchful(e[i], p) BY <2>1, <1>2, <1>4 DEF Chained
  <2>4. ASSUME NEW i \in 1 .. n + 1, NEW j \in 1 .. n + 1, i < j, Calm(e[i], p) PROVE Quiet(e[j], p)
    <3>1. i \in 1 .. n /\ e[i] = c[i] BY <2>2, <2>4, <1>2
    <3>2. CASE j \in 1 .. n BY <3>1, <3>2, <2>4, <1>2, <1>4 DEF Chained
    <3>3. CASE j = n + 1 BY <3>1, <3>3, <2>4, <1>2, <1>4
    <3> QED BY <2>2, <2>4, <3>2, <3>3
  <2> QED BY <2>3, <2>4
<1> QED BY <1>2, <1>3, <1>4 DEF Chained, e

LEMMA ChainedPush ==
  ASSUME NEW c \in Seq(Level), c # <<>>, NEW p, Chained(c, p), NEW l \in Level, Waits(c[Len(c)], l),
         c[Len(c)].kind \notin CallOps,
         p \notin Careless => Watchful(l, p) /\ (Calm(c[Len(c)], p) => Quiet(l, p))
  PROVE  /\ Chained(Append(c, l), p) /\ Append(c, l) \in Seq(Level) /\ Append(c, l) # <<>>
         /\ Len(Append(c, l)) = Len(c) + 1 /\ Append(c, l)[Len(c) + 1] = l
         /\ \A i \in 1 .. Len(c) : Append(c, l)[i] = c[i]
<1> DEFINE n == Len(c)
<1>1. n \in Nat /\ n \in 1 .. n BY NonEmpty, Positions
<1>2. Quiet(c[n], p) => Calm(c[n], p)
  BY DEF Quiet, Calm, RaisesIn, Waits
<1>3. ASSUME p \notin Careless, NEW i \in 1 .. n, Calm(c[i], p) PROVE Quiet(l, p)
  <2>1. CASE i = n BY <2>1, <1>3
  <2>2. CASE i # n
    <3>1. i < n BY <2>2, <1>1
    <3>2. Quiet(c[n], p) BY <3>1, <1>1, <1>3 DEF Chained
    <3> QED BY <3>2, <1>2, <1>3
  <2> QED BY <2>1, <2>2
<1> QED BY <1>3, ChainedAppend

LEMMA ChainedPop ==
  ASSUME NEW c \in Seq(Level), c # <<>>, NEW p, Chained(c, p)
  PROVE  Chained(ButLast(c), p)
<1> DEFINE b == ButLast(c)
           n == Len(c)
<1>1. n \in Nat /\ Len(b) = n - 1 /\ \A i \in 1 .. n - 1 : b[i] = c[i] BY ButLastOf
<1> HIDE DEF b
<1>2. \A i \in 1 .. n - 1 - 1 : i \in 1 .. n - 1 /\ i + 1 \in 1 .. n - 1 BY <1>1
<1>3. \A i \in 1 .. n - 1 : i \in 1 .. n BY <1>1
<1>4. \A i \in 1 .. n - 1 - 1 : Waits(b[i], b[i + 1]) BY <1>1, <1>2 DEF Chained
<1>5. p \notin Careless =>
        /\ \A i \in 1 .. n - 1 : Watchful(b[i], p)
        /\ \A i, j \in 1 .. n - 1 : i < j /\ Calm(b[i], p) => Quiet(b[j], p)
  BY <1>1, <1>3 DEF Chained
<1> QED BY <1>1, <1>4, <1>5 DEF Chained, b
----------------------------------------------------------------------------
\* A node is started: what is known of it and of the block it stands in.
LEMMA NodeGoesOn ==
  ASSUME IInv, JumpInv, Chained(ctrl, prog), NEW kinds, AtNode(kinds)
  PROVE  LET l == Stepped[Len(Stepped)]
         IN /\ status = "running" /\ TheNode \in Node /\ TheNode.kind \in kinds
            /\ Stepped \in Seq(Level) /\ Stepped # <<>> /\ Len(Stepped) = Len(ctrl)
            /\ Chained(Stepped, prog)
            /\ Top \in BlockLevel /\ Top.pc + 1 \in 1 .. Len(Top.nodes) /\ TheNode = Top.nodes[Top.pc + 1]
            /\ Stepped = LastIs(ctrl, l)
            /\ l \in BlockLevel /\ l.kind = "block" /\ l.nodes = Top.nodes /\ l.pc = Top.pc + 1
            /\ l.at = Here
            /\ prog \notin Careless => TheNode \notin Overlooking(prog)
            /\ prog \notin Careless /\ Calm(l, prog) => TheNode \notin Raising(prog)
<1> DEFINE l == [Top EXCEPT !.pc = @ + 1]
<1>1. /\ status = "running" /\ Top.kind = "block" /\ NodeReady
      /\ TheNode \in Node /\ TheNode.kind \in kinds
  BY NodeStep DEF AtNode, Running
<1>2. /\ ctrl \in Seq(Level) /\ ctrl # <<>> /\ Top \in BlockLevel /\ Top.at = Here
      /\ Len(ctrl) \in Nat /\ Len(ctrl) \in 1 .. Len(ctrl)
  BY <1>1, Straight, Standpoint, LevelKinds
<1>3. Top.pc + 1 \in 1 .. Len(Top.nodes)
  <2>1. Top.pc \in Nat /\ Len(Top.nodes) \in Nat /\ Top.pc < Len(Top.nodes)
    BY <1>1, <1>2, LenProperties DEF BlockLevel, NodeReady
  <2> QED BY <2>1
<1>4. /\ l \in BlockLevel /\ l.kind = "block" /\ l.nodes = Top.nodes /\ l.pc = Top.pc + 1
      /\ l.at = Here
  BY <1>2, <1>1 DEF BlockLevel
<1>5. Stepped = LastIs(ctrl, l) BY DEF Stepped, Replaced, LastIs
<1> HIDE DEF l
<1>6. Alike(l, ctrl[Len(ctrl)]) BY <1>1, <1>4 DEF Alike, Top, Loops
<1>7. Chained(Stepped, prog) BY <1>2, <1>5, <1>6, ChainedReplace
<1>8. l \in Level BY <1>4 DEF Level
<1>9. Stepped \in Seq(Level) /\ Len(Stepped) = Len(ctrl) /\ Stepped[Len(Stepped)] = l
  BY <1>2, <1>5, <1>8, ExceptSeq DEF LastIs
<1>10. Stepped # <<>> BY <1>2, <1>9, NonEmpty, Positions
<1>11. prog \notin Careless => Watchful(Top, prog) BY <1>2 DEF Chained, Top
<1>12. prog \notin Careless => TheNode \notin Overlooking(prog)
  BY <1>1, <1>3, <1>11 DEF Watchful, Contains, TheNode
<1>13. prog \notin Careless /\ Calm(l, prog) => TheNode \notin Raising(prog)
  BY <1>3, <1>4 DEF Calm, Quiet, Contains, TheNode
<1> QED BY <1>1, <1>2, <1>3, <1>4, <1>5, <1>7, <1>9, <1>10, <1>12, <1>13 DEF TheNode

\* An operation is done with, and what is known of the expression it is in.
LEMMA OperationGoesOn ==
  ASSUME IInv, JumpInv, Chained(ctrl, prog), NEW ops, AtOperation(ops)
  PROVE  LET l == Advanced[Len(Advanced)]
         IN /\ status = "running" /\ Operand \in Operation /\ Operand.op \in ops
            /\ Advanced \in Seq(Level) /\ Advanced # <<>> /\ Len(Advanced) = Len(ctrl)
            /\ Chained(Advanced, prog)
            /\ Top \in EvalLevel /\ Top.pc + 1 \in 1 .. Len(Top.expr) /\ Operand = Top.expr[Top.pc + 1]
            /\ Advanced = LastIs(ctrl, l)
            /\ l \in EvalLevel /\ l.kind = "eval" /\ l.expr = Top.expr /\ l.pc = Top.pc + 1
            /\ l.goal = Top.goal /\ l.node = Top.node /\ l.at = Here
<1> DEFINE l == [Top EXCEPT !.pc = @ + 1]
<1>1. /\ status = "running" /\ Top.kind = "eval" /\ Pending
      /\ Operand \in Operation /\ Operand.op \in ops
  BY OperationStep DEF AtOperation, Running
<1>2. /\ ctrl \in Seq(Level) /\ ctrl # <<>> /\ Top \in EvalLevel /\ Top.at = Here
      /\ Len(ctrl) \in Nat /\ Len(ctrl) \in 1 .. Len(ctrl)
  BY <1>1, Straight, Standpoint, LevelKinds
<1>3. Top.pc + 1 \in 1 .. Len(Top.expr)
  <2>1. Top.pc \in Nat /\ Len(Top.expr) \in Nat /\ Top.pc < Len(Top.expr)
    BY <1>1, <1>2, LenProperties DEF EvalLevel, Expression, Pending
  <2> QED BY <2>1
<1>4. /\ l \in EvalLevel /\ l.kind = "eval" /\ l.expr = Top.expr /\ l.pc = Top.pc + 1
      /\ l.goal = Top.goal /\ l.node = Top.node /\ l.at = Here
  BY <1>2, <1>1 DEF EvalLevel
<1>5. Advanced = LastIs(ctrl, l) BY DEF Advanced, Replaced, LastIs
<1> HIDE DEF l
<1>6. Alike(l, ctrl[Len(ctrl)]) BY <1>1, <1>4 DEF Alike, Top, Loops
<1>7. Chained(Advanced, prog) BY <1>2, <1>5, <1>6, ChainedReplace
<1>8. l \in Level BY <1>4 DEF Level
<1>9. Advanced \in Seq(Level) /\ Len(Advanced) = Len(ctrl) /\ Advanced[Len(Advanced)] = l
  BY <1>2, <1>5, <1>8, ExceptSeq DEF LastIs
<1>10. Advanced # <<>> BY <1>2, <1>9, NonEmpty, Positions
<1> QED BY <1>1, <1>2, <1>3, <1>4, <1>5, <1>7, <1>9, <1>10 DEF Operand, Visited

\* A branch or a loop goes on with another stage, an if with another condition.
LEMMA BranchGoesOn ==
  ASSUME IInv, JumpInv, Chained(ctrl, prog), Running(Loops \union {"if"}),
         NEW l \in IfLevel \union LoopLevel, l.kind = Top.kind, l.node = Top.node, l.at = Here,
         NEW c, c = LastIs(ctrl, l)
  PROVE  /\ status = "running" /\ c \in Seq(Level) /\ c # <<>> /\ Len(c) = Len(ctrl)
         /\ c[Len(c)] = l /\ Chained(c, prog)
         /\ Top \in IfLevel \union LoopLevel /\ Top.node \in Node /\ Top.node.kind = Top.kind
         /\ prog \notin Careless => Top.node \notin Overlooking(prog)
<1>1. status = "running" /\ Top.kind \in Loops \union {"if"} BY DEF Running
<1>2. /\ ctrl \in Seq(Level) /\ ctrl # <<>> /\ Top \in IfLevel \union LoopLevel
      /\ Len(ctrl) \in Nat /\ Len(ctrl) \in 1 .. Len(ctrl)
  BY <1>1, Straight, LevelKinds
<1>3. Alike(l, ctrl[Len(ctrl)]) BY <1>1 DEF Alike, Top, Loops
<1>4. Chained(c, prog) BY <1>2, <1>3, ChainedReplace
<1>5. l \in Level BY DEF Level
<1>6. c \in Seq(Level) /\ Len(c) = Len(ctrl) /\ c[Len(c)] = l
  BY <1>2, <1>5, ExceptSeq DEF LastIs
<1>7. c # <<>> BY <1>2, <1>6, NonEmpty, Positions
<1>8. Top.node \in Node BY <1>2 DEF IfLevel, LoopLevel
<1>9. Top.node.kind = Top.kind BY <1>1, <1>2 DEF JumpInv, Nested, Proper, Top
<1>10. prog \notin Careless => Watchful(Top, prog) BY <1>2 DEF Chained, Top
<1>11. prog \notin Careless => Top.node \notin Overlooking(prog)
  BY <1>1, <1>10 DEF Watchful
<1> QED BY <1>1, <1>2, <1>4, <1>6, <1>7, <1>8, <1>9, <1>11

LEMMA StageGoesOn ==
  ASSUME IInv, JumpInv, Chained(ctrl, prog), Running(Loops \union {"if"}), NEW stage \in Stages
  PROVE  LET c == Stage(stage)
             l == [Top EXCEPT !.stage = stage]
         IN /\ status = "running" /\ c \in Seq(Level) /\ c # <<>> /\ Len(c) = Len(ctrl)
            /\ c = LastIs(ctrl, l) /\ c[Len(c)] = l /\ Chained(c, prog)
            /\ l \in IfLevel \union LoopLevel
            /\ l.kind = Top.kind /\ l.node = Top.node /\ l.stage = stage /\ l.at = Here
            /\ Top \in IfLevel \union LoopLevel /\ Top.node \in Node /\ Top.node.kind = Top.kind
            /\ prog \notin Careless => Top.node \notin Overlooking(prog)
<1> DEFINE l == [Top EXCEPT !.stage = stage]
<1>1. Top \in IfLevel \union LoopLevel /\ Top.at = Here
  BY StageStep, Standpoint DEF Running
<1>2. /\ l \in IfLevel \union LoopLevel
      /\ l.kind = Top.kind /\ l.node = Top.node /\ l.stage = stage /\ l.at = Here
  BY <1>1 DEF IfLevel, LoopLevel
<1>3. Stage(stage) = LastIs(ctrl, l) BY DEF Stage, Replaced, LastIs
<1> HIDE DEF l
<1>4. LET c == Stage(stage)
      IN /\ status = "running" /\ c \in Seq(Level) /\ c # <<>> /\ Len(c) = Len(ctrl)
         /\ c[Len(c)] = l /\ Chained(c, prog)
         /\ Top.node \in Node /\ Top.node.kind = Top.kind
         /\ prog \notin Careless => Top.node \notin Overlooking(prog)
  BY <1>2, <1>3, BranchGoesOn
<1> QED BY <1>1, <1>2, <1>3, <1>4 DEF l

\* Expressions and bodies that are started.
LEMMA ChainedEval ==
  ASSUME IInv, status = "running", NEW c \in Seq(Level), c # <<>>, Chained(c, prog),
         c[Len(c)].kind \notin CallOps,
         NEW n \in Node, NEW e \in Expression, NEW goal \in Goals,
         Waits(c[Len(c)], Eval(n, e, goal, Here)),
         prog \notin Careless =>
           /\ ~AppliesToNothing(e, prog, Raising(prog))
           /\ goal = "cond" => ~RaisesIn(e, prog, Raising(prog))
           /\ Calm(c[Len(c)], prog) => ~RaisesIn(e, prog, Raising(prog))
  PROVE  Chained(Append(c, Eval(n, e, goal, Here)), prog)
<1> DEFINE l == Eval(n, e, goal, Here)
<1>1. l \in EvalLevel /\ l.kind = "eval" /\ l.expr = e /\ l.goal = goal
  BY Standpoint DEF Eval, EvalLevel
<1> HIDE DEF l
<1>2. l \in Level BY <1>1 DEF Level
<1>3. prog \notin Careless => Watchful(l, prog) /\ (Calm(c[Len(c)], prog) => Quiet(l, prog))
  BY <1>1 DEF Watchful, Quiet, Loops
<1>4. Waits(c[Len(c)], l) BY DEF l
<1>5. Chained(Append(c, l), prog) BY <1>2, <1>3, <1>4, ChainedPush
<1> QED BY <1>5 DEF l

LEMMA ChainedBlock ==
  ASSUME IInv, status = "running", NEW c \in Seq(Level), c # <<>>, Chained(c, prog),
         c[Len(c)].kind \notin CallOps,
         NEW body \in Seq(Node), Waits(c[Len(c)], Block(body, Inner)),
         prog \notin Careless =>
           /\ ~Contains(body, Overlooking(prog))
           /\ Calm(c[Len(c)], prog) => ~Contains(body, Raising(prog))
  PROVE  Chained(Append(c, Block(body, Inner)), prog)
<1> DEFINE l == Block(body, Inner)
<1>1. l \in Level /\ l.kind = "block" BY BlockTyped
<1>2. l.nodes = body BY DEF Block
<1> HIDE DEF l
<1>3. prog \notin Careless => Watchful(l, prog) /\ (Calm(c[Len(c)], prog) => Quiet(l, prog))
  BY <1>1, <1>2 DEF Watchful, Quiet, Loops
<1>4. Waits(c[Len(c)], l) BY DEF l
<1>5. Chained(Append(c, l), prog) BY <1>1, <1>3, <1>4, ChainedPush
<1> QED BY <1>5 DEF l

\* What each kind of step does to the chain.
LEMMA BlockChained ==
  ASSUME CarefulPrograms, IInv, JumpInv, Chained(ctrl, prog), BlockStep
  PROVE  Chained(ctrl', prog')
<1> DEFINE l == Stepped[Len(Stepped)]
<1>a. prog' = prog /\ prog \in Programs
  BY DEF BlockStep, ExecuteExpression, ExecuteDefaultDeclaration, ExecuteImplicitReturn, ExecuteBreak,
         ExecuteBlock, ExecuteOldScript, ExecuteIf, ExecuteWhile, ExecuteFor, LeaveBlock, IInv, Flags
<1>1. CASE ExecuteExpression
  <2>1. AtNode({"infix", "return", "decl"}) BY <1>1 DEF ExecuteExpression
  <2>2. /\ status = "running" /\ TheNode \in Node /\ TheNode.kind \in {"infix", "return", "decl"}
        /\ Stepped \in Seq(Level) /\ Stepped # <<>> /\ Chained(Stepped, prog)
        /\ Top.pc + 1 \in 1 .. Len(Top.nodes) /\ TheNode = Top.nodes[Top.pc + 1]
        /\ l.kind = "block" /\ l.nodes = Top.nodes /\ l.pc = Top.pc + 1
        /\ prog \notin Careless => TheNode \notin Overlooking(prog)
        /\ prog \notin Careless /\ Calm(l, prog) => TheNode \notin Raising(prog)
    BY <2>1, NodeGoesOn
  <2>3. TheNode.expr \in Expression /\ TheNode.kind \in Goals /\ TheNode.kind # "cond"
    BY <2>2, NodeAssumption DEF Goals
  <2>4. prog \notin Careless =>
           /\ ~AppliesToNothing(TheNode.expr, prog, Raising(prog))
           /\ Calm(l, prog) => ~RaisesIn(TheNode.expr, prog, Raising(prog))
    BY <1>a, <2>2, QuietParts, WatchfulParts
  <2>5. Waits(l, Eval(TheNode, TheNode.expr, TheNode.kind, Here))
    BY <2>2 DEF Waits, AtReturn, Eval, CallOps, Loops, Returns
  <2>6. l.kind \notin CallOps BY <2>2 DEF CallOps
  <2> HIDE DEF l
  <2>7. Chained(Append(Stepped, Eval(TheNode, TheNode.expr, TheNode.kind, Here)), prog)
    BY <2>2, <2>3, <2>4, <2>5, <2>6, ChainedEval DEF l
  <2> QED BY <1>1, <1>a, <2>7 DEF ExecuteExpression
<1>2. CASE ExecuteDefaultDeclaration BY <1>2, <1>a, NodeGoesOn DEF ExecuteDefaultDeclaration
<1>3. CASE ExecuteImplicitReturn BY <1>3, <1>a, NodeGoesOn DEF ExecuteImplicitReturn
<1>4. CASE ExecuteBreak BY <1>4, <1>a, NodeGoesOn DEF ExecuteBreak
<1>6. CASE ExecuteOldScript BY <1>6, <1>a, NodeGoesOn DEF ExecuteOldScript
<1>5. CASE ExecuteBlock
  <2>1. AtNode({"block"}) BY <1>5 DEF ExecuteBlock
  <2>2. /\ status = "running" /\ TheNode \in Node /\ TheNode.kind = "block"
        /\ Stepped \in Seq(Level) /\ Stepped # <<>> /\ Chained(Stepped, prog)
        /\ Top.pc + 1 \in 1 .. Len(Top.nodes) /\ TheNode = Top.nodes[Top.pc + 1]
        /\ l.kind = "block" /\ l.nodes = Top.nodes /\ l.pc = Top.pc + 1
        /\ prog \notin Careless => TheNode \notin Overlooking(prog)
        /\ prog \notin Careless /\ Calm(l, prog) => TheNode \notin Raising(prog)
    BY <2>1, NodeGoesOn
  <2>3. TheNode.body \in Seq(Node) BY <2>2, NodeAssumption
  <2>4. prog \notin Careless =>
           /\ ~Contains(TheNode.body, Overlooking(prog))
           /\ Calm(l, prog) => ~Contains(TheNode.body, Raising(prog))
    BY <1>a, <2>2, QuietParts, WatchfulParts
  <2>5. Waits(l, Block(TheNode.body, Inner))
    BY <2>2 DEF Waits, AtReturn, CallOps, Loops, Returns
  <2>6. l.kind \notin CallOps BY <2>2 DEF CallOps
  <2> HIDE DEF l
  <2>7. Chained(Append(Stepped, Block(TheNode.body, Inner)), prog)
    BY <2>2, <2>3, <2>4, <2>5, <2>6, ChainedBlock DEF l
  <2> QED BY <1>5, <1>a, <2>7 DEF ExecuteBlock
<1>7. CASE ExecuteIf
  <2> DEFINE branch == [kind |-> "if", node |-> TheNode, pc |-> 1, stage |-> "cond", at |-> Here]
             c == Append(Stepped, branch)
             part == TheNode.ifs[1]
  <2>1. AtNode({"if"}) /\ ctrl' = Append(c, Eval(TheNode, part.cond, "cond", Here))
    BY <1>7 DEF ExecuteIf
  <2>2. /\ status = "running" /\ TheNode \in Node /\ TheNode.kind = "if"
        /\ Stepped \in Seq(Level) /\ Stepped # <<>> /\ Chained(Stepped, prog)
        /\ Top.pc + 1 \in 1 .. Len(Top.nodes) /\ TheNode = Top.nodes[Top.pc + 1]
        /\ l.kind = "block" /\ l.nodes = Top.nodes /\ l.pc = Top.pc + 1
        /\ prog \notin Careless => TheNode \notin Overlooking(prog)
        /\ prog \notin Careless /\ Calm(l, prog) => TheNode \notin Raising(prog)
    BY <2>1, NodeGoesOn
  <2>3. part.cond \in Expression /\ 1 \in 1 .. Len(TheNode.ifs)
    <3>1. TheNode.ifs \in Seq(ConditionalNodes) /\ TheNode.ifs # <<>> BY <2>2, NodeAssumption
    <3>2. 1 \in 1 .. Len(TheNode.ifs) BY <3>1, NonEmpty, Positions
    <3>3. part \in ConditionalNodes BY <3>1, <3>2, ElementOfSeq
    <3> QED BY <3>2, <3>3 DEF ConditionalNodes
  <2>4. branch \in IfLevel /\ branch.kind = "if" /\ branch.node = TheNode /\ branch.stage = "cond"
    BY <2>2, <2>3, Standpoint DEF IfLevel, Stages
  <2> HIDE DEF branch
  <2>5. Waits(l, branch) BY <2>2, <2>4 DEF Waits, AtReturn, CallOps, Loops, Returns
  <2>6. branch \in Level /\ l.kind \notin CallOps /\ branch.kind \notin CallOps
    BY <2>2, <2>4 DEF CallOps, Level
  <2>7. prog \notin Careless => /\ Watchful(branch, prog)
                                /\ Calm(l, prog) => Quiet(branch, prog)
    BY <2>2, <2>4 DEF Watchful, Quiet
  <2>8. /\ Chained(c, prog) /\ c \in Seq(Level) /\ c # <<>> /\ c[Len(c)] = branch
    <3> HIDE DEF l
    <3> QED BY <2>2, <2>5, <2>6, <2>7, ChainedPush DEF l
  <2>9. prog \notin Careless => ~RaisesIn(part.cond, prog, Raising(prog))
    BY <1>a, <2>2, <2>3, WatchfulParts
  <2>10. prog \notin Careless => ~AppliesToNothing(part.cond, prog, Raising(prog))
    BY <2>3, <2>9, QuietOperands
  <2>11. Waits(branch, Eval(TheNode, part.cond, "cond", Here))
    BY <2>4 DEF Waits, Eval, CallOps, Loops
  <2> HIDE DEF c, part
  <2>12. "cond" \in Goals BY DEF Goals
  <2>13. Chained(ctrl', prog)
    BY <2>1, <2>2, <2>3, <2>6, <2>8, <2>9, <2>10, <2>11, <2>12, ChainedEval
  <2> QED BY <1>a, <2>13
<1>8. CASE ExecuteWhile
  <2> DEFINE loop == [kind |-> "while", node |-> TheNode, stage |-> "cond", at |-> Here]
             c == Append(Stepped, loop)
  <2>1. AtNode({"while"}) /\ ctrl' = Append(c, Eval(TheNode, TheNode.expr, "cond", Here))
    BY <1>8 DEF ExecuteWhile
  <2>2. /\ status = "running" /\ TheNode \in Node /\ TheNode.kind = "while"
        /\ Stepped \in Seq(Level) /\ Stepped # <<>> /\ Chained(Stepped, prog)
        /\ Top.pc + 1 \in 1 .. Len(Top.nodes) /\ TheNode = Top.nodes[Top.pc + 1]
        /\ l.kind = "block" /\ l.nodes = Top.nodes /\ l.pc = Top.pc + 1
        /\ prog \notin Careless => TheNode \notin Overlooking(prog)
        /\ prog \notin Careless /\ Calm(l, prog) => TheNode \notin Raising(prog)
    BY <2>1, NodeGoesOn
  <2>3. TheNode.expr \in Expression BY <2>2, NodeAssumption
  <2>4. loop \in LoopLevel /\ loop.kind = "while" /\ loop.node = TheNode /\ loop.stage = "cond"
    BY <2>2, Standpoint DEF LoopLevel, Stages
  <2> HIDE DEF loop
  <2>5. Waits(l, loop) BY <2>2, <2>4 DEF Waits, AtReturn, CallOps, Loops, Returns
  <2>6. loop \in Level /\ l.kind \notin CallOps /\ loop.kind \notin CallOps
    BY <2>2, <2>4 DEF CallOps, Level
  <2>7. prog \notin Careless => /\ Watchful(loop, prog)
                                /\ Calm(l, prog) => Quiet(loop, prog)
    BY <2>2, <2>4 DEF Watchful, Quiet
  <2>8. /\ Chained(c, prog) /\ c \in Seq(Level) /\ c # <<>> /\ c[Len(c)] = loop
    <3> HIDE DEF l
    <3> QED BY <2>2, <2>5, <2>6, <2>7, ChainedPush DEF l
  <2>9. prog \notin Careless => TheNode \notin Raising(prog)
    BY <1>a, <2>2, WatchfulParts DEF Loops
  <2>10. prog \notin Careless => /\ ~RaisesIn(TheNode.expr, prog, Raising(prog))
                                 /\ ~AppliesToNothing(TheNode.expr, prog, Raising(prog))
    BY <1>a, <2>2, <2>9, QuietParts, WatchfulParts
  <2>11. Waits(loop, Eval(TheNode, TheNode.expr, "cond", Here))
    BY <2>4 DEF Waits, Eval, CallOps, Loops
  <2> HIDE DEF c
  <2>12. "cond" \in Goals BY DEF Goals
  <2>13. Chained(ctrl', prog)
    BY <2>1, <2>2, <2>3, <2>6, <2>8, <2>10, <2>11, <2>12, ChainedEval
  <2> QED BY <1>a, <2>13
<1>9. CASE ExecuteFor
  <2> DEFINE loop == [kind |-> "for", node |-> TheNode, stage |-> "init", at |-> Inner]
  <2>1. AtNode({"for"}) /\ ctrl' = Append(Stepped, loop) BY <1>9 DEF ExecuteFor
  <2>2. /\ status = "running" /\ TheNode \in Node
        /\ Stepped \in Seq(Level) /\ Stepped # <<>> /\ Chained(Stepped, prog)
        /\ Top.pc + 1 \in 1 .. Len(Top.nodes) /\ TheNode = Top.nodes[Top.pc + 1]
        /\ l.kind = "block" /\ l.nodes = Top.nodes /\ l.pc = Top.pc + 1 /\ TheNode.kind = "for"
        /\ prog \notin Careless => TheNode \notin Overlooking(prog)
        /\ prog \notin Careless /\ Calm(l, prog) => TheNode \notin Raising(prog)
    BY <2>1, NodeGoesOn
  <2>3. loop \in LoopLevel /\ loop.kind = "for" /\ loop.node = TheNode
    BY <2>2, InnerTyped DEF LoopLevel, Stages
  <2> HIDE DEF loop
  <2>4. Waits(l, loop) BY <2>2, <2>3 DEF Waits, AtReturn, CallOps, Loops, Returns
  <2>5. loop \in Level /\ l.kind \notin CallOps BY <2>2, <2>3 DEF CallOps, Level
  <2>6. prog \notin Careless => /\ Watchful(loop, prog)
                                /\ Calm(l, prog) => Quiet(loop, prog)
    BY <2>2, <2>3 DEF Watchful, Quiet
  <2> HIDE DEF l
  <2>7. Chained(ctrl', prog) BY <2>1, <2>2, <2>4, <2>5, <2>6, ChainedPush DEF l
  <2> QED BY <1>a, <2>7
<1>10. CASE LeaveBlock
  <2>1. status = "running" BY <1>10 DEF LeaveBlock, Running
  <2>2. ctrl \in Seq(Level) /\ ctrl # <<>> BY <2>1, Straight
  <2>3. ctrl' = ButLast(ctrl) BY <1>10 DEF LeaveBlock, Below, ButLast
  <2> QED BY <1>a, <2>2, <2>3, ChainedPop
<1> QED BY <1>1, <1>2, <1>3, <1>4, <1>5, <1>6, <1>7, <1>8, <1>9, <1>10 DEF BlockStep

\* A call: no fatal error can be raised in the body if the call raises none.
LEMMA CallChained ==
  ASSUME CarefulPrograms, IInv, JumpInv, Chained(ctrl, prog), AtOperation(CallOps)
  PROVE  Chained(Append(Append(Advanced, Called(Operand.op, Len(frames) + 1)),
                        Body(Operand.fun, Len(frames) + 1)), prog)
<1> DEFINE a == Called(Operand.op, Len(frames) + 1)
           b == Body(Operand.fun, Len(frames) + 1)
           l == Advanced[Len(Advanced)]
           c == Append(Advanced, a)
           n == Len(Advanced)
<1>1. /\ status = "running" /\ Operand \in Operation /\ Operand.op \in CallOps
      /\ Advanced \in Seq(Level) /\ Advanced # <<>> /\ Chained(Advanced, prog)
      /\ l.kind = "eval" /\ l.expr = Top.expr /\ l.pc = Top.pc + 1
      /\ Top.pc + 1 \in 1 .. Len(Top.expr) /\ Operand = Top.expr[Top.pc + 1]
  BY OperationGoesOn
<1>2. Len(frames) + 1 \in Nat BY <1>1, Standpoint
<1>3. a \in Level /\ a.kind \in CallOps BY <1>1, <1>2 DEF Called, Level, CallLevel, Where
<1>4. Operand.fun \in Fun /\ prog \in Programs BY <1>1 DEF Operation, CallOps, IInv, Flags
<1>5. prog[Operand.fun] \in Seq(Node) BY <1>4, ProgramAssumption
<1>6. b \in Level /\ b.kind = "block" /\ b.nodes = prog[Operand.fun]
  BY <1>2, <1>5 DEF Body, Block, Level, BlockLevel, Where
<1> HIDE DEF a, b
<1>7. Waits(l, a) BY <1>1 DEF Waits, Loops, CallOps
<1>8. Watchful(a, prog) /\ Quiet(a, prog) BY <1>3 DEF Watchful, Quiet, CallOps, Loops
<1>9. l.kind \notin CallOps BY <1>1 DEF CallOps
<1>10. /\ Chained(c, prog) /\ c \in Seq(Level) /\ c # <<>>
       /\ Len(c) = n + 1 /\ c[n + 1] = a /\ \A i \in 1 .. n : c[i] = Advanced[i]
  <2> HIDE DEF l
  <2> QED BY <1>1, <1>3, <1>7, <1>8, <1>9, ChainedPush DEF l
<1> HIDE DEF c
<1>11. EndsInReturn(prog[Operand.fun]) BY <1>4, ReturnAssumption DEF EndsInReturn
<1>12. Waits(a, b) BY <1>3, <1>6, <1>11 DEF Waits, CallOps, Loops
<1>13. ASSUME prog \notin Careless
       PROVE  Watchful(b, prog) /\ \A i \in 1 .. Len(c) : Calm(c[i], prog) => Quiet(b, prog)
  <2>1. ~Contains(prog[Operand.fun], Overlooking(prog))
    BY <1>4, <1>13, Analysis DEF CarefulWith
  <2>2. Watchful(b, prog) BY <1>6, <2>1 DEF Watchful, Loops
  <2>3. Calm(l, prog) => Quiet(b, prog)
    BY <1>1, <1>6 DEF Calm, Quiet, RaisesAt, Loops
  <2>4. Quiet(l, prog) => Calm(l, prog) BY <1>1, <1>9 DEF Calm, Quiet, RaisesIn
  <2>5. n \in Nat /\ n \in 1 .. n BY <1>1, NonEmpty, Positions
  <2>6. ASSUME NEW i \in 1 .. n + 1, Calm(c[i], prog) PROVE Quiet(b, prog)
    <3>1. CASE i = n + 1 BY <3>1, <2>6, <1>3, <1>10 DEF Calm
    <3>2. CASE i = n BY <3>2, <2>3, <2>5, <2>6, <1>10
    <3>3. CASE i # n + 1 /\ i # n
      <4>1. i \in 1 .. n /\ i < n BY <3>3, <2>5
      <4>2. Quiet(l, prog) BY <4>1, <2>5, <2>6, <1>1, <1>10, <1>13 DEF Chained
      <4> QED BY <4>2, <2>3, <2>4
    <3> QED BY <3>1, <3>2, <3>3
  <2> QED BY <2>2, <2>6, <1>10
<1>14. Waits(c[Len(c)], b) BY <1>10, <1>12
<1>15. Chained(Append(c, b), prog) BY <1>6, <1>10, <1>13, <1>14, ChainedAppend
<1> QED BY <1>15 DEF a, b, c

LEMMA EvalChained ==
  ASSUME CarefulPrograms, IInv, JumpInv, Chained(ctrl, prog), EvalStep
  PROVE  Chained(ctrl', prog')
<1>a. prog' = prog
  BY DEF EvalStep, EvaluateUse, EvaluateBuiltin, EvaluateFatal, EvaluateComponent, EvaluateCall, SkipCall,
         EvaluateUnary, EndInfix, EndReturn, EndDeclaration, EndCondition
<1>b. Running({"eval"}) => Below \in Seq(Level) /\ Below # <<>> /\ Chained(Below, prog)
  <2> SUFFICES ASSUME Running({"eval"})
               PROVE  Below \in Seq(Level) /\ Below # <<>> /\ Chained(Below, prog)
    OBVIOUS
  <2>1. ctrl \in Seq(Level) /\ ctrl # <<>> BY Straight DEF Running
  <2>2. Below = ButLast(ctrl) BY DEF Below, ButLast
  <2> QED BY <2>1, <2>2, ChainedPop, EvalNested
<1>1. CASE EvaluateUse BY <1>1, <1>a, OperationGoesOn DEF EvaluateUse
<1>2. CASE EvaluateBuiltin BY <1>2, <1>a, OperationGoesOn DEF EvaluateBuiltin
<1>3. CASE EvaluateFatal BY <1>3, <1>a, OperationGoesOn DEF EvaluateFatal
<1>4. CASE EvaluateComponent BY <1>4, <1>a, OperationGoesOn DEF EvaluateComponent
<1>5. CASE EvaluateCall
  <2>1. AtOperation(CallOps) BY <1>5 DEF EvaluateCall
  <2>2. \/ ctrl' = ctrl
        \/ ctrl' = Append(Append(Advanced, Called(Operand.op, Len(frames) + 1)),
                          Body(Operand.fun, Len(frames) + 1))
    BY <1>5 DEF EvaluateCall
  <2> QED BY <1>a, <2>1, <2>2, CallChained
<1>6. CASE SkipCall BY <1>6, <1>a, OperationGoesOn DEF SkipCall
<1>7. CASE EvaluateUnary BY <1>7, <1>a, OperationGoesOn DEF EvaluateUnary
<1>8. CASE EndInfix BY <1>8, <1>a, <1>b DEF EndInfix
<1>9. CASE EndReturn BY <1>9, <1>a, <1>b DEF EndReturn
<1>10. CASE EndDeclaration BY <1>10, <1>a, <1>b DEF EndDeclaration
<1>11. CASE EndCondition
  <2>1. Running({"eval"}) /\ Top.goal = "cond" BY <1>11 DEF EndCondition
  <2>2. Below[Len(Below)] \in IfLevel \union LoopLevel
    BY <2>1, EvalEnds, LevelKinds
  <2>3. PICK value \in Stages :
          ctrl' = [Below EXCEPT ![Len(Below)] = [@ EXCEPT !.stage = value]]
    BY <1>11 DEF EndCondition, Stages
  <2> DEFINE l == [Below[Len(Below)] EXCEPT !.stage = value]
  <2>4. Alike(l, Below[Len(Below)]) BY <2>2 DEF Alike, IfLevel, LoopLevel, Loops
  <2>5. ctrl' = LastIs(Below, l) BY <2>3 DEF LastIs
  <2> HIDE DEF l
  <2> QED BY <1>a, <1>b, <2>1, <2>4, <2>5, ChainedReplace
<1> QED BY <1>1, <1>2, <1>3, <1>4, <1>5, <1>6, <1>7, <1>8, <1>9, <1>10, <1>11 DEF EvalStep

LEMMA BranchChained ==
  ASSUME CarefulPrograms, IInv, JumpInv, Chained(ctrl, prog), BranchStep
  PROVE  Chained(ctrl', prog')
<1>a. prog' = prog /\ prog \in Programs
  BY DEF BranchStep, NullCondition, IfBody, ElseIf, LeaveIf, IInv, Flags
<1>1. CASE NullCondition BY <1>1, <1>a DEF NullCondition
<1>2. CASE IfBody
  <2> DEFINE body == IF Top.stage = "true" THEN Top.node.ifs[Top.pc].body ELSE Top.node.body
             c == Stage("body")
  <2>1. /\ status = "running" /\ Top.kind = "if" /\ Running(Loops \union {"if"})
        /\ ctrl' = Append(c, Block(body, Inner))
    BY <1>2 DEF IfBody, AtStage, Running
  <2>2. "body" \in Stages BY DEF Stages
  <2>3. /\ c \in Seq(Level) /\ c # <<>> /\ Chained(c, prog)
        /\ c[Len(c)].kind = "if" /\ c[Len(c)].stage = "body" /\ c[Len(c)].node = Top.node
        /\ Top \in IfLevel \union LoopLevel /\ Top.node \in Node
        /\ prog \notin Careless => Top.node \notin Overlooking(prog)
    BY <2>1, <2>2, StageGoesOn
  <2>4. Top.pc \in 1 .. Len(Top.node.ifs) BY <2>1, <2>3 DEF IfLevel, LoopLevel
  <2>5. body \in Seq(Node)
    <3>1. Top.node.ifs \in Seq(ConditionalNodes) /\ Top.node.body \in Seq(Node)
      BY <2>3, NodeAssumption
    <3>2. Top.node.ifs[Top.pc] \in ConditionalNodes BY <2>4, <3>1, ElementOfSeq
    <3> QED BY <3>1, <3>2 DEF ConditionalNodes
  <2>6. prog \notin Careless => ~Contains(body, Overlooking(prog))
    BY <1>a, <2>3, <2>4, WatchfulParts
  <2>7. prog \notin Careless /\ Calm(c[Len(c)], prog) => ~Contains(body, Raising(prog))
    <3>1. Calm(c[Len(c)], prog) => Top.node \notin Raising(prog) BY <2>3 DEF Calm, Quiet
    <3> QED BY <1>a, <3>1, <2>3, <2>4, QuietParts
  <2>8. Waits(c[Len(c)], Block(body, Inner)) /\ c[Len(c)].kind \notin CallOps
    BY <2>3 DEF Waits, CallOps, Loops
  <2> HIDE DEF c, body
  <2> QED BY <1>a, <2>1, <2>3, <2>5, <2>6, <2>7, <2>8, ChainedBlock
<1>3. CASE ElseIf
  <2> DEFINE l == [Top EXCEPT !.stage = "cond", !.pc = @ + 1]
             c == Replaced(l)
             part == Top.node.ifs[Top.pc + 1]
  <2>1. /\ status = "running" /\ Top.kind = "if" /\ Top.pc < Len(Top.node.ifs)
        /\ Running(Loops \union {"if"})
        /\ ctrl' = Append(c, Eval(Top.node, part.cond, "cond", Here))
    BY <1>3 DEF ElseIf, AtStage, Running
  <2>2. Top \in IfLevel /\ Top.node \in Node /\ Top.pc \in Nat /\ Top.at = Here
    BY <2>1, Straight, Standpoint, LevelKinds DEF IfLevel
  <2>3. Top.pc + 1 \in 1 .. Len(Top.node.ifs) /\ part.cond \in Expression
    <3>1. Top.node.ifs \in Seq(ConditionalNodes) BY <2>2, NodeAssumption
    <3>2. Top.pc + 1 \in 1 .. Len(Top.node.ifs) BY <2>1, <2>2, <3>1, LenProperties
    <3>3. part \in ConditionalNodes BY <3>1, <3>2, ElementOfSeq
    <3> QED BY <3>2, <3>3 DEF ConditionalNodes
  <2>4. l \in IfLevel /\ l.kind = "if" /\ l.at = Here /\ l.node = Top.node /\ l.stage = "cond"
    <3>1. l = [Top EXCEPT !.stage = "cond", !.pc = @ + 1] OBVIOUS
    <3>2. l.node = Top.node /\ l.stage = "cond" BY <2>2 DEF IfLevel
    <3> HIDE DEF l
    <3> QED BY <3>1, <3>2, <2>1, <2>2, <2>3, NextBranch
  <2>5. c = LastIs(ctrl, l) BY DEF Replaced, LastIs
  <2> HIDE DEF l, c
  <2>6. /\ c \in Seq(Level) /\ c # <<>> /\ c[Len(c)] = l /\ Chained(c, prog)
        /\ prog \notin Careless => Top.node \notin Overlooking(prog)
    BY <2>1, <2>4, <2>5, BranchGoesOn
  <2>7. prog \notin Careless => ~RaisesIn(part.cond, prog, Raising(prog))
    BY <1>a, <2>2, <2>3, <2>6, WatchfulParts
  <2>8. prog \notin Careless => ~AppliesToNothing(part.cond, prog, Raising(prog))
    BY <2>3, <2>7, QuietOperands
  <2> HIDE DEF part
  <2>9. Waits(l, Eval(Top.node, part.cond, "cond", Here)) /\ l.kind \notin CallOps
    BY <2>4 DEF Waits, Eval, CallOps, Loops
  <2>10. "cond" \in Goals BY DEF Goals
  <2> QED BY <1>a, <2>1, <2>2, <2>3, <2>6, <2>7, <2>8, <2>9, <2>10, ChainedEval
<1>4. CASE LeaveIf
  <2>1. status = "running" BY <1>4 DEF LeaveIf, AtStage, Running
  <2>2. ctrl \in Seq(Level) /\ ctrl # <<>> BY <2>1, Straight
  <2>3. ctrl' = ButLast(ctrl) BY <1>4 DEF LeaveIf, Below, ButLast
  <2> QED BY <1>a, <2>2, <2>3, ChainedPop
<1> QED BY <1>1, <1>2, <1>3, <1>4 DEF BranchStep

\* A loop evaluates nothing that raises a fatal error, if the program takes care.
LEMMA LoopQuiet ==
  ASSUME CarefulPrograms, prog \in Programs, prog \notin Careless,
         NEW n \in Node, n.kind \in Loops, n \notin Overlooking(prog)
  PROVE  /\ ~RaisesIn(n.expr, prog, Raising(prog)) /\ ~AppliesToNothing(n.expr, prog, Raising(prog))
         /\ ~RaisesIn(n.iteration, prog, Raising(prog))
         /\ ~AppliesToNothing(n.iteration, prog, Raising(prog))
         /\ ~Contains(n.init, Raising(prog)) /\ ~Contains(n.body, Raising(prog))
<1>1. n \notin Raising(prog) BY WatchfulParts
<1>2. n.expr \in Expression /\ n.iteration \in Expression BY NodeAssumption
<1> QED BY <1>1, <1>2, QuietParts, QuietOperands

LEMMA ConditionChained ==
  ASSUME CarefulPrograms, IInv, JumpInv, Chained(ctrl, prog), Running(Loops), CheckCondition
  PROVE  Chained(ctrl', prog)
<1>1. Running(Loops \union {"if"}) /\ Top.kind \in Loops BY DEF Running
<1>2. CASE Top.kind = "for" /\ ~Top.node.hasExpr
  <2>1. ctrl' = Stage("true") BY <1>2 DEF CheckCondition
  <2>2. "true" \in Stages BY DEF Stages
  <2> QED BY <1>1, <2>1, <2>2, StageGoesOn
<1>3. CASE ~(Top.kind = "for" /\ ~Top.node.hasExpr)
  <2> DEFINE c == Stage("cond")
  <2>1. ctrl' = Append(c, Eval(Top.node, Top.node.expr, "cond", Here))
    BY <1>3 DEF CheckCondition
  <2>2. "cond" \in Stages /\ "cond" \in Goals BY DEF Stages, Goals
  <2>3. /\ status = "running" /\ c \in Seq(Level) /\ c # <<>> /\ Chained(c, prog)
        /\ c[Len(c)].kind = Top.kind /\ c[Len(c)].stage = "cond"
        /\ Top.node \in Node /\ Top.node.kind = Top.kind
        /\ prog \notin Careless => Top.node \notin Overlooking(prog)
    BY <1>1, <2>2, StageGoesOn
  <2>4. Top.node.expr \in Expression BY <2>3, NodeAssumption
  <2>5. prog \in Programs BY DEF IInv, Flags
  <2>6. prog \notin Careless => /\ ~RaisesIn(Top.node.expr, prog, Raising(prog))
                                /\ ~AppliesToNothing(Top.node.expr, prog, Raising(prog))
    BY <1>1, <2>3, <2>5, LoopQuiet
  <2> HIDE DEF c
  <2>7. Waits(c[Len(c)], Eval(Top.node, Top.node.expr, "cond", Here)) /\ c[Len(c)].kind \notin CallOps
    BY <1>1, <2>3 DEF Waits, CallOps, Loops
  <2> QED BY <2>1, <2>2, <2>3, <2>4, <2>6, <2>7, ChainedEval
<1> QED BY <1>2, <1>3

LEMMA LoopChained ==
  ASSUME CarefulPrograms, IInv, JumpInv, Chained(ctrl, prog), LoopStep
  PROVE  Chained(ctrl', prog')
<1>a. prog' = prog /\ prog \in Programs
  BY DEF LoopStep, ForInit, ForCondition, LoopBody, LoopFalse, LeaveLoop, LoopAgain, IInv, Flags
<1>1. CASE ForInit
  <2> DEFINE c == Stage("iteration")
             n == Top.node.init[1]
  <2>1. /\ Running(Loops \union {"if"}) /\ Top.node.init # <<>> /\ Top.kind = "for"
        /\ ctrl' = c \/ ctrl' = Append(c, Eval(n, n.expr, n.kind, Here))
    BY <1>1 DEF ForInit, AtStage, Running, Loops
  <2>2. "iteration" \in Stages BY DEF Stages
  <2>3. /\ status = "running" /\ c \in Seq(Level) /\ c # <<>> /\ Chained(c, prog)
        /\ c[Len(c)].kind = "for" /\ c[Len(c)].stage = "iteration" /\ c[Len(c)].node = Top.node
        /\ Top.node \in Node /\ Top.node.kind = "for"
        /\ prog \notin Careless => Top.node \notin Overlooking(prog)
    BY <2>1, <2>2, StageGoesOn
  <2>4. n \in Node /\ n.kind \in {"infix", "decl"} /\ 1 \in 1 .. Len(Top.node.init)
    <3>1. Top.node.init \in Seq(Node) BY <2>3, NodeAssumption
    <3>2. 1 \in 1 .. Len(Top.node.init) BY <2>1, <3>1, NonEmpty, Positions
    <3> QED BY <2>3, <3>1, <3>2, ElementOfSeq, NodeAssumption
  <2>5. n.expr \in Expression /\ n.kind \in Goals /\ n.kind # "cond"
    BY <2>4, NodeAssumption DEF Goals
  <2>6. prog \notin Careless => n \notin Overlooking(prog) /\ n \notin Raising(prog)
    <3>1. prog \notin Careless => /\ ~Contains(Top.node.init, Overlooking(prog))
                                  /\ ~Contains(Top.node.init, Raising(prog))
      BY <1>a, <2>3, LoopQuiet, WatchfulParts DEF Loops
    <3> QED BY <2>4, <3>1 DEF Contains
  <2>7. prog \notin Careless => /\ ~RaisesIn(n.expr, prog, Raising(prog))
                                /\ ~AppliesToNothing(n.expr, prog, Raising(prog))
    BY <1>a, <2>4, <2>6, QuietParts, WatchfulParts
  <2> HIDE DEF c, n
  <2>8. Waits(c[Len(c)], Eval(n, n.expr, n.kind, Here)) /\ c[Len(c)].kind \notin CallOps
    BY <2>3 DEF Waits, CallOps, Loops
  <2>9. Chained(Append(c, Eval(n, n.expr, n.kind, Here)), prog)
    BY <2>3, <2>4, <2>5, <2>7, <2>8, ChainedEval
  <2> QED BY <1>a, <2>1, <2>3, <2>9
<1>2. CASE ForCondition
  <2>1. Running(Loops) /\ CheckCondition BY <1>2 DEF ForCondition, AtStage, Running, Loops
  <2> QED BY <1>a, <2>1, ConditionChained
<1>3. CASE LoopBody
  <2> DEFINE c == Stage("body")
             body == Top.node.body
  <2>1. /\ Running(Loops \union {"if"}) /\ Top.kind \in Loops
        /\ ctrl' = Append(c, Block(body, Inner))
    BY <1>3 DEF LoopBody, AtStage, Running
  <2>2. "body" \in Stages BY DEF Stages
  <2>3. /\ status = "running" /\ c \in Seq(Level) /\ c # <<>> /\ Chained(c, prog)
        /\ c[Len(c)].kind \in Loops /\ c[Len(c)].stage = "body"
        /\ Top.node \in Node /\ Top.node.kind \in Loops
        /\ prog \notin Careless => Top.node \notin Overlooking(prog)
    BY <2>1, <2>2, StageGoesOn
  <2>4. body \in Seq(Node) BY <2>3, NodeAssumption
  <2>5. prog \notin Careless => ~Contains(body, Overlooking(prog)) /\ ~Contains(body, Raising(prog))
    BY <1>a, <2>3, WatchfulParts, LoopQuiet
  <2> HIDE DEF c, body
  <2>6. Waits(c[Len(c)], Block(body, Inner)) /\ c[Len(c)].kind \notin CallOps
    BY <2>3 DEF Waits, CallOps, Loops
  <2> QED BY <1>a, <2>1, <2>3, <2>4, <2>5, <2>6, ChainedBlock
<1>4. CASE LoopFalse
  <2>1. status = "running" /\ ctrl' = ButLast(ctrl)
    BY <1>4 DEF LoopFalse, AtStage, Running, EndLoop, Below, ButLast
  <2> QED BY <1>a, <2>1, Straight, ChainedPop
<1>5. CASE LeaveLoop
  <2>1. status = "running" /\ ctrl' = ButLast(ctrl)
    BY <1>5 DEF LeaveLoop, AtStage, Running, EndLoop, Below, ButLast
  <2> QED BY <1>a, <2>1, Straight, ChainedPop
<1>6. CASE LoopAgain
  <2>1. /\ Running(Loops) /\ Running(Loops \union {"if"}) /\ Top.kind \in Loops
    BY <1>6 DEF LoopAgain, AtStage, Running
  <2>2. CASE Top.kind = "for" /\ Top.node.iteration # <<>>
    <3> DEFINE c == Stage("iteration")
    <3>1. ctrl' = Append(c, Eval(Top.node, Top.node.iteration, "infix", Here))
      BY <1>6, <2>2 DEF LoopAgain
    <3>2. "iteration" \in Stages /\ "infix" \in Goals BY DEF Stages, Goals
    <3>3. /\ status = "running" /\ c \in Seq(Level) /\ c # <<>> /\ Chained(c, prog)
          /\ c[Len(c)].kind \in Loops /\ c[Len(c)].stage = "iteration"
          /\ Top.node \in Node /\ Top.node.kind \in Loops
          /\ prog \notin Careless => Top.node \notin Overlooking(prog)
      BY <2>1, <3>2, StageGoesOn
    <3>4. Top.node.iteration \in Expression BY <3>3, NodeAssumption
    <3>5. prog \notin Careless => /\ ~RaisesIn(Top.node.iteration, prog, Raising(prog))
                                  /\ ~AppliesToNothing(Top.node.iteration, prog, Raising(prog))
      BY <1>a, <3>3, LoopQuiet
    <3> HIDE DEF c
    <3>6. /\ Waits(c[Len(c)], Eval(Top.node, Top.node.iteration, "infix", Here))
          /\ c[Len(c)].kind \notin CallOps
      BY <3>3 DEF Waits, CallOps, Loops
    <3> QED BY <1>a, <3>1, <3>2, <3>3, <3>4, <3>5, <3>6, ChainedEval
  <2>3. CASE ~(Top.kind = "for" /\ Top.node.iteration # <<>>)
    <3>1. CheckCondition BY <1>6, <2>3 DEF LoopAgain
    <3> QED BY <1>a, <2>1, <3>1, ConditionChained
  <2> QED BY <2>2, <2>3
<1> QED BY <1>1, <1>2, <1>3, <1>4, <1>5, <1>6 DEF LoopStep

LEMMA ChainedStep ==
  ASSUME CarefulPrograms, IInv, JumpInv, Chained(ctrl, prog), Step
  PROVE  Chained(ctrl', prog')
<1>1. CASE LeaveFunction
  <2>1. status = "running" /\ ctrl' = ButLast(ctrl) /\ prog' = prog
    BY <1>1 DEF LeaveFunction, Running, Below, ButLast
  <2> QED BY <2>1, Straight, ChainedPop
<1> QED BY <1>1, BlockChained, EvalChained, BranchChained, LoopChained DEF Step

LEMMA ChainedInitially ==
  ASSUME CarefulPrograms, Init
  PROVE  Chained(ctrl, prog)
<1> DEFINE a == Called("call", 1)
           b == Body(Main, 1)
           c == << a >>
<1>1. ctrl = Append(c, b) /\ prog \in Programs /\ prog[Main] \in Seq(Node)
  BY ProgramAssumption DEF Init
<1>2. a \in Level /\ a.kind = "call" BY DEF Called, Level, CallLevel, Where, CallOps
<1>3. b \in Level /\ b.kind = "block" /\ b.nodes = prog[Main]
  BY <1>1 DEF Body, Block, Level, BlockLevel, Where
<1> HIDE DEF a, b
<1>4. c \in Seq(Level) /\ Len(c) = 1 /\ c[1] = a /\ c # <<>> BY <1>2
<1> HIDE DEF c
<1>5. Watchful(a, prog) /\ ~Calm(a, prog) BY <1>2 DEF Watchful, Calm, CallOps, Loops
<1>6. Chained(c, prog) BY <1>4, <1>5 DEF Chained
<1>7. EndsInReturn(prog[Main]) BY <1>1, ReturnAssumption, ProgramAssumption DEF EndsInReturn
<1>8. Waits(c[Len(c)], b) BY <1>2, <1>3, <1>4, <1>7 DEF Waits, CallOps, Loops
<1>9. prog \notin Careless => Watchful(b, prog)
  <2>1. prog \notin Careless => ~Contains(prog[Main], Overlooking(prog))
    BY <1>1, Analysis, ProgramAssumption DEF CarefulWith
  <2> QED BY <1>3, <2>1 DEF Watchful, Loops
<1>10. \A i \in 1 .. Len(c) : ~Calm(c[i], prog) BY <1>4, <1>5
<1> QED BY <1>1, <1>3, <1>4, <1>6, <1>8, <1>9, <1>10, ChainedAppend
----------------------------------------------------------------------------
\* What a read finds: the variables in the scopes an activation sees, the ones it
\* is going to read, and the one that an initializer is evaluated for.
VarsIn(fs, at) == UNION {fs[at.frame][h] : h \in 1 .. at.height}
Needs(l) == CASE l.kind = "block" -> FreeFrom(l.nodes, l.pc, Free)
              [] l.kind = "eval" -> Reads(l.expr, l.pc)
              [] l.kind = "if" -> Free[l.node]
              [] l.kind \in Loops -> IF l.stage = "init" THEN Free[l.node]
                                     ELSE FreeInside(l.node, Free)
              [] OTHER -> {}
Coming(l) == {v \in Var : l.kind = "eval" /\ l.goal = "decl" /\ v = l.node.var}

\* Every activation finds the variables that it is still going to read: an outer
\* one those that are there and the one that is about to be declared.
Outer(c, fs) ==
  \A i \in 1 .. Len(c) - 1 : Needs(c[i]) \subseteq VarsIn(fs, c[i].at) \union Coming(c[i + 1])
Provided(c, fs) ==
  /\ Outer(c, fs)
  /\ c # <<>> => Needs(c[Len(c)]) \subseteq VarsIn(fs, c[Len(c)].at)

LEMMA LeastOf ==
  ASSUME NEW T, T \subseteq Nat, T # {}
  PROVE  \E n \in T : \A m \in T : n <= m
<1>1. IsWellFoundedOn(OpToRel(<, Nat), Nat) BY NatLessThanWellFounded
<1>2. PICK n \in T : \A m \in T : ~ (<<m, n>> \in OpToRel(<, Nat)) BY <1>1, WFMin
<1>3. ASSUME NEW m \in T, m < n PROVE FALSE
  <2>1. <<m, n>> \in Nat \X Nat /\ <<m, n>>[1] < <<m, n>>[2] BY <1>2, <1>3
  <2>2. <<m, n>> \in {ss \in Nat \X Nat : ss[1] < ss[2]} BY <2>1
  <2> QED BY <1>2, <2>2 DEF OpToRel
<1>4. \A m \in T : n <= m
  <2> TAKE m \in T
  <2>1. n \in Nat /\ m \in Nat /\ ~(m < n) BY <1>3
  <2> QED BY <2>1
<1> QED BY <1>2, <1>4

\* Within a frame, scopes are only opened on the way in.
LEMMA Mounting ==
  ASSUME NEW c \in Seq(Level), Stacked(c), NEW i \in 1 .. Len(c), NEW j \in 1 .. Len(c),
         i <= j, c[i].at.frame = c[j].at.frame
  PROVE  c[i].at.height <= c[j].at.height
<1> DEFINE T == {k \in 1 .. Len(c) : /\ i <= k /\ c[i].at.frame = c[k].at.frame
                                     /\ ~(c[i].at.height <= c[k].at.height)}
<1> SUFFICES ASSUME T # {} PROVE FALSE OBVIOUS
<1>1. Len(c) \in Nat BY LenProperties
<1>2. \A k \in 1 .. Len(c) : /\ c[k] \in Level
                             /\ c[k].at.frame \in Nat /\ c[k].at.height \in Nat
  BY LevelKinds, ElementOfSeq DEF Where
<1>3. T \subseteq Nat BY <1>1
<1>4. PICK k \in T : \A m \in T : k <= m
  <2> HIDE DEF T
  <2> QED BY <1>3, LeastOf
<1>5. k # i BY <1>2
<1>6. /\ k \in 1 .. Len(c) /\ k - 1 \in 1 .. Len(c) /\ k - 1 \in 1 .. Len(c) - 1 /\ i <= k - 1
      /\ k - 1 + 1 = k /\ ~(k <= k - 1) /\ k - 1 <= k
  BY <1>1, <1>5
<1>7. c[i].at.frame <= c[k - 1].at.frame /\ c[k - 1].at.frame <= c[k].at.frame
  BY <1>6 DEF Stacked
<1>8. c[k - 1].at.frame = c[i].at.frame BY <1>2, <1>6, <1>7
<1>9. c[i].at.height <= c[k - 1].at.height BY <1>4, <1>6, <1>8
<1>10. Fits(c[k - 1], c[k]) BY <1>6 DEF Stacked
<1>11. c[k].at.frame = c[k - 1].at.frame BY <1>8
<1>12. c[k - 1].at.height <= c[k].at.height
  <2> DEFINE a == c[k - 1].at
             b == c[k].at
  <2>1. a.frame \in Nat /\ a.height \in Nat /\ a.frame + 1 # a.frame /\ b.frame = a.frame
    BY <1>2, <1>6, <1>11
  <2>2. \/ b = [frame |-> a.frame, height |-> a.height + 1]
        \/ b = a
        \/ b = [frame |-> a.frame + 1, height |-> 1]
    BY <1>10 DEF Fits
  <2> HIDE DEF a, b
  <2>3. b.height = a.height + 1 \/ b.height = a.height BY <2>1, <2>2
  <2> QED BY <2>1, <2>3 DEF a, b
<1>13. c[i].at.height <= c[k].at.height BY <1>2, <1>6, <1>9, <1>12
<1> QED BY <1>13

\* Every activation runs in a frame and in scopes that are there.
LEMMA Inside ==
  ASSUME NEW c, NEW fs, NEW d, Good(c, fs, d), NEW i \in 1 .. Len(c)
  PROVE  /\ c[i].at.frame \in 1 .. Len(fs) /\ c[i].at.height \in Nat
         /\ c[i].at.height <= Len(fs[c[i].at.frame])
<1> DEFINE n == Len(c)
           f == c[i].at.frame
           T == {k \in 1 .. n : i <= k /\ c[k].at.frame # f}
<1>1. c \in Seq(Level) /\ n \in Nat /\ fs \in Seq(Seq(SUBSET Var)) /\ Len(fs) \in Nat
  BY LenProperties DEF Good
<1>2. \A k \in 1 .. n : /\ c[k] \in Level
                        /\ c[k].at.frame \in Nat /\ c[k].at.height \in Nat
  BY <1>1, LevelKinds, ElementOfSeq DEF Where
<1>3. 1 \in 1 .. n /\ n \in 1 .. n /\ 1 <= i /\ i <= n /\ c # <<>> BY <1>1
<1>4. c[n].at.frame = Len(fs) /\ c[n].at.height = Len(fs[Len(fs)])
  BY <1>3 DEF Good, OnTop
<1>5. c[1].at.frame = 1 BY <1>3 DEF Good, Stacked
<1>6. c[1].at.frame <= f /\ f <= c[n].at.frame BY <1>3 DEF Good, Stacked
<1>7. f \in 1 .. Len(fs) BY <1>1, <1>2, <1>4, <1>5, <1>6
<1>8. CASE T = {}
  <2>1. c[n].at.frame = f BY <1>3, <1>8
  <2>2. c[i].at.height <= c[n].at.height BY <1>1, <1>3, <2>1, Mounting DEF Good
  <2> QED BY <1>2, <1>4, <1>7, <2>1, <2>2
<1>9. CASE T # {}
  <2>1. T \subseteq Nat BY <1>1
  <2>2. PICK k \in T : \A m \in T : k <= m
    <3> HIDE DEF T
    <3> QED BY <1>9, <2>1, LeastOf
  <2>3. k # i OBVIOUS
  <2>4. /\ k \in 1 .. n /\ k - 1 \in 1 .. n /\ k - 1 \in 1 .. n - 1 /\ i <= k - 1
        /\ k - 1 + 1 = k /\ ~(k <= k - 1)
    BY <1>1, <2>3
  <2>5. c[k - 1].at.frame = f BY <2>2, <2>4
  <2>6. Fits(c[k - 1], c[k]) BY <2>4 DEF Good, Stacked
  <2>7. c[k].kind \in CallOps BY <2>5, <2>6 DEF Fits
  <2>8. Len(fs[f]) = c[k - 1].at.height BY <2>4, <2>5, <2>7 DEF Good, Suspended
  <2>9. c[i].at.height <= c[k - 1].at.height BY <1>1, <2>4, <2>5, Mounting DEF Good
  <2> QED BY <1>2, <1>7, <2>8, <2>9
<1> QED BY <1>8, <1>9

\* The scopes that activations see, when the scopes of xs all grow.
LEMMA VarsKept ==
  ASSUME NEW c, NEW xs, NEW d, Good(c, xs, d), NEW fs, NEW gs,
         \A f \in 1 .. Len(xs) : \A h \in 1 .. Len(xs[f]) : fs[f][h] \subseteq gs[f][h],
         NEW i \in 1 .. Len(c)
  PROVE  VarsIn(fs, c[i].at) \subseteq VarsIn(gs, c[i].at)
<1> DEFINE f == c[i].at.frame
           k == c[i].at.height
<1>1. f \in 1 .. Len(xs) /\ k \in Nat /\ k <= Len(xs[f]) BY Inside
<1>2. xs \in Seq(Seq(SUBSET Var)) BY DEF Good
<1>3. xs[f] \in Seq(SUBSET Var) BY <1>1, <1>2, ElementOfSeq
<1>4. Len(xs[f]) \in Nat BY <1>3, LenProperties
<1>5. \A h \in 1 .. k : h \in 1 .. Len(xs[f]) BY <1>1, <1>4
<1>6. \A h \in 1 .. k : fs[f][h] \subseteq gs[f][h] BY <1>1, <1>5
<1> HIDE DEF f, k
<1>7. UNION {fs[f][h] : h \in 1 .. k} \subseteq UNION {gs[f][h] : h \in 1 .. k} BY <1>6
<1> QED BY <1>7 DEF VarsIn, f, k

LEMMA OuterKeep ==
  ASSUME NEW c, Len(c) \in Nat, NEW fs, Outer(c, fs), NEW gs,
         \A i \in 1 .. Len(c) : VarsIn(fs, c[i].at) \subseteq VarsIn(gs, c[i].at)
  PROVE  Outer(c, gs)
<1>1. \A i \in 1 .. Len(c) - 1 : i \in 1 .. Len(c) OBVIOUS
<1> QED BY <1>1 DEF Outer

LEMMA OuterReplace ==
  ASSUME NEW c \in Seq(Level), c # <<>>, NEW fs, Outer(c, fs),
         NEW l, Coming(l) = Coming(c[Len(c)])
  PROVE  Outer(LastIs(c, l), fs)
<1> DEFINE e == LastIs(c, l)
           n == Len(c)
<1>1. n \in Nat BY NonEmpty
<1>2. Len(e) = n /\ \A i \in 1 .. n : e[i] = IF i = n THEN l ELSE c[i]
  <2>1. c \in Seq(Level \union {l}) BY SeqMonotonic
  <2> QED BY <1>1, <2>1, ExceptSeq DEF LastIs
<1> HIDE DEF e
<1> SUFFICES ASSUME NEW i \in 1 .. n - 1
             PROVE  Needs(e[i]) \subseteq VarsIn(fs, e[i].at) \union Coming(e[i + 1])
  BY <1>2 DEF Outer, e
<1>3. i \in 1 .. n /\ i + 1 \in 1 .. n /\ i # n BY <1>1
<1>4. e[i] = c[i] /\ Coming(e[i + 1]) = Coming(c[i + 1]) BY <1>2, <1>3
<1>5. Needs(c[i]) \subseteq VarsIn(fs, c[i].at) \union Coming(c[i + 1]) BY DEF Outer
<1> QED BY <1>4, <1>5

LEMMA OuterPush ==
  ASSUME NEW c \in Seq(Level), c # <<>>, NEW fs, Outer(c, fs), NEW l \in Level,
         Needs(c[Len(c)]) \subseteq VarsIn(fs, c[Len(c)].at) \union Coming(l)
  PROVE  Outer(Append(c, l), fs)
<1> DEFINE e == Append(c, l)
           n == Len(c)
<1>1. n \in Nat BY NonEmpty
<1>2. Len(e) = n + 1 /\ e[n + 1] = l /\ \A i \in 1 .. n : e[i] = c[i] BY AppendProperties
<1> HIDE DEF e
<1> SUFFICES ASSUME NEW i \in 1 .. n + 1 - 1
             PROVE  Needs(e[i]) \subseteq VarsIn(fs, e[i].at) \union Coming(e[i + 1])
  BY <1>2 DEF Outer, e
<1>3. CASE i = n BY <1>1, <1>2, <1>3
<1>4. CASE i # n
  <2>1. i \in 1 .. n /\ i + 1 \in 1 .. n /\ i \in 1 .. n - 1 BY <1>1, <1>4
  <2>2. Needs(c[i]) \subseteq VarsIn(fs, c[i].at) \union Coming(c[i + 1]) BY <2>1 DEF Outer
  <2> QED BY <2>1, <2>2, <1>2
<1> QED BY <1>3, <1>4

\* What an activation was waiting for is there once the one above it has ended.
LEMMA ProvidedPop ==
  ASSUME NEW c \in Seq(Level), c # <<>>, NEW fs, Outer(c, fs), NEW gs,
         NEW b, b = ButLast(c),
         \A i \in 1 .. Len(b) : VarsIn(fs, b[i].at) \subseteq VarsIn(gs, b[i].at),
         b # <<>> => Coming(c[Len(c)]) \subseteq VarsIn(gs, b[Len(b)].at)
  PROVE  Provided(b, gs)
<1> DEFINE n == Len(c)
<1>1. n \in Nat /\ Len(b) = n - 1 /\ b \in Seq(Level) /\ \A i \in 1 .. n - 1 : b[i] = c[i]
  BY ButLastOf
<1>2. \A i \in 1 .. n - 1 : Needs(b[i]) \subseteq VarsIn(gs, b[i].at) \union Coming(c[i + 1])
  BY <1>1 DEF Outer
<1>3. ASSUME NEW i \in 1 .. n - 1 - 1
      PROVE  Needs(b[i]) \subseteq VarsIn(gs, b[i].at) \union Coming(b[i + 1])
  <2>1. i \in 1 .. n - 1 /\ i + 1 \in 1 .. n - 1 BY <1>1
  <2> QED BY <2>1, <1>1, <1>2
<1>4. ASSUME b # <<>> PROVE Needs(b[n - 1]) \subseteq VarsIn(gs, b[n - 1].at)
  <2>1. n - 1 \in 1 .. n - 1 /\ n - 1 + 1 = n BY <1>1, <1>4, NonEmpty
  <2>2. Needs(b[n - 1]) \subseteq VarsIn(gs, b[n - 1].at) \union Coming(c[n]) BY <1>2, <2>1
  <2> QED BY <2>2, <1>1, <1>4
<1> QED BY <1>1, <1>3, <1>4 DEF Provided, Outer
----------------------------------------------------------------------------
\* The scopes of the innermost frame, when one is opened and when a variable is
\* declared.
LEMMA ScopeOpened ==
  ASSUME IInv, status = "running"
  PROVE  /\ \A f \in 1 .. Len(frames) : \A h \in 1 .. Len(frames[f]) : frames[f][h] \subseteq EnterScope[f][h]
         /\ VarsIn(frames, Here) \subseteq VarsIn(EnterScope, Inner)
<1> DEFINE m == Len(frames)
           s == frames[m]
<1>1. /\ frames \in Seq(Seq(SUBSET Var)) /\ m \in Nat /\ m \in 1 .. m
      /\ s \in Seq(SUBSET Var) /\ Len(s) \in Nat /\ Here = [frame |-> m, height |-> Len(s)]
  BY Standpoint, LenProperties
<1>2. EnterScope = [frames EXCEPT ![m] = Append(s, {})] BY DEF EnterScope
<1>3. \A f \in 1 .. m : EnterScope[f] = IF f = m THEN Append(s, {}) ELSE frames[f] BY <1>1, <1>2
<1>4. \A h \in 1 .. Len(s) : Append(s, {})[h] = s[h] BY <1>1
<1>5. ASSUME NEW f \in 1 .. m, NEW h \in 1 .. Len(frames[f])
      PROVE  EnterScope[f][h] = frames[f][h]
  BY <1>3, <1>4
<1>6. Inner.frame = m /\ Inner.height = Len(s) + 1 BY <1>1 DEF Inner
<1>7. \A h \in 1 .. Len(s) : h \in 1 .. Len(s) + 1 /\ EnterScope[m][h] = frames[m][h]
  BY <1>1, <1>5
<1>8. VarsIn(frames, Here) = UNION {frames[m][h] : h \in 1 .. Len(s)} BY <1>1 DEF VarsIn
<1>9. VarsIn(EnterScope, Inner) = UNION {EnterScope[m][h] : h \in 1 .. Len(s) + 1}
  BY <1>6 DEF VarsIn
<1> HIDE DEF s, m
<1> QED BY <1>5, <1>7, <1>8, <1>9 DEF m

LEMMA LastGrows ==
  ASSUME NEW s \in Seq(SUBSET Var), NEW v \in Var
  PROVE  \A h \in 1 .. Len(s) :
           [s EXCEPT ![Len(s)] = @ \union {v}][h] = IF h = Len(s) THEN s[h] \union {v} ELSE s[h]
<1> DEFINE n == Len(s)
           e == s[n] \union {v}
<1> SUFFICES ASSUME NEW h \in 1 .. n
             PROVE  [s EXCEPT ![n] = e][h] = IF h = n THEN s[h] \union {v} ELSE s[h]
  OBVIOUS
<1>1. n \in Nat /\ n \in 1 .. n BY LenProperties
<1>2. e \in SUBSET Var BY <1>1, ElementOfSeq
<1>3. e = s[n] \union {v} OBVIOUS
<1> HIDE DEF n, e
<1>4. [s EXCEPT ![n] = e][h] = IF h = n THEN e ELSE s[h] BY <1>1, <1>2, ExceptSeq DEF n
<1> QED BY <1>3, <1>4

LEMMA VariableAdded ==
  ASSUME IInv, status = "running", NEW v \in Var
  PROVE  /\ \A f \in 1 .. Len(frames) : \A h \in 1 .. Len(frames[f]) :
              frames[f][h] \subseteq AddVariable(v)[f][h]
         /\ frames[Len(frames)] # <<>> => v \in VarsIn(AddVariable(v), Here)
<1> DEFINE m == Len(frames)
           s == frames[m]
           t == [s EXCEPT ![Len(s)] = @ \union {v}]
<1>1. /\ frames \in Seq(Seq(SUBSET Var)) /\ m \in Nat /\ m \in 1 .. m
      /\ s \in Seq(SUBSET Var) /\ Len(s) \in Nat /\ Here = [frame |-> m, height |-> Len(s)]
  BY Standpoint, LenProperties
<1>2. AddVariable(v) = [frames EXCEPT ![m] = t] BY DEF AddVariable
<1>3. \A h \in 1 .. Len(s) : t[h] = IF h = Len(s) THEN s[h] \union {v} ELSE s[h] BY <1>1, LastGrows
<1> HIDE DEF t
<1>4. \A f \in 1 .. m : AddVariable(v)[f] = IF f = m THEN t ELSE frames[f] BY <1>1, <1>2
<1>5. ASSUME NEW f \in 1 .. m, NEW h \in 1 .. Len(frames[f])
      PROVE  frames[f][h] \subseteq AddVariable(v)[f][h]
  BY <1>3, <1>4
<1>6. ASSUME s # <<>> PROVE v \in VarsIn(AddVariable(v), Here)
  <2>1. Len(s) \in 1 .. Len(s) BY <1>1, <1>6, NonEmpty, Positions
  <2>2. v \in AddVariable(v)[m][Len(s)] BY <2>1, <1>1, <1>3, <1>4
  <2>3. VarsIn(AddVariable(v), Here) = UNION {AddVariable(v)[m][h] : h \in 1 .. Len(s)}
    BY <1>1 DEF VarsIn
  <2> QED BY <2>1, <2>2, <2>3
<1> QED BY <1>5, <1>6

LEMMA ScopeThere ==
  ASSUME IInv, status = "running"
  PROVE  frames[Len(frames)] # <<>>
<1> DEFINE n == Len(ctrl)
           T == {k \in 1 .. n : ctrl[k].at.height = 0}
<1> SUFFICES ASSUME frames[Len(frames)] = <<>> PROVE FALSE OBVIOUS
<1>1. ctrl \in Seq(Level) /\ ctrl # <<>> /\ n \in Nat /\ n \in 1 .. n /\ Stacked(ctrl)
  <2>1. ctrl \in Seq(Level) /\ ctrl # <<>> /\ Stacked(ctrl) BY Standpoint DEF IInv, Good
  <2> QED BY <2>1, NonEmpty, Positions
<1>2. Top.at.height = 0 BY Standpoint
<1>3. T \subseteq Nat /\ n \in T BY <1>1, <1>2 DEF Top
<1>4. PICK k \in T : \A m \in T : k <= m
  <2> HIDE DEF T
  <2> QED BY <1>3, LeastOf
<1>5. ctrl[1].at.height = 1 BY <1>1 DEF Stacked
<1>6. /\ k \in 1 .. n /\ k - 1 \in 1 .. n /\ k - 1 \in 1 .. n - 1 /\ k - 1 + 1 = k /\ ~(k <= k - 1)
  BY <1>1, <1>5
<1>7. Fits(ctrl[k - 1], ctrl[k]) BY <1>1, <1>6 DEF Stacked
<1>8. ctrl[k - 1].at.height # 0 BY <1>4, <1>6
<1>9. ctrl[k - 1].at \in Where BY <1>1, <1>6, LevelKinds, ElementOfSeq
<1>10. ctrl[k].at.height = ctrl[k - 1].at.height + 1 \/ ctrl[k].at.height = ctrl[k - 1].at.height
       \/ ctrl[k].at.height = 1
  BY <1>7 DEF Fits
<1>11. ctrl[k].at.height # 0 BY <1>8, <1>9, <1>10 DEF Where
<1> QED BY <1>11
----------------------------------------------------------------------------
\* What a node and an expression still read, as they go on.
LEMMA ReadsGoOn ==
  ASSUME NEW e \in Expression, NEW k \in Nat, k + 1 \in 1 .. Len(e)
  PROVE  /\ Reads(e, k + 1) \subseteq Reads(e, k)
         /\ e[k + 1].op = "use" => e[k + 1].var \in Reads(e, k)
<1>1. Len(e) \in Nat BY LenProperties DEF Expression
<1>2. \A i \in k + 1 + 1 .. Len(e) : i \in k + 1 .. Len(e) BY <1>1
<1>3. k + 1 \in k + 1 .. Len(e) BY <1>1
<1> QED BY <1>2, <1>3 DEF Reads

LEMMA NodesGoOn ==
  ASSUME NEW body \in Seq(Node), NEW k \in Nat, k + 1 \in 1 .. Len(body)
  PROVE  /\ Free[body[k + 1]] \subseteq FreeFrom(body, k, Free)
         /\ body[k + 1].kind # "decl" => FreeFrom(body, k + 1, Free) \subseteq FreeFrom(body, k, Free)
         /\ FreeFrom(body, k + 1, Free) \subseteq FreeFrom(body, k, Free) \union {body[k + 1].var}
<1> DEFINE n == Len(body)
<1>1. n \in Nat BY LenProperties
<1>2. k + 1 \in k + 1 .. n /\ k + 1 - 1 = k BY <1>1
<1>3. Declared(body, k + 1, k) = {}
  <2>1. k + 1 .. k = {} OBVIOUS
  <2> QED BY <2>1 DEF Declared
<1>4. Free[body[k + 1]] \subseteq FreeFrom(body, k, Free)
  BY <1>2, <1>3 DEF FreeFrom
<1>5. ASSUME NEW x \in FreeFrom(body, k + 1, Free), x \notin FreeFrom(body, k, Free)
      PROVE  body[k + 1].kind = "decl" /\ x = body[k + 1].var
  <2>1. PICK i \in k + 1 + 1 .. n : x \in Free[body[i]] /\ x \notin Declared(body, k + 1 + 1, i - 1)
    BY <1>5 DEF FreeFrom
  <2>2. i \in k + 1 .. n BY <1>1, <2>1
  <2>3. x \in Declared(body, k + 1, i - 1) BY <1>5, <2>1, <2>2 DEF FreeFrom
  <2>4. PICK j \in k + 1 .. i - 1 : body[j].kind = "decl" /\ x = body[j].var
    BY <2>3 DEF Declared
  <2>5. j \notin k + 1 + 1 .. i - 1 BY <2>1, <2>4 DEF Declared
  <2>6. j = k + 1 BY <2>2, <2>4, <2>5
  <2> QED BY <2>4, <2>6
<1> QED BY <1>4, <1>5

\* The parts of a node read what the node reads, or what it declares.
LEMMA FreeParts ==
  ASSUME NEW n \in Node
  PROVE  /\ FreeFrom(n.init, 0, Free) \subseteq Free[n]
         /\ FreeInside(n, Free) \subseteq Free[n] \union Declared(n.init, 1, Len(n.init))
         /\ n.init = <<>> => FreeInside(n, Free) \subseteq Free[n]
         /\ n.kind # "for" => n.init = <<>>
<1>1. FreeIn(n, Free) \subseteq Free[n] BY ScopeAssumption
<1>2. n.init = <<>> => Declared(n.init, 1, Len(n.init)) = {}
  <2> SUFFICES ASSUME n.init = <<>> PROVE Declared(n.init, 1, Len(n.init)) = {} OBVIOUS
  <2>1. 1 .. Len(n.init) = {} BY EmptySeq
  <2> QED BY <2>1 DEF Declared
<1>3. n.kind # "for" => n.init = <<>> BY NodeAssumption
<1> QED BY <1>1, <1>2, <1>3 DEF FreeIn

LEMMA InsideParts ==
  ASSUME NEW n
  PROVE  /\ Reads(n.expr, 0) \subseteq FreeInside(n, Free)
         /\ Reads(n.iteration, 0) \subseteq FreeInside(n, Free)
         /\ FreeFrom(n.body, 0, Free) \subseteq FreeInside(n, Free)
         /\ \A i \in 1 .. Len(n.ifs) : /\ Reads(n.ifs[i].cond, 0) \subseteq FreeInside(n, Free)
                                       /\ FreeFrom(n.ifs[i].body, 0, Free) \subseteq FreeInside(n, Free)
BY DEF FreeInside

\* A for declares one variable at most.
LEMMA InitParts ==
  ASSUME NEW n \in Node, n.init # <<>>
  PROVE  LET first == n.init[1]
         IN /\ first \in Node /\ first.kind \in {"infix", "decl"} /\ first.kind # "for"
            /\ Free[first] \subseteq Free[n]
            /\ FreeInside(n, Free) \subseteq
                 Free[n] \union {v \in Var : first.kind = "decl" /\ v = first.var}
<1> DEFINE first == n.init[1]
<1>1. n.init \in Seq(Node) /\ Len(n.init) <= 1 BY NodeAssumption
<1>2. Len(n.init) = 1 /\ 1 \in 1 .. Len(n.init)
  <2> DEFINE k == Len(n.init)
  <2>1. k \in Nat /\ k # 0 /\ k <= 1 BY <1>1, NonEmpty
  <2> HIDE DEF k
  <2>2. k = 1 /\ 1 \in 1 .. k BY <2>1
  <2> QED BY <2>2 DEF k
<1>3. first \in Node /\ first.kind \in {"infix", "decl"} /\ first.kind # "for" /\ first.var \in Var
  BY <1>1, <1>2, ElementOfSeq, NodeAssumption
<1>4. Declared(n.init, 1, 1) \subseteq {v \in Var : first.kind = "decl" /\ v = first.var}
  <2>1. 1 .. 1 = {1} OBVIOUS
  <2> QED BY <2>1, <1>3 DEF Declared
<1>5. FreeInside(n, Free) \subseteq Free[n] \union Declared(n.init, 1, 1) BY <1>2, FreeParts
<1>6. Free[first] \subseteq FreeFrom(n.init, 0, Free)
  <2>1. 0 \in Nat /\ 0 + 1 = 1 OBVIOUS
  <2> QED BY <1>1, <1>2, <2>1, NodesGoOn
<1>7. Free[first] \subseteq Free[n] BY <1>6, FreeParts
<1> QED BY <1>3, <1>4, <1>5, <1>7
----------------------------------------------------------------------------
\* What an activation needs, and what it brings, by its kind.
LEMMA NeedsOf ==
  ASSUME NEW l
  PROVE  /\ l.kind = "block" => Needs(l) = FreeFrom(l.nodes, l.pc, Free)
         /\ l.kind = "eval" => Needs(l) = Reads(l.expr, l.pc)
         /\ l.kind = "if" => Needs(l) = Free[l.node]
         /\ l.kind \in Loops /\ l.stage = "init" => Needs(l) = Free[l.node]
         /\ l.kind \in Loops /\ l.stage # "init" => Needs(l) = FreeInside(l.node, Free)
         /\ l.kind \in CallOps => Needs(l) = {}
         /\ l.kind # "eval" => Coming(l) = {}
BY DEF Needs, Coming, Loops, CallOps

LEMMA TopReplaced ==
  ASSUME NEW c \in Seq(Level), c # <<>>, NEW gs, Outer(c, gs),
         NEW l, Coming(l) = Coming(c[Len(c)]), Needs(l) \subseteq VarsIn(gs, l.at)
  PROVE  Provided(LastIs(c, l), gs)
<1>1. Outer(LastIs(c, l), gs) BY OuterReplace
<1>2. Len(c) \in Nat /\ Len(c) \in 1 .. Len(c) BY NonEmpty, Positions
<1>3. Len(LastIs(c, l)) = Len(c) /\ LastIs(c, l)[Len(c)] = l
  <2>1. c \in Seq(Level \union {l}) BY SeqMonotonic
  <2> QED BY <1>2, <2>1, ExceptSeq DEF LastIs
<1> QED BY <1>1, <1>3 DEF Provided

LEMMA TopPushed ==
  ASSUME NEW c \in Seq(Level), c # <<>>, NEW gs, Outer(c, gs), NEW l \in Level,
         Needs(c[Len(c)]) \subseteq VarsIn(gs, c[Len(c)].at) \union Coming(l),
         Needs(l) \subseteq VarsIn(gs, l.at)
  PROVE  Provided(Append(c, l), gs)
<1>1. Outer(Append(c, l), gs) BY OuterPush
<1>2. Len(Append(c, l)) = Len(c) + 1 /\ Append(c, l)[Len(c) + 1] = l BY AppendProperties
<1> QED BY <1>1, <1>2 DEF Provided

\* A node is started, with the scopes as they are.
LEMMA NodeProvided ==
  ASSUME IInv, JumpInv, Chained(ctrl, prog), Provided(ctrl, frames), NEW kinds, AtNode(kinds)
  PROVE  LET l == Stepped[Len(Stepped)]
         IN /\ Outer(Stepped, frames) /\ l.at = Here /\ l.kind = "block" /\ Coming(l) = {}
            /\ Stepped \in Seq(Level) /\ Stepped # <<>> /\ Good(Stepped, frames, dirs)
            /\ status = "running" /\ TheNode \in Node /\ TheNode.kind \in kinds
            /\ Free[TheNode] \subseteq VarsIn(frames, Here)
            /\ Needs(l) \subseteq VarsIn(frames, Here) \union {TheNode.var}
            /\ TheNode.kind # "decl" => Needs(l) \subseteq VarsIn(frames, Here)
            /\ TheNode.kind # "decl" => Provided(Stepped, frames)
<1> DEFINE l == Stepped[Len(Stepped)]
<1>1. /\ status = "running" /\ TheNode \in Node /\ TheNode.kind \in kinds
      /\ Stepped \in Seq(Level) /\ Stepped # <<>>
      /\ Top \in BlockLevel /\ Top.pc + 1 \in 1 .. Len(Top.nodes) /\ TheNode = Top.nodes[Top.pc + 1]
      /\ Stepped = LastIs(ctrl, l)
      /\ l.kind = "block" /\ l.nodes = Top.nodes /\ l.pc = Top.pc + 1 /\ l.at = Here
  BY NodeGoesOn
<1>2. Good(Stepped, frames, dirs) BY NodeStep
<1>3. Top.kind = "block" /\ Top.nodes \in Seq(Node) /\ Top.pc \in Nat BY <1>1 DEF BlockLevel
<1> HIDE DEF l
<1>4. ctrl \in Seq(Level) /\ ctrl # <<>> /\ Top.at = Here BY <1>1, Straight, Standpoint
<1>5. Outer(ctrl, frames) /\ Needs(Top) \subseteq VarsIn(frames, Here)
  BY <1>4 DEF Provided, Top
<1>6. Needs(Top) = FreeFrom(Top.nodes, Top.pc, Free) /\ Needs(l) = FreeFrom(Top.nodes, Top.pc + 1, Free)
      /\ Coming(Top) = {} /\ Coming(l) = {}
  BY <1>1, <1>3, NeedsOf
<1>7. Coming(l) = Coming(ctrl[Len(ctrl)]) BY <1>6 DEF Top
<1>8. Outer(Stepped, frames) BY <1>1, <1>4, <1>5, <1>7, OuterReplace
<1>9. /\ Free[TheNode] \subseteq Needs(Top)
      /\ Needs(l) \subseteq Needs(Top) \union {TheNode.var}
      /\ TheNode.kind # "decl" => Needs(l) \subseteq Needs(Top)
  BY <1>1, <1>3, <1>6, NodesGoOn
<1>10. TheNode.kind # "decl" => Provided(Stepped, frames)
  BY <1>1, <1>4, <1>5, <1>7, <1>9, TopReplaced
<1> QED BY <1>1, <1>2, <1>5, <1>6, <1>8, <1>9, <1>10 DEF l

\* What is on the stack stays provided for while the scopes grow.
LEMMA Grown ==
  ASSUME IInv, status = "running", NEW c, NEW d, Good(c, frames, d), Outer(c, frames), NEW gs,
         \A f \in 1 .. Len(frames) : \A h \in 1 .. Len(frames[f]) : frames[f][h] \subseteq gs[f][h]
  PROVE  /\ Outer(c, gs)
         /\ VarsIn(frames, Here) \subseteq VarsIn(gs, Here)
         /\ \A i \in 1 .. Len(c) : VarsIn(frames, c[i].at) \subseteq VarsIn(gs, c[i].at)
<1>1. \A i \in 1 .. Len(c) : VarsIn(frames, c[i].at) \subseteq VarsIn(gs, c[i].at) BY VarsKept
<1>2. Len(c) \in Nat BY LenProperties DEF Good
<1>3. ctrl # <<>> /\ Top.at = Here /\ Good(ctrl, frames, dirs) /\ Len(ctrl) \in 1 .. Len(ctrl)
  <2>1. ctrl # <<>> /\ Top.at = Here /\ Good(ctrl, frames, dirs) /\ ctrl \in Seq(Level)
    BY Standpoint DEF IInv, Good
  <2> QED BY <2>1, NonEmpty, Positions
<1>4. VarsIn(frames, Here) \subseteq VarsIn(gs, Here) BY <1>3, VarsKept DEF Top
<1> QED BY <1>1, <1>2, <1>4, OuterKeep

\* A scope is opened for an activation that starts.
LEMMA ScopeProvided ==
  ASSUME IInv, status = "running", NEW c, NEW d, Good(c, frames, d), c # <<>>, Outer(c, frames),
         c[Len(c)].at = Here, Needs(c[Len(c)]) \subseteq VarsIn(frames, Here),
         NEW l \in Level, l.at = Inner, Needs(l) \subseteq VarsIn(frames, Here)
  PROVE  Provided(Append(c, l), EnterScope)
<1>1. \A f \in 1 .. Len(frames) : \A h \in 1 .. Len(frames[f]) : frames[f][h] \subseteq EnterScope[f][h]
  BY ScopeOpened
<1>2. Outer(c, EnterScope) /\ VarsIn(frames, Here) \subseteq VarsIn(EnterScope, Here)
  BY <1>1, Grown
<1>3. VarsIn(frames, Here) \subseteq VarsIn(EnterScope, Inner) BY ScopeOpened
<1>4. c \in Seq(Level) BY DEF Good
<1> QED BY <1>2, <1>3, <1>4, TopPushed

\* An expression is evaluated.
LEMMA EvalProvided ==
  ASSUME IInv, status = "running", NEW c \in Seq(Level), c # <<>>, Outer(c, frames),
         NEW n \in Node, NEW e \in Expression, NEW goal \in Goals, c[Len(c)].at = Here,
         Reads(e, 0) \subseteq VarsIn(frames, Here),
         Needs(c[Len(c)]) \subseteq VarsIn(frames, Here) \union {v \in Var : goal = "decl" /\ v = n.var}
  PROVE  Provided(Append(c, Eval(n, e, goal, Here)), frames)
<1> DEFINE l == Eval(n, e, goal, Here)
<1>1. /\ l \in EvalLevel /\ l.kind = "eval" /\ l.expr = e /\ l.pc = 0 /\ l.goal = goal
      /\ l.node = n /\ l.at = Here
  BY Standpoint DEF Eval, EvalLevel
<1> HIDE DEF l
<1>2. l \in Level BY <1>1 DEF Level
<1>3. Needs(l) \subseteq VarsIn(frames, l.at) BY <1>1, NeedsOf
<1>4. Coming(l) = {v \in Var : goal = "decl" /\ v = n.var} BY <1>1 DEF Coming
<1>5. Provided(Append(c, l), frames) BY <1>2, <1>3, <1>4, TopPushed
<1> QED BY <1>5 DEF l

\* A scope ends with the activation that opened it.
LEMMA ScopeClosed ==
  ASSUME IInv, status = "running", NEW gs, gs = LeaveScope(Top.at)
  PROVE  \A f \in 1 .. Len(gs) : \A h \in 1 .. Len(gs[f]) : frames[f][h] \subseteq gs[f][h]
<1> DEFINE m == Len(frames)
           s == frames[m]
           t == SubSeq(s, 1, Len(s) - 1)
<1>1. /\ frames \in Seq(Seq(SUBSET Var)) /\ m \in Nat /\ m \in 1 .. m
      /\ s \in Seq(SUBSET Var) /\ Len(s) \in Nat /\ Top.at.frame = m
  BY Standpoint, LenProperties
<1>2. s # <<>> BY ScopeThere
<1>3. t = ButLast(s) BY DEF ButLast
<1>4. Len(t) = Len(s) - 1 /\ \A h \in 1 .. Len(s) - 1 : t[h] = s[h] BY <1>1, <1>2, <1>3, ButLastOf
<1>5. gs = [frames EXCEPT ![m] = t] BY <1>1 DEF LeaveScope
<1> HIDE DEF t
<1>6. Len(gs) = m /\ \A f \in 1 .. m : gs[f] = IF f = m THEN t ELSE frames[f] BY <1>1, <1>5
<1> QED BY <1>4, <1>6

LEMMA PopProvided ==
  ASSUME IInv, status = "running", Outer(ctrl, frames), Coming(Top) = {},
         NEW b, b = ButLast(ctrl), NEW gs, NEW d, Good(b, gs, d),
         \A f \in 1 .. Len(gs) : \A h \in 1 .. Len(gs[f]) : frames[f][h] \subseteq gs[f][h]
  PROVE  Provided(b, gs)
<1>1. ctrl \in Seq(Level) /\ ctrl # <<>> BY Standpoint DEF IInv, Good
<1>2. \A i \in 1 .. Len(b) : VarsIn(frames, b[i].at) \subseteq VarsIn(gs, b[i].at) BY VarsKept
<1>3. Coming(ctrl[Len(ctrl)]) = {} BY DEF Top
<1> QED BY <1>1, <1>2, <1>3, ProvidedPop
----------------------------------------------------------------------------
\* What each kind of step does to what the activations find.
LEMMA BlockProvides ==
  ASSUME IInv, JumpInv, Chained(ctrl, prog), Provided(ctrl, frames), BlockStep
  PROVE  Provided(ctrl', frames')
<1> DEFINE l == Stepped[Len(Stepped)]
<1>1. CASE ExecuteExpression
  <2>1. AtNode({"infix", "return", "decl"}) BY <1>1 DEF ExecuteExpression
  <2>2. /\ Outer(Stepped, frames) /\ l.at = Here /\ status = "running"
        /\ Stepped \in Seq(Level) /\ Stepped # <<>>
        /\ TheNode \in Node /\ TheNode.kind \in {"infix", "return", "decl"}
        /\ Free[TheNode] \subseteq VarsIn(frames, Here)
        /\ Needs(l) \subseteq VarsIn(frames, Here) \union {TheNode.var}
        /\ TheNode.kind # "decl" => Needs(l) \subseteq VarsIn(frames, Here)
    BY <2>1, NodeProvided
  <2>3. TheNode.expr \in Expression /\ TheNode.kind \in Goals /\ TheNode.var \in Var
    BY <2>2, NodeAssumption DEF Goals
  <2>4. Reads(TheNode.expr, 0) \subseteq VarsIn(frames, Here)
    <3>1. FreeInside(TheNode, Free) \subseteq Free[TheNode] BY <2>2, FreeParts
    <3> QED BY <2>2, <3>1, InsideParts
  <2>5. Needs(l) \subseteq VarsIn(frames, Here)
                             \union {v \in Var : TheNode.kind = "decl" /\ v = TheNode.var}
    BY <2>2, <2>3
  <2>6. Provided(Append(Stepped, Eval(TheNode, TheNode.expr, TheNode.kind, Here)), frames)
    BY <2>2, <2>3, <2>4, <2>5, EvalProvided
  <2> QED BY <1>1, <2>6 DEF ExecuteExpression
<1>2. CASE ExecuteDefaultDeclaration
  <2> DEFINE gs == AddVariable(TheNode.var)
             n == Len(Stepped)
  <2>1. AtNode({"decl"}) /\ ctrl' = Stepped /\ frames' = gs BY <1>2 DEF ExecuteDefaultDeclaration
  <2>2. /\ Outer(Stepped, frames) /\ l.at = Here /\ status = "running" /\ TheNode \in Node
        /\ Good(Stepped, frames, dirs)
        /\ Needs(l) \subseteq VarsIn(frames, Here) \union {TheNode.var}
    BY <2>1, NodeProvided
  <2>3. TheNode.var \in Var BY <2>2, NodeAssumption
  <2>4. /\ \A f \in 1 .. Len(frames) : \A h \in 1 .. Len(frames[f]) : frames[f][h] \subseteq gs[f][h]
        /\ TheNode.var \in VarsIn(gs, Here)
    BY <2>2, <2>3, VariableAdded, ScopeThere
  <2>5. Outer(Stepped, gs) /\ VarsIn(frames, Here) \subseteq VarsIn(gs, Here)
    BY <2>2, <2>4, Grown
  <2> QED BY <2>1, <2>2, <2>4, <2>5 DEF Provided
<1>3. CASE ExecuteImplicitReturn
  <2>1. AtNode({"implicit_return"}) /\ ctrl' = Stepped /\ frames' = frames
    BY <1>3 DEF ExecuteImplicitReturn
  <2> QED BY <2>1, NodeProvided
<1>4. CASE ExecuteBreak
  <2>1. AtNode({"break"}) /\ ctrl' = Stepped /\ frames' = frames BY <1>4 DEF ExecuteBreak
  <2> QED BY <2>1, NodeProvided
<1>5. CASE ExecuteBlock
  <2> DEFINE b == Block(TheNode.body, Inner)
  <2>1. AtNode({"block"}) /\ ctrl' = Append(Stepped, b) /\ frames' = EnterScope
    BY <1>5 DEF ExecuteBlock
  <2>2. /\ Outer(Stepped, frames) /\ l.at = Here /\ Stepped # <<>> /\ Good(Stepped, frames, dirs)
        /\ status = "running" /\ TheNode \in Node /\ TheNode.kind = "block"
        /\ Free[TheNode] \subseteq VarsIn(frames, Here)
        /\ Needs(l) \subseteq VarsIn(frames, Here)
    BY <2>1, NodeProvided
  <2>3. TheNode.body \in Seq(Node) BY <2>2, NodeAssumption
  <2>4. b \in Level /\ b.kind = "block" /\ b.at = Inner BY <2>2, <2>3, BlockTyped
  <2>5. b.nodes = TheNode.body /\ b.pc = 0 BY DEF Block
  <2> HIDE DEF b
  <2>6. Needs(b) \subseteq VarsIn(frames, Here)
    <3>1. FreeInside(TheNode, Free) \subseteq Free[TheNode] BY <2>2, FreeParts
    <3> QED BY <2>2, <2>4, <2>5, <3>1, InsideParts, NeedsOf
  <2> QED BY <2>1, <2>2, <2>4, <2>6, ScopeProvided
<1>6. CASE ExecuteOldScript
  <2>1. AtNode({"old_script"}) /\ ctrl' = Stepped /\ frames' = frames BY <1>6 DEF ExecuteOldScript
  <2> QED BY <2>1, NodeProvided
<1>7. CASE ExecuteIf
  <2> DEFINE branch == [kind |-> "if", node |-> TheNode, pc |-> 1, stage |-> "cond", at |-> Here]
             c == Append(Stepped, branch)
             part == TheNode.ifs[1]
  <2>1. AtNode({"if"}) /\ ctrl' = Append(c, Eval(TheNode, part.cond, "cond", Here)) /\ frames' = frames
    BY <1>7 DEF ExecuteIf
  <2>2. /\ Outer(Stepped, frames) /\ l.at = Here /\ Stepped # <<>> /\ Stepped \in Seq(Level)
        /\ status = "running" /\ TheNode \in Node /\ TheNode.kind = "if"
        /\ Free[TheNode] \subseteq VarsIn(frames, Here)
        /\ Needs(l) \subseteq VarsIn(frames, Here)
    BY <2>1, NodeProvided
  <2>3. part.cond \in Expression /\ 1 \in 1 .. Len(TheNode.ifs)
    <3>1. TheNode.ifs \in Seq(ConditionalNodes) /\ TheNode.ifs # <<>> BY <2>2, NodeAssumption
    <3>2. 1 \in 1 .. Len(TheNode.ifs) BY <3>1, NonEmpty, Positions
    <3>3. part \in ConditionalNodes BY <3>1, <3>2, ElementOfSeq
    <3> QED BY <3>2, <3>3 DEF ConditionalNodes
  <2>4. branch \in Level /\ branch.kind = "if" /\ branch.node = TheNode /\ branch.at = Here
    BY <2>2, <2>3, Standpoint DEF IfLevel, Stages, Level
  <2> HIDE DEF branch
  <2>5. Needs(branch) = Free[TheNode] BY <2>4, NeedsOf
  <2>6. Provided(c, frames) BY <2>2, <2>4, <2>5, TopPushed
  <2>7. c \in Seq(Level) /\ c # <<>> /\ c[Len(c)] = branch BY <2>2, <2>4, AppendProperties
  <2>8. Reads(part.cond, 0) \subseteq VarsIn(frames, Here)
    <3>1. FreeInside(TheNode, Free) \subseteq Free[TheNode] BY <2>2, FreeParts
    <3> QED BY <2>2, <2>3, <3>1, InsideParts
  <2>9. "cond" \in Goals BY DEF Goals
  <2> HIDE DEF c, part
  <2> QED BY <2>1, <2>2, <2>3, <2>4, <2>5, <2>6, <2>7, <2>8, <2>9, EvalProvided DEF Provided
<1>8. CASE ExecuteWhile
  <2> DEFINE loop == [kind |-> "while", node |-> TheNode, stage |-> "cond", at |-> Here]
             c == Append(Stepped, loop)
  <2>1. /\ AtNode({"while"}) /\ frames' = frames
        /\ ctrl' = Append(c, Eval(TheNode, TheNode.expr, "cond", Here))
    BY <1>8 DEF ExecuteWhile
  <2>2. /\ Outer(Stepped, frames) /\ l.at = Here /\ Stepped # <<>> /\ Stepped \in Seq(Level)
        /\ status = "running" /\ TheNode \in Node /\ TheNode.kind = "while"
        /\ Free[TheNode] \subseteq VarsIn(frames, Here)
        /\ Needs(l) \subseteq VarsIn(frames, Here)
    BY <2>1, NodeProvided
  <2>3. TheNode.expr \in Expression BY <2>2, NodeAssumption
  <2>4. /\ loop \in Level /\ loop.kind = "while" /\ loop.node = TheNode /\ loop.at = Here
        /\ loop.stage = "cond"
    BY <2>2, Standpoint DEF LoopLevel, Stages, Level
  <2> HIDE DEF loop
  <2>5. Needs(loop) = FreeInside(TheNode, Free) BY <2>4, NeedsOf DEF Loops
  <2>6. FreeInside(TheNode, Free) \subseteq VarsIn(frames, Here) BY <2>2, FreeParts
  <2>7. Provided(c, frames) BY <2>2, <2>4, <2>5, <2>6, TopPushed
  <2>8. c \in Seq(Level) /\ c # <<>> /\ c[Len(c)] = loop BY <2>2, <2>4, AppendProperties
  <2>9. Reads(TheNode.expr, 0) \subseteq VarsIn(frames, Here) BY <2>6, InsideParts
  <2>10. "cond" \in Goals BY DEF Goals
  <2> HIDE DEF c
  <2> QED BY <2>1, <2>2, <2>3, <2>4, <2>5, <2>6, <2>7, <2>8, <2>9, <2>10, EvalProvided DEF Provided
<1>9. CASE ExecuteFor
  <2> DEFINE loop == [kind |-> "for", node |-> TheNode, stage |-> "init", at |-> Inner]
  <2>1. AtNode({"for"}) /\ ctrl' = Append(Stepped, loop) /\ frames' = EnterScope
    BY <1>9 DEF ExecuteFor
  <2>2. /\ Outer(Stepped, frames) /\ l.at = Here /\ Stepped # <<>> /\ Good(Stepped, frames, dirs)
        /\ status = "running" /\ TheNode \in Node /\ TheNode.kind = "for"
        /\ Free[TheNode] \subseteq VarsIn(frames, Here)
        /\ Needs(l) \subseteq VarsIn(frames, Here)
    BY <2>1, NodeProvided
  <2>3. /\ loop \in Level /\ loop.kind = "for" /\ loop.node = TheNode /\ loop.at = Inner
        /\ loop.stage = "init"
    BY <2>2, InnerTyped DEF LoopLevel, Stages, Level
  <2> HIDE DEF loop
  <2>4. Needs(loop) = Free[TheNode] BY <2>3, NeedsOf DEF Loops
  <2> QED BY <2>1, <2>2, <2>3, <2>4, ScopeProvided
<1>10. CASE LeaveBlock
  <2>1. /\ status = "running" /\ Top.kind = "block"
        /\ ctrl' = ButLast(ctrl) /\ frames' = LeaveScope(Top.at)
    BY <1>10 DEF LeaveBlock, Running, Below, ButLast
  <2>2. Good(ctrl', frames', dirs')
    <3>1. IInv' BY BlockSteps
    <3> QED BY <3>1 DEF IInv
  <2>3. Coming(Top) = {} BY <2>1, NeedsOf
  <2>4. Outer(ctrl, frames) BY DEF Provided
  <2>5. \A f \in 1 .. Len(frames') : \A h \in 1 .. Len(frames'[f]) : frames[f][h] \subseteq frames'[f][h]
    BY <2>1, ScopeClosed
  <2> QED BY <2>1, <2>2, <2>3, <2>4, <2>5, PopProvided
<1> QED BY <1>1, <1>2, <1>3, <1>4, <1>5, <1>6, <1>7, <1>8, <1>9, <1>10 DEF BlockStep

\* An operation is done with.
LEMMA OperationProvided ==
  ASSUME IInv, JumpInv, Chained(ctrl, prog), Provided(ctrl, frames), NEW ops, AtOperation(ops)
  PROVE  LET l == Advanced[Len(Advanced)]
         IN /\ Provided(Advanced, frames) /\ Outer(Advanced, frames)
            /\ Advanced \in Seq(Level) /\ Advanced # <<>> /\ Good(Advanced, frames, dirs)
            /\ status = "running" /\ Operand \in Operation /\ Operand.op \in ops
            /\ l.at = Here /\ Needs(l) \subseteq VarsIn(frames, Here)
            /\ Operand.op = "use" => Operand.var \in VarsIn(frames, Here)
<1> DEFINE l == Advanced[Len(Advanced)]
<1>1. /\ status = "running" /\ Operand \in Operation /\ Operand.op \in ops
      /\ Advanced \in Seq(Level) /\ Advanced # <<>>
      /\ Top \in EvalLevel /\ Top.pc + 1 \in 1 .. Len(Top.expr) /\ Operand = Top.expr[Top.pc + 1]
      /\ Advanced = LastIs(ctrl, l)
      /\ l.kind = "eval" /\ l.expr = Top.expr /\ l.pc = Top.pc + 1
      /\ l.goal = Top.goal /\ l.node = Top.node /\ l.at = Here
  BY OperationGoesOn
<1>2. Good(Advanced, frames, dirs) BY OperationStep
<1>3. Top.kind = "eval" /\ Top.expr \in Expression /\ Top.pc \in Nat BY <1>1 DEF EvalLevel
<1> HIDE DEF l
<1>4. ctrl \in Seq(Level) /\ ctrl # <<>> /\ Top.at = Here BY <1>1, Straight, Standpoint
<1>5. Outer(ctrl, frames) /\ Needs(Top) \subseteq VarsIn(frames, Here)
  BY <1>4 DEF Provided, Top
<1>6. Needs(Top) = Reads(Top.expr, Top.pc) /\ Needs(l) = Reads(Top.expr, Top.pc + 1)
  BY <1>1, <1>3, NeedsOf
<1>7. Coming(l) = Coming(ctrl[Len(ctrl)]) BY <1>1, <1>3 DEF Coming, Top
<1>8. Needs(l) \subseteq Needs(Top) /\ (Operand.op = "use" => Operand.var \in Needs(Top))
  BY <1>1, <1>3, <1>6, ReadsGoOn
<1>9. Provided(Advanced, frames) BY <1>1, <1>4, <1>5, <1>7, <1>8, TopReplaced
<1> QED BY <1>1, <1>2, <1>5, <1>8, <1>9 DEF l, Provided

LEMMA CallProvides ==
  ASSUME IInv, JumpInv, Chained(ctrl, prog), Provided(ctrl, frames), AtOperation(CallOps)
  PROVE  Provided(Append(Append(Advanced, Called(Operand.op, Len(frames) + 1)),
                         Body(Operand.fun, Len(frames) + 1)), Append(frames, << {}, {} >>))
<1> DEFINE a == Called(Operand.op, Len(frames) + 1)
           b == Body(Operand.fun, Len(frames) + 1)
           gs == Append(frames, << {}, {} >>)
           c == Append(Advanced, a)
<1>1. /\ status = "running" /\ Operand \in Operation /\ Operand.op \in CallOps
      /\ Advanced \in Seq(Level) /\ Advanced # <<>> /\ Good(Advanced, frames, dirs)
      /\ Outer(Advanced, frames) /\ Advanced[Len(Advanced)].at = Here
      /\ Needs(Advanced[Len(Advanced)]) \subseteq VarsIn(frames, Here)
  BY OperationProvided
<1>2. frames \in Seq(Seq(SUBSET Var)) /\ Len(frames) + 1 \in Nat BY <1>1, Standpoint
<1>3. \A f \in 1 .. Len(frames) : \A h \in 1 .. Len(frames[f]) : frames[f][h] \subseteq gs[f][h]
  BY <1>2, AppendProperties
<1>4. Outer(Advanced, gs) /\ VarsIn(frames, Here) \subseteq VarsIn(gs, Here) BY <1>1, <1>3, Grown
<1>5. a \in Level /\ a.kind \in CallOps BY <1>1, <1>2 DEF Called, Level, CallLevel, Where
<1>6. Operand.fun \in Fun /\ prog \in Programs BY <1>1 DEF Operation, CallOps, IInv, Flags
<1>7. prog[Operand.fun] \in Seq(Node) BY <1>6, ProgramAssumption
<1>8. b \in Level /\ b.kind = "block" /\ b.nodes = prog[Operand.fun] /\ b.pc = 0
  BY <1>2, <1>7 DEF Body, Block, Level, BlockLevel, Where
<1> HIDE DEF a, b, gs
<1>9. Needs(a) = {} BY <1>5, NeedsOf
<1>10. Needs(b) = {} BY <1>6, <1>8, NeedsOf, ScopeAssumption
<1>11. Provided(c, gs) BY <1>1, <1>4, <1>5, <1>9, TopPushed
<1>12. c \in Seq(Level) /\ c # <<>> /\ c[Len(c)] = a BY <1>1, <1>5, AppendProperties
<1> HIDE DEF c
<1>13. Provided(Append(c, b), gs) BY <1>8, <1>9, <1>10, <1>11, <1>12, TopPushed DEF Provided
<1> QED BY <1>13 DEF a, b, c, gs

LEMMA EvalProvides ==
  ASSUME IInv, JumpInv, Chained(ctrl, prog), Provided(ctrl, frames), ~fatal, EvalStep
  PROVE  Provided(ctrl', frames')
<1>a. Running({"eval"}) =>
        /\ status = "running" /\ Top \in EvalLevel /\ Top.kind = "eval" /\ Outer(ctrl, frames)
        /\ ctrl \in Seq(Level) /\ ctrl # <<>> /\ Below = ButLast(ctrl)
        /\ Good(Below, frames, dirs) /\ Below \in Seq(Level) /\ Below # <<>>
        /\ Len(Below) \in 1 .. Len(Below)
        /\ Below[Len(Below)].at = Here
  <2> SUFFICES ASSUME Running({"eval"})
               PROVE  /\ status = "running" /\ Top \in EvalLevel /\ Top.kind = "eval"
                      /\ Outer(ctrl, frames)
                      /\ ctrl \in Seq(Level) /\ ctrl # <<>> /\ Below = ButLast(ctrl)
                      /\ Good(Below, frames, dirs) /\ Below \in Seq(Level) /\ Below # <<>>
                      /\ Len(Below) \in 1 .. Len(Below)
                      /\ Below[Len(Below)].at = Here
    OBVIOUS
  <2>1. status = "running" /\ Top.kind = "eval" BY DEF Running
  <2>2. ctrl \in Seq(Level) /\ ctrl # <<>> BY <2>1, Straight
  <2>3. Good(Below, frames, dirs) /\ Below # <<>> /\ Top \in EvalLevel BY EvalEnds
  <2>4. Below \in Seq(Level) /\ Below[Len(Below)].at = Here BY <2>3 DEF Good, OnTop, Here
  <2> QED BY <2>1, <2>2, <2>3, <2>4, NonEmpty, Positions DEF Provided, Below, ButLast
<1>b. ASSUME Running({"eval"}), Top.goal # "decl" PROVE Provided(Below, frames)
  <2>1. Coming(Top) = {} BY <1>b DEF Coming
  <2>2. \A f \in 1 .. Len(frames) : \A h \in 1 .. Len(frames[f]) : frames[f][h] \subseteq frames[f][h]
    OBVIOUS
  <2> QED BY <1>a, <1>b, <2>1, <2>2, PopProvided
<1>1. CASE EvaluateUse
  <2>1. AtOperation({"use"}) /\ ctrl' = Advanced /\ frames' = frames BY <1>1 DEF EvaluateUse
  <2> QED BY <2>1, OperationProvided
<1>2. CASE EvaluateBuiltin
  <2>1. AtOperation({"builtin"}) /\ ctrl' = Advanced /\ frames' = frames BY <1>2 DEF EvaluateBuiltin
  <2> QED BY <2>1, OperationProvided
<1>3. CASE EvaluateFatal
  <2>1. AtOperation({"fatal"}) /\ ctrl' = Advanced /\ frames' = frames BY <1>3 DEF EvaluateFatal
  <2> QED BY <2>1, OperationProvided
<1>4. CASE EvaluateComponent
  <2>1. AtOperation({"component"}) /\ ctrl' = Advanced /\ frames' = frames
    BY <1>4 DEF EvaluateComponent
  <2> QED BY <2>1, OperationProvided
<1>5. CASE EvaluateCall
  <2>1. CASE Len(frames) < MaxFrames
    <3>1. /\ AtOperation(CallOps) /\ frames' = Append(frames, << {}, {} >>)
          /\ ctrl' = Append(Append(Advanced, Called(Operand.op, Len(frames) + 1)),
                            Body(Operand.fun, Len(frames) + 1))
      BY <1>5, <2>1 DEF EvaluateCall
    <3> QED BY <3>1, CallProvides
  <2>2. CASE ~(Len(frames) < MaxFrames)
    <3>1. ctrl' = ctrl /\ frames' = frames BY <1>5, <2>2 DEF EvaluateCall
    <3> QED BY <3>1
  <2> QED BY <2>1, <2>2
<1>6. CASE SkipCall
  <2>1. AtOperation(CallOps \union {"builtin", "fatal"}) /\ ctrl' = Advanced /\ frames' = frames
    BY <1>6 DEF SkipCall
  <2> QED BY <2>1, OperationProvided
<1>7. CASE EvaluateUnary
  <2>1. AtOperation({"unary"}) /\ ctrl' = Advanced /\ frames' = frames BY <1>7 DEF EvaluateUnary
  <2> QED BY <2>1, OperationProvided
<1>8. CASE EndInfix
  <2>1. Running({"eval"}) /\ Top.goal # "decl" /\ ctrl' = Below /\ frames' = frames
    BY <1>8 DEF EndInfix
  <2> QED BY <2>1, <1>b
<1>9. CASE EndReturn
  <2>1. Running({"eval"}) /\ Top.goal # "decl" /\ ctrl' = Below /\ frames' = frames
    BY <1>9 DEF EndReturn
  <2> QED BY <2>1, <1>b
<1>10. CASE EndDeclaration
  <2> DEFINE v == Top.node.var
             gs == AddVariable(v)
  <2>1. Running({"eval"}) /\ ctrl' = Below /\ frames' = gs BY <1>10 DEF EndDeclaration
  <2>2. v \in Var BY <2>1, <1>a, NodeAssumption DEF EvalLevel
  <2>3. /\ \A f \in 1 .. Len(frames) : \A h \in 1 .. Len(frames[f]) : frames[f][h] \subseteq gs[f][h]
        /\ v \in VarsIn(gs, Here)
    BY <2>1, <2>2, <1>a, VariableAdded, ScopeThere
  <2>4. \A i \in 1 .. Len(Below) : VarsIn(frames, Below[i].at) \subseteq VarsIn(gs, Below[i].at)
    <3> HIDE DEF gs
    <3>1. Good(Below, frames, dirs) BY <2>1, <1>a
    <3> QED BY <2>3, <3>1, VarsKept
  <2>5. Coming(ctrl[Len(ctrl)]) \subseteq {v} BY DEF Coming, Top
  <2> HIDE DEF gs, v
  <2> QED BY <2>1, <2>3, <2>4, <2>5, <1>a, ProvidedPop
<1>11. CASE EndCondition
  <2> DEFINE o == Below[Len(Below)]
  <2>1. /\ Running({"eval"}) /\ Top.goal = "cond" /\ frames' = frames
    BY <1>11 DEF EndCondition
  <2>2. PICK value \in {"true", "false"} :
          ctrl' = [Below EXCEPT ![Len(Below)] = [@ EXCEPT !.stage = value]]
    BY <1>11 DEF EndCondition
  <2> DEFINE l == [o EXCEPT !.stage = value]
  <2>3. o \in IfLevel \union LoopLevel BY <2>1, EvalEnds, LevelKinds
  <2>4. /\ l.kind = o.kind /\ l.node = o.node /\ l.at = o.at /\ l.stage = value
        /\ o.kind \in Loops \union {"if"}
    BY <2>3 DEF IfLevel, LoopLevel, Loops
  <2>5. ctrl' = LastIs(Below, l) BY <2>2 DEF LastIs
  <2> HIDE DEF l
  <2>6. Provided(Below, frames) BY <2>1, <1>b
  <2>7. Outer(Below, frames) /\ Needs(o) \subseteq VarsIn(frames, o.at)
    BY <2>1, <2>6, <1>a DEF Provided
  <2>8. o.kind \in Loops => o.stage # "init"
    <3>1. /\ Len(Below) = Len(ctrl) - 1 /\ Len(ctrl) \in Nat
          /\ \A i \in 1 .. Len(ctrl) - 1 : Below[i] = ctrl[i]
      BY <2>1, <1>a, ButLastOf
    <3>2. Len(ctrl) - 1 \in 1 .. Len(ctrl) - 1 BY <2>1, <1>a, <3>1
    <3>3. Waits(ctrl[Len(ctrl) - 1], ctrl[Len(ctrl) - 1 + 1]) BY <3>2 DEF Chained
    <3> QED BY <3>1, <3>2, <3>3 DEF Waits
  <2>9. Needs(l) = Needs(o) /\ Coming(l) = {} /\ Coming(o) = {}
    BY <2>2, <2>4, <2>8, NeedsOf DEF Loops
  <2> QED BY <2>1, <2>4, <2>5, <2>7, <2>9, <1>a, TopReplaced
<1> QED BY <1>1, <1>2, <1>3, <1>4, <1>5, <1>6, <1>7, <1>8, <1>9, <1>10, <1>11 DEF EvalStep

\* A branch or a loop goes on.
LEMMA StageProvided ==
  ASSUME IInv, JumpInv, Chained(ctrl, prog), Provided(ctrl, frames),
         Running(Loops \union {"if"}), NEW stage \in Stages
  PROVE  LET c == Stage(stage)
             l == [Top EXCEPT !.stage = stage]
         IN /\ Outer(c, frames) /\ c \in Seq(Level) /\ c # <<>> /\ Good(c, frames, dirs)
            /\ c[Len(c)] = l /\ l.at = Here /\ l.kind = Top.kind /\ l.node = Top.node /\ l.stage = stage
            /\ status = "running" /\ Top.node \in Node /\ Top.node.kind = Top.kind /\ Top.at = Here
            /\ Needs(Top) \subseteq VarsIn(frames, Here)
            /\ Needs(l) \subseteq VarsIn(frames, Here) => Provided(c, frames)
<1> DEFINE c == Stage(stage)
           l == [Top EXCEPT !.stage = stage]
<1>1. /\ status = "running" /\ c \in Seq(Level) /\ c # <<>>
      /\ c = LastIs(ctrl, l) /\ c[Len(c)] = l
      /\ l.kind = Top.kind /\ l.node = Top.node /\ l.stage = stage /\ l.at = Here
      /\ Top.node \in Node /\ Top.node.kind = Top.kind
  BY StageGoesOn
<1>2. Good(c, frames, dirs) BY StageStep
<1>3. Top.kind \in Loops \union {"if"} BY DEF Running
<1> HIDE DEF c, l
<1>4. ctrl \in Seq(Level) /\ ctrl # <<>> /\ Top.at = Here BY <1>1, Straight, Standpoint
<1>5. Outer(ctrl, frames) /\ Needs(Top) \subseteq VarsIn(frames, Here)
  BY <1>4 DEF Provided, Top
<1>6. Coming(l) = Coming(ctrl[Len(ctrl)]) BY <1>1, <1>3, NeedsOf DEF Top, Loops
<1>7. Outer(c, frames) BY <1>1, <1>4, <1>5, <1>6, OuterReplace
<1>8. Needs(l) \subseteq VarsIn(frames, Here) => Provided(c, frames)
  BY <1>1, <1>4, <1>5, <1>6, TopReplaced
<1> QED BY <1>1, <1>2, <1>4, <1>5, <1>7, <1>8 DEF c, l

\* A body is started.
LEMMA BodyProvided ==
  ASSUME IInv, status = "running", NEW c, Good(c, frames, dirs), c # <<>>, Outer(c, frames),
         c[Len(c)].at = Here, Needs(c[Len(c)]) \subseteq VarsIn(frames, Here),
         NEW body \in Seq(Node), FreeFrom(body, 0, Free) \subseteq VarsIn(frames, Here)
  PROVE  Provided(Append(c, Block(body, Inner)), EnterScope)
<1> DEFINE b == Block(body, Inner)
<1>1. b \in Level /\ b.kind = "block" /\ b.at = Inner BY BlockTyped
<1>2. b.nodes = body /\ b.pc = 0 BY DEF Block
<1> HIDE DEF b
<1>3. Needs(b) \subseteq VarsIn(frames, Here) BY <1>1, <1>2, NeedsOf
<1>4. Provided(Append(c, b), EnterScope) BY <1>1, <1>3, ScopeProvided
<1> QED BY <1>4 DEF b

LEMMA BranchProvides ==
  ASSUME IInv, JumpInv, Chained(ctrl, prog), Provided(ctrl, frames), BranchStep
  PROVE  Provided(ctrl', frames')
<1>1. CASE NullCondition BY <1>1 DEF NullCondition
<1>2. CASE IfBody
  <2> DEFINE body == IF Top.stage = "true" THEN Top.node.ifs[Top.pc].body ELSE Top.node.body
             c == Stage("body")
             l == c[Len(c)]
  <2>1. /\ status = "running" /\ Top.kind = "if" /\ Running(Loops \union {"if"})
        /\ ctrl' = Append(c, Block(body, Inner)) /\ frames' = EnterScope
    BY <1>2 DEF IfBody, AtStage, Running
  <2>2. "body" \in Stages BY DEF Stages
  <2>3. /\ Outer(c, frames) /\ c # <<>> /\ Good(c, frames, dirs)
        /\ l.at = Here /\ l.kind = "if" /\ l.node = Top.node
        /\ Top.node \in Node /\ Top.node.kind = "if" /\ Needs(Top) \subseteq VarsIn(frames, Here)
    BY <2>1, <2>2, StageProvided
  <2>4. Top.pc \in 1 .. Len(Top.node.ifs)
    <3>1. Top \in IfLevel BY <2>1, Straight, LevelKinds
    <3> QED BY <3>1 DEF IfLevel
  <2>5. body \in Seq(Node)
    <3>1. Top.node.ifs \in Seq(ConditionalNodes) /\ Top.node.body \in Seq(Node)
      BY <2>3, NodeAssumption
    <3>2. Top.node.ifs[Top.pc] \in ConditionalNodes BY <2>4, <3>1, ElementOfSeq
    <3> QED BY <3>1, <3>2 DEF ConditionalNodes
  <2>6. Needs(Top) = Free[Top.node] BY <2>1, NeedsOf
  <2>7. FreeInside(Top.node, Free) \subseteq VarsIn(frames, Here) BY <2>3, <2>6, FreeParts
  <2>8. FreeFrom(body, 0, Free) \subseteq VarsIn(frames, Here) BY <2>4, <2>7, InsideParts
  <2> HIDE DEF c, body
  <2>9. Needs(l) \subseteq VarsIn(frames, Here)
    <3>1. Needs(l) = Free[l.node] BY <2>3, NeedsOf
    <3> QED BY <3>1, <2>3, <2>6
  <2> QED BY <2>1, <2>3, <2>5, <2>8, <2>9, BodyProvided
<1>3. CASE ElseIf
  <2> DEFINE l == [Top EXCEPT !.stage = "cond", !.pc = @ + 1]
             c == Replaced(l)
             part == Top.node.ifs[Top.pc + 1]
  <2>1. /\ status = "running" /\ Top.kind = "if" /\ Top.pc < Len(Top.node.ifs)
        /\ Running(Loops \union {"if"}) /\ frames' = frames
        /\ ctrl' = Append(c, Eval(Top.node, part.cond, "cond", Here))
    BY <1>3 DEF ElseIf, AtStage, Running
  <2>2. /\ Top \in IfLevel /\ Top.node \in Node /\ Top.pc \in Nat /\ Top.at = Here
        /\ Top.node.kind = "if" /\ ctrl \in Seq(Level) /\ ctrl # <<>>
    <3>1. Top \in IfLevel BY <2>1, Straight, LevelKinds
    <3>2. "body" \in Stages BY DEF Stages
    <3> QED BY <2>1, <3>1, <3>2, Straight, StageProvided DEF IfLevel
  <2>3. Top.pc + 1 \in 1 .. Len(Top.node.ifs) /\ part.cond \in Expression
    <3>1. Top.node.ifs \in Seq(ConditionalNodes) BY <2>2, NodeAssumption
    <3>2. Top.pc + 1 \in 1 .. Len(Top.node.ifs) BY <2>1, <2>2, <3>1, LenProperties
    <3>3. part \in ConditionalNodes BY <3>1, <3>2, ElementOfSeq
    <3> QED BY <3>2, <3>3 DEF ConditionalNodes
  <2>4. l \in IfLevel /\ l.kind = "if" /\ l.at = Here /\ l.node = Top.node
    <3>1. l = [Top EXCEPT !.stage = "cond", !.pc = @ + 1] OBVIOUS
    <3>2. l.node = Top.node BY <2>2 DEF IfLevel
    <3> HIDE DEF l
    <3> QED BY <3>1, <3>2, <2>1, <2>2, <2>3, NextBranch
  <2>5. c = LastIs(ctrl, l) BY DEF Replaced, LastIs
  <2> HIDE DEF l, c
  <2>6. /\ c \in Seq(Level) /\ c # <<>> /\ c[Len(c)] = l
    BY <2>1, <2>4, <2>5, BranchGoesOn
  <2>7. Outer(ctrl, frames) /\ Needs(Top) \subseteq VarsIn(frames, Here)
    BY <2>2 DEF Provided, Top
  <2>8. Needs(Top) = Free[Top.node] /\ Needs(l) = Free[Top.node] /\ Coming(Top) = {} /\ Coming(l) = {}
    BY <2>1, <2>4, NeedsOf
  <2>9. Outer(c, frames) BY <2>2, <2>5, <2>7, <2>8, OuterReplace DEF Top
  <2>10. FreeInside(Top.node, Free) \subseteq VarsIn(frames, Here) BY <2>2, <2>7, <2>8, FreeParts
  <2>11. Reads(part.cond, 0) \subseteq VarsIn(frames, Here) BY <2>3, <2>10, InsideParts
  <2>12. "cond" \in Goals BY DEF Goals
  <2> HIDE DEF part
  <2> QED BY <2>1, <2>2, <2>3, <2>4, <2>6, <2>7, <2>8, <2>9, <2>11, <2>12, EvalProvided
<1>4. CASE LeaveIf
  <2>1. status = "running" /\ Top.kind = "if" /\ ctrl' = ButLast(ctrl) /\ frames' = frames
    BY <1>4 DEF LeaveIf, AtStage, Running, Below, ButLast
  <2>2. Good(ctrl', frames', dirs')
    <3>1. IInv' BY BranchSteps
    <3> QED BY <3>1 DEF IInv
  <2>3. Coming(Top) = {} BY <2>1, NeedsOf
  <2>4. Outer(ctrl, frames) BY DEF Provided
  <2> QED BY <2>1, <2>2, <2>3, <2>4, PopProvided
<1> QED BY <1>1, <1>2, <1>3, <1>4 DEF BranchStep

LEMMA ConditionProvided ==
  ASSUME IInv, JumpInv, Chained(ctrl, prog), Provided(ctrl, frames), Running(Loops), CheckCondition,
         FreeInside(Top.node, Free) \subseteq VarsIn(frames, Here)
  PROVE  Provided(ctrl', frames)
<1>1. Running(Loops \union {"if"}) /\ Top.kind \in Loops BY DEF Running
<1>2. CASE Top.kind = "for" /\ ~Top.node.hasExpr
  <2> DEFINE l == [Top EXCEPT !.stage = "true"]
  <2>1. ctrl' = Stage("true") BY <1>2 DEF CheckCondition
  <2>2. "true" \in Stages BY DEF Stages
  <2>3. /\ l.kind = Top.kind /\ l.node = Top.node /\ l.stage = "true"
        /\ Needs(l) \subseteq VarsIn(frames, Here) => Provided(Stage("true"), frames)
    BY <1>1, <2>2, StageProvided
  <2> HIDE DEF l
  <2>4. Needs(l) = FreeInside(l.node, Free) BY <1>1, <2>3, NeedsOf
  <2> QED BY <2>1, <2>3, <2>4
<1>3. CASE ~(Top.kind = "for" /\ ~Top.node.hasExpr)
  <2> DEFINE c == Stage("cond")
             l == c[Len(c)]
  <2>1. ctrl' = Append(c, Eval(Top.node, Top.node.expr, "cond", Here))
    BY <1>3 DEF CheckCondition
  <2>2. "cond" \in Stages /\ "cond" \in Goals BY DEF Stages, Goals
  <2>3. /\ status = "running" /\ Outer(c, frames) /\ c \in Seq(Level) /\ c # <<>>
        /\ l.at = Here /\ l.kind = Top.kind /\ l.node = Top.node /\ l.stage = "cond"
        /\ Top.node \in Node
    BY <1>1, <2>2, StageProvided
  <2>4. Top.node.expr \in Expression BY <2>3, NodeAssumption
  <2>5. Reads(Top.node.expr, 0) \subseteq VarsIn(frames, Here) BY InsideParts
  <2> HIDE DEF c
  <2>6. Needs(l) \subseteq VarsIn(frames, Here)
    <3>1. Needs(l) = FreeInside(l.node, Free) BY <1>1, <2>3, NeedsOf
    <3> QED BY <3>1, <2>3
  <2> QED BY <2>1, <2>2, <2>3, <2>4, <2>5, <2>6, EvalProvided
<1> QED BY <1>2, <1>3

LEMMA LoopProvides ==
  ASSUME IInv, JumpInv, Chained(ctrl, prog), Provided(ctrl, frames), LoopStep
  PROVE  Provided(ctrl', frames')
<1>a. ASSUME Running(Loops)
      PROVE  /\ status = "running" /\ Top.kind \in Loops /\ Running(Loops \union {"if"})
             /\ Outer(ctrl, frames) /\ Needs(Top) \subseteq VarsIn(frames, Here)
             /\ Top.node \in Node /\ Top.node.kind = Top.kind
             /\ Top.stage = "init" => Needs(Top) = Free[Top.node]
             /\ Top.stage # "init" => Needs(Top) = FreeInside(Top.node, Free)
  <2>1. status = "running" /\ Top.kind \in Loops /\ Running(Loops \union {"if"})
    BY <1>a DEF Running
  <2>2. "body" \in Stages BY DEF Stages
  <2>3. /\ Needs(Top) \subseteq VarsIn(frames, Here)
        /\ Top.node \in Node /\ Top.node.kind = Top.kind
    BY <2>1, <2>2, StageProvided
  <2> QED BY <2>1, <2>3, NeedsOf DEF Provided
<1>b. ASSUME Running(Loops), ctrl' = Below, Good(ctrl', frames', dirs'),
             \/ frames' = frames
             \/ frames' = LeaveScope(Top.at)
      PROVE  Provided(ctrl', frames')
  <2>1. status = "running" /\ Top.kind \in Loops /\ Outer(ctrl, frames) BY <1>a, <1>b
  <2>2. Coming(Top) = {} BY <2>1, NeedsOf DEF Loops
  <2>3. ctrl' = ButLast(ctrl) BY <1>b DEF Below, ButLast
  <2>4. \A f \in 1 .. Len(frames') : \A h \in 1 .. Len(frames'[f]) : frames[f][h] \subseteq frames'[f][h]
    <3>1. CASE frames' = frames BY <3>1
    <3>2. CASE frames' = LeaveScope(Top.at) BY <2>1, <3>2, ScopeClosed
    <3> QED BY <3>1, <3>2, <1>b
  <2> QED BY <1>b, <2>1, <2>2, <2>3, <2>4, PopProvided
<1>c. Good(ctrl', frames', dirs')
  <2>1. IInv' BY LoopSteps
  <2> QED BY <2>1 DEF IInv
<1>1. CASE ForInit
  <2> DEFINE n == Top.node.init[1]
             c == Stage("iteration")
             l == c[Len(c)]
  <2>1. /\ Running(Loops) /\ Top.node.init # <<>> /\ Top.stage = "init" /\ Top.kind = "for"
        /\ IF n.kind = "decl" /\ ~n.hasExpr
           THEN ctrl' = c /\ frames' = AddVariable(n.var)
           ELSE ctrl' = Append(c, Eval(n, n.expr, n.kind, Here)) /\ frames' = frames
    BY <1>1 DEF ForInit, AtStage, Running, Loops
  <2>2. /\ Running(Loops \union {"if"}) /\ Top.kind \in Loops /\ Top.node \in Node
        /\ Free[Top.node] \subseteq VarsIn(frames, Here)
    BY <2>1, <1>a
  <2>3. "iteration" \in Stages BY DEF Stages
  <2>4. /\ status = "running" /\ Outer(c, frames) /\ c \in Seq(Level) /\ c # <<>>
        /\ Good(c, frames, dirs)
        /\ l.at = Here /\ l.kind = Top.kind /\ l.node = Top.node /\ l.stage = "iteration"
    BY <2>2, <2>3, StageProvided
  <2> HIDE DEF c
  <2>5. Needs(l) = FreeInside(Top.node, Free)
    <3>1. Needs(l) = FreeInside(l.node, Free) BY <2>2, <2>4, NeedsOf
    <3> QED BY <3>1, <2>4
  <2>6. /\ n \in Node /\ n.kind \in {"infix", "decl"} /\ n.kind # "for"
        /\ Free[n] \subseteq VarsIn(frames, Here)
        /\ Needs(l) \subseteq VarsIn(frames, Here) \union {v \in Var : n.kind = "decl" /\ v = n.var}
    <3>1. /\ n \in Node /\ n.kind \in {"infix", "decl"} /\ n.kind # "for"
          /\ Free[n] \subseteq Free[Top.node]
          /\ FreeInside(Top.node, Free) \subseteq
               Free[Top.node] \union {v \in Var : n.kind = "decl" /\ v = n.var}
      BY <2>1, <2>2, InitParts
    <3> QED BY <3>1, <2>2, <2>5
  <2>7. n.expr \in Expression /\ n.kind \in Goals /\ n.var \in Var
    BY <2>6, NodeAssumption DEF Goals
  <2> HIDE DEF n
  <2>8. CASE n.kind = "decl" /\ ~n.hasExpr
    <3> DEFINE gs == AddVariable(n.var)
    <3>1. /\ \A f \in 1 .. Len(frames) : \A h \in 1 .. Len(frames[f]) : frames[f][h] \subseteq gs[f][h]
          /\ n.var \in VarsIn(gs, Here)
      BY <2>4, <2>7, VariableAdded, ScopeThere
    <3> HIDE DEF gs
    <3>2. Outer(c, gs) /\ VarsIn(frames, Here) \subseteq VarsIn(gs, Here)
      BY <2>4, <3>1, Grown
    <3>3. Needs(l) \subseteq VarsIn(gs, Here) BY <2>6, <3>1, <3>2
    <3>4. ctrl' = c /\ frames' = gs BY <2>1, <2>8 DEF gs
    <3> QED BY <2>4, <3>2, <3>3, <3>4 DEF Provided
  <2>9. CASE ~(n.kind = "decl" /\ ~n.hasExpr)
    <3>1. Reads(n.expr, 0) \subseteq VarsIn(frames, Here)
      <4>1. FreeInside(n, Free) \subseteq Free[n] BY <2>6, FreeParts
      <4> QED BY <2>6, <4>1, InsideParts
    <3>2. Provided(Append(c, Eval(n, n.expr, n.kind, Here)), frames)
      BY <2>4, <2>6, <2>7, <3>1, EvalProvided
    <3> QED BY <2>1, <2>9, <3>2
  <2> QED BY <2>8, <2>9
<1>2. CASE ForCondition
  <2>1. /\ Running(Loops) /\ CheckCondition /\ frames' = frames
        /\ Top.stage = "iteration" \/ (Top.stage = "init" /\ Top.node.init = <<>>)
    BY <1>2 DEF ForCondition, AtStage, Running, Loops
  <2>2. FreeInside(Top.node, Free) \subseteq VarsIn(frames, Here)
    BY <2>1, <1>a, FreeParts
  <2> QED BY <2>1, <2>2, ConditionProvided
<1>3. CASE LoopBody
  <2> DEFINE c == Stage("body")
             l == c[Len(c)]
  <2>1. /\ Running(Loops) /\ Top.stage = "true"
        /\ ctrl' = Append(c, Block(Top.node.body, Inner)) /\ frames' = EnterScope
    BY <1>3 DEF LoopBody, AtStage
  <2>2. /\ Running(Loops \union {"if"}) /\ Top.kind \in Loops /\ Top.node \in Node
        /\ FreeInside(Top.node, Free) \subseteq VarsIn(frames, Here)
    BY <2>1, <1>a
  <2>3. "body" \in Stages BY DEF Stages
  <2>4. /\ status = "running" /\ Outer(c, frames) /\ c # <<>> /\ Good(c, frames, dirs)
        /\ l.at = Here /\ l.kind = Top.kind /\ l.node = Top.node /\ l.stage = "body"
    BY <2>2, <2>3, StageProvided
  <2>5. Top.node.body \in Seq(Node) BY <2>2, NodeAssumption
  <2>6. FreeFrom(Top.node.body, 0, Free) \subseteq VarsIn(frames, Here) BY <2>2, InsideParts
  <2> HIDE DEF c
  <2>7. Needs(l) \subseteq VarsIn(frames, Here)
    <3>1. Needs(l) = FreeInside(l.node, Free) BY <2>2, <2>4, NeedsOf
    <3> QED BY <3>1, <2>2, <2>4
  <2> QED BY <2>1, <2>4, <2>5, <2>6, <2>7, BodyProvided
<1>4. CASE LoopFalse
  <2>1. /\ Running(Loops) /\ ctrl' = Below
        /\ frames' = frames \/ frames' = LeaveScope(Top.at)
    BY <1>4 DEF LoopFalse, AtStage, EndLoop
  <2> QED BY <2>1, <1>b, <1>c
<1>5. CASE LeaveLoop
  <2>1. /\ Running(Loops) /\ ctrl' = Below
        /\ frames' = frames \/ frames' = LeaveScope(Top.at)
    BY <1>5 DEF LeaveLoop, AtStage, EndLoop
  <2> QED BY <2>1, <1>b, <1>c
<1>6. CASE LoopAgain
  <2>1. /\ Running(Loops) /\ Top.stage = "body" /\ frames' = frames
    BY <1>6 DEF LoopAgain, AtStage
  <2>2. /\ Running(Loops \union {"if"}) /\ Top.kind \in Loops /\ Top.node \in Node
        /\ FreeInside(Top.node, Free) \subseteq VarsIn(frames, Here)
    BY <2>1, <1>a
  <2>3. CASE Top.kind = "for" /\ Top.node.iteration # <<>>
    <3> DEFINE c == Stage("iteration")
               l == c[Len(c)]
    <3>1. ctrl' = Append(c, Eval(Top.node, Top.node.iteration, "infix", Here))
      BY <1>6, <2>3 DEF LoopAgain
    <3>2. "iteration" \in Stages /\ "infix" \in Goals BY DEF Stages, Goals
    <3>3. /\ status = "running" /\ Outer(c, frames) /\ c \in Seq(Level) /\ c # <<>>
          /\ l.at = Here /\ l.kind = Top.kind /\ l.node = Top.node /\ l.stage = "iteration"
      BY <2>2, <3>2, StageProvided
    <3>4. Top.node.iteration \in Expression BY <2>2, NodeAssumption
    <3>5. Reads(Top.node.iteration, 0) \subseteq VarsIn(frames, Here) BY <2>2, InsideParts
    <3> HIDE DEF c
    <3>6. Needs(l) \subseteq VarsIn(frames, Here)
      <4>1. Needs(l) = FreeInside(l.node, Free) BY <2>2, <3>3, NeedsOf
      <4> QED BY <4>1, <2>2, <3>3
    <3> QED BY <2>1, <2>2, <3>1, <3>2, <3>3, <3>4, <3>5, <3>6, EvalProvided
  <2>4. CASE ~(Top.kind = "for" /\ Top.node.iteration # <<>>)
    <3>1. CheckCondition BY <1>6, <2>4 DEF LoopAgain
    <3> QED BY <2>1, <2>2, <3>1, ConditionProvided
  <2> QED BY <2>3, <2>4
<1> QED BY <1>1, <1>2, <1>3, <1>4, <1>5, <1>6 DEF LoopStep

LEMMA ProvidedStep ==
  ASSUME IInv, JumpInv, Chained(ctrl, prog), Provided(ctrl, frames), ~fatal, Step
  PROVE  Provided(ctrl', frames')
<1>1. CASE LeaveFunction
  <2>1. /\ status = "running" /\ Top.kind \in CallOps
        /\ ctrl' = ButLast(ctrl) /\ frames' = ButLast(frames)
    BY <1>1 DEF LeaveFunction, Running, Below, ButLast
  <2>2. Good(ctrl', frames', dirs')
    <3>1. IInv' BY <1>1, LeaveFunctionStep
    <3> QED BY <3>1 DEF IInv
  <2>3. Coming(Top) = {} BY <2>1, NeedsOf DEF CallOps
  <2>4. Outer(ctrl, frames) BY DEF Provided
  <2>5. /\ Len(frames') = Len(frames) - 1
        /\ \A f \in 1 .. Len(frames) - 1 : frames'[f] = frames[f]
    BY <2>1, Standpoint, ButLastOf
  <2> QED BY <2>1, <2>2, <2>3, <2>4, <2>5, PopProvided
<1> QED BY <1>1, BlockProvides, EvalProvides, BranchProvides, LoopProvides DEF Step

LEMMA ProvidedInitially ==
  ASSUME Init
  PROVE  Provided(ctrl, frames)
<1> DEFINE a == Called("call", 1)
           b == Body(Main, 1)
           c == << a >>
<1>1. ctrl = Append(c, b) /\ prog \in Programs /\ prog[Main] \in Seq(Node)
  BY ProgramAssumption DEF Init
<1>2. a \in Level /\ a.kind \in CallOps BY DEF Called, Level, CallLevel, Where, CallOps
<1>3. b \in Level /\ b.kind = "block" /\ b.nodes = prog[Main] /\ b.pc = 0
  BY <1>1 DEF Body, Block, Level, BlockLevel, Where
<1> HIDE DEF a, b
<1>4. c \in Seq(Level) /\ Len(c) = 1 /\ c[1] = a /\ c # <<>> BY <1>2
<1> HIDE DEF c
<1>5. Outer(c, frames) BY <1>4 DEF Outer
<1>6. Needs(a) = {} BY <1>2, NeedsOf
<1>7. Needs(b) = {} BY <1>1, <1>3, NeedsOf, ScopeAssumption, ProgramAssumption
<1> QED BY <1>1, <1>3, <1>4, <1>5, <1>6, <1>7, TopPushed
----------------------------------------------------------------------------
\* After a fatal error every activation is one that is going to end: it has
\* nothing to do but to look at the flag.
Stopping(l) ==
  /\ l.kind = "block" => l.pc > 0
  /\ l.kind = "eval" => /\ l.pc > 0 /\ l.goal # "cond"
                        /\ l.pc < Len(l.expr) => l.expr[l.pc + 1].op # "unary"
  /\ l.kind = "if" => l.stage = "body"
  /\ l.kind \notin Loops
Stops == fatal /\ prog \notin Careless => \A i \in 1 .. Len(ctrl) : Stopping(ctrl[i])

\* A function that ends has a value to hand over, or there was a fatal error;
\* a condition has a value, or the error went unnoticed there.
Answered(l, answer, careless) ==
  /\ l.kind \in CallOps => answer
  /\ l.kind = "block" => l.pc <= Len(l.nodes) /\ (AtReturn(l) => answer)
  /\ l.kind \in Loops \union {"if"} /\ l.stage = "null" => careless
Answers == ctrl # <<>> => Answered(Top, returning \/ fatal, fatal /\ prog \in Careless)

CrashInv ==
  /\ Chained(ctrl, prog)
  /\ ~fatal => Provided(ctrl, frames)
  /\ Stops /\ Answers
  /\ NeverCrashes /\ NothingAfterFatal

\* A fatal error is raised where every activation below is going to notice it.
LEMMA FatalStopsAll ==
  ASSUME CarefulPrograms, IInv, JumpInv, Chained(ctrl, prog), EvaluateFatal, prog \notin Careless
  PROVE  \A i \in 1 .. Len(ctrl') : Stopping(ctrl'[i])
<1> DEFINE n == Len(ctrl)
           l == Advanced[Len(Advanced)]
           S == Raising(prog)
<1>1. AtOperation({"fatal"}) /\ ctrl' = Advanced BY DEF EvaluateFatal
<1>2. /\ Operand.op \in {"fatal"} /\ Len(Advanced) = n /\ Chained(Advanced, prog)
      /\ Top.pc + 1 \in 1 .. Len(Top.expr) /\ Operand = Top.expr[Top.pc + 1]
      /\ Advanced = LastIs(ctrl, l)
      /\ l \in EvalLevel /\ l.kind = "eval" /\ l.expr = Top.expr /\ l.pc = Top.pc + 1
      /\ l.goal = Top.goal
  BY <1>1, OperationGoesOn
<1>3. /\ status = "running" /\ ctrl \in Seq(Level) /\ ctrl # <<>> /\ n \in Nat /\ n \in 1 .. n
  BY <1>1, Straight DEF AtOperation, Running
<1>4. \A i \in 1 .. n : Advanced[i] = IF i = n THEN l ELSE ctrl[i]
  <2> HIDE DEF l
  <2>1. l \in Level BY <1>2 DEF Level
  <2> QED BY <1>2, <1>3, <2>1, ExceptSeq DEF LastIs
<1>5. RaisesAt(l.expr[l.pc], prog, S) /\ l.pc \in 1 .. Len(l.expr) BY <1>2 DEF RaisesAt
<1>6. RaisesIn(l.expr, prog, S) BY <1>5 DEF RaisesIn
<1>7. \A i \in 1 .. n : Watchful(Advanced[i], prog) BY <1>2 DEF Chained
<1>8. ~Quiet(l, prog) BY <1>2, <1>6 DEF Quiet
<1>9. \A i \in 1 .. n - 1 : ~Calm(Advanced[i], prog)
  BY <1>2, <1>3, <1>4, <1>8 DEF Chained
<1> HIDE DEF l, S
<1>10. ASSUME NEW k \in EvalLevel, k.kind = "eval", Watchful(k, prog),
              k.pc \in 1 .. Len(k.expr), RaisesAt(k.expr[k.pc], prog, S)
       PROVE  Stopping(k)
  <2>1. k.expr \in Expression /\ k.pc \in Nat /\ Len(k.expr) \in Nat
    BY <1>10, LenProperties DEF EvalLevel, Expression
  <2>2. RaisesIn(k.expr, prog, S) BY <1>10 DEF RaisesIn
  <2>3. k.goal # "cond" BY <1>10, <2>2 DEF Watchful, S
  <2>4. k.pc < Len(k.expr) => k.expr[k.pc + 1].op # "unary"
    <3>1. k.pc < Len(k.expr) => k.pc \in 1 .. Len(k.expr) - 1 BY <1>10, <2>1
    <3> QED BY <1>10, <3>1 DEF Watchful, AppliesToNothing, S
  <2>5. k.pc > 0 BY <1>10, <2>1
  <2> QED BY <1>10, <2>3, <2>4, <2>5 DEF Stopping, Loops
<1>11. Stopping(l) BY <1>2, <1>3, <1>4, <1>5, <1>7, <1>10
<1>12. ASSUME NEW i \in 1 .. n - 1 PROVE Stopping(Advanced[i])
  <2> DEFINE k == Advanced[i]
             o == Advanced[i + 1]
  <2>1. i \in 1 .. n /\ i + 1 \in 1 .. n /\ k = ctrl[i] /\ k \in Level
    <3>1. i \in 1 .. n /\ i + 1 \in 1 .. n /\ i # n BY <1>3
    <3> QED BY <1>3, <1>4, <3>1, ElementOfSeq
  <2>2. Waits(k, o) BY <1>2 DEF Chained
  <2>3. Watchful(k, prog) /\ Watchful(o, prog) BY <1>7, <2>1
  <2>4. ~Calm(k, prog) BY <1>9
  <2>5. ~(o.kind = "eval" /\ o.goal = "cond")
    <3> SUFFICES ASSUME o.kind = "eval", o.goal = "cond" PROVE FALSE OBVIOUS
    <3>1. ~RaisesIn(o.expr, prog, S) BY <2>3 DEF Watchful, S
    <3>2. CASE i + 1 = n BY <3>1, <3>2, <1>4, <1>6, <2>1
    <3>3. CASE i + 1 # n
      <4>1. i + 1 \in 1 .. n - 1 BY <1>3, <2>1, <3>3
      <4>2. Waits(o, Advanced[i + 1 + 1]) BY <1>2, <4>1 DEF Chained
      <4>3. o.pc \in 1 .. Len(o.expr) BY <4>2 DEF Waits
      <4>4. Calm(o, prog) BY <3>1, <4>3 DEF Calm, CallOps, RaisesIn, S
      <4> QED BY <1>9, <4>1, <4>4
    <3> QED BY <3>2, <3>3
  <2>6. k.kind \in {"block", "eval", "if"} \union Loops \union CallOps BY <2>1, LevelKinds
  <2> SUFFICES Stopping(k) OBVIOUS
  <2> HIDE DEF k, o
  <2>7. CASE k.kind = "block"
    <3>1. k.pc \in 1 .. Len(k.nodes) BY <2>2, <2>7 DEF Waits
    <3>2. k.nodes \in Seq(Node) BY <2>1, <2>7, LevelKinds DEF BlockLevel
    <3>3. k.pc > 0 BY <3>1, <3>2, LenProperties
    <3> QED BY <2>7, <3>3 DEF Stopping, Loops
  <2>8. CASE k.kind = "eval"
    <3>1. k.pc \in 1 .. Len(k.expr) BY <2>2, <2>8 DEF Waits
    <3>2. RaisesAt(k.expr[k.pc], prog, S) BY <2>4, <2>8, <3>1 DEF Calm, CallOps, S
    <3> QED BY <1>10, <2>1, <2>3, <2>8, <3>1, <3>2, LevelKinds
  <2>9. CASE k.kind = "if"
    <3>1. k.stage = "body" BY <2>2, <2>5, <2>9 DEF Waits
    <3> QED BY <2>9, <3>1 DEF Stopping, Loops
  <2>10. CASE k.kind \in Loops
    <3>1. k.node \in S BY <2>4, <2>10 DEF Calm, Quiet, Loops, CallOps, S
    <3>2. k.node \in Node /\ k.node.kind \in Loops
      <4>1. k \in LoopLevel BY <2>1, <2>10, LevelKinds
      <4>2. Proper(k) BY <2>1 DEF JumpInv, Nested
      <4> QED BY <2>10, <4>1, <4>2 DEF Proper, LoopLevel
    <3>3. k.node \notin Overlooking(prog) BY <2>3, <2>10 DEF Watchful
    <3>4. k.node \notin S
      <4>1. prog \in Programs BY DEF IInv, Flags
      <4> QED BY <3>2, <3>3, <4>1, WatchfulParts DEF S
    <3> QED BY <3>1, <3>4
  <2>11. CASE k.kind \in CallOps BY <2>11 DEF Stopping, CallOps, Loops
  <2> QED BY <2>6, <2>7, <2>8, <2>9, <2>10, <2>11
<1>13. \A i \in 1 .. n : i = n \/ i \in 1 .. n - 1 BY <1>3
<1>14. \A i \in 1 .. n : Stopping(Advanced[i])
  BY <1>3, <1>4, <1>11, <1>12, <1>13
<1> QED BY <1>1, <1>2, <1>14

\* After that, activations only end.
LEMMA FatalEnds ==
  ASSUME IInv, JumpInv, fatal, status = "running", Stopping(Top), Step
  PROVE  /\ ctrl' = Below /\ fatal' /\ prog' = prog /\ late' = late
         /\ status' \in {"running", "done"}
<1>1. fatal /\ Abrupt BY DEF Abrupt
<1>2. ~AtNode(NodeKinds)
  BY <1>1 DEF AtNode, Running, NodeReady, Stopping
<1>3. ASSUME NEW kinds, AtNode(kinds) PROVE FALSE
  <2>1. TheNode \in Node BY <1>3, NodeStep
  <2>2. TheNode.kind \in NodeKinds BY <2>1, NodeAssumption
  <2> QED BY <1>2, <1>3, <2>2 DEF AtNode
<1>4. Top.kind = "eval" => Top.pc \in Nat /\ Top.pc > 0 /\ ~LeafReached /\ Top.pc # 0
  <2> SUFFICES ASSUME Top.kind = "eval" PROVE Top.pc \in Nat /\ Top.pc > 0 /\ ~LeafReached /\ Top.pc # 0
    OBVIOUS
  <2>1. Top \in EvalLevel BY Standpoint, LevelKinds
  <2>2. Top.pc \in Nat /\ Top.pc > 0 BY <2>1 DEF EvalLevel, Stopping
  <2> QED BY <1>1, <2>2 DEF LeafReached
<1>5. CASE BlockStep
  BY <1>3, <1>5 DEF BlockStep, ExecuteExpression, ExecuteDefaultDeclaration, ExecuteImplicitReturn,
       ExecuteBreak, ExecuteBlock, ExecuteOldScript, ExecuteIf, ExecuteWhile, ExecuteFor, LeaveBlock
<1>6. CASE EvalStep
  <2>1. /\ Top.kind = "eval" /\ Top.pc # 0 /\ ~LeafReached /\ ~CallAllowed /\ Top.goal # "cond"
        /\ Top.pc < Len(Top.expr) => Top.expr[Top.pc + 1].op # "unary"
    <3>1. Top.kind = "eval"
      BY <1>6 DEF EvalStep, EvaluateUse, EvaluateBuiltin, EvaluateFatal, EvaluateComponent,
           EvaluateCall, SkipCall, EvaluateUnary, EndInfix, EndReturn, EndDeclaration, EndCondition,
           AtOperation, Running
    <3> QED BY <1>1, <1>4, <3>1 DEF Stopping, CallAllowed
  <2>2. ~AtOperation({"unary"}) BY <2>1 DEF AtOperation, Pending, Operand, Visited
  <2>3. EndInfix \/ EndReturn \/ EndDeclaration
    BY <1>6, <2>1, <2>2 DEF EvalStep, EvaluateUse, EvaluateBuiltin, EvaluateFatal, EvaluateComponent,
         EvaluateCall, SkipCall, EvaluateUnary, EndCondition
  <2> QED BY <1>1, <2>3 DEF EndInfix, EndReturn, EndDeclaration
<1>7. CASE BranchStep
  <2>1. Top.kind \notin Loops /\ (Top.kind = "if" => Top.stage = "body") BY DEF Stopping
  <2>2. LeaveIf
    BY <1>7, <2>1 DEF BranchStep, NullCondition, IfBody, ElseIf, AtStage, Running
  <2> QED BY <1>1, <2>2 DEF LeaveIf
<1>8. CASE LoopStep
  <2>1. Top.kind \notin Loops BY DEF Stopping
  <2> QED BY <1>8, <2>1 DEF LoopStep, ForInit, ForCondition, LoopBody, LoopFalse, LeaveLoop,
           LoopAgain, AtStage, Running, Loops
<1>9. CASE LeaveFunction BY <1>1, <1>9 DEF LeaveFunction
<1> QED BY <1>5, <1>6, <1>7, <1>8, <1>9 DEF Step
----------------------------------------------------------------------------
\* An activation that owes no answer yet.
Fresh(l) ==
  /\ l.kind \notin CallOps
  /\ l.kind = "block" => l.pc <= Len(l.nodes) /\ ~AtReturn(l)
  /\ l.kind \in Loops \union {"if"} => l.stage # "null"

LEMMA FreshAnswered ==
  ASSUME NEW l, Fresh(l), NEW answer, NEW careless
  PROVE  Answered(l, answer, careless)
BY DEF Fresh, Answered

LEMMA FreshLevels ==
  /\ \A n, e, goal, at : Fresh(Eval(n, e, goal, at))
  /\ \A at : \A body \in Seq(Node) : Fresh(Block(body, at))
<1>1. \A n, e, goal, at : Fresh(Eval(n, e, goal, at)) BY DEF Fresh, Eval, CallOps, Loops
<1>2. ASSUME NEW at, NEW body \in Seq(Node) PROVE Fresh(Block(body, at))
  <2> DEFINE l == Block(body, at)
  <2>1. l.kind = "block" /\ l.pc = 0 /\ l.nodes = body BY DEF Block
  <2>2. Len(body) \in Nat BY LenProperties
  <2> HIDE DEF l
  <2>3. l.pc <= Len(l.nodes) /\ ~AtReturn(l) BY <2>1, <2>2 DEF AtReturn
  <2>4. Fresh(l) BY <2>1, <2>3 DEF Fresh, CallOps, Loops
  <2> QED BY <2>4 DEF l
<1> QED BY <1>1, <1>2

LEMMA TopAppended ==
  ASSUME NEW c \in Seq(Level), NEW l
  PROVE  /\ Append(c, l) # <<>> /\ Len(Append(c, l)) = Len(c) + 1
         /\ Append(c, l)[Len(Append(c, l))] = l
<1>1. c \in Seq(Level \union {l}) BY SeqMonotonic
<1> QED BY <1>1, AppendProperties

\* What waits below an activation that ends.
LEMMA Uncovered ==
  ASSUME IInv, JumpInv, Chained(ctrl, prog), status = "running", Below # <<>>
  PROVE  LET o == Below[Len(Below)]
         IN /\ o \in Level /\ Waits(o, Top)
            /\ o.kind = "block" => o.pc <= Len(o.nodes)
            /\ Top.kind # "eval" /\ o.kind \notin CallOps => Fresh(o)
            /\ Top.kind # "block" => o.kind \notin CallOps
            /\ o = ctrl[Len(ctrl) - 1] /\ Len(ctrl) - 1 \in 1 .. Len(ctrl) - 1
<1> DEFINE n == Len(ctrl)
           o == Below[Len(Below)]
<1>1. /\ ctrl \in Seq(Level) /\ ctrl # <<>> BY Straight
<1>2. Below = ButLast(ctrl) BY DEF Below, ButLast
<1>3. /\ Below \in Seq(Level) /\ Len(Below) = n - 1 /\ n \in Nat
      /\ \A i \in 1 .. n - 1 : Below[i] = ctrl[i]
  BY <1>1, <1>2, ButLastOf
<1>4. n - 1 # 0 BY <1>3, NonEmpty
<1>5. n - 1 \in 1 .. n - 1 /\ n - 1 + 1 = n BY <1>3, <1>4
<1>6. o = ctrl[n - 1] BY <1>3, <1>5
<1>7. o \in Level BY <1>3, <1>5, ElementOfSeq
<1>8. Waits(o, Top) BY <1>5, <1>6 DEF Chained, Top
<1> HIDE DEF o
<1>9. o.kind = "block" => o.pc <= Len(o.nodes)
  <2> SUFFICES ASSUME o.kind = "block" PROVE o.pc <= Len(o.nodes) OBVIOUS
  <2>1. o.pc \in 1 .. Len(o.nodes) BY <1>8 DEF Waits
  <2>2. Len(o.nodes) \in Nat BY <1>7, LevelKinds, LenProperties DEF BlockLevel
  <2> QED BY <2>1, <2>2
<1>10. Top.kind # "eval" /\ o.kind \notin CallOps => Fresh(o)
  BY <1>8, <1>9 DEF Waits, Fresh
<1>11. Top.kind # "block" => o.kind \notin CallOps BY <1>8 DEF Waits
<1> QED BY <1>5, <1>6, <1>7, <1>8, <1>9, <1>10, <1>11 DEF o

\* An activation that is no expression ends, and is no block that ends a call.
LEMMA EndAnswered ==
  ASSUME IInv, JumpInv, Chained(ctrl, prog), status = "running", Top.kind # "eval", Top.kind # "block",
         ctrl' = Below
  PROVE  Answers'
<1> SUFFICES ASSUME Below # <<>>
             PROVE  Answered(Below[Len(Below)], returning' \/ fatal', fatal' /\ prog' \in Careless)
  BY DEF Answers, Top
<1>1. Fresh(Below[Len(Below)]) BY Uncovered
<1> QED BY <1>1, FreshAnswered

LEMMA NewAnswered ==
  ASSUME Fresh(ctrl'[Len(ctrl')])
  PROVE  Answers'
BY FreshAnswered DEF Answers, Top

LEMMA BlockAnswers ==
  ASSUME IInv, JumpInv, Chained(ctrl, prog), Answers, BlockStep
  PROVE  Answers'
<1> DEFINE l == Stepped[Len(Stepped)]
<1>a. ASSUME NEW kinds, AtNode(kinds)
      PROVE  /\ status = "running" /\ TheNode \in Node /\ TheNode.kind \in kinds
             /\ Stepped \in Seq(Level)
             /\ l.kind = "block" /\ l.pc <= Len(l.nodes)
             /\ AtReturn(l) => TheNode.kind \in Returns
  <2>1. /\ status = "running" /\ TheNode \in Node /\ TheNode.kind \in kinds
        /\ Stepped \in Seq(Level)
        /\ Top.pc + 1 \in 1 .. Len(Top.nodes) /\ TheNode = Top.nodes[Top.pc + 1]
        /\ l \in BlockLevel /\ l.kind = "block" /\ l.nodes = Top.nodes /\ l.pc = Top.pc + 1
    BY <1>a, NodeGoesOn
  <2> HIDE DEF l
  <2>2. Len(l.nodes) \in Nat BY <2>1, LenProperties DEF BlockLevel
  <2>3. l.pc <= Len(l.nodes) BY <2>1, <2>2
  <2> QED BY <2>1, <2>3 DEF AtReturn
<1>b. ASSUME NEW kinds, AtNode(kinds), kinds \intersect Returns = {}, ctrl' = Stepped PROVE Answers'
  <2>1. Fresh(l) BY <1>a, <1>b DEF Fresh, CallOps, Loops
  <2> QED BY <2>1, <1>b, NewAnswered
<1>1. CASE ExecuteExpression
  <2>1. /\ AtNode({"infix", "return", "decl"})
        /\ ctrl' = Append(Stepped, Eval(TheNode, TheNode.expr, TheNode.kind, Here))
    BY <1>1 DEF ExecuteExpression
  <2> QED BY <2>1, <1>a, TopAppended, FreshLevels, NewAnswered
<1>2. CASE ExecuteDefaultDeclaration
  BY <1>2, <1>b DEF ExecuteDefaultDeclaration, Returns
<1>3. CASE ExecuteImplicitReturn
  <2>1. AtNode({"implicit_return"}) /\ ctrl' = Stepped /\ returning'
    BY <1>3 DEF ExecuteImplicitReturn
  <2>2. Answered(l, returning' \/ fatal', fatal' /\ prog' \in Careless)
    BY <2>1, <1>a DEF Answered, CallOps, Loops
  <2> QED BY <2>1, <2>2 DEF Answers, Top
<1>4. CASE ExecuteBreak BY <1>4, <1>b DEF ExecuteBreak, Returns
<1>5. CASE ExecuteBlock
  <2>1. AtNode({"block"}) /\ ctrl' = Append(Stepped, Block(TheNode.body, Inner))
    BY <1>5 DEF ExecuteBlock
  <2>2. TheNode.body \in Seq(Node) BY <2>1, <1>a, NodeAssumption
  <2> QED BY <2>1, <2>2, <1>a, TopAppended, FreshLevels, NewAnswered
<1>6. CASE ExecuteOldScript BY <1>6, <1>b DEF ExecuteOldScript, Returns
<1>7. CASE ExecuteIf
  <2> DEFINE branch == [kind |-> "if", node |-> TheNode, pc |-> 1, stage |-> "cond", at |-> Here]
             c == Append(Stepped, branch)
             e == Eval(TheNode, TheNode.ifs[1].cond, "cond", Here)
  <2>1. AtNode({"if"}) /\ ctrl' = Append(c, e) BY <1>7 DEF ExecuteIf
  <2>2. c # <<>> /\ c \in Seq(Level \union {branch})
    <3>1. Stepped \in Seq(Level \union {branch}) BY <2>1, <1>a, SeqMonotonic
    <3> QED BY <3>1, AppendProperties
  <2> HIDE DEF c
  <2>3. ctrl'[Len(ctrl')] = e
    <3> HIDE DEF e
    <3>1. c \in Seq(Level \union {branch, e}) BY <2>2, SeqMonotonic
    <3> QED BY <2>1, <3>1, AppendProperties
  <2>4. Fresh(e) BY FreshLevels
  <2> QED BY <2>3, <2>4, NewAnswered
<1>8. CASE ExecuteWhile
  <2> DEFINE loop == [kind |-> "while", node |-> TheNode, stage |-> "cond", at |-> Here]
             c == Append(Stepped, loop)
             e == Eval(TheNode, TheNode.expr, "cond", Here)
  <2>1. AtNode({"while"}) /\ ctrl' = Append(c, e) BY <1>8 DEF ExecuteWhile
  <2>2. c # <<>> /\ c \in Seq(Level \union {loop})
    <3>1. Stepped \in Seq(Level \union {loop}) BY <2>1, <1>a, SeqMonotonic
    <3> QED BY <3>1, AppendProperties
  <2> HIDE DEF c
  <2>3. ctrl'[Len(ctrl')] = e
    <3> HIDE DEF e
    <3>1. c \in Seq(Level \union {loop, e}) BY <2>2, SeqMonotonic
    <3> QED BY <2>1, <3>1, AppendProperties
  <2>4. Fresh(e) BY FreshLevels
  <2> QED BY <2>3, <2>4, NewAnswered
<1>9. CASE ExecuteFor
  <2> DEFINE loop == [kind |-> "for", node |-> TheNode, stage |-> "init", at |-> Inner]
  <2>1. AtNode({"for"}) /\ ctrl' = Append(Stepped, loop) BY <1>9 DEF ExecuteFor
  <2>2. Fresh(loop) BY DEF Fresh, CallOps, Loops
  <2> HIDE DEF loop
  <2> QED BY <2>1, <2>2, <1>a, TopAppended, NewAnswered
<1>10. CASE LeaveBlock
  <2> DEFINE o == Below[Len(Below)]
             answer == returning \/ fatal
  <2>1. /\ status = "running" /\ Top.kind = "block" /\ ~NodeReady /\ ctrl' = Below
        /\ UNCHANGED <<returning, fatal>>
    BY <1>10 DEF LeaveBlock, Running
  <2> SUFFICES ASSUME Below # <<>>
               PROVE  Answered(o, answer, fatal /\ prog \in Careless)
    BY <1>10, <2>1 DEF Answers, Top, LeaveBlock
  <2>2. /\ Waits(o, Top)
        /\ o.kind \notin CallOps => Fresh(o)
        /\ o = ctrl[Len(ctrl) - 1] /\ Len(ctrl) - 1 \in 1 .. Len(ctrl) - 1
    BY <2>1, Uncovered
  <2>3. ASSUME o.kind \in CallOps PROVE answer
    <3>1. EndsInReturn(Top.nodes) BY <2>2, <2>3 DEF Waits
    <3>2. /\ Top.pc \in Nat /\ Len(Top.nodes) \in Nat /\ Top.pc <= Len(Top.nodes)
          /\ AtReturn(Top) => answer
      <4>1. Top \in BlockLevel /\ ctrl # <<>> BY <2>1, Straight, LevelKinds
      <4>2. Top.pc <= Len(Top.nodes) /\ (AtReturn(Top) => answer)
        BY <2>1, <4>1 DEF Answers, Answered
      <4> QED BY <4>1, <4>2, LenProperties DEF BlockLevel
    <3>3. CASE Top.pc < Len(Top.nodes)
      <4>1. Abrupt BY <2>1, <3>3 DEF NodeReady
      <4>2. ~brk
        <5> SUFFICES ASSUME brk PROVE FALSE OBVIOUS
        <5> DEFINE n == Len(ctrl)
        <5>1. ctrl # <<>> /\ n \in Nat BY <2>1, Straight
        <5>2. InLoop(ctrl, n) BY <5>1 DEF JumpInv, Unwinding
        <5>3. PICK k \in 1 .. n : /\ ctrl[k].kind \in Loops
                                  /\ \A j \in k + 1 .. n : ctrl[j].kind \in {"block", "if"}
          BY <5>2 DEF InLoop
        <5>4. k # n BY <5>3, <2>1 DEF Top, Loops
        <5>5. k # n - 1 BY <5>3, <2>2, <2>3 DEF Loops, CallOps
        <5>6. n - 1 \in k + 1 .. n BY <5>1, <5>3, <5>4, <5>5
        <5> QED BY <5>3, <5>6, <2>2, <2>3 DEF CallOps
      <4> QED BY <4>1, <4>2 DEF Abrupt
    <3>4. CASE ~(Top.pc < Len(Top.nodes))
      <4>1. Top.pc = Len(Top.nodes) BY <3>2, <3>4
      <4>2. Len(Top.nodes) # 0
        <5>1. Top.nodes \in Seq(Node) BY <2>1, Straight, LevelKinds DEF BlockLevel
        <5> QED BY <3>1, <5>1, NonEmpty DEF EndsInReturn
      <4>3. AtReturn(Top) BY <3>1, <3>2, <4>1, <4>2 DEF AtReturn, EndsInReturn
      <4> QED BY <3>2, <4>3
    <3> QED BY <3>3, <3>4
  <2>4. CASE o.kind \in CallOps
    <3> HIDE DEF o, answer
    <3> QED BY <2>3, <2>4 DEF Answered, CallOps, Loops
  <2>5. CASE o.kind \notin CallOps BY <2>2, <2>5, FreshAnswered
  <2> QED BY <2>4, <2>5
<1> QED BY <1>1, <1>2, <1>3, <1>4, <1>5, <1>6, <1>7, <1>8, <1>9, <1>10 DEF BlockStep

LEMMA EvalAnswers ==
  ASSUME IInv, JumpInv, Chained(ctrl, prog), Answers, Stops, EvalStep
  PROVE  Answers'
<1>a. ASSUME NEW ops, AtOperation(ops), ctrl' = Advanced PROVE Answers'
  <2>1. Advanced[Len(Advanced)].kind = "eval" BY <1>a, OperationGoesOn
  <2>2. Fresh(Advanced[Len(Advanced)]) BY <2>1 DEF Fresh, CallOps, Loops
  <2> QED BY <1>a, <2>2, NewAnswered
<1>b. ASSUME Running({"eval"})
      PROVE  LET o == Below[Len(Below)]
             IN /\ status = "running" /\ Top.kind = "eval" /\ Below # <<>> /\ o \in Level
                /\ Waits(o, Top) /\ o.kind \in Loops \union {"block", "if"}
                /\ Top.goal = "cond" => o.kind \in Loops \union {"if"}
                /\ o.kind = "block" => o.pc <= Len(o.nodes)
  <2>1. status = "running" /\ Top.kind = "eval" BY <1>b DEF Running
  <2> QED BY <1>b, <2>1, EvalEnds, Uncovered
<1>c. ASSUME Running({"eval"}), Top.goal # "cond", ctrl' = Below,
             Top.goal = "return" => returning' \/ fatal'
      PROVE  Answers'
  <2> DEFINE o == Below[Len(Below)]
  <2>1. /\ Top.kind = "eval" /\ Waits(o, Top) /\ o.kind \in Loops \union {"block", "if"}
        /\ o.kind = "block" => o.pc <= Len(o.nodes)
    BY <1>b, <1>c
  <2> HIDE DEF o
  <2>2. Answered(o, returning' \/ fatal', fatal' /\ prog' \in Careless)
    BY <2>1, <1>c DEF Waits, Answered, CallOps, Loops
  <2> QED BY <1>c, <2>2 DEF Answers, Top, o
<1>1. CASE EvaluateUse BY <1>1, <1>a DEF EvaluateUse
<1>2. CASE EvaluateBuiltin BY <1>2, <1>a DEF EvaluateBuiltin
<1>3. CASE EvaluateFatal BY <1>3, <1>a DEF EvaluateFatal
<1>4. CASE EvaluateComponent BY <1>4, <1>a DEF EvaluateComponent
<1>5. CASE EvaluateCall
  <2> DEFINE a == Called(Operand.op, Len(frames) + 1)
             b == Body(Operand.fun, Len(frames) + 1)
             c == Append(Advanced, a)
  <2>1. AtOperation(CallOps) /\ UNCHANGED <<prog, returning, fatal>> BY <1>5 DEF EvaluateCall
  <2>2. CASE ctrl' = ctrl BY <2>1, <2>2 DEF Answers, Top
  <2>3. CASE ctrl' = Append(c, b)
    <3>1. /\ Advanced \in Seq(Level) /\ Operand \in Operation /\ Operand.op \in CallOps
      BY <2>1, OperationGoesOn
    <3>2. prog[Operand.fun] \in Seq(Node)
      BY <3>1, ProgramAssumption DEF Operation, CallOps, IInv, Flags
    <3>3. Fresh(b) BY <3>2, FreshLevels DEF Body
    <3> HIDE DEF a, b
    <3>4. Advanced \in Seq(Level \union {a}) BY <3>1, SeqMonotonic
    <3>5. c \in Seq(Level \union {a}) BY <3>4, AppendProperties
    <3> HIDE DEF c
    <3>6. c \in Seq(Level \union {a, b}) BY <3>5, SeqMonotonic
    <3>7. ctrl'[Len(ctrl')] = b BY <2>3, <3>6, AppendProperties
    <3> QED BY <3>3, <3>7, NewAnswered
  <2> QED BY <1>5, <2>2, <2>3 DEF EvaluateCall
<1>6. CASE SkipCall BY <1>6, <1>a DEF SkipCall
<1>7. CASE EvaluateUnary BY <1>7, <1>a DEF EvaluateUnary
<1>8. CASE EndInfix BY <1>8, <1>c DEF EndInfix
<1>9. CASE EndReturn BY <1>9, <1>c DEF EndReturn
<1>10. CASE EndDeclaration BY <1>10, <1>c DEF EndDeclaration
<1>11. CASE EndCondition
  <2> DEFINE o == Below[Len(Below)]
  <2>1. Running({"eval"}) /\ Top.goal = "cond" /\ UNCHANGED <<prog, returning, fatal>>
    BY <1>11 DEF EndCondition
  <2>2. PICK value \in (IF fatal THEN {"null"} ELSE {"true", "false"}) :
          ctrl' = [Below EXCEPT ![Len(Below)] = [@ EXCEPT !.stage = value]]
    BY <1>11 DEF EndCondition
  <2> DEFINE l == [o EXCEPT !.stage = value]
  <2>3. /\ status = "running" /\ Top.kind = "eval" /\ o \in Level /\ o.kind \in Loops \union {"if"}
    BY <2>1, <1>b
  <2>4. l.kind = o.kind /\ l.stage = value
    <3>1. o \in IfLevel \union LoopLevel BY <2>3, LevelKinds
    <3> HIDE DEF o
    <3> QED BY <3>1 DEF IfLevel, LoopLevel
  <2>5. ctrl'[Len(ctrl')] = l
    <3>1. ctrl' = LastIs(Below, l) BY <2>2 DEF LastIs
    <3>2. Below \in Seq(Level) /\ Below # <<>> BY <2>1, EvalNested
    <3>3. Len(Below) \in 1 .. Len(Below) BY <3>2, NonEmpty, Positions
    <3> HIDE DEF l, o
    <3>4. Below \in Seq(Level \union {l}) BY <3>2, SeqMonotonic
    <3> QED BY <3>1, <3>3, <3>4, ExceptSeq DEF LastIs
  <2>6. fatal => prog \in Careless
    <3> SUFFICES ASSUME fatal, prog \notin Careless PROVE FALSE OBVIOUS
    <3>1. Len(ctrl) \in 1 .. Len(ctrl) BY <2>3, Straight
    <3>2. Stopping(Top) BY <3>1 DEF Stops, Top
    <3> QED BY <3>2, <2>1, <2>3 DEF Stopping
  <2> HIDE DEF l, o
  <2>7. Answered(l, returning' \/ fatal', fatal' /\ prog' \in Careless)
    BY <2>1, <2>2, <2>3, <2>4, <2>6 DEF Answered, Loops, CallOps
  <2> QED BY <2>5, <2>7 DEF Answers, Top
<1> QED BY <1>1, <1>2, <1>3, <1>4, <1>5, <1>6, <1>7, <1>8, <1>9, <1>10, <1>11 DEF EvalStep

LEMMA BranchAnswers ==
  ASSUME IInv, JumpInv, Chained(ctrl, prog), Answers, BranchStep
  PROVE  Answers'
<1>1. CASE NullCondition BY <1>1 DEF NullCondition, Answers, Top
<1>2. CASE IfBody
  <2> DEFINE body == IF Top.stage = "true" THEN Top.node.ifs[Top.pc].body ELSE Top.node.body
             c == Stage("body")
  <2>1. /\ status = "running" /\ Top.kind = "if" /\ Running(Loops \union {"if"})
        /\ ctrl' = Append(c, Block(body, Inner))
    BY <1>2 DEF IfBody, AtStage, Running
  <2>2. "body" \in Stages BY DEF Stages
  <2>3. c \in Seq(Level) /\ Top.node \in Node BY <2>1, <2>2, StageGoesOn
  <2>4. Top.pc \in 1 .. Len(Top.node.ifs)
    <3>1. Top \in IfLevel BY <2>1, Straight, LevelKinds
    <3> QED BY <3>1 DEF IfLevel
  <2>5. body \in Seq(Node)
    <3>1. Top.node.ifs \in Seq(ConditionalNodes) /\ Top.node.body \in Seq(Node)
      BY <2>3, NodeAssumption
    <3>2. Top.node.ifs[Top.pc] \in ConditionalNodes BY <2>4, <3>1, ElementOfSeq
    <3> QED BY <3>1, <3>2 DEF ConditionalNodes
  <2> HIDE DEF c, body
  <2> QED BY <2>1, <2>3, <2>5, TopAppended, FreshLevels, NewAnswered
<1>3. CASE ElseIf
  <2> DEFINE k == [Top EXCEPT !.stage = "cond", !.pc = @ + 1]
             c == Replaced(k)
             e == Eval(Top.node, Top.node.ifs[Top.pc + 1].cond, "cond", Here)
  <2>1. status = "running" /\ ctrl' = Append(c, e)
    BY <1>3 DEF ElseIf, AtStage, Running
  <2>2. c \in Seq(Level \union {k})
    <3>1. ctrl \in Seq(Level) /\ Len(ctrl) \in 1 .. Len(ctrl) BY <2>1, Straight
    <3> HIDE DEF k
    <3>2. ctrl \in Seq(Level \union {k}) BY <3>1, SeqMonotonic
    <3> QED BY <3>1, <3>2, ExceptSeq DEF Replaced
  <2> HIDE DEF c
  <2>3. ctrl'[Len(ctrl')] = e
    <3> HIDE DEF e, k
    <3>1. c \in Seq(Level \union {k, e}) BY <2>2, SeqMonotonic
    <3> QED BY <2>1, <3>1, AppendProperties
  <2>4. Fresh(e) BY FreshLevels
  <2> QED BY <2>3, <2>4, NewAnswered
<1>4. CASE LeaveIf
  <2>1. status = "running" /\ Top.kind = "if" /\ ctrl' = Below
    BY <1>4 DEF LeaveIf, AtStage, Running
  <2> QED BY <2>1, EndAnswered
<1> QED BY <1>1, <1>2, <1>3, <1>4 DEF BranchStep

LEMMA StageAnswered ==
  ASSUME IInv, JumpInv, Chained(ctrl, prog), Running(Loops), NEW stage \in Stages
  PROVE  /\ Stage(stage) \in Seq(Level)
         /\ stage # "null" /\ ctrl' = Stage(stage) => Answers'
         /\ \A n, e, goal : ctrl' = Append(Stage(stage), Eval(n, e, goal, Here)) => Answers'
         /\ \A body \in Seq(Node) : ctrl' = Append(Stage(stage), Block(body, Inner)) => Answers'
<1> DEFINE c == Stage(stage)
<1>1. Running(Loops \union {"if"}) /\ Top.kind \in Loops BY DEF Running
<1>2. /\ c \in Seq(Level) /\ c[Len(c)].kind = Top.kind /\ c[Len(c)].stage = stage
  BY <1>1, StageGoesOn
<1> HIDE DEF c
<1>3. stage # "null" => Fresh(c[Len(c)]) BY <1>1, <1>2 DEF Fresh, Loops, CallOps
<1>4. stage # "null" /\ ctrl' = c => Answers' BY <1>3, NewAnswered
<1>5. \A n, e, goal : ctrl' = Append(c, Eval(n, e, goal, Here)) => Answers'
  BY <1>2, TopAppended, FreshLevels, NewAnswered
<1>6. \A body \in Seq(Node) : ctrl' = Append(c, Block(body, Inner)) => Answers'
  BY <1>2, TopAppended, FreshLevels, NewAnswered
<1> QED BY <1>2, <1>4, <1>5, <1>6 DEF c

LEMMA LoopAnswers ==
  ASSUME IInv, JumpInv, Chained(ctrl, prog), Answers, LoopStep
  PROVE  Answers'
<1>a. {"true", "cond", "body", "iteration"} \subseteq Stages BY DEF Stages
<1>b. ASSUME Running(Loops), CheckCondition PROVE Answers'
  BY <1>a, <1>b, StageAnswered DEF CheckCondition
<1>c. ASSUME Running(Loops), EndLoop PROVE Answers'
  <2>1. status = "running" /\ Top.kind # "eval" /\ Top.kind # "block" /\ ctrl' = Below
    BY <1>c DEF Running, Loops, EndLoop
  <2> QED BY <2>1, EndAnswered
<1>1. CASE ForInit
  <2>1. /\ Running(Loops)
        /\ \/ ctrl' = Stage("iteration")
           \/ \E n, e, goal : ctrl' = Append(Stage("iteration"), Eval(n, e, goal, Here))
    BY <1>1 DEF ForInit, AtStage, Running, Loops
  <2> QED BY <2>1, <1>a, StageAnswered
<1>2. CASE ForCondition
  <2>1. Running(Loops) /\ CheckCondition BY <1>2 DEF ForCondition, AtStage, Running, Loops
  <2> QED BY <2>1, <1>b
<1>3. CASE LoopBody
  <2>1. Running(Loops) /\ ctrl' = Append(Stage("body"), Block(Top.node.body, Inner))
    BY <1>3 DEF LoopBody, AtStage
  <2>2. Top.node.body \in Seq(Node)
    <3>1. Running(Loops \union {"if"}) BY <2>1 DEF Running
    <3> QED BY <1>a, <3>1, StageStep, NodeAssumption
  <2> QED BY <2>1, <2>2, <1>a, StageAnswered
<1>4. CASE LoopFalse BY <1>4, <1>c DEF LoopFalse, AtStage
<1>5. CASE LeaveLoop BY <1>5, <1>c DEF LeaveLoop, AtStage
<1>6. CASE LoopAgain
  <2>1. /\ Running(Loops)
        /\ \/ CheckCondition
           \/ \E n, e, goal : ctrl' = Append(Stage("iteration"), Eval(n, e, goal, Here))
    BY <1>6 DEF LoopAgain, AtStage
  <2> QED BY <2>1, <1>a, <1>b, StageAnswered
<1> QED BY <1>1, <1>2, <1>3, <1>4, <1>5, <1>6 DEF LoopStep

LEMMA AnswersStep ==
  ASSUME IInv, JumpInv, Chained(ctrl, prog), Answers, Stops, Step
  PROVE  Answers'
<1>1. CASE LeaveFunction
  <2>1. status = "running" /\ Top.kind # "eval" /\ Top.kind # "block" /\ ctrl' = Below
    BY <1>1 DEF LeaveFunction, Running, CallOps
  <2> QED BY <2>1, EndAnswered
<1> QED BY <1>1, BlockAnswers, EvalAnswers, BranchAnswers, LoopAnswers DEF Step
----------------------------------------------------------------------------
\* The flag of the fatal error is set by what raises one, and never reset.
LEMMA FatalFlag ==
  ASSUME IInv, Step
  PROVE  /\ status = "running" /\ prog' = prog /\ fatal' \in BOOLEAN
         /\ ~EvaluateFatal => fatal' = fatal
         /\ late' = late \/ late' = (late \/ fatal)
<1>1. CASE BlockStep
  BY <1>1 DEF BlockStep, ExecuteExpression, ExecuteDefaultDeclaration, ExecuteImplicitReturn, ExecuteBreak,
       ExecuteBlock, ExecuteOldScript, ExecuteIf, ExecuteWhile, ExecuteFor, LeaveBlock, AtNode, Running,
       ActOnFacade, IInv, Flags
<1>2. CASE EvalStep
  BY <1>2 DEF EvalStep, EvaluateUse, EvaluateBuiltin, EvaluateFatal, EvaluateComponent, EvaluateCall,
       SkipCall, EvaluateUnary, EndInfix, EndReturn, EndDeclaration, EndCondition, AtOperation, Running,
       ActOnFacade, IInv, Flags
<1>3. CASE BranchStep
  BY <1>3 DEF BranchStep, NullCondition, IfBody, ElseIf, LeaveIf, AtStage, Running, IInv, Flags
<1>4. CASE LoopStep
  BY <1>4 DEF LoopStep, ForInit, ForCondition, LoopBody, LoopFalse, LeaveLoop, LoopAgain, AtStage,
       Running, IInv, Flags
<1>5. CASE LeaveFunction BY <1>5 DEF LeaveFunction, Running, IInv, Flags
<1> QED BY <1>1, <1>2, <1>3, <1>4, <1>5 DEF Step

LEMMA StopsStep ==
  ASSUME CarefulPrograms, IInv, JumpInv, Chained(ctrl, prog), Stops, Step
  PROVE  Stops'
<1> SUFFICES ASSUME fatal', prog' \notin Careless
             PROVE  \A i \in 1 .. Len(ctrl') : Stopping(ctrl'[i])
  BY DEF Stops, Stopping
<1>1. status = "running" /\ prog' = prog BY FatalFlag
<1>2. CASE EvaluateFatal BY <1>1, <1>2, FatalStopsAll
<1>3. CASE ~EvaluateFatal
  <2>1. fatal BY <1>3, FatalFlag
  <2>2. ctrl \in Seq(Level) /\ ctrl # <<>> /\ Len(ctrl) \in 1 .. Len(ctrl) BY <1>1, Straight
  <2>3. \A i \in 1 .. Len(ctrl) : Stopping(ctrl[i]) BY <1>1, <2>1 DEF Stops
  <2>4. Stopping(Top) BY <2>2, <2>3 DEF Top
  <2>5. ctrl' = Below BY <1>1, <2>1, <2>4, FatalEnds
  <2>6. /\ Len(Below) = Len(ctrl) - 1 /\ Len(ctrl) \in Nat
        /\ \A i \in 1 .. Len(ctrl) - 1 : Below[i] = ctrl[i]
    BY <2>2, ButLastOf DEF Below, ButLast
  <2>7. \A i \in 1 .. Len(ctrl) - 1 : i \in 1 .. Len(ctrl) BY <2>6
  <2> QED BY <2>3, <2>5, <2>6, <2>7
<1> QED BY <1>2, <1>3

\* Every read finds its variable, and every function that ends has an answer.
LEMMA NoCrash ==
  ASSUME IInv, JumpInv, Chained(ctrl, prog), Provided(ctrl, frames), Answers, ~fatal, Step
  PROVE  status' # "crashed"
<1>a. status = "running" BY FatalFlag
<1>b. Answered(Top, returning \/ fatal, fatal /\ prog \in Careless) BY <1>a, Straight DEF Answers
<1>1. CASE BlockStep
  BY <1>1, <1>a DEF BlockStep, ExecuteExpression, ExecuteDefaultDeclaration, ExecuteImplicitReturn, ExecuteBreak,
       ExecuteBlock, ExecuteOldScript, ExecuteIf, ExecuteWhile, ExecuteFor, LeaveBlock
<1>2. CASE EvaluateUse
  <2>1. Operand.var \in VarsIn(frames, Here)
    <3>1. AtOperation({"use"}) BY <1>2 DEF EvaluateUse
    <3> QED BY <3>1, OperationProvided
  <2>2. Here = [frame |-> Len(frames), height |-> Len(frames[Len(frames)])]
    BY <1>a, Standpoint
  <2>3. Visible(Operand.var) BY <2>1, <2>2 DEF VarsIn, Visible
  <2> QED BY <1>2, <2>3 DEF EvaluateUse
<1>3. CASE EvalStep /\ ~EvaluateUse
  BY <1>3, <1>a DEF EvalStep, EvaluateBuiltin, EvaluateFatal, EvaluateComponent, EvaluateCall,
       SkipCall, EvaluateUnary, EndInfix, EndReturn, EndDeclaration, EndCondition
<1>4. CASE BranchStep
  <2>1. ~NullCondition BY <1>b DEF NullCondition, AtStage, Running, Answered
  <2> QED BY <1>4, <1>a, <2>1 DEF BranchStep, IfBody, ElseIf, LeaveIf
<1>5. CASE LoopStep
  BY <1>5, <1>a DEF LoopStep, ForInit, ForCondition, LoopBody, LoopFalse, LeaveLoop, LoopAgain
<1>6. CASE LeaveFunction
  <2>1. returning BY <1>6, <1>b DEF LeaveFunction, Running, Answered
  <2> QED BY <1>6, <2>1 DEF LeaveFunction
<1> QED BY <1>1, <1>2, <1>3, <1>4, <1>5, <1>6 DEF Step

LEMMA CrashInitially ==
  ASSUME CarefulPrograms, Init
  PROVE  CrashInv
<1> DEFINE a == Called("call", 1)
           b == Body(Main, 1)
           c == << a >>
<1>1. ctrl = Append(c, b) /\ prog \in Programs /\ prog[Main] \in Seq(Node)
  BY ProgramAssumption DEF Init
<1>2. Fresh(b) BY <1>1, FreshLevels DEF Body
<1>3. Answers
  <2>1. ctrl[Len(ctrl)] = b
    <3> HIDE DEF a, b
    <3>1. c \in Seq({a, b}) OBVIOUS
    <3> HIDE DEF c
    <3> QED BY <1>1, <3>1, AppendProperties
  <2> QED BY <1>2, <2>1, FreshAnswered DEF Answers, Top
<1>4. ~fatal /\ ~late /\ status # "crashed" BY DEF Init
<1> QED BY <1>3, <1>4, ChainedInitially, ProvidedInitially
        DEF CrashInv, Stops, NeverCrashes, NothingAfterFatal

LEMMA CrashStep ==
  ASSUME CarefulPrograms, IInv, JumpInv, CrashInv, Step
  PROVE  CrashInv'
<1>1. Chained(ctrl', prog') BY ChainedStep DEF CrashInv
<1>2. ~fatal' => Provided(ctrl', frames')
  <2>1. ~fatal' => ~fatal
    <3>1. EvaluateFatal => fatal' BY DEF EvaluateFatal
    <3> QED BY <3>1, FatalFlag
  <2> QED BY <2>1, ProvidedStep DEF CrashInv
<1>3. Stops' BY StopsStep DEF CrashInv
<1>4. Answers' BY AnswersStep DEF CrashInv
<1>5. ASSUME fatal, prog \notin Careless
      PROVE  late' = late /\ status' # "crashed"
  <2>1. status = "running" BY FatalFlag
  <2>2. Len(ctrl) \in 1 .. Len(ctrl) BY <2>1, Straight
  <2>3. Stopping(Top) BY <2>2, <1>5 DEF CrashInv, Stops, Top
  <2> QED BY <2>1, <2>3, <1>5, FatalEnds
<1>6. NeverCrashes'
  <2> SUFFICES ASSUME status' = "crashed" PROVE fatal' /\ prog' \in Careless
    BY DEF NeverCrashes
  <2>1. fatal BY NoCrash DEF CrashInv
  <2>2. prog \in Careless BY <1>5, <2>1
  <2>3. EvaluateFatal => fatal' BY DEF EvaluateFatal
  <2> QED BY <2>1, <2>2, <2>3, FatalFlag
<1>7. NothingAfterFatal'
  <2> SUFFICES ASSUME late', prog' \notin Careless PROVE FALSE BY DEF NothingAfterFatal
  <2>1. prog' = prog /\ ~late BY FatalFlag DEF CrashInv, NothingAfterFatal
  <2>2. ~fatal BY <1>5, <2>1
  <2> QED BY <2>1, <2>2, FatalFlag
<1> QED BY <1>1, <1>2, <1>3, <1>4, <1>6, <1>7 DEF CrashInv

\* What is known of a run while no fatal error was raised, and once one was.
THEOREM CrashInductive ==
  ASSUME CarefulPrograms
  PROVE  Spec => []CrashInv
<1>1. Init => CrashInv BY CrashInitially
<1>2. CrashInv /\ (IInv /\ JumpInv) /\ [Next]_vars => CrashInv'
  <2> SUFFICES ASSUME CrashInv, IInv, JumpInv, [Next]_vars PROVE CrashInv' OBVIOUS
  <2>1. CASE UNCHANGED vars
    BY <2>1 DEF vars, CrashInv, Stops, Answers, Answered, Top, NeverCrashes, NothingAfterFatal, Chained, Provided, Outer
  <2>2. CASE Step BY <2>2, CrashStep
  <2> QED BY <2>1, <2>2 DEF Next, Stopped
<1> QED BY <1>1, <1>2, JumpsInductive, PTL DEF Spec

\* The interpreter uses no instance that is not there: lookup_identifier finds
\* what semantic analysis has found, call returns a value unless there was a
\* fatal error, and a fatal error is noticed before its null is used.
THEOREM CrashFree ==
  ASSUME CarefulPrograms
  PROVE  Spec => []NeverCrashes
<1>1. CrashInv => NeverCrashes BY DEF CrashInv
<1> QED BY <1>1, CrashInductive, PTL

\* After did_fatal_error_occure nothing acts on the CMake facade.
THEOREM SilentAfterFatal ==
  ASSUME CarefulPrograms
  PROVE  Spec => []NothingAfterFatal
<1>1. CrashInv => NothingAfterFatal BY DEF CrashInv
<1> QED BY <1>1, CrashInductive, PTL
====
