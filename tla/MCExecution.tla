---- MODULE MCExecution ----
(***************************************************************************)
(* Programs for Execution: every statement of the language, nested in each *)
(* way that lets a jump cross something.                                   *)
(***************************************************************************)
EXTENDS Execution

MCFun == {"main", "f"}
MCVar == {"x", "i"}

Op(o) == [op |-> o]
Call(f) == [op |-> "call", fun |-> f]
Subdir(f) == [op |-> "subdir", fun |-> f]
Use(v) == [op |-> "use", var |-> v]

Plain(k) == [kind |-> k, expr |-> <<>>, ifs |-> <<>>, body |-> <<>>, init |-> <<>>,
             iteration |-> <<>>, hasExpr |-> FALSE, var |-> "x"]
Infix(e) == [Plain("infix") EXCEPT !.expr = e]
Ret(e) == [Plain("return") EXCEPT !.expr = e]
End == Plain("implicit_return")
Brk == Plain("break")
Old == Plain("old_script")
Default(v) == [Plain("decl") EXCEPT !.var = v]
Decl(v, e) == [Default(v) EXCEPT !.expr = e, !.hasExpr = TRUE]
Scope(b) == [Plain("block") EXCEPT !.body = b]
If(c, b, e) == [Plain("if") EXCEPT !.ifs = << [cond |-> c, body |-> b] >>, !.body = e]
If2(c, b, d, g, e) == [Plain("if") EXCEPT
  !.ifs = << [cond |-> c, body |-> b], [cond |-> d, body |-> g] >>, !.body = e]
While(c, b) == [Plain("while") EXCEPT !.expr = c, !.body = b]
For(i, c, t, b) == [Plain("for") EXCEPT !.init = i, !.expr = c, !.hasExpr = TRUE,
                                        !.iteration = t, !.body = b]
Forever(i, t, b) == [Plain("for") EXCEPT !.init = i, !.iteration = t, !.body = b]

Effect == Infix(<< Op("builtin") >>)
Fatal == Infix(<< Op("fatal") >>)
UseX == Infix(<< Use("x") >>)
I(e) == << Decl("i", e) >>

\* Bodies of a loop, by what they do to leave it.
Leavers == { << Brk >>, << Ret(<<>>) >>,
             << Default("x"), Scope(<< Default("i"), UseX, Brk >>), UseX >>,
             << If(<<>>, << Brk >>, << Ret(<< Use("i") >>) >>) >>,
             << If2(<< Use("i") >>, << Effect >>, <<>>, << Scope(<< Ret(<<>>) >>) >>, << Brk >>), Effect >>,
             << While(<<>>, << Brk >>), Infix(<< Call("f") >>) >>,
             << Forever(<<>>, << Op("builtin") >>, << If(<<>>, << Brk >>, <<>>), Default("x"), UseX >>) >>,
             << Decl("x", << Call("f") >>), Ret(<< Use("x"), Op("unary"), Use("i") >>) >> }

\* Loops that may run such a body.
LoopsOver(b) == { While(<< Call("f") >>, b), For(I(<< Call("f"), Op("unary") >>), << Use("i") >>, << Call("f") >>, b),
                  For(<< Effect >>, << Use("i") >>, <<>>, b), Forever(<< Default("i") >>, << Op("builtin") >>, b) }

\* Functions that are called in the middle of all that.
Callees == { << Ret(<< Op("builtin") >>) >>, << End >>,
             << Default("x"), While(<<>>, << If(<< Use("x") >>, << Ret(<<>>) >>, << Brk >>) >>), Effect, End >>,
             << If(<<>>, << Infix(<< Subdir("f") >>) >>, <<>>), Old, End >> }

Program(main, f) == [g \in MCFun |-> IF g = "main" THEN main ELSE f]

SafePrograms ==
  { Program(<< Default("i"), loop, Scope(<< Effect >>), Infix(<< Op("component"), Call("f") >>), End >>, callee) :
      loop \in UNION { LoopsOver(b) : b \in Leavers }, callee \in Callees }

\* Programs that raise a fatal error outside every condition and every loop.
FatalCallees == { << If(<<>>, << Fatal >>, <<>>), Effect, Old, End >>,
                  << Decl("x", << Op("fatal") >>), UseX, End >>,
                  << Scope(<< Ret(<< Op("builtin"), Op("fatal"), Op("builtin") >>) >>), End >>,
                  << If(<<>>, << Infix(<< Subdir("f"), Op("builtin") >>) >>, << Fatal, Effect >>), End >> }
Tails == { Forever(<<>>, <<>>, << Effect, Ret(<<>>) >>), If(<< Use("i") >>, << Effect >>, << Old >>) }
FatalPrograms ==
  { Program(<< Default("i"), s, tail, Old, Infix(<< Op("component") >>), End >>, callee) :
      s \in { Infix(<< Call("f"), Op("component"), Op("builtin") >>),
              Infix(<< Use("i"), Op("unary"), Call("f"), Call("f") >>),
              Infix(<< Subdir("f"), Call("f") >>),
              Scope(<< Decl("x", << Subdir("f"), Use("i") >>), UseX >>),
              If(<< Use("i") >>, << While(<<>>, << Effect, Brk >>), Ret(<< Call("f") >>) >>, << Fatal >>),
              For(<< Effect >>, <<>>, <<>>, << If2(<<>>, << Brk >>, <<>>, << Effect >>, <<>>) >>),
              Ret(<< Call("f"), Subdir("f") >>) },
      tail \in Tails, callee \in FatalCallees }

\* A fatal error in the condition of an if, and in the body of each loop.
CrashPrograms ==
  { Program(<< s, End >>, << End >>) :
      s \in { If(<< Op("fatal") >>, << Effect >>, <<>>), While(<<>>, << Fatal >>),
              For(I(<<>>), << Call("f"), Use("i") >>, << Call("f"), Op("unary") >>, << Default("x"), Fatal >>) } }
UnaryPrograms == { Program(<< Infix(<< Op("fatal"), Op("unary") >>), End >>, << End >>) }
ForeverPrograms ==
  { Program(<< Forever(<<>>, e, << s, Fatal >>), End >>, << End >>) :
      s \in { Old, Effect }, e \in { <<>>, << Op("component") >>, << Call("f") >> } }

SubNodes(body) ==
  LET Inside(n) == { n.init[i] : i \in DOMAIN n.init } \union { n.body[i] : i \in DOMAIN n.body }
                   \union UNION { { n.ifs[k].body[i] : i \in DOMAIN n.ifs[k].body } : k \in DOMAIN n.ifs }
      here == { body[i] : i \in DOMAIN body }
      one == here \union UNION { Inside(n) : n \in here }
      two == one \union UNION { Inside(n) : n \in one }
      three == two \union UNION { Inside(n) : n \in two }
      four == three \union UNION { Inside(n) : n \in three }
  IN four
CarelessPrograms == CrashPrograms \union UnaryPrograms \union ForeverPrograms
AllPrograms == SafePrograms \union FatalPrograms \union CarelessPrograms
MCNode == UNION { SubNodes(p["main"]) \union SubNodes(p["f"]) : p \in AllPrograms }

\* Five levels deep are the nodes above nested.
GrownBy(S) == { n \in MCNode : BreaksOut(n, S) }
MCBreaking == GrownBy(GrownBy(GrownBy(GrownBy(GrownBy({})))))

FreeWith(free) == [n \in MCNode |-> FreeIn(n, free)]
MCFree == FreeWith(FreeWith(FreeWith(FreeWith(FreeWith([n \in MCNode |-> {}])))))

\* Least sets of nodes that may raise a fatal error, and that may overlook one.
RECURSIVE RaisingBy(_, _), OverlookingBy(_, _, _)
RaisingBy(p, S) ==
  LET more == { n \in MCNode : Raises(n, p, S) }
  IN IF more \subseteq S THEN S ELSE RaisingBy(p, more \union S)
OverlookingBy(p, S, T) ==
  LET more == { n \in MCNode : Overlooks(n, p, S, T) }
  IN IF more \subseteq T THEN T ELSE OverlookingBy(p, S, more \union T)

\* The programs that take no care are the ones that semantic analysis does not
\* refuse and the theorems about fatal errors leave out.
ASSUME \A p \in AllPrograms :
         LET S == RaisingBy(p, {})
         IN CarefulWith(p, S, OverlookingBy(p, S, {})) <=> p \notin CarelessPrograms
====
