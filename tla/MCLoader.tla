---- MODULE MCLoader ----
(***************************************************************************)
(* Projects for Loader: a root script, modules that import each other,     *)
(* subdirectories of each kind, and declarative files.                     *)
(***************************************************************************)
EXTENDS Loader, TLC

A == << "a" >>
B == << "b" >>
C == << "s", "c" >>
D == << "d.dcmsl" >>
E == << "e.dcmsl" >>
Root == << "CMakeLists.cmsl" >>
S == << "s", "CMakeLists.cmsl" >>
T == << "s", "t", "CMakeLists.cmsl" >>
SS == << "s", "s", "CMakeLists.cmsl" >>
Decl == << "c", "CMakeLists.dcmsl" >>
DeclRoot == << "CMakeLists.dcmsl" >>
Old == << "o", "CMakeLists.txt" >>
OldInS == << "s", "o", "CMakeLists.txt" >>

No == << "no" >>
MCPath == { A, B, C, D, E, Root, S, T, SS, Decl, DeclRoot, Old, OldInS, No }
MCEntry == { "s", "t", "c", "o", "e.dcmsl", "d.dcmsl", "no" }
MCFun == { "main", "f" }
MCVar == { "x", "y" }

Nothing == [n \in {} |-> <<>>]
Empty == [parses |-> {"cmsl"}, exports |-> TRUE, component |-> FALSE,
          steps |-> <<>>, statics |-> <<>>, functions |-> Nothing]
Each(seq, F(_)) == [i \in 1 .. Len(seq) |-> F(seq[i])]
ImportOf(p) == [do |-> "import", path |-> p]
Dir(n) == [do |-> "subdir", name |-> n]
FileStep(n) == [do |-> "file", name |-> n]
Variable(n, init) == [do |-> "variable", name |-> n, init |-> init]
Read(from, n) == [op |-> "read", from |-> from, name |-> n]
Write(from, n) == [op |-> "write", from |-> from, name |-> n]
Call(from, n) == [op |-> "call", from |-> from, name |-> n]
Sub(n) == [op |-> "subdir", name |-> n]
AddFile(n) == [op |-> "file", name |-> n]

\* An imperative script: its imports, what its analysis adds, its variables.
Imperative(imports, adds, variables, functions) ==
  [Empty EXCEPT !.steps = Each(imports, ImportOf) \o adds,
                !.statics = Each(imports, ImportOf) \o variables, !.functions = functions]
Declarative(imports, component) ==
  [Empty EXCEPT !.parses = {"dcmsl"}, !.component = component, !.steps = Each(imports, ImportOf)]
F1(f) == [n \in {"f"} |-> f]
Main(ops) == [n \in {"main"} |-> ops]
MainAnd(ops, f) == [n \in {"main", "f"} |-> IF n = "main" THEN ops ELSE f]

\* Modules: x and a function that changes it; a module that calls it to
\* initialize its own variable; a module in a subdirectory that imports both.
ModuleA == Imperative(<<>>, <<>>, << Variable("x", <<>>) >>, F1(<< Write(Own, "x") >>))
ModuleB == Imperative(<< A >>, <<>>, << Variable("y", << Call(A, "f") >>), Variable("x", << Read(Own, "y") >>) >>,
                   F1(<< Read(A, "x"), Call(A, "f") >>))
ModuleC == Imperative(<< B, A >>, <<>>, << Variable("y", << Call(B, "f") >>) >>, F1(<< Read(B, "y"), Read(A, "x") >>))

Uses(imports) ==
  LET Ops(p) == << Call(p, "f"), Read(p, IF p = A THEN "x" ELSE "y") >>
      F[i \in 0 .. Len(imports)] == IF i = 0 THEN <<>> ELSE F[i - 1] \o Ops(imports[i])
  IN F[Len(imports)]

RootScript(imports, adds, ops, init) ==
  Imperative(imports, adds, << Variable("x", init), Variable("y", << Read(Own, "x") >>) >>,
          MainAnd(<< Read(Own, "y"), Write(Own, "x"), [op |-> "builtin"] >> \o Uses(imports) \o ops,
                  Uses(imports)))
SubScript(imports, adds, ops) == Imperative(imports, adds, <<>>, Main(Uses(imports) \o ops))

Common == (A :> ModuleA) @@ (B :> ModuleB) @@ (C :> ModuleC) 
            @@ (D :> Declarative(<<>>, FALSE)) @@ (E :> Declarative(<< D >>, TRUE)) @@ (Old :> Empty) 
            @@ (OldInS :> Empty) @@ (Decl :> Declarative(<< D >>, TRUE))

ImportLists == { <<>>, << A >>, << B >>, << A, B >>, << B, A >>, << C >>, << C, A, B >> }
Additions == { << <<>>, <<>> >>,
               << << Dir("s"), FileStep("e.dcmsl") >>, << Sub("s"), AddFile("e.dcmsl") >> >>,
               << << Dir("s"), Dir("o"), Dir("s"), Dir("c") >>, << Sub("s"), Sub("o"), Sub("s"), Sub("c") >> >>,
               << << FileStep("e.dcmsl"), Dir("c"), FileStep("e.dcmsl"), Dir("c") >>,
                  << AddFile("e.dcmsl"), Sub("c"), Sub("c") >> >> }
SubAdditions == { << <<>>, <<>> >>, << << Dir("t"), Dir("o") >>, << Sub("o"), Sub("t"), Sub("t") >> >> }

Good(imports, init, adds, subImports, subAdds) ==
  (Root :> RootScript(imports, adds[1], adds[2], init))
    @@ (S :> SubScript(subImports, subAdds[1], subAdds[2]))
    @@ (T :> SubScript(<< A >>, <<>>, <<>>)) @@ Common
GoodProjects ==
  { Good(i, init, adds, subImports, subAdds) :
      i \in ImportLists, init \in { <<>>, << Call(Own, "f") >> }, adds \in Additions,
      subImports \in { <<>>, << B >>, << C, A >> }, subAdds \in SubAdditions }

----------------------------------------------------------------------------
\* Projects with mistakes in them, or with files used in two ways.
Small(root) == (Root :> root) @@ Common
MainOnly(imports, adds, ops) == Imperative(imports, adds, <<>>, Main(ops))
ReadsOwn == Imperative(<<>>, <<>>, << Variable("x", <<>>) >>, Main(<< Read(Own, "x") >>))

\* Each of the following is one thing that goes wrong.
\* main of a subdirectory reads a variable of its own file.
SubdirectoryVariable ==
  { (S :> ReadsOwn) @@ Small(MainOnly(<<>>, << Dir("s") >>, << Sub("s") >>)) }
\* An initializer reads an imported variable.
ImportedInitializer ==
  { Small(Imperative(<< A >>, <<>>, << Variable("y", << Read(A, "x") >>) >>, Main(<<>>))) }
\* An initializer calls a function that reads an earlier variable of the file.
InitializerFunction ==
  { Small(Imperative(<<>>, <<>>, << Variable("x", <<>>), Variable("y", << Call(Own, "f") >>) >>,
                     MainAnd(<<>>, << Read(Own, "x") >>))) }
\* An initializer of a module calls a function that reads a builtin variable.
BuiltinInitializer ==
  { (A :> Imperative(<<>>, <<>>, << Variable("x", << Call(Own, "f") >>) >>, F1(<< [op |-> "builtin"] >>)))
      @@ Small(MainOnly(<< A >>, <<>>, << Read(A, "x") >>)) }
\* A function called by an initializer raises a fatal error.
FatalInitializer ==
  { Small(Imperative(<<>>, <<>>, << Variable("y", << Call(Own, "f") >>), Variable("x", <<>>) >>,
                     MainAnd(<< Read(Own, "x") >>, << [op |-> "fatal"] >>))) }
\* A script is added as a subdirectory, then imported for one of its functions.
AddedAndImported ==
  { (S :> Imperative(<<>>, <<>>, << Variable("x", <<>>) >>, MainAnd(<<>>, <<>>)))
      @@ Small(MainOnly(<<>>, << Dir("s"), ImportOf(S) >>, << Sub("s"), Call(S, "f") >>)) }
\* An empty file is imported by an imperative and by a declarative script.
SharedImport ==
  { (D :> [Empty EXCEPT !.parses = {"cmsl", "dcmsl"}, !.exports = FALSE])
      @@ Small(MainOnly(<< D >>, << FileStep("e.dcmsl") >>, <<>>)) }
\* A function of a module adds a subdirectory whose script imports the module.
ImportedBySubdirectory ==
  { (A :> Imperative(<<>>, << Dir("s") >>, << Variable("x", <<>>) >>, F1(<< Sub("s") >>)))
      @@ (S :> SubScript(<< A >>, <<>>, <<>>)) @@ (SS :> MainOnly(<<>>, <<>>, <<>>))
      @@ Small(MainOnly(<< A >>, <<>>, << Call(A, "f") >>)) }

\* Files with mistakes, as a root script, as a subdirectory, as a module.
Faulty == { [Empty EXCEPT !.parses = {}],
             MainOnly(<<>>, << [do |-> "error"] >>, <<>>),
             MainOnly(<< C, A, A >>, <<>>, <<>>),
             MainOnly(<<>>, << Dir("no") >>, <<>>),
             MainOnly(<<>>, << FileStep("no") >>, <<>>),
             MainOnly(<< OldInS, D >>, <<>>, <<>>),
             Imperative(<<>>, <<>>, <<>>, Nothing),
             MainOnly(<< B, A >>, <<>>, << Call(B, "f"), [op |-> "fatal"], Read(A, "x") >>),
             Imperative(<< S >>, <<>>, <<>>, MainAnd(<<>>, <<>>)),
             MainOnly(<< Root >>, <<>>, <<>>),
             MainOnly(<<>>, << Dir("c"), FileStep("d.dcmsl") >>, << AddFile("d.dcmsl") >>) }
FaultyDeclarative == { Declarative(<< A >>, TRUE), Declarative(<< D, D >>, TRUE), Declarative(<<>>, FALSE),
                       Declarative(<< Decl >>, TRUE), Declarative(<< No >>, TRUE) }
FaultyProjects ==
  { Small(f) : f \in Faulty }
  \union { (S :> f) @@ Small(MainOnly(<< A >>, << Dir("c"), Dir("s") >>, << Sub("s") >>)) : f \in Faulty }
  \union { (C :> f) @@ Small(MainOnly(<< A, C >>, << Dir("c") >>, <<>>)) : f \in Faulty }
  \union { (Decl :> f) @@ Small(MainOnly(<<>>, << FileStep("e.dcmsl"), Dir("c") >>, << Sub("c") >>)) :
             f \in FaultyDeclarative }
  \union { (DeclRoot :> f) @@ Common : f \in FaultyDeclarative }
OddProjects ==
  \* A script is imported, then added; scripts of the root directory alone.
  { (S :> Imperative(<<>>, <<>>, << Variable("x", <<>>) >>, MainAnd(<<>>, <<>>)))
      @@ Small(MainOnly(<< S >>, << Dir("s") >>, << Sub("s"), Call(S, "f") >>)),
    (DeclRoot :> Declarative(<< D, E >>, TRUE)) @@ Common,
    Common }
FaultyAndOdd == FaultyProjects \union OddProjects \union SubdirectoryVariable
                  \union ImportedInitializer \union InitializerFunction \union BuiltinInitializer
                  \union FatalInitializer \union AddedAndImported \union SharedImport
                  \union ImportedBySubdirectory
AllProjects == GoodProjects \union FaultyAndOdd
====
