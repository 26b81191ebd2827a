---- MODULE Loader ----
(***************************************************************************)
(* From the root directory of a project to its main function:              *)
(* source/exec/global_executor.cpp with the static variables of            *)
(* cross_translation_unit_static_variables.cpp.  Semantic analysis calls   *)
(* back to compile what a file imports or adds, so compilations nest, and  *)
(* the variables of a module are initialized, by the interpreter, in the   *)
(* middle of the compilation of whoever imports it.  ctrl is the C++ call  *)
(* stack: compilations, runs of static initializers and user functions.    *)
(***************************************************************************)
EXTENDS Naturals, Sequences

CONSTANTS Path,         \* paths of files from the root: directories, then a file name
          Entry,        \* names of directories and declarative files
          Fun,          \* names of functions
          Var,          \* names of static variables
          FileSystems,  \* the projects considered: the files of each, by their paths
          Mistaken,     \* those with a mistake, or a file that is used in two ways or needs itself
          MaxDepth      \* activations the native stack has room for

Own == <<>>  \* where a name of the same file comes from: no file has this path

\* One operation of a function's body or of an initializer.
Op == [op : {"read", "write"}, from : Path \union {Own}, name : Var]
        \union [op : {"call"}, from : Path \union {Own}, name : Fun]
        \union [op : {"subdir", "file"}, name : Entry]
        \union [op : {"builtin", "fatal"}]
\* What semantic analysis does, in order, apart from checking names and types.
Step == [do : {"import"}, path : Path]
          \union [do : {"subdir", "file"}, name : Entry]
          \union [do : {"error"}]
\* The same file as the static initializer visits it.
Static == [do : {"import"}, path : Path]
            \union [do : {"variable"}, name : Var, init : Seq(Op)]
Languages == {"cmsl", "dcmsl"}  \* imperative and declarative scripts

ASSUME NameAssumption == Own \notin Path /\ "main" \in Fun
ASSUME FileAssumption ==
  \A project \in FileSystems :
    /\ DOMAIN project \subseteq Path
    /\ \A p \in DOMAIN project :
         LET f == project[p]
         IN /\ f.parses \subseteq Languages  \* the parsers that accept it
            /\ f.exports \in BOOLEAN    \* it exports a name
            /\ f.component \in BOOLEAN  \* declarative: it creates a component
            /\ f.steps \in Seq(Step)
            /\ f.statics \in Seq(Static)
            /\ DOMAIN f.functions \subseteq Fun
            /\ \A n \in DOMAIN f.functions : f.functions[n] \in Seq(Op)
\* What semantic analysis leaves of a file.  The static initializer visits the
\* imports that were analysed; a name is one of the file or of a file that it
\* imports, and a function that is called is there.  A declarative script has
\* imports and components, nothing else.
Imports(steps) == { steps[i].path : i \in { i \in 1 .. Len(steps) : steps[i].do = "import" } }
Resolved(project, p, ops) ==
  \A i \in 1 .. Len(ops) :
    /\ ops[i].op \in {"read", "write", "call"} =>
         ops[i].from \in Imports(project[p].steps) \union {Own}
    /\ ops[i].op = "call" =>
         LET from == IF ops[i].from = Own THEN p ELSE ops[i].from
         IN from \in DOMAIN project => ops[i].name \in DOMAIN project[from].functions
ASSUME AnalysisAssumption ==
  \A project \in FileSystems : \A p \in DOMAIN project :
    LET f == project[p]
    IN /\ Imports(f.statics) \subseteq Imports(f.steps)
       /\ \A n \in DOMAIN f.functions : Resolved(project, p, f.functions[n])
       /\ \A i \in 1 .. Len(f.statics) :
            f.statics[i].do = "variable" => /\ "dcmsl" \notin f.parses
                                           /\ Resolved(project, p, f.statics[i].init)
       /\ "dcmsl" \in f.parses => DOMAIN f.functions = {}
ASSUME MistakenAssumption == Mistaken \subseteq FileSystems
\* A project is tidy when each file is imported or added, not both, and none needs
\* itself.  Of an added directory or declarative file just the name is known: where
\* it is depends on who imports or adds the file that adds it.
SourceNames == { "CMakeLists.dcmsl", "CMakeLists.cmsl" }
AddsFile(step, p) ==
  \/ /\ step.do = "subdir" /\ Len(p) > 1
     /\ p[Len(p) - 1] = step.name /\ p[Len(p)] \in SourceNames
  \/ step.do = "file" /\ p[Len(p)] = step.name
AddedTo(project, steps) == { p \in DOMAIN project : \E i \in 1 .. Len(steps) : AddsFile(steps[i], p) }
Tidy(project) ==
  LET Files == DOMAIN project
      imports == [p \in Files |-> Imports(project[p].steps)]
      adds == [p \in Files |-> AddedTo(project, project[p].steps)]
  IN /\ \A p, q \in Files : imports[p] \cap adds[q] = {}
     /\ \A S \in SUBSET Files :
          S # {} => \E p \in S : imports[p] \cap S = {} /\ adds[p] \cap S = {}
ASSUME TidyAssumption == \A project \in FileSystems \ Mistaken : Tidy(project)
ASSUME MaxDepthAssumption == MaxDepth \in Nat \ {0}

VARIABLES fs,            \* the project
          ctrl,          \* activations, the innermost last
          units,         \* the compiled sources made so far, imperative and declarative
          directories,   \* m_directories
          compiled,      \* m_compiled_sources
          declarative,   \* m_compiled_declarative_sources
          trees,         \* m_sema_trees
          exported,      \* m_exported_qualified_contextes
          builtins,      \* initialize_builtin_variables was called
          fatal,         \* cmake_facade::did_fatal_error_occure()
          status

caches == <<compiled, declarative, trees, exported>>
vars == <<fs, ctrl, units, directories, caches, builtins, fatal, status>>
----------------------------------------------------------------------------
None == 0  \* no unit; as a script: one in the old language
States == {"absent", "initial", "written"}
UnitRecord == [path : Path, lang : Languages,
               links : [Path -> Nat],      \* imports: the unit the names come from
               scripts : [Entry -> Nat],    \* added directories and files
               dead : BOOLEAN,             \* its trees were destroyed
               statics : [Var -> States], \* its part of m_variables
               globals : [Var -> States]] \* its part of m_global_variables

Reasons == {"root", "subdir", "file", "import"}
UnitLevel == [kind : {"unit"}, unit : Nat, pc : Nat, by : Reasons,
              stage : {"analysis", "initialization"}]
StaticsLevel == [kind : {"statics"}, unit : Nat, pc : Nat, op : Nat, own : SUBSET Var,
                 by : {"import", "again", "program"}]
FunctionLevel == [kind : {"function"}, unit : Nat, name : Fun, op : Nat]

Top == ctrl[Len(ctrl)]
Below == SubSeq(ctrl, 1, Len(ctrl) - 1)
Replaced(level) == [ctrl EXCEPT ![Len(ctrl)] = level]
Caller == Len(ctrl) - 1
Room == Len(ctrl) < MaxDepth
Running(kind) == status = "running" /\ ctrl # <<>> /\ Top.kind = kind

Statics(u, by) == [kind |-> "statics", unit |-> u, pc |-> 0, op |-> 0, own |-> {}, by |-> by]
Function(u, name) == [kind |-> "function", unit |-> u, name |-> name, op |-> 0]

Exists(p) == p \in DOMAIN fs
FileOf(u) == fs[units[u].path]
Parses(u) == units[u].lang \in FileOf(u).parses
HasMain(p) == "main" \in DOMAIN fs[p].functions

\* The script of a directory: a declarative one goes before the others.
ScriptNames == << "CMakeLists.dcmsl", "CMakeLists.cmsl", "CMakeLists.txt" >>
IsScript(dirs, i) == /\ Exists(Append(dirs, ScriptNames[i]))
                     /\ \A j \in 1 .. i - 1 : ~Exists(Append(dirs, ScriptNames[j]))
Declares(dirs) == IsScript(dirs, 1)
Script(dirs) == Append(dirs, ScriptNames[IF Declares(dirs) THEN 1 ELSE 2])
ScriptLang(dirs) == IF Declares(dirs) THEN "dcmsl" ELSE "cmsl"

\* unordered_map::emplace does nothing when the key is there.
EmplacedNext(cache, p, u) == [cache EXCEPT ![p] = u + 1]   \* mutant
Emplaced(cache, p, u) == IF cache[p] = None THEN [cache EXCEPT ![p] = u] ELSE cache

\* What a map of compiled sources does not take in is destroyed on the spot.
Destroyed(cache, p, u) == [units EXCEPT ![u].dead = (cache[p] # None)]
----------------------------------------------------------------------------
\* Compilation.  load_source and the compiler: the new unit is analysed above.
NewUnit(p, lang) == [path |-> p, lang |-> lang, links |-> [q \in Path |-> None], scripts |-> [n \in Entry |-> None],
                     dead |-> FALSE, statics |-> [n \in Var |-> "absent"],
                     globals |-> [n \in Var |-> "absent"]]
Compile(stack, p, lang, by) ==
  IF Room
  THEN /\ units' = Append(units, NewUnit(p, lang))
       /\ ctrl' = Append(stack, [kind |-> "unit", unit |-> Len(units) + 1, pc |-> 0,
                                 by |-> by, stage |-> "analysis"])
       /\ UNCHANGED status
  ELSE /\ status' = "overflow"
       /\ UNCHANGED <<units, ctrl>>

\* A null result goes all the way down: no caller tries anything else, and no
\* one takes back what it pushed to m_directories.
Fail == /\ status' = "failed"
        /\ UNCHANGED <<fs, ctrl, units, directories, caches, builtins, fatal>>

\* execute_based_on_root_path
ExecuteRoot ==
  /\ status = "running" /\ units = <<>>
  /\ IF Exists(Script(directories))
     THEN Compile(ctrl, Script(directories), ScriptLang(directories), "root")
     ELSE status' = "failed" /\ UNCHANGED <<ctrl, units>>
  /\ UNCHANGED <<fs, directories, caches, builtins, fatal>>

Analysing(lang) == Running("unit") /\ Top.stage = "analysis" /\ units[Top.unit].lang = lang
StepsLeft == Top.pc < Len(FileOf(Top.unit).steps)
TheStep == FileOf(Top.unit).steps[Top.pc + 1]
AtStep(do, lang) == /\ Analysing(lang) /\ Parses(Top.unit) /\ StepsLeft
                    /\ TheStep.do = do
Advanced == Replaced([Top EXCEPT !.pc = @ + 1])
Linked(u, p, target) == [units EXCEPT ![u].links[p] = target]
WithScript(u, name, target) == [units EXCEPT ![u].scripts[name] = target]

ParseError ==
  /\ Running("unit")
  /\ ~Parses(Top.unit)
  /\ Fail

SemanticError ==
  /\ Running("unit") /\ Top.stage = "analysis" /\ Parses(Top.unit) /\ StepsLeft
  /\ TheStep.do = "error"
  /\ Fail

\* handle_import and handle_declarative_import.  What is exported is merged
\* into the importing file: a name it has already is redeclared.
NothingImported(p) == FALSE                               \* mutant
Imported(p) == exported[p] # None
Redeclares(p) == units[Top.unit].links[p] # None /\ fs[p].exports
Import(lang) ==
  /\ AtStep("import", lang)
  /\ LET p == TheStep.path
     IN \/ /\ Imported(p)
           /\ status' = IF lang = "dcmsl" /\ declarative[p] = None THEN "asserted"
                        ELSE IF Redeclares(p) THEN "failed" ELSE "running"
           /\ ctrl' = Advanced
           /\ units' = Linked(Top.unit, p, exported[p])
        \/ /\ ~Imported(p) /\ ~Exists(p)
           /\ status' = "failed"
           /\ UNCHANGED <<ctrl, units>>
        \/ /\ ~Imported(p) /\ Exists(p)
           /\ Compile(Advanced, p, lang, "import")
  /\ UNCHANGED <<fs, directories, caches, builtins, fatal>>
HandleImport == Import("cmsl")
HandleDeclarativeImport == Import("dcmsl")

\* handle_add_subdirectory.  get_main of a source with no main reads the front
\* of an empty vector.
NoCachedScript(dirs) == None                              \* mutant
CachedScript(dirs) == IF Declares(dirs) THEN declarative[Script(dirs)] ELSE compiled[Script(dirs)]
HandleAddSubdirectory ==
  /\ AtStep("subdir", "cmsl")
  /\ LET name == TheStep.name
         inside == Append(directories, name)
     IN \/ /\ \A i \in 1 .. 3 : ~IsScript(inside, i)  \* the directory stays on m_directories
           /\ status' = "failed"
           /\ directories' = inside
           /\ UNCHANGED <<ctrl, units>>
        \/ /\ IsScript(inside, 3)
           /\ ctrl' = Advanced
           /\ UNCHANGED <<units, directories, status>>
        \/ /\ Exists(Script(inside)) /\ CachedScript(inside) # None
           /\ ctrl' = Advanced
           /\ units' = WithScript(Top.unit, name, CachedScript(inside))
           /\ status' = IF Declares(inside) \/ HasMain(Script(inside)) THEN "running" ELSE "crashed"
           /\ UNCHANGED directories
        \/ /\ Exists(Script(inside)) /\ CachedScript(inside) = None
           /\ Compile(Advanced, Script(inside), ScriptLang(inside), "subdir")
           /\ directories' = inside
  /\ UNCHANGED <<fs, caches, builtins, fatal>>

\* handle_add_declarative_file
HandleAddDeclarativeFile ==
  /\ AtStep("file", "cmsl")
  /\ LET p == Append(directories, TheStep.name)
     IN \/ /\ ~Exists(p)
           /\ status' = "failed"
           /\ UNCHANGED <<ctrl, units>>
        \/ /\ Exists(p) /\ declarative[p] # None
           /\ ctrl' = Advanced
           /\ units' = WithScript(Top.unit, TheStep.name, declarative[p])
           /\ UNCHANGED status
        \/ /\ Exists(p) /\ declarative[p] = None
           /\ Compile(Advanced, p, "dcmsl", "file")
  /\ UNCHANGED <<fs, directories, caches, builtins, fatal>>

\* The end of a compilation, each with what its caller does with the result.
Analysed(lang, by) == /\ Analysing(lang) /\ Parses(Top.unit) /\ ~StepsLeft
                      /\ Top.by = by
ThePath == units[Top.unit].path
Importer == ctrl[Caller].unit

\* handle_import initializes the module before it stores what it compiled.
InitializeModule ==
  /\ Analysed("cmsl", "import")
  /\ IF Room
     THEN /\ ctrl' = Append(Replaced([Top EXCEPT !.stage = "initialization"]),
                           Statics(Top.unit, "import"))
          /\ UNCHANGED status
     ELSE status' = "overflow" /\ UNCHANGED ctrl
  /\ UNCHANGED <<fs, units, directories, caches, builtins, fatal>>

\* The importer gets what was exported by this compilation, not what the cache holds.
StoreModule ==
  /\ Running("unit") /\ Top.stage = "initialization"
  /\ trees' = Emplaced(trees, ThePath, Top.unit)
  /\ compiled' = Emplaced(compiled, ThePath, Top.unit)
  /\ exported' = Emplaced(exported, ThePath, Top.unit)
  /\ units' = [Destroyed(compiled, ThePath, Top.unit) EXCEPT ![Importer].links[ThePath] = Top.unit]
  /\ ctrl' = Below
  /\ UNCHANGED <<fs, directories, declarative, builtins, fatal, status>>

StoreDeclarativeModule ==
  /\ Analysed("dcmsl", "import")
  /\ declarative' = Emplaced(declarative, ThePath, Top.unit)
  /\ exported' = Emplaced(exported, ThePath, Top.unit)
  /\ units' = [Destroyed(declarative, ThePath, Top.unit) EXCEPT ![Importer].links[ThePath] = Top.unit]
  /\ ctrl' = Below
  /\ UNCHANGED <<fs, directories, compiled, trees, builtins, fatal, status>>

\* compile_file and the rest of handle_add_subdirectory, which goes on with what
\* it compiled even if it is gone.
StayInDirectory == directories                            \* mutant
LeaveDirectory == SubSeq(directories, 1, Len(directories) - 1)
StoreSubdirectory ==
  /\ Analysed("cmsl", "subdir")
  /\ trees' = Emplaced(trees, ThePath, Top.unit)
  /\ IF HasMain(ThePath)
     THEN /\ compiled' = Emplaced(compiled, ThePath, Top.unit)
          /\ units' = [Destroyed(compiled, ThePath, Top.unit)
                         EXCEPT ![Importer].scripts[directories[Len(directories)]] = Top.unit]
          /\ directories' = LeaveDirectory
          /\ ctrl' = Below
          /\ status' \in IF compiled[ThePath] = None THEN {"running"} ELSE {"running", "crashed"}
     ELSE /\ status' = "crashed"
          /\ UNCHANGED <<ctrl, units, directories, compiled>>
  /\ UNCHANGED <<fs, declarative, exported, builtins, fatal>>

\* compile_declarative_file and the rest of its two callers.
StoreDeclarativeScript ==
  /\ \/ Analysed("dcmsl", "subdir") /\ directories' = LeaveDirectory
     \/ Analysed("dcmsl", "file") /\ UNCHANGED directories
  /\ declarative' = Emplaced(declarative, ThePath, Top.unit)
  /\ LET name == IF Top.by = "subdir" THEN directories[Len(directories)] ELSE ThePath[Len(ThePath)]
     IN units' = [Destroyed(declarative, ThePath, Top.unit) EXCEPT ![Importer].scripts[name] = Top.unit]
  /\ ctrl' = Below
  /\ UNCHANGED <<fs, compiled, trees, exported, builtins, fatal, status>>

\* compile_file and the rest of execute_based_on_root_path: the builtin variables
\* come into being here, then main is run.
ExecuteProgram ==
  /\ Analysed("cmsl", "root")
  /\ trees' = Emplaced(trees, ThePath, Top.unit)
  /\ IF HasMain(ThePath)
     THEN /\ compiled' = Emplaced(compiled, ThePath, Top.unit)
          /\ units' = Destroyed(compiled, ThePath, Top.unit)
          /\ builtins' = TRUE
          /\ ctrl' = << Statics(Top.unit, "program") >>
          /\ UNCHANGED status
     ELSE /\ status' = "crashed"
          /\ UNCHANGED <<ctrl, units, compiled, builtins>>
  /\ UNCHANGED <<fs, directories, declarative, exported, fatal>>

\* A declarative root: its component is created; none is a null function.
Creatable(u) == /\ FileOf(u).component /\ ~units[u].dead
                /\ \A p \in Path : units[u].links[p] # None => ~units[units[u].links[p]].dead
ExecuteDeclarativeProgram ==
  /\ Analysed("dcmsl", "root")
  /\ declarative' = Emplaced(declarative, ThePath, Top.unit)
  /\ ctrl' = Below
  /\ status' = IF Creatable(Top.unit) THEN "done" ELSE "crashed"
  /\ UNCHANGED <<fs, units, directories, compiled, trees, exported, builtins, fatal>>
----------------------------------------------------------------------------
\* Static variables.  initialize_module, and initialize_static_variables for the
\* root, run a static_variables_initializer over a tree.
TheStatics == FileOf(Top.unit).statics
AtStatic(do) == /\ Running("statics") /\ Top.pc < Len(TheStatics)
                /\ TheStatics[Top.pc + 1].do = do
TheStatic == TheStatics[Top.pc + 1]

\* initialize: m_already_initialized_modules stays empty, so every import is
\* initialized again.  get_sema_tree throws when it has no such tree.
AlreadyInitialized(p) == FALSE
InitializeImport ==
  /\ AtStatic("import")
  /\ LET p == TheStatic.path
     IN IF trees[p] = None
        THEN status' = "crashed" /\ UNCHANGED ctrl
        ELSE IF AlreadyInitialized(p)
        THEN ctrl' = Advanced /\ UNCHANGED status
        ELSE IF Room
        THEN ctrl' = Append(Advanced, Statics(trees[p], "again")) /\ UNCHANGED status
        ELSE status' = "overflow" /\ UNCHANGED ctrl
  /\ UNCHANGED <<fs, units, directories, caches, builtins, fatal>>

\* The end of an initializer.  After a fatal error its result is uninitialized.
Initializer == TheStatic.init
EndVariable ==
  /\ AtStatic("variable")
  /\ Top.op = Len(Initializer) \/ fatal
  /\ ctrl' = Replaced([Top EXCEPT !.pc = @ + 1, !.op = 0, !.own = @ \union {TheStatic.name}])
  /\ status' \in IF fatal /\ Initializer # <<>> THEN {"running", "crashed"} ELSE {"running"}
  /\ UNCHANGED <<fs, units, directories, caches, builtins, fatal>>

\* gather_instances: a variable that has an instance keeps it.
NoneOfModule(old) == [n \in Var |-> IF n \in Top.own /\ Top.by = "program"         \* mutant
                                    THEN "initial" ELSE old[n]]
Latest(old) == [n \in Var |-> IF n \in Top.own THEN "initial" ELSE old[n]]  \* mutant
Gathered(old) == [n \in Var |-> IF n \in Top.own /\ old[n] = "absent" THEN "initial" ELSE old[n]]
EndStatics ==
  /\ Running("statics") /\ Top.pc = Len(TheStatics)
  /\ IF Top.by = "program"
     THEN /\ units' = [units EXCEPT ![Top.unit].globals = Gathered(@)]
          /\ ctrl' = << Function(Top.unit, "main") >>
     ELSE /\ units' = [units EXCEPT ![Top.unit].statics = Gathered(@)]
          /\ ctrl' = Below
  /\ UNCHANGED <<fs, directories, caches, builtins, fatal, status>>
----------------------------------------------------------------------------
\* Functions, and the operations they share with initializers.
Body == FileOf(Top.unit).functions[Top.name]
Operations == IF Top.kind = "function" THEN Body ELSE Initializer
AtOp(op) == /\ ~fatal
            /\ Running("function") \/ AtStatic("variable")
            /\ Top.op < Len(Operations)
            /\ Operations[Top.op + 1].op = op
TheOp == Operations[Top.op + 1]
Past == Replaced([Top EXCEPT !.op = @ + 1])

\* The unit a name was resolved to by semantic analysis.
Target(o) == IF o.from = Own THEN Top.unit ELSE units[Top.unit].links[o.from]
InGlobals(o) == units[Target(o)].globals[o.name] # "absent"
InStatics(o) == units[Target(o)].statics[o.name] # "absent"
\* execution::lookup_identifier; an initializer sees nothing but the variables
\* of its own run.
FoundInGlobals(o) == IF Top.kind = "function" THEN InGlobals(o)    \* mutant
                     ELSE o.from = Own /\ o.name \in Top.own
Found(o) == IF Top.kind = "function" THEN InGlobals(o) \/ InStatics(o)
            ELSE o.from = Own /\ o.name \in Top.own

ReadVariable ==
  /\ AtOp("read")
  /\ ctrl' = Past
  /\ status' = IF Found(TheOp) THEN "running" ELSE "crashed"
  /\ UNCHANGED <<fs, units, directories, caches, builtins, fatal>>

ReadBuiltin ==
  /\ AtOp("builtin")
  /\ ctrl' = Past
  /\ status' = IF Top.kind = "function" /\ builtins THEN "running" ELSE "crashed"
  /\ UNCHANGED <<fs, units, directories, caches, builtins, fatal>>

WriteVariable ==
  /\ AtOp("write")
  /\ LET o == TheOp
     IN /\ status' = IF Found(o) THEN "running" ELSE "crashed"
        /\ units' = IF ~Found(o) \/ Top.kind = "statics" THEN units
                    ELSE IF InGlobals(o) THEN [units EXCEPT ![Target(o)].globals[o.name] = "written"]
                    ELSE [units EXCEPT ![Target(o)].statics[o.name] = "written"]
  /\ ctrl' = Past
  /\ UNCHANGED <<fs, directories, caches, builtins, fatal>>

RaiseFatal ==
  /\ AtOp("fatal")
  /\ ctrl' = Past
  /\ fatal' = TRUE
  /\ UNCHANGED <<fs, units, directories, caches, builtins, status>>

\* The body of a function of a destroyed tree is gone: anything may happen.
Enter(u, name) ==
  \/ /\ units[u].dead
     /\ status' = "crashed"
     /\ UNCHANGED ctrl
  \/ /\ Room
     /\ ctrl' = Append(Past, Function(u, name))
     /\ UNCHANGED status
  \/ /\ ~Room
     /\ status' = "overflow"
     /\ UNCHANGED ctrl

CallFunction ==
  /\ AtOp("call")
  /\ Enter(Target(TheOp), TheOp.name)
  /\ UNCHANGED <<fs, units, directories, caches, builtins, fatal>>

\* add_subdirectory and add_declarative_file: main of the script that was found
\* by semantic analysis, its component, or nothing but a call of the facade.
Added == units[Top.unit].scripts[TheOp.name]
AddSubdirectory ==
  /\ AtOp("subdir") /\ Added # None /\ units[Added].lang = "cmsl"
  /\ Enter(Added, "main")
  /\ UNCHANGED <<fs, units, directories, caches, builtins, fatal>>

CreateComponent ==
  /\ AtOp("subdir") \/ AtOp("file")
  /\ Added # None /\ units[Added].lang = "dcmsl"
  /\ ctrl' = Past
  /\ status' = IF Creatable(Added) THEN "running" ELSE "crashed"
  /\ UNCHANGED <<fs, units, directories, caches, builtins, fatal>>

AddOldScript ==
  /\ AtOp("subdir") /\ Added = None
  /\ ctrl' = Past
  /\ UNCHANGED <<fs, units, directories, caches, builtins, fatal, status>>

\* The end of execution::call, and of the program.
EndFunction ==
  /\ Running("function")
  /\ Top.op = Len(Body) \/ fatal
  /\ ctrl' = Below
  /\ status' = IF Below # <<>> THEN "running" ELSE IF fatal THEN "failed" ELSE "done"
  /\ UNCHANGED <<fs, units, directories, caches, builtins, fatal>>

Init ==
  /\ fs \in FileSystems
  /\ ctrl = <<>> /\ units = <<>> /\ directories = <<>>
  /\ compiled = [p \in Path |-> None] /\ declarative = compiled
  /\ trees = compiled /\ exported = compiled
  /\ builtins = FALSE /\ fatal = FALSE
  /\ status = "running"

Analysis == \/ ExecuteRoot \/ ParseError \/ SemanticError \/ HandleImport
            \/ HandleDeclarativeImport \/ HandleAddSubdirectory
            \/ HandleAddDeclarativeFile \/ InitializeModule \/ StoreModule
            \/ StoreDeclarativeModule \/ StoreSubdirectory \/ StoreDeclarativeScript
            \/ ExecuteProgram \/ ExecuteDeclarativeProgram
Initialization == InitializeImport \/ EndVariable \/ EndStatics
Execution == \/ ReadVariable \/ ReadBuiltin \/ WriteVariable \/ RaiseFatal
             \/ CallFunction \/ AddSubdirectory \/ CreateComponent \/ AddOldScript
             \/ EndFunction

Stopped == status # "running" /\ UNCHANGED vars
Next == Analysis \/ Initialization \/ Execution \/ Stopped

Spec == Init /\ [][Next]_vars
\* One thread runs it all and never waits.
FairSpec == Spec /\ WF_vars(Analysis \/ Initialization \/ Execution)
----------------------------------------------------------------------------
(***************************************************************************)
(* Properties.                                                             *)
(***************************************************************************)

TypeOK ==
  /\ DOMAIN fs \subseteq Path
  /\ ctrl \in Seq(UnitLevel \union StaticsLevel \union FunctionLevel)
  /\ units \in Seq(UnitRecord)
  /\ directories \in Seq(Entry)
  /\ \A cache \in {compiled, declarative, trees, exported} : 
       /\ cache \in [Path -> 0 .. Len(units)]
       /\ \A p \in Path : cache[p] # None => units[cache[p]].path = p
  /\ builtins \in BOOLEAN /\ fatal \in BOOLEAN
  /\ status \in {"running", "done", "failed", "crashed", "asserted", "overflow"}

\* Names of directories and declarative files are looked up in m_directories.  In
\* the middle of any nesting of imports and subdirectories it spells the directory
\* of the innermost script that is being added, and it is empty when main runs.
AddedScript(i) == ctrl[i].kind = "unit" /\ ctrl[i].by = "subdir"
DirectoriesOfScript ==
  status = "running" =>
    directories = IF \A i \in 1 .. Len(ctrl) : ~AddedScript(i) THEN <<>>
                  ELSE LET i == CHOOSE i \in 1 .. Len(ctrl) :
                                  AddedScript(i) /\ \A j \in i + 1 .. Len(ctrl) : ~AddedScript(j)
                           path == units[ctrl[i].unit].path
                       IN SubSeq(path, 1, Len(path) - 1)

\* A function can use what its file imports: by the time any function of a file
\* runs, be it called by main or by an initializer in the middle of a compilation,
\* all imports of the file were made and all their variables exist.
Variables(u) == LET statics == FileOf(u).statics
                IN { statics[i].name : i \in { j \in 1 .. Len(statics) : statics[j].do = "variable" } }
ImportsReady ==
  Running("function") =>
    \A i \in 1 .. Len(TheStatics) :
      TheStatics[i].do = "import" =>
        LET module == units[Top.unit].links[TheStatics[i].path]
        IN /\ module # None
           /\ \A n \in Variables(module) : units[module].statics[n] # "absent"

\* A module has one instance of each variable: whoever imports a path gets the
\* names of the same unit.
OneInstancePerModule ==
  fs \notin Mistaken => \A u, v \in 1 .. Len(units) : \A p \in Path :
    units[u].links[p] # None /\ units[v].links[p] # None => units[u].links[p] = units[v].links[p]

\* No cache and no resolved name leads to a unit whose trees were destroyed.
Used == (UNION { { cache[p] : p \in Path } : cache \in {compiled, declarative, trees, exported} })
          \union (UNION { { units[u].links[p] : p \in Path } \union { units[u].scripts[n] : n \in Entry } :
                            u \in 1 .. Len(units) })
NothingDangles == fs \notin Mistaken => \A u \in Used \ {None} : ~units[u].dead

\* A variable keeps its instance however often its module is initialized: it never
\* vanishes, and what was written to it is not initialized away.
KeepsValues ==
  [][\A u \in 1 .. Len(units) : \A n \in Var :
       LET old == units[u]
           new == units'[u]
       IN /\ new.statics[n] = "absent" => old.statics[n] = "absent"
          /\ old.statics[n] = "written" => new.statics[n] = "written"
          /\ old.globals[n] = "written" => new.globals[n] = "written"]_vars

\* No read of a variable finds nothing, and no function that is called is gone.
NeverCrashes == status # "crashed"

\* A project without mistakes gets through: its main returns.
Finishes == fs \notin Mistaken => <>(status = "done")
====
