# CMakeSL, specified and checked

CMakeSL is a scripting language for CMake.  The repository holds its lexer, two
parsers (imperative `.cmsl` and declarative `.dcmsl` scripts), their semantic
analyses, a tree-walking interpreter and the executor that ties them together
behind an interface to CMake, `cmake_facade`.  It is a library that runs in one
thread, inside CMake's configuration step: nothing runs concurrently.  What is
hard in it is re-entrance and order: semantic analysis calls back into the
executor to compile other files, compiling a module runs part of it, and jumps
and errors are flags that every activation of the interpreter has to look at.

This directory holds TLA+ models of that behaviour, TLC configurations that check
them and TLAPS proofs about them.  `PROJECT.json` lists components, runs,
mutants, findings, hazards and theorems, and maps each definition to the lines it
was translated from.

## 1. The system

| component | state it keeps | operations | what makes it correct |
|---|---|---|---|
| interpreter (`exec/execution.cpp`, `execution_context.cpp`, `scope_context.cpp`) | `m_callstack` (a stack of frames, each a stack of scopes), `m_function_return_value`, `m_breaking_from_loop`, the globals | one per kind of node, `call`, `enter_function_scope`, `leave_function_scope` | frames and scopes stay balanced however a body ends; a flag reaches what it is meant for and nothing else; flags implement jumps |
| expression evaluation (`exec/expression_evaluation_visitor.cpp`) | `result`, uninitialized until set | one `visit` per kind of node | nothing is used that was not set; after a fatal error nothing is called; directories entered are left |
| loader (`exec/global_executor.cpp`, the two `*_source_compiler.cpp`, `compiled_source.cpp`) | `m_directories`, caches of sources, trees and exported contexts | execute, `handle_import`, `handle_declarative_import`, `handle_add_subdirectory`, `handle_add_declarative_file`, `compile_*` | the directory stack follows the nesting of scripts; one compilation and one instance of a module; nothing that is in use is destroyed; a program is ready when it runs |
| static variables (`exec/cross_translation_unit_static_variables.cpp`, `static_variables_initializer.hpp`) | `m_variables`, `m_already_initialized_modules` | `initialize_module`, `initialize`, `access_variable`, `initialize_builtin_variables` | initialized before use, once, and never initialized away |
| instances (`exec/instance/`) | values, ownership by `instances_holder`, references, observers | create, copy, assign, call of a member, `list_value` | a reference refers to what it was bound to; aliasing arguments; bounds of a list |
| builtin functions (`exec/builtin_function_caller.cpp`) | none | one case per builtin | reads of each value the alternative it holds, returns what the declaration of the builtin says |
| semantic analysis (`sema/sema_builder_ast_visitor.cpp`) | parsing context: loop nesting, current function, contexts | one `visit` per kind of node | static types are those of the values that come; references live as long as their names; what the interpreter relies on holds |
| types and builtin contexts (`sema/builtin_*_context.cpp`, `sema_type.cpp`) | tables of types and functions | built once | agree with `builtin_function_caller` |
| qualified names (`sema/qualified_entries_finder.hpp` and its users) | a tree of namespaces, the path of the current node, local nodes, exported flags | enter and leave a node, add, find, merge an import, collect what is exported | the path always leads to existing nodes; a lookup finds the innermost; imports export nothing on |
| overload resolution, initialization (`sema/overload_resolution.cpp`, `variable_initialization_checker.cpp`) | none | pure | one overload matches; no reference to a temporary |
| lexer, parsers (`lexer/`, `ast/`, `decl_ast/`) | a position | one operation per production | a tree or an error, never both or neither; no token lost; precedence |
| declarative scripts (`decl_sema/`, `exec/declarative_component_*`) | types and declarations of components by name, the instance of the one that is created | analysis, creation of a component | a component has what its bases say and what it says on top; what analysis accepts is created |
| errors, factories, dumpers, common helpers, tools | | | |
| `cmake_facade` | the fatal error flag, the current directory | implemented by CMake | external |

How they interact.  The executor compiles the root script: a parser makes a
tree of its tokens, semantic analysis one with types.  Semantic analysis of
an `import` calls `handle_import`, which compiles the module (so analyses nest),
initializes its static variables, for which the interpreter calls functions of
modules that are ready, and stores it in the caches.  Analysis of
`add_subdirectory` and `add_declarative_file` calls back in the same way.  When
the root is compiled the builtin variables and the root's static variables are
initialized and `main` is called.  `add_subdirectory` then runs the `main` of the
other script, between `prepare_for_add_subdirectory_with_cmakesl_script` and
`finalize_subdirectory` of the facade.  A fatal error is a flag in the facade.

Behaviours that are hard to test, in the order in which the plan takes them:
what jumps and errors leave behind in nested activations; the order in which
files are compiled, initialized and stored, when they import and add each other;
caches filled late or under one key from two sides; names resolved in a tree that
an import changes; references and observers across copies of values; arithmetic
on list positions; variants read without asking what they hold, on the word of
three tables that nobody compares; parsers that look ahead and give up in the
middle; properties that are inherited through pointers found by name.  `hazards` in
`PROJECT.json` names the lines.

## 2. Modules

    CmslProgram ---- StructuredControl        what jumps and errors mean
         |                  ^
         |                  | implements (refinement mapping Meant)
         +--------- Execution ---- MCExecution    the interpreter, programs for TLC
                        |
                        +--------- ExecutionProofs   TLAPS: frames, scopes, directories,
                                      |      |       return and break
                             ControlProofs  CrashProofs
                      TLAPS: the refinement, what is used is there

    Loader ---- MCLoader                         the executor and static variables
         +----- LoaderProofs                     TLAPS

    ScopedNames                                  what names mean
         ^
         | implements (refinement mapping Meant)
    QualifiedEntries ---- MCNames                the tree of names, and imports into it
         +--------------- NamesProofs            TLAPS

    ListScript ---- VariableValues               what int, list and references mean
         |               ^
         |               | implements (refinement mapping Values)
         +--------- Instances ---- MCInstances   variables, elements, references, list_value
                        |
                        +--------- ListContract  what doc/builtin/list.cmsl says
                        +--------- InstancesProofs   TLAPS, the refinement included

    BuiltinTypes ---- Typing ---- MCTyping       what is declared, and expressions
    BuiltinCaller ------+                        what is called
                        +--- TypingProofs        TLAPS

    TokenStream ---- ScriptParser ---- Parsers ---- MCParsers
         +---------- DeclarativeParser ---+      the two parsers

    DeclaredComponents                           what declarative scripts mean
         ^
         | implements (refinement mapping Meant)
    Components ---- MCComponents                 analysis and creation of components
         +--------- ComponentsProofs             TLAPS

### CmslProgram and Execution

`CmslProgram` says what a program is: nodes of the sema tree as records, and
expressions as the sequence of the operations in them, in the order of visits,
that can be told apart from outside (calls, reads of a variable, unary operators,
builtins).  Values are left out, so a condition is true or false as a run likes;
a ternary operator is the sequence visited.  A unary operator applies to the
operation just before it.  `Breaking` are the nodes that a `break` may leave, through
blocks and branches (`BreaksOut`); `BreakAssumption` says that no function has one
in its body outside of loops, which is what semantic analysis checks
(`sema_builder_ast_visitor.cpp`, `visit(break_node)` and the visits of loops).
`Free` are the variables that a node reads and does not itself declare, those of a
`for` ending with it; `ScopeAssumption` says that a function leaves none, which is what
`visit(id_node)` checks by looking a name up in the scopes around it.
`ReturnAssumption` says that a body ends in a `return`, the implicit one included
(`add_implicit_return_node_if_need`).

`Execution` is the interpreter.  `ctrl` is the C++ call stack of the
interpreter: one level for each activation of `execute_block`,
`execute_if_else_node`, `execute_while_node`, `execute_for_node`,
`execute_infix_expression` and `call`; `frames` is `m_callstack`; `returning`,
`brk` and `fatal` are the three flags, `dirs` counts directories the facade was
told to enter.  One action stands for what the code does between two nested
activations, with the checks it makes: `LeaveBlock` destroys the scope guard,
`LeaveLoop` resets the break flag as its loop does (a `for` leaves a break alone
when a return is under way as well), `LeaveFunction` takes the return value and
pops the frame, or gives up after a fatal error.  A result left uninitialized that
is then used is a choice between a crash and going on.  `acts` and `late` are
history variables: the parity of the acts on CMake, and whether one came after a
fatal error.

A program of `Careless` is one with a condition, a loop body or an operand that
may raise a fatal error: the constants say which, and `NeverCrashes`,
`NothingAfterFatal` and `FatalStops` speak of the others.  `Careful(p)` says of a
program that it has no such place, by two sets: the nodes in which an error may be
raised, through any number of calls (`Raises`), and those that would overlook one
(`Overlooks`).  An assumption in `MCExecution` makes TLC check, with the least such
sets, that the programs of `Careless` are exactly the ones that are not careful.

`StructuredControl` is the specification: a program runs off a stack of what is
left to do, a jump cuts it at its target at once and an error empties it.  The
refinement mapping takes from the interpreter's stack the part that a pending jump
will skip (`MeantStack`, by what is `Left` of each activation); the acts on CMake
and the outcome (`MeantOutcome`) must agree.

### Loader

`ctrl` is the C++ call stack again: compilations (`"unit"`), runs of the static
initializer (`"statics"`) and functions the interpreter runs (`"function"`).
`units` are the compiled sources made so far, each with the units its imports and
its added scripts were resolved to (`links`, `scripts`) and the state of its
static variables in `m_variables` and `m_global_variables`; `dead` marks one that
was destroyed because the cache it was moved to had its key.  `directories` is
`m_directories`, `compiled`, `declarative`, `trees` and `exported` are the four
caches.

A file is what its parsers accept, the steps its analysis takes (imports, added
directories and files, an error), what its static initialization visits (imports
and variables with initializers), and its functions, straight lines of
operations.  `HandleImport`, `HandleDeclarativeImport`, `HandleAddSubdirectory`
and `HandleAddDeclarativeFile` are the first halves of the handlers, up to the
nested compilation; `InitializeModule`, `StoreModule`, `StoreDeclarativeModule`,
`StoreSubdirectory` and `StoreDeclarativeScript` the second halves.
`ExecuteRoot`, `ExecuteProgram` and `ExecuteDeclarativeProgram` are
`execute_based_on_root_path`.

`Mistaken` are the projects with a mistake, or with a file that is used in two ways
or needs itself; `OneInstancePerModule`, `NothingDangles` and `Finishes` speak of the
others.  `TidyAssumption` says what this comes to for the units: outside of
`Mistaken` every project is `Tidy`, that is, a file is imported or added, not both,
and the files that need each other form no circle.  Directories and declarative
files are added by a name, which is looked up in `m_directories`: `AddedTo` takes
every file that the name can lead to.

What is simplified: `current_directory()` is the root path, so imports and
directories are spelled in one way; `execute(std::string)`, which differs in where
the source comes from and in the missing search for a declarative script, is not
modelled apart; the unwinding after a failure, which only reports errors, is one
step; a path is long enough to be on the heap (the views that the caches keep of
short strings are left out); writes of an initializer to the variables of its own
run change nothing that is observed.

### QualifiedEntries

`m_nodes_container`, `m_current_nodes_path` and `m_local_nodes` are the members of
`qualified_entries_finder`; `enter_global_node`, `enter_local_node`, `leave_node`,
`register_entry`, `collect_exported_stuff` and `find` are its operations, with
`climb` for the two loops that go from a node to its parents.  Position 1 of the
sequence is index 0 of the vector and 0 is `k_bad_id`, no position at all.  Above
it, the analysis of a file opens namespaces, classes and blocks through guards,
declares names, imports files and ends.  An import moves the path away, merges
node after node in any order (`Import`, `MergeChild`, `LeaveChild`) and restores
the path (`ImportDone`); its activations are `merging`.

`ScopedNames` has no tree: a namespace is the sequence of names that leads to it,
a declaration says where it is, and `Meaning` and `QualifiedMeaning` say what a
name means.  The refinement mapping reads the way to a node off the children,
while lookups use the parents.

What is simplified: a file is analysed before the file that imports it and not in
the middle of it, which is the same since each has a finder of its own; there is
one finder, that of identifiers, since those of types, functions and enumerators
make a part of its calls (no blocks; several entries of one name are in the model
too); `exported` of a node is left out, nothing reads it; after a failed import the
analysis just stops.

### Instances

`heap` holds the instances that exist: a `simple_unnamed_instance` of type int or
list (`m_list`, the deque of the elements it owns) or an `instance_reference`.  An
instance owned by a variable has the variable's name, an element of a list a cell;
a cell is taken again only when nothing refers to it any more, so that a reference
to what was destroyed is told apart from one to what came after.  Cells are numbers,
and new elements take the free ones in their order: which ones they take makes no
difference to what is said.  A statement is one
action, with the temporary instances that its `instances_holder` destroys at its
end; what it leaves in variables and lists are copies, and the copy of a reference
refers to the same instance.  `Evaluated` and `InBraces` say what an expression
gives after the casts that semantic analysis puts in (`cast_to_value`), `Uncast` what
it gives where none is put in: next to an operator.  So `l + e` and `l += e`
(`PlusValue`, `AppendValue`) keep a reference where `push_back` keeps a value.

`Forms`, in `ListScript`, says what expressions a script has.  Without `"element"` it
has no result of `at`, `front` or `back` but to read it and to assign to it; without
`"reference"` it puts no `int&` next to `+` or `+=` of a list (`Addends`).  With either,
variables or elements can be references to what they should be copies of.

`insert`, `erase`, `remove_impl`, `sorts` and the others are the methods of
`list_value`, pure operators from the deque to an outcome: the deque afterwards,
with its new elements, the answer, and whether the call was undefined behaviour (an
iterator past the ends, an element that is gone) or ended the process (`at` and
`resize`, which throw).  The actions give them every position, count and argument.
`Outer` are variables of the file, `Inner` those of a block or of a called function,
parameters included, since a parameter is copied as an initializer is; `LeaveScope`,
`ReturnInt` and `ReturnList` end it.  As with cells, a variable's name is declared again
only when no element refers to the variable that had it.

`VariableValues` has no heap: a variable has a number or a sequence of numbers, and
a step changes one variable, binds a reference, or ends a scope.

What is simplified: the only element type is int; comparisons of lists and the
calls that only read an int are left out, as are list constructors called by name;
execution is not followed beyond undefined behaviour; a statement is not made of an
expression that uses a variable whose instance denotes nothing.

### BuiltinTypes, BuiltinCaller and Typing

Three places say what a builtin function is: its declaration in
`builtin_sema_context` or `builtin_cmake_namespace_context`, its kind, and its case
in `builtin_function_caller`.  `BuiltinTypes` has the declarations, all of them,
`BuiltinCaller` the cases: the alternatives of `instance_value_variant` that the
handler reads of the receiver and the arguments, the one it stores and what it
returns, an instance or a reference.

`Typing` evaluates one expression at a time, an operation per step.  An expression
is what it comes to (`Denotes`): its static type, what `produces_temporary_value`
says of it, whether the instance is a reference, how long it lives, and the
alternative it holds.  `CanInitialize` is `variable_initialization_checker`,
`Cast` and `CopyOf` what semantic analysis puts between an expression and where it
goes.  The operands other than the expression are variables or fresh temporaries,
which stand for any expression of the type as long as the properties hold: they say
of every expression what a fresh one of its type has.  Arguments of calls are cast
and operands are not (`Passed`), and what a handler keeps for an element of a list is
a copy of what it is given: a list that is given a reference `Gathers` one and is no
list of values any more (`elements_of_another_type`).

`Avoided` names the functions and the statements that a script does without;
without any one member of `MCAvoided` a property fails, so the list is a list of
flaws (see "What else goes wrong").  `Careful` says what a script has to do for the
properties to hold: avoid them all; have no two types of one name, since types are
compared by their names (`TypesApart`); keep what `create()` makes no value of (`void`,
an executable, an enumeration of the script) out of members, and `void` and enumerations
out of lists; and compare only elements that `instance_value_variant` compares, or none.

What is simplified: constructors called as methods, the parameters of user
functions as scopes of their own, and enumerations of one name in two namespaces
are left out; a class has members of two types.

### TokenStream, ScriptParser, DeclarativeParser and Parsers

`TokenStream` is `parser_utils`, `type_parser` and the kinds of tokens;
`ScriptParser` and `DeclarativeParser` have an operator for each function of
`ast::parser` and `decl_ast::parser`, from a record of what the members of the
class hold to another.  `Parse` says which symbols a production eats and in which
order.  A text is a sequence of kinds of tokens; names stand for themselves.  The
state machine of `Parsers` writes a file phrase by phrase and parses it whenever it
grows; a file is given up when the parser does not come to its end, since nothing
added would change the result.  `odd` collects the constructs met that the runs
avoid, each where the parser's code does something it should not.

What is simplified: the places and the wording of errors (whether there was one is
kept), source ranges, and the kinds of literals, of which there is one each.

### DeclaredComponents and Components

`Components` is a stack of declarations and uses that are being visited (`open`,
one for each activation of `visit`), the two maps by name, `types` and
`component_declarations`, and the nodes made so far.  A type is the sequence of its
own name and those of its bases, a declaration its nodes and a pointer to the
declaration of the base.  `DeclareComponent`, `VisitComponent`, `EndDeclaration`
and `EndComponent` are the two halves of two visits, `VisitProperty`,
`VisitPropertyAppend` and `Import` the others; `EndScript` is what
`handle_declarative_import` does after a compilation.  `Create` collects the
assignments, bases first (`Collected`), into an instance (`Assign`) and tells CMake
(`Register`), list by list, up to where it throws or asserts.

`DeclaredComponents` has no pointers: a component is a value, the properties of its
base with its own on top, from the moment it is declared; the last component of the
last script becomes a target.  The refinement mapping folds the pointers.

What is simplified: scripts are analysed in the order of their numbers, each
after those it may import; CMake's variables do not change; expressions are a
string, a list of at most one element, a number, or a variable; the name that may
follow that of a component is parsed and not used, so it is left out.

## 3. Runs

All runs of the interpreter use `MaxFrames = 3`: `main`, a function, and a function
called by it.  A fourth would add no pair of activations that three do not have;
one call more is the outcome `overflow`, which the runs reach, as recursion does
on the native stack.

| run | question | bound |
|---|---|---|
| `MCExecution` | do frames, flags, directories and the order of acts come out right, for programs with every statement, and does a fatal error end an execution | loops of 4 kinds, each over 8 bodies that leave it in another way (nested loops, blocks, branches, calls), with 4 callees; 56 programs with a fatal error and the careless ones; 14424 states, fairness |
| `MCCrash` | a place where a fatal error does not end it | the same programs, none of them called careless |
| `MCLoader` | do projects without mistakes get through, with one instance of everything, whatever the order; what a mistake can spoil before a run ends | a module, one that initializes itself with the first, one in a subdirectory that uses both; roots and subdirectories that import them in 7 and 3 ways, add each other in 4 and 3, and have initializers or not; 11 mistakes as root, subdirectory and module, 5 as declarative script, cyclic imports among them; 28829 states, fairness |
| `MCSubdirectoryVariable` | a project for which a promise of the tests does not hold | the smallest project |
| `MCNames` | is the tree of names the scoped names of the language, through imports | a module and a script that imports it, in any way and twice; a declaration and two scopes in each, two names, a builtin name and a builtin namespace; 422904 states |
| `MCOutOfContainer` | a lookup that leaves the tree | the same |
| `MCInstances` | do variables keep their values, elements their owners, and methods their word | an int and a list outside, an int, a list and a reference to an int inside; three cells, so one list of three elements or one of two and one of one; numbers 0 and 1; positions -1 to 4 and counts -1 to 2; no `"element"`, no `"reference"`; 27426 states |
| `MCElementCopy` | what at, front and back return | the same, with elements as arguments |
| `MCTyping` | does evaluation agree with the static types, for every builtin type and function | a class of two members, an empty one, an enumeration, list<int> and list<string>; a variable of any type and one of 7 companions; 5471 states |
| `MCParsers` | does a parser answer a tree or an error, and is it the right tree | 27 beginnings: any file of 4 tokens, and from 3 to 12 more, tokens or phrases, in each production of the two parsers; 182667 states |
| `MCComponents` | do declarative scripts mean what they say, through imports, bases and appends | 2 scripts, 2 names, 2 builtin components, 3 properties of the kinds string, list and lists; 3 declarations and uses, 2 statements, 1 import; 432748 states up to symmetry |
| `MCBaseOfScript` | a base that a script declares | the same |

Two scopes give nested namespaces, a merge of depth two, a class in a namespace and
a block in each; a script's own finder at its end is what a third file would
import, so `OffersOwnOnly` needs no third.  Names are symmetric.

`MaxDepth = 12` activations in the loader: the deepest project without mistakes
stays below (it would end in `overflow`, and `Finishes` would fail), and cyclic
imports reach it.  Runs end when a program does, so the loader has an explicit
step `Stopped`, and so has the interpreter: deadlock is checked in their runs.  In
`MCInstances` undefined behaviour and an exception end the script, with nothing after them, so it is not checked there; in `MCParsers` the bound of a file, and in
`MCComponents` a refusal, the end or the bounds stop the run.

Three elements of two values tell first from last, all from some, and a match after
a match from one after something else, which is what `remove_impl` and `find` turn
on; a count of three or more acts as all.  The three cells bound what exists in
both lists at a time, not what is ever created.

Typing has expressions of any length, since the state is only the value so far; two
variables are enough for a value and a reference to it.

A file of `MCParsers` is a beginning and then as much of what belongs there as it
takes to complete a tree: a `for` with and without its three parts, an enumeration, a
class with several members and one with a constructor, nested namespaces,
`list<list<int>>`, calls of the constructor of a generic type, several parameters and arguments, initializer lists in
each other, designated initializers, components that derive and are nested, lists of
several values with commas where they belong and where they do not.  Each of these is
in a complete tree of a state of the run.  Up to three operators in a row put every two
levels next to each other, in every order.  Files that are given up lose
nothing: parsed with one more token, each gives what it gave, error and end, and where
there is no error to come the file is not given up.

Three bodies are a declaration in each script
and a use, or a declaration of a base, of what derives from it and a use; two
statements are an assignment and an append, in one body or in two.

The properties, and what they are for:

- `ScopesAsLeft`: the activation that goes on finds `m_callstack` as it left it.
  Guards do it for blocks and loops, hand-written code for calls.
- `BreakStaysInLoop`, `JumpsFinishFirst`: a flag shared by all activations never
  meets an expression, a call or another loop.
- `DirectoriesMatchCalls`: what the facade was told to enter it is told to leave.
- `NeverCrashes`: no null instance is used, careless programs apart.
- `ImplementsStructuredControl`: flags implement jumps.
- `NothingAfterFatal`, `FatalStops`: "configuration stops".
- `DirectoriesOfScript`: `m_directories` spells the directory of the script being
  added, through any nesting of imports and subdirectories.
- `ImportsReady`: when a function runs, in the middle of a compilation even, its
  file is imported completely and the variables of its modules exist.
- `OneInstancePerModule`, `NothingDangles`: two importers of a path share its
  variables; nothing in use was destroyed.
- `KeepsValues`: however often a module is initialized, no value is lost.
- `Finishes`: `main` returns.
- `GuardsMatchNodes`: `leave_node`, which guesses what it leaves, leaves what the
  guard entered.  `NodesFormTree`: path, children and parents
  agree at every step of a merge, but for the parents that a merge leaves out.
- `OffersOwnOnly`: imports are not exported on.
- `LookupFindsInnermost`: qualified or not, as long as it stays in the container.
- `ImportBringsAll`: an import that succeeds has brought every exported name to
  its namespace, wherever the import stands.
- `ImplementsScopedNames`: all of it, a failed import exactly for a taken name.
- `OwnedOnce`: no element in two lists or in none.  `OwnValues`: an int, a list and an
  element are values of their own, in scripts that have neither the form `"element"`,
  with which `MCElementCopy` refutes it, nor `"reference"` (see below).
- `ImplementsVariableValues`: a statement changes the variable it is about and no
  other, through aliases, self-appends, returns and the ends of scopes.
- `AsDocumented`: the methods of list, in every reachable state, against the contract
  of `ListContract`: changes, removals and searches.
- `ReadsWhatIsHeld`: no handler, condition or member access reads an alternative that
  a variant does not hold, and none is called that does not exist.
- `HoldsItsType`: what an expression comes to is what its type says, and a variable
  of a value type shares its instance with nobody.
- `OneOverloadMatches`: the order of the declarations does not matter.
- `ReferencesLive`: no variable outlives what it denotes.
- `TellsWhatItRefuses`: null if and only if an error was reported, and nothing read
  that is not there.  `SpellsItsTokens`: the tree has all tokens in order.
- `GroupsByPrecedence`: flat expressions, against a reference that splits at the
  loosest operator.  `StatementsStandAlone`: a block is the sequence of what its
  parts are alone, whatever flags the parser keeps.
- `DeclarationsMatchTypes`: two maps filled by different rules agree.
- `ImplementsDeclaredComponents`: inheritance through pointers is inheritance of
  values, and what is accepted is created as it was described.
- `LookupStaysInContainer`, in two runs `NeverCrashes` and in one `OwnValues`: what the code or its tests say and a run refutes.

Every property of a passing run is broken by a mutant of the model, marked
`mutant` in the modules, that a mistake in the code could be.

Fairness.  The library runs in one thread and waits for nothing: the next step of
the one activation on top is always taken.  `FairSpec` has weak fairness of the
steps that are not the explicit end.  `FatalStops` and `Finishes` need it.
`Finishes` is stated for projects with straight-line functions: a loop may run for
ever.

### What the runs refute

- A fatal error in a condition, in the body of a `while` or of a `for` with a
  condition makes the interpreter use the null result of the condition
  (`MCCrash`).
- The static variables of a script that is added as a subdirectory are never
  initialized (`MCSubdirectoryVariable`).
- A namespace that an import creates at top level has no parent.  A file that opens
  it again looks for outer names, builtin types among them, past the end of
  `m_nodes_container` (`MCOutOfContainer`).
- `int x = l.front();` makes x a reference to the element, as `at` and `back` do
  (`MCElementCopy`).
- A component type that derives from one of a script loses what its base says of its
  properties: the base's declaration is looked up under the name of the new type
  (`MCBaseOfScript`).

### What else goes wrong in the models

In the interpreter and the loader these are outcomes that `MCExecution` and
`MCLoader` reach, each by programs or projects of its own in the MC modules (named
in brackets).  To see one, give `Programs` or `FileSystems` that set and check that
`status` is not the outcome.

- A `for` with no condition goes on for ever after a fatal error in its body
  (`ForeverPrograms`: `FatalStops` has a lasso if `Careless` lacks them).
- Two variables of one name in one scope: both are entries, and a lookup takes
  either (`MaxDecls` of 2), although `identifiers_context.cpp` says that analysis
  prevents it.
- `l += r` and `l + r` with a reference `r` put a reference into the list and not its
  value, although `doc/builtin/list.cmsl` says (35, 23) that they append the value:
  operands of operators are not cast, as arguments are, and the copy of a reference is
  one.  After `int& r = x; l += r; x = 1;` the element is 1, and after the end of x it
  refers to nothing.  To see it, give `Forms` of `MCInstances.cfg` the form
  `"reference"`: `OwnValues` fails, and so does `ImplementsVariableValues`.  In `Typing`
  the same is the construct `"list_with_a_reference"`: taken out of what is avoided, it
  breaks `HoldsItsType`.
- With elements as arguments (`Forms` with `"element"`) a list holds references to
  elements, a removal compares with an element that it erased, and what
  `return l.front();` gives refers to nothing.
- The operand of a unary operator raises a fatal error: an uninitialized pointer is
  used (`UnaryPrograms`, crashed).  A `for` with no condition acts on CMake again
  after the error (`ForeverPrograms`, `late`).
- A fatal error in the initializer of a static variable: an uninitialized pointer
  again (`FatalInitializer`, crashed).
- An initializer sees neither imported variables (`ImportedInitializer`, crashed)
  nor, through a function, those before it (`InitializerFunction`, crashed) nor, in
  a module, builtin ones (`BuiltinInitializer`, crashed).
- A script added as a subdirectory and then imported loses the trees its functions
  belong to (`AddedAndImported`, crashed).
- A file that both parsers accept breaks an assertion when an imperative and then a
  declarative script import it (`SharedImport`, asserted).
- A script without `main`, a declarative one without a component: nothing to call
  (in `Faulty` and `FaultyDeclarative`, crashed).  Imports in a circle: no end but
  that of the stack (in `Faulty`, overflow).
- A module is initialized again by each import, since
  `m_already_initialized_modules` is never filled.  `KeepsValues` shows that no
  value is lost; effects are repeated.
- A module that, while being compiled, is imported again by a subdirectory it adds,
  is compiled twice (`ImportedBySubdirectory`: `OneInstancePerModule` fails without
  it in `Mistaken`).

In `Typing`, each by a member of `MCAvoided`; to see one, take it out:

- Builtins return a reference where a value is declared: `int y = (x = 3);` shares
  x, and `list<int> l = list<int>();` denotes an instance that goes with the
  statement, although `doc/builtin/list.cmsl` documents the constructor
  (`ReturnReferences`).
- `bool::to_string` reads the int of a bool, `double::to_string` has no case
  (`NotHandled`); both are documented in `doc/builtin`.
- What `auto&`, an enumerator, a member of a temporary or `++5` denotes is no
  temporary to `produces_temporary_value`: a reference to it dangles.
- Enumerations of scripts lack the flag of builtin ones: a copy, or one declared
  without a value, holds no enumerator.
- `C c = {.x = r};` with a reference r shares, `{c ? a : 5}` gathers what it does not
  own, `{1} + r` is a list that holds a reference (`list_with_a_reference`), conditions
  of `if`, `while` and `for` are not checked to be bool, and an assignment of a class
  from a reference is undefined.
- Types are the same if their names are, whatever the namespace.

In the parsers, each by a member of `MCAvoided` of `MCParsers`; to see one, take it
out:

- A missing operand or parenthesis is reported and a tree comes out all the same,
  the first with null in it, as `test/ast/parser_error_test.cpp` wants it.
- `x & (y)` is a constructor call, `a & b;` a declaration; `!a && b` is
  `!(a && b)`; an `if` after an `if` is taken for an `else if`.
- A class whose last member is a constructor is rejected; a member whose type is the
  class is taken for one.
- `export` in front of what cannot be exported has no effect and no error; a member
  may be named by any token, and commas may be missing.
- The declarative parser refuses values and components without an error (its
  comments say "Todo: raise error").
- `%=` has no level of precedence, so it is never parsed.

In `Components`, each by a member of `MCAvoided` or a larger instance:

- `shared_library`, which the guide lists, has no branch in `register_in_facade`:
  the assertion that something was created fails, after the project was registered.
  A component of a type with no target, as `product`, is unreachable code.
- `name += "x"` is accepted and throws, as does a list with a number in it; appending
  a number asserts.  A list literal is a `list<string>` whatever is in it.
- A component in a component has its properties set on the outer one.
- Declarations of components leak through imports of imports, types do not.  A type
  declared under the name of one that leaked inherits what that one says of its
  properties, and of two declarations of one name that are imported the first stays.
- `as_int` of a variable that does not exist throws (no property takes one but by
  `+=`).  Everything analysis refuses it refuses in silence.

## 4. Proofs

A run shows a property for its bounds, a theorem for every value of the constants.
The assumptions on constants are named in the modules that declare them, and TLC
evaluates them in every run.  Each proof has an inductive invariant, which says more
than the properties do, and a lemma for each action, or group of actions, that keeps
it.

### The interpreter: ExecutionProofs, ControlProofs, CrashProofs

For every program, any set of nodes, functions and variables and any bound on
recursion:

- `TypeCorrect`: `Spec => []TypeOK`;
- `ScopesBalanced`: `Spec => []ScopesAsLeft`;
- `DirectoriesBalanced`: `Spec => []DirectoriesMatchCalls`;
- `BreaksStay`: `Spec => []BreakStaysInLoop`;
- `JumpsComplete`: `Spec => []JumpsFinishFirst`;
- `FlagsAreJumps`: `Spec => ImplementsStructuredControl`;
- `CrashFree`: `CarefulPrograms` implies `Spec => []NeverCrashes`;
- `SilentAfterFatal`: `CarefulPrograms` implies `Spec => []NothingAfterFatal`.

They assume that nodes are well formed and that breaks are in loops, as semantic
analysis leaves them (`NodeAssumption`, `BreakAssumption`), and that there is room
for one function; the last two use `ScopeAssumption` and `ReturnAssumption` as well.
`CarefulPrograms` says that the programs outside of `Careless` are careful.  Without it
both are false: that is the finding of `MCCrash`.

`ScopesAsLeft` relates neighbours on the stack of activations.  It is not
inductive: to know where execution goes on after a function returns, one has to
know that the frame of the caller was not touched, which depends on every
activation in between running in the frame it says.  `IInv` therefore says how
each activation stands on the one that started it (`Fits`, by the kinds of both),
that frame numbers never fall along the stack (`Stacked`), that the frame below a
call has the scopes it had when the call was made (`Suspended`), that the innermost
activation runs on top of `m_callstack` (`OnTop`), and that `dirs` is the number
of `"subdir"` activations.  Lemmas say once what it takes to push an activation
with or without a scope or a frame, to replace the innermost one and to pop each
kind; the steps of the actions cite them.

For the flags, `JumpInv` adds what a jump will find below it (`Nested`): every
activation runs in a call and above one that waits for its body to end, and one
that may meet a `break` has its loop below it with nothing but blocks and branches
between.  `Unwinding` says that while a flag is set the innermost activation is one
that the jump may leave, and that the jump has its target below.  Both are kept by
pushing, by replacing and by popping, and the two properties follow.

`FlagsAreJumps` is the step simulation.  `Shown` says what a step of the interpreter
may be: one step of `StructuredControl`, or none that is seen.  Steps that unwind are
hidden, since the mapping has cut the stack already when the flag was set;
evaluating a `return` or `break` shows as the cut; each normal step shows as the
step of the construct it is about.  The lemmas on `Left` and the innermost
target of a jump do the work on sequences; `JumpInv` gives the target that both sides
must agree on.

`NeverCrashes` says that three things are there when they are used: the value of a
call, the variable of a name, the result of an operand.  `CrashInv` follows each from
where it is promised, in four parts.

- `Chained`: each activation notices any fatal error raised inside it (`Watchful`), and
  above one that is at a place where none may be raised (`Calm`), such as the body of
  a loop or a condition, none can be (`Quiet`).  It is kept since whatever an activation
  starts is part of its node or is the body of a function, of which `CarefulWith`
  speaks.  `Waits` says besides what each activation waits for.
- `Provided`: what an activation has still to read (`Needs`) is declared in the scopes
  of its frame that it sees (`VarsIn`), or, while an initialization is evaluated above
  it, is the variable that this will declare (`Coming`).  An activation sees the
  scopes around it and not those inside, so that leaving a block takes away nothing that
  is still to be read.  After a fatal error nothing is read, and nothing is asked for.
- `Stops`: after a fatal error every activation is at a place where it will see the flag
  before it does anything else (`Stopping`).
- `Answers`: a body that is over has set the return value, since it ends in a `return`
  (`AtReturn`, `EndsInReturn`) and a `break` stays in its loop, which `JumpInv` has; and
  only a careless program can be in a loop or branch whose condition has no value.

### The loader: LoaderProofs

For every project, any paths, files, functions and bound on depth:

- `LoaderTyped`: `Spec => []TypeOK`;
- `DirectoriesSpelled`: `Spec => []DirectoriesOfScript`;
- `ImportsMade`: `Spec => []ImportsReady`;
- `ValuesKept`: `Spec => KeepsValues`, the action property.

`AnalysisAssumption` is what semantic analysis guarantees of a file: the imports
that its static initializer visits are among those that were analysed, and names in
functions and initializers are resolved to the file itself or to what it imports
(`visit(import_node)`, `visit(id_node)` and `visit(function_call_node)` of
`sema_builder_ast_visitor.cpp`).  Nothing is assumed about the order or the number
of imports, nor that projects are without mistakes.

`ImportsReady` speaks of the moment a function runs, and this may be in the middle of
a compilation.  Its invariant has to follow the file from the start: each activation
waits for what the one above it brings (`Waits`: the handler of an import for a
compilation of that path and language, then for the initializer of that unit), a unit
whose analysis has come to some step has all imports before it linked, a unit
that another can name is complete and its variables exist (`WellLinked`), and a
cache has under a path what was compiled from that path (`WellStored`).  Units
only grow (`Grows`), so what is true of those that were linked remains so.
`m_directories` is spelled by the scripts on the stack (`Spelled`, `Entered`).
The facts on the stack are asked for while the program runs only: the one step
that stands for the unwinding after a failure leaves nothing behind to speak of.

Of every project outside `Mistaken`, from `TidyAssumption`:

- `OneInstance`: `Spec => []OneInstancePerModule`;
- `AllLive`: `Spec => []NothingDangles`.

Both come down to this: when a compilation is over, its path is still missing from
the cache that takes the result in.  It was missing when the compilation began, but
much is compiled in between, and `emplace` looks at the path alone.
`TidyInductive` proves, on top of `IInv`, that the compilations are at the bottom of
the stack and each is needed by the file below it (`Chained`), so that with no
circle none has the path of another (`NoPathTwice`) and storing one leaves missing
what the others miss (`AllMissing`).  Importers ask `exported` and the two caches of
sources are filled besides: what is imported by any file is in `exported` whenever it
is in one of those (`Shared`), which would fail for a file that is added as well.
What was linked is exported still, and no unit is dead (`Settled`).  Nothing is
assumed of the languages of a file or of the order of imports.  The assumption is
sufficient and is not claimed to be necessary; of the projects of `MCLoader`,
`AddedAndImported` and `ImportedBySubdirectory` break it and show why it is there.

### Qualified names: NamesProofs

For every sequence of files, any names, any tree of builtin names:

- `NamesTyped`: `Spec => []TypeOK`;
- `GuardsMatch`: `Spec => []GuardsMatchNodes`;
- `TreeKept`: `Spec => []NodesFormTree`;
- `ExportsOwn`: `Spec => []OffersOwnOnly`;
- `LookupsFindInnermost`: `Spec => []LookupFindsInnermost`;
- `ImportsBringAll`: `Spec => ImportBringsAll`;
- `ScopedNamesImplemented`: `Spec => ImplementsScopedNames`.

`BuiltinsAssumption` says that the builtin nodes are a tree, export nothing and are
declared by no file, `NamesAssumption` that the root's name is no other's.  The invariant has four parts:
`Typed`, with the container a tree; `Library`, for the files that
are done: their nodes are a tree with no block in it and their exported entries are
their own; `Guarded`, that the path is as long as the guards say and leads from the root, and that
blocks are opened inside of everything else, which is why `leave_node` guesses right;
and `Offers`.  In the middle of a merge
the path of the importing file is put aside, so the invariant speaks of the path that
is kept as well, and of each activation of the merge: the node it stands at, and
the children of the imported one that it still has to merge.

For lookups the tree is read as namespaces.  The way from the root to a node is defined
by recursion over positions, which is well-founded since a child comes after its parent;
no two nodes have the same way (`WayOne`), the path of the analysis is the way to
its last node, and the prefixes of a way are the ways to the nodes above
(`WayPrefixes`).  Climbing `parent_id` from a node then meets the nearest node above
with a given entry or child first (`ClimbNearest`), which is the longest prefix
(`InnermostIs`), or it leaves the container at a node that a merge created.  A
qualified name goes on to the children of that node (`ChildStands`).

The refinement reads the same ways as they change.  A node keeps its way when the tree
grows (`WaysKept`), entering a child adds one namespace at most and declares nothing
(`EnteredReads`), and merging a node into the one of the same way imports that
namespace: what is offered there, without the names that are taken (`MergedReads`).
Three facts join the invariant (`MergesInductive`).  `Unused`: what is declared next
is in no entry yet, also not in one that came from another file.  `Along`: each activation of
`merge_node` stands at the same namespace in both trees, so what it enters
is what the other file meant.  `Coming`: while no name was taken, each part of the
imported tree is declared or below a child that some activation has still to merge.
`Coming` survives a child since what is below a node is the node itself or
below one of its children (`WaitsBelow`), and it says what `ImportsBringAll` needs once
the last activation has nothing left.

### Declarative scripts: ComponentsProofs

For any number of scripts, names, bodies and imports:

- `ComponentsTyped`: `Spec => []TypeOK`;
- `DeclarationsMatch`: `Plain` implies `Spec => []DeclarationsMatchTypes`.

`Plain` says that scripts base nothing on what a script declares, and that no name
that an import of an import brought along is declared, or brought, again.  Both members of `Avoided`
are defects of the code: `MCBaseOfScript` shows what happens without the first, and
"What else goes wrong" tells the second.  Without `Plain` the property is false; the
type invariant has no such hypothesis.  Pointers between declarations go back
(`Typed`), so that following them ends; only a body that is not in another declares
(`Bodies`); and `Matched` relates the two maps and what each script hands to those that
import it.

### Instances: InstancesProofs

For any variables, numbers, cells and sizes of lists, in scripts that keep no result
of `at`, `front` or `back` (`Direct`):

- `InstancesTyped`: `Spec => []TypeOK`;
- `ElementsOwnedOnce`: `Spec => []OwnedOnce`;

and in those that besides put no `int&` next to `+` or `+=` of a list (`ByValue`):

- `ValuesOwned`: `Spec => []OwnValues`;
- `StatementsImplementValues`: `Spec => ImplementsVariableValues`.

The last two are false without either condition: with a result of `at` by the finding of
`MCElementCopy`, with a reference as an operand because the operand is not cast; an
element that refers to a variable changes when the variable does.  The first two hold of
lists with such elements as well, dangling ones included.  `Direct` is a limit of the
proof there: results of `at` are references to elements, so that references can lead to
references, any number of times.  TLC finds `OwnedOnce` to hold with them as well, in
the configuration of `MCInstances` with all of `"literal"`, `"variable"`, `"element"` and
`"reference"` as `Forms`, two cells and lists of at most two elements (27238 states).

`Sound` is the invariant of the heap.  `Shaped`: an instance is of the type of the
variable that owns it, an element is an int or refers to one that a variable owns
(`ElementInstance`), and a reference leads to a variable of the type, which is no
reference itself, so that `Denoted`, a recursive function, ends after one step.  `Owned`:
the elements in lists exist, and each cell that exists is in one list, at one position.

The methods of `list_value` are shown to keep it by what they do to the deque:
rearrange it, cut a part out, or put new elements in (`Rearranged`, `CutHolds`,
`JoinHolds`).  The loop of `remove_impl` needs an induction over its turns
(`IterationHolds`): what each one leaves has no element twice and none that was
not there.  New elements take cells that are free, all different
(`Ranks`, `SettledIs`).  `WithListSound`, `WithInstanceSound` and `ScopeDies` carry `Sound`
through a statement, an initialization and the end of a scope.

The refinement then needs no more than `Sound` and that elements are ints: `Tells` and `ValuesIn` say what the
variables of a heap tell; a change of one list changes what is told by that list and
by the references to it and by nothing else, since no element is in two (`SetStep`),
and what a return copies outlives the scope it comes from (`ReturnStep`).

### Types: TypingProofs

For any classes and enumerations, any element types of lists and any variables, in
scripts that are `Careful` (see "BuiltinTypes, BuiltinCaller and Typing"; TLC evaluates
it in `MCTyping`, so that there are such scripts):

- `TypeSoundness`: `Spec => []ReadsWhatIsHeld`;
- `ValuesHoldTheirTypes`: `Spec => []HoldsItsType`;
- `ReferencesOutlive`: `Spec => []ReferencesLive`;
- `OverloadsAreUnambiguous`: `Spec => []OneOverloadMatches`.

They assume that names of a script's types are identifiers, in no builtin namespace,
and that members and elements are of types the script has (`TypingAssumption`).  Without
`Careful` all but the last are false: each of its parts avoids a flaw.

The invariant is `Soundness`: nothing has failed, and what variables and the expression
denote is sound (`Of`): the instance has the type and the alternative that goes with it,
it is a reference just when the type is one, and a temporary is no reference.  It is
shown in four layers.

1. Types: a type of a script is a builtin, a user's, or a list or an extern of another,
   and no type is two of these, so that its name decides which alternative its
   instances hold (`KnownCases`, `HeldByBuiltins`, `HeldByPrefixed`).
2. Tables: the kinds of two families of functions are apart (`FamiliesDiffer`), so a
   function's case is one of its family's handlers, and for each family `Agrees` is
   shown of every declaration and its case: parameters are what the handler reads,
   the result is of the declared type, a reference just when the type is one.  This
   is where an avoided function fails.
3. Calls: an argument that passes `variable_initialization_checker` is of the type of
   the parameter (`InitializersAre`), the cast keeps it so (`CastIs`), the handler reads
   what it holds, no list gathers a reference (`NothingGathered`: what is cast to a
   value is none, and a careful script has none as an operand where it would be kept),
   and the result is sound (`CallWorks`).
4. Steps: a lemma for each kind of expression and statement.

Overloads need the tables and `InitializersAre`: two overloads of one length differ
in a parameter, and an argument is of one type only.  A list's come down to no type
being the type of its lists.

### Induction

The library's induction rules take an operator as a parameter, which none of the
provers instantiates.  Over natural numbers there is a way around: `<` is
well-founded, so a nonempty set of naturals has a least member (`LeastOf`), and a
set that has 0 and with each number the next has all (`SetInduction`).
`InstancesProofs` uses it for the loop of `remove_impl`, `NamesProofs` for the ways to
the nodes of a tree.

### What is only model-checked

- `ImplementsDeclaredComponents`: folds over declarations on both sides.
- `AsDocumented`: what each method computes, where the proofs say what it does to
  ownership.
- `FatalStops`, `Finishes`: liveness is out of the prover's reach.
- The properties of the parsers: these are RECURSIVE operators, which the prover's
  backends do not take.

## 5. Plan

1. `AsDocumented` method by method: `insert`, `erase` and `reverse` first, then
   `remove_impl`, whose loop has an invariant already.
2. `ImplementsDeclaredComponents`, by induction over declarations.

## 6. Not modelled

The lexer, which is character by character; formatting of errors; dumpers and the
allocation of nodes; the conversion of command-line arguments to `extern` values;
the indexer and the completer, which are stateless visitors over the tree; the
observers that pass the changes of builtin variables on to CMake, where the
conversion of a value to a string is all there is, once the moment of the call is
given (a hazard of `PROJECT.json` without a property); strings and numbers that
builtins compute; three things that semantic analysis sees to and the interpreter
relies on, that of returns (`ReturnAssumption`), that of names (`ScopeAssumption`) and
that of `break` (`BreakAssumption`).
