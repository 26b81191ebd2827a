---- MODULE Components ----
(***************************************************************************)
(* Declarative scripts: decl_sema/sema_builder_ast_visitor.cpp reads them  *)
(* statement by statement, declarative_source_compiler.cpp picks the       *)
(* component that is created, declarative_component_instance_creator.cpp   *)
(* collects its properties and tells CMake.  A declaration keeps its own   *)
(* properties and a pointer to the declaration of its base; what a         *)
(* component inherits comes out when it is created.                        *)
(***************************************************************************)
EXTENDS Integers, Sequences, SequencesExt, FiniteSetsExt

CONSTANTS Scripts,        \* how many there are; each may import those before it
          Names,          \* what scripts call the components they declare
          BuiltinNames,   \* the builtin ones that they name
          Accesses,       \* what they take for properties
          CMakeVariables, \* variable that CMake has -> its text and the parts of it
          Reads,          \* [type, variable]: what they read, from CMake or in vain
          Texts,          \* the n-th statement of the scripts has the n-th text in it
          MaxBodies,      \* declarations and components in all scripts
          MaxImports,     \* imports in a script
          InRoot,         \* whether the last script is in CMake's root directory
          Avoided         \* constructs that the scripts do without

VARIABLES script,                 \* the script that is analysed
          types,                  \* m_qualified_ctxs.types, namespace decl: name -> type
          exported,               \* the names among them that the script declared
          component_declarations, \* name -> declaration
          declarations,           \* the component_declaration_nodes of all scripts
          contexts,               \* of each script analysed: its exported types, its component_declarations
          open,                   \* the bodies that are visited, the innermost last
          components,             \* the component_nodes of the script
          written,                \* statements so far
          imports,                \* imports of the script so far
          calls,                  \* what the facade was told
          status
analysis == <<script, types, exported, component_declarations, declarations, contexts, open,
              components, written, imports>>
vars == <<analysis, calls, status>>
----------------------------------------------------------------------------
\* Types, by their names: a type is its own name and those of what it derives from.
\* sema_type compares by name and derives_from goes through the bases.
Product == "product"
ListsType == "forwarding_lists"
Targets == {"static_library", "shared_library", "executable", "test_executable"}
BuiltinTypes ==
  [n \in Targets \union {Product, ListsType, "product_type"} |->
     IF n \in Targets THEN <<n, Product>> ELSE <<n>>]
\* A number among the elements of a list.
NotAString == "42"

ASSUME ComponentsAssumption ==
  /\ Scripts \in Nat \ {0} /\ MaxBodies \in Nat /\ MaxImports \in Nat /\ InRoot \in BOOLEAN
  /\ BuiltinNames \subseteq DOMAIN BuiltinTypes /\ Names \intersect DOMAIN BuiltinTypes = {}
  /\ \A v \in DOMAIN CMakeVariables : NotAString \notin Range(CMakeVariables[v].parts)
  /\ Texts \in Seq(STRING) /\ \A r \in Reads : r.type \in {"string", "list", "int"}

None == ""
Is(type, name) == name \in Range(type)

Strings == {"name", "name_prefix", "name_suffix"}
Forwarding == <<"include_dirs", "compile_options", "compile_definitions", "files", "dependencies">>
Visibilities == <<"public", "private", "interface">>
MembersOf ==
  [n \in DOMAIN BuiltinTypes |->
     CASE n = Product -> [m \in Strings |-> "string"] @@ [m \in Range(Forwarding) |-> ListsType]
                           @@ [m \in {"type"} |-> "product_type"]
       [] n = ListsType -> [m \in Range(Visibilities) |-> "list"]
       [] OTHER -> <<>>]
\* sema_type::find_member, its type or nothing: the bases are asked in turn.
FindMember(type, member) ==
  LET having == {n \in Range(type) \intersect {Product, ListsType} : member \in DOMAIN MembersOf[n]}
  IN IF having = {} THEN None ELSE MembersOf[CHOOSE n \in having : TRUE][member]

\* visit(property_access_node): name after name, a member of the type of the one before.
PropertyType(type, access) ==
  LET Step(sofar, member) == IF sofar = <<>> THEN <<>>
                             ELSE LET found == FindMember(sofar, member)
                                  IN IF found = None THEN <<>> ELSE <<found>>
      found == FoldLeft(Step, type, access)
  IN IF found = <<>> THEN None ELSE found[1]
\* Only string and list<string> among the types of properties have an operator +=.
HasAppend(name) == name \in {"string", "list"}
----------------------------------------------------------------------------
\* Expressions of property values, and the statement's own text in them.
Literal(type, items) == [type |-> type, items |-> items, variable |-> None]
Variables == {[type |-> r.type, items |-> <<>>, variable |-> r.variable] : r \in Reads}
Text == Texts[written + 1]
Values == IF written = Len(Texts) THEN {} ELSE
          {Literal("string", <<Text>>), Literal("list", <<Text>>), Literal("list", <<>>),
           Literal("int", <<NotAString>>), Literal("list", <<NotAString>>)} \union Variables

\* convert_cmake_variable_to_instance_of_type; a variable that is missing reads as "".
\* stol and stod throw when there is no number.
VariableText(v) == IF v \in DOMAIN CMakeVariables THEN CMakeVariables[v].text ELSE ""
VariableParts(v) == IF v \in DOMAIN CMakeVariables THEN CMakeVariables[v].parts ELSE <<>>
Throws(value) == value.variable # None /\ value.type = "int"
                   /\ VariableText(value.variable) # NotAString
Evaluated(value) ==
  CASE value.variable = None -> value.items
    [] value.variable # None /\ value.type = "list" -> VariableParts(value.variable)
    [] OTHER -> <<VariableText(value.variable)>>
----------------------------------------------------------------------------
Without(construct, condition) == construct \in Avoided => ~condition
Analysing == status = "analysing"
Outside == Analysing /\ open = <<>>
InBody == Analysing /\ open # <<>>
Body(kind, name, type, declaration) ==
  [kind |-> kind, name |-> name, type |-> type, declaration |-> declaration, nodes |-> <<>>]
Refused == status' = "refused" /\ UNCHANGED <<analysis, calls>>
Found(name) == IF name \in DOMAIN component_declarations THEN component_declarations[name] ELSE 0
\* Maps of names: an entry is set, or more are inserted, those that are there staying.
Put(map, name, what) == [n \in DOMAIN map \union {name} |-> IF n = name THEN what ELSE map[n]]
Merge(map, more) ==
  [n \in DOMAIN map \union DOMAIN more |-> IF n \in DOMAIN map THEN map[n] ELSE more[n]]
RoomForABody == Len(declarations) + Len(components) < MaxBodies

\* What is looked up to find the declaration of the base.
DerivedLookup(name, base) == name
\* visit(component_declaration_node), up to its nodes.
MayDeclare(name, base) == name \notin DOMAIN types /\ base \in DOMAIN types \union {None}
DeclareComponent(name, base) ==
  /\ Outside /\ RoomForABody
  /\ Without("no base", base = None)
  /\ Without("base of a script", base \notin DOMAIN BuiltinTypes \union {None})
  /\ Without("declaration of another script", name \in DOMAIN component_declarations)
  /\ IF MayDeclare(name, base)
     THEN LET type == <<name>> \o (IF base = None THEN <<>> ELSE types[base])
              derived == IF base = None THEN 0 ELSE Found(DerivedLookup(name, base))
          IN /\ open' = <<Body("declaration", name, type, derived)>>
             /\ UNCHANGED <<script, types, exported, component_declarations, declarations, contexts,
                            components, written, imports, calls, status>>
     ELSE Refused

\* visit(component_node), up to its nodes.  One inside another has its type looked up
\* in the same scope; the scope inside a declaration is that of the declared type.
VisitComponent(name) ==
  /\ Analysing /\ RoomForABody
  /\ Without("component in a component", open # <<>>)
  /\ IF name \in DOMAIN types /\ (open # <<>> => Last(open).kind = "component")
     THEN /\ open' = Append(open, Body("component", None, types[name], Found(name)))
          /\ UNCHANGED <<script, types, exported, component_declarations, declarations, contexts,
                         components, written, imports, calls, status>>
     ELSE Refused

Node(op, access, value) == [op |-> op, access |-> access, value |-> value]
AddNode(node) ==
  /\ open' = [open EXCEPT ![Len(open)].nodes = Append(@, node)]
  /\ written' = written + 1
  /\ UNCHANGED <<script, types, exported, component_declarations, declarations, contexts, components,
                 imports, calls, status>>
MayStand(access, value) ==
  /\ Without("no string in a list", value.type = "list" /\ value.items = <<NotAString>>)
\* visit(property_node).
VisitProperty(access, value) ==
  /\ InBody /\ MayStand(access, value)
  /\ LET type == PropertyType(Last(open).type, access)
     IN IF type # None /\ type = value.type THEN AddNode(Node("=", access, value)) ELSE Refused
\* visit(property_append_node): only whether there is an operator at all is asked.
VisitPropertyAppend(access, value) ==
  /\ InBody /\ MayStand(access, value)
  /\ LET type == PropertyType(Last(open).type, access)
     IN /\ Without("appending to a string", type = "string")
        /\ Without("appending no string", HasAppend(type) /\ value.type = "int")
        /\ IF HasAppend(type) THEN AddNode(Node("+=", access, value)) ELSE Refused

\* The assignments of a declaration, those of its base first.
Assignments ==
  LET of[d \in 0..Len(declarations)] ==
        IF d = 0 THEN <<>> ELSE of[declarations[d].declaration] \o declarations[d].nodes
  IN of
CollectedOwnFirst(body) == body.nodes \o Assignments[body.declaration]  \* mutant
Collected(body) == Assignments[body.declaration] \o body.nodes

\* The ends of the two visits.  A component in a component has its nodes visited with
\* the instance of the outer one.
EndDeclaration ==
  /\ InBody /\ Last(open).kind = "declaration"
  /\ LET body == Last(open)
     IN /\ declarations' = Append(declarations, body)
        /\ types' = Put(types, body.name, body.type)
        /\ exported' = exported \union {body.name}
        /\ component_declarations' = Put(component_declarations, body.name, Len(declarations) + 1)
  /\ open' = <<>>
  /\ UNCHANGED <<script, contexts, components, written, imports, calls, status>>
EndComponent ==
  /\ InBody /\ Last(open).kind = "component"
  /\ IF Len(open) = 1
     THEN open' = <<>> /\ components' = Append(components, Last(open))
     ELSE /\ open' = [Front(open) EXCEPT ![Len(open) - 1].nodes = @ \o Collected(Last(open))]
          /\ UNCHANGED components
  /\ UNCHANGED <<script, types, exported, component_declarations, declarations, contexts, written,
                 imports, calls, status>>

\* visit(import_node): a name that is there already makes the merge fail; of
\* component_declarations an entry that is there already stays.
TypesOnly(s) == component_declarations  \* mutant
Inserted(s) == Merge(component_declarations, contexts[s].component_declarations)
Import(s) ==
  /\ Outside /\ imports < MaxImports
  /\ Without("declaration of another script",
       \E n \in DOMAIN contexts[s].component_declarations \intersect DOMAIN component_declarations :
         contexts[s].component_declarations[n] # component_declarations[n])
  /\ IF DOMAIN contexts[s].types \intersect DOMAIN types = {}
     THEN /\ types' = Merge(types, contexts[s].types)
          /\ component_declarations' = Inserted(s)
          /\ imports' = imports + 1
          /\ UNCHANGED <<script, exported, declarations, contexts, open, components, written, calls, status>>
     ELSE Refused
----------------------------------------------------------------------------
\* map_declarative_type_to_imperative_type, for each component of the script.
HasTarget(type) == Range(type) \intersect Targets # {}
\* Each file is compiled with contexts of its own.
StillExporting ==  \* mutant
  /\ types' = BuiltinTypes /\ component_declarations' = <<>> /\ components' = <<>> /\ imports' = 0
  /\ UNCHANGED exported
NextScript ==
  /\ types' = BuiltinTypes /\ component_declarations' = <<>> /\ components' = <<>> /\ imports' = 0
  /\ exported' = {}
EndScript ==
  /\ Outside /\ script < Scripts
  /\ Without("no target", \E i \in DOMAIN components : ~HasTarget(components[i].type))
  /\ IF \A i \in DOMAIN components : HasTarget(components[i].type)
     THEN /\ contexts' = Append(contexts,
               [types |-> [n \in exported |-> types[n]], component_declarations |-> component_declarations])
          /\ script' = script + 1
          /\ NextScript
          /\ UNCHANGED <<declarations, open, written, calls, status>>
     ELSE status' = "asserted" /\ UNCHANGED <<analysis, calls>>

\* The collector's visits of property_node and property_append_node: [instance, ends],
\* where ends is what stopped it, if anything did.
Default == [p \in {<<s>> : s \in Strings} |-> <<"">>]
             @@ [p \in {<<l, v>> : l \in Range(Forwarding), v \in Range(Visibilities)} |-> <<>>]
Assign(so_far, node) ==
  LET value == Evaluated(node.value)
      Ends(how) == [so_far EXCEPT !.ends = how]
      Gets(content) == [so_far EXCEPT !.instance[node.access] = content]
  IN CASE so_far.ends # None -> so_far
       [] so_far.ends = None /\ Throws(node.value) -> Ends("thrown")
       [] so_far.ends = None /\ ~Throws(node.value) /\ node.access \notin DOMAIN Default -> Ends("asserted")
       [] OTHER -> IF node.op = "=" THEN Gets(value)
                   ELSE IF Len(node.access) = 1 THEN Ends("thrown")
                   ELSE IF node.value.type = "int" THEN Ends("asserted")
                   ELSE Gets(so_far.instance[node.access] \o value)
InstanceOf(nodes) == FoldLeft(Assign, [instance |-> Default, ends |-> None], nodes)

\* register_in_facade: a project in the root directory, the target, then the lists, the
\* empty ones not; dependencies are linked one by one.
Call(function, of, items) == [function |-> function, of |-> of, items |-> items]
AddTargetOfItsOwnName(type, name, sources) ==  \* mutant
  IF Head(type) \notin {"static_library", "executable", "test_executable"} THEN <<>>
  ELSE <<Call(IF Head(type) = "static_library" THEN "add_library" ELSE "add_executable", name, sources)>>
         \o IF Head(type) = "test_executable" THEN <<Call("add_test", name, <<>>)>> ELSE <<>>
AddTarget(type, name, sources) ==
  CASE Is(type, "static_library") -> <<Call("add_library", name, sources)>>
    [] Is(type, "executable") -> <<Call("add_executable", name, sources)>>
    [] Is(type, "test_executable") -> <<Call("add_executable", name, sources), Call("add_test", name, <<>>)>>
    [] OTHER -> <<>>
Forwarded(list, items) ==
  CASE items = <<>> -> <<>>
    [] items # <<>> /\ list[1] = "dependencies" ->
         [i \in DOMAIN items |-> Call("target_link_library", list, <<items[i]>>)]
    [] OTHER -> <<Call(list[1], list, items)>>
\* list_value_utils::strings throws when an element is no string: it ends there.
Order == FlattenSeq([i \in DOMAIN Forwarding |->
                       [j \in DOMAIN Visibilities |-> <<Forwarding[i], Visibilities[j]>>]])
Unfit(instance) == {i \in DOMAIN Order : NotAString \in Range(instance[Order[i]])}
ForwardedLists(instance) ==
  LET told == SubSeq(Order, 1, Min(Unfit(instance) \union {Len(Order) + 1}) - 1)
  IN FlattenSeq([i \in DOMAIN told |-> Forwarded(told[i], instance[told[i]])])

\* create, for the last component of the script: a script with none has no function to call.
\* What no branch creates is null, and gather_ownership asserts.
Ended(how) == status' = how /\ UNCHANGED calls
Register(type, instance) ==
  LET name == instance[<<"name_prefix">>] \o instance[<<"name">>] \o instance[<<"name_suffix">>]
      sources == instance[<<"files", "public">>]
      project == IF InRoot THEN <<Call("register_project", name, <<>>)>> ELSE <<>>
      added == AddTarget(type, name, sources)
  IN CASE NotAString \in Range(sources) -> Ended("thrown")
       [] NotAString \notin Range(sources) /\ added = <<>> -> status' = "asserted" /\ calls' = project
       [] OTHER -> /\ status' = IF Unfit(instance) = {} THEN "done" ELSE "thrown"
                   /\ calls' = project \o added \o ForwardedLists(instance)
Create ==
  /\ Outside /\ script = Scripts
  /\ Without("no target", \E i \in DOMAIN components : ~HasTarget(components[i].type))
  /\ Without("shared library", components # <<>> /\ Is(Last(components).type, "shared_library"))
  /\ CASE \E i \in DOMAIN components : ~HasTarget(components[i].type) -> Ended("asserted")
       [] components = <<>> -> Ended("done")
       [] OTHER -> LET collected == InstanceOf(Collected(Last(components)))
                   IN \/ \E how \in {"thrown", "asserted"} : collected.ends = how /\ Ended(how)
                      \/ collected.ends = None /\ Register(Last(components).type, collected.instance)
  /\ UNCHANGED analysis
----------------------------------------------------------------------------
Init ==
  /\ script = 1 /\ types = BuiltinTypes /\ exported = {}
  /\ component_declarations = <<>> /\ declarations = <<>> /\ contexts = <<>>
  /\ open = <<>> /\ components = <<>> /\ written = 0 /\ imports = 0
  /\ calls = <<>> /\ status = "analysing"
Next ==
  \/ \E name \in Names, base \in BuiltinNames \union Names \union {None} : DeclareComponent(name, base)
  \/ \E name \in BuiltinNames \union Names : VisitComponent(name)
  \/ \E access \in Accesses, value \in Values : VisitProperty(access, value) \/ VisitPropertyAppend(access, value)
  \/ \E s \in DOMAIN contexts : Import(s)
  \/ EndDeclaration \/ EndComponent \/ EndScript \/ Create
Spec == Init /\ [][Next]_vars
----------------------------------------------------------------------------
(***************************************************************************)
(* Properties.                                                             *)
(***************************************************************************)

Statuses == {"analysing", "refused", "done", "asserted", "thrown"}
TypeOK ==
  /\ script \in 1..Scripts /\ Len(contexts) = script - 1
  /\ DOMAIN BuiltinTypes \subseteq DOMAIN types /\ exported \subseteq DOMAIN types \intersect Names
  /\ Range(component_declarations) \subseteq DOMAIN declarations
  /\ \A d \in DOMAIN declarations : declarations[d].declaration \in 0..d - 1
  /\ status \in Statuses

\* Types and declarations are found by name in two maps that imports fill by different
\* rules. The declaration found for a type is that of this very type, and a declaration
\* points at that of its base, if a script declares the base.
IsDeclarationOf(d, type) ==
  IF Len(type) = 0 \/ Head(type) \in DOMAIN BuiltinTypes THEN d = 0
  ELSE d # 0 /\ declarations[d].type = type
DeclarationsMatchTypes ==
  /\ \A name \in DOMAIN types : IsDeclarationOf(Found(name), types[name])
  /\ \A d \in DOMAIN declarations :
       IsDeclarationOf(declarations[d].declaration, Tail(declarations[d].type))

\* Inheritance through pointers, found out at the end, is inheritance of values: CMake is
\* told of one target, with everything that the component and its bases say and nothing else,
\* and what analysis accepts is created: nothing asserts or throws.
Applied(nodes) ==
  LET Apply(properties, node) ==
        LET said == IF node.access \in DOMAIN properties THEN properties[node.access] ELSE Default[node.access]
        IN (node.access :> IF node.op = "=" THEN Evaluated(node.value) ELSE said \o Evaluated(node.value))
             @@ properties
  IN FoldLeft(Apply, <<>>, nodes)
ComponentOf(type, nodes) == [type |-> type, properties |-> Applied(nodes)]
OfScripts(map, found) ==
  LET walks == Assignments
  IN [n \in DOMAIN map \ DOMAIN BuiltinTypes |->
        ComponentOf(map[n], IF n \in DOMAIN found THEN walks[found[n]] ELSE <<>>)]

Lists == Range(Order)
Knowledge(target, name, sources, lists) ==
  [target |-> target, name |-> name, sources |-> sources, lists |-> lists]
WantedOf(c) ==
  LET said == c.properties @@ Default
  IN Knowledge(c.type[Len(c.type) - 1],
               said[<<"name_prefix">>] \o said[<<"name">>] \o said[<<"name_suffix">>],
               said[<<"files", "public">>], [p \in Lists |-> said[p]])
CallsTo(functions) == SelectSeq(calls, LAMBDA c : c.function \in functions)
ToldInCalls ==
  LET added == CallsTo({"add_library", "add_executable"})[1]
      For(p) == SelectSeq(calls, LAMBDA c : c.of = p)
  IN Knowledge(CASE added.function = "add_library" -> "static_library"
                 [] CallsTo({"add_test"}) # <<>> -> "test_executable"
                 [] OTHER -> "executable",
               added.of, added.items,
               [p \in Lists |-> FlattenSeq([i \in DOMAIN For(p) |-> For(p)[i].items])])

Meant == INSTANCE DeclaredComponents WITH
  Builtins <- BuiltinTypes,
  Properties <- [p \in Accesses \intersect DOMAIN Default |-> Default[p]],
  Contents <- {<<"">>, <<>>} \union {<<t>> : t \in Range(Texts)}
                \union {Evaluated(v) : v \in Variables},
  Wanted <- WantedOf,
  offered <- [s \in DOMAIN contexts |->
                OfScripts(contexts[s].types, contexts[s].component_declarations)],
  known <- OfScripts(types, component_declarations),
  own <- exported,
  open <- IF open = <<>> THEN <<>>
          ELSE <<Last(open).name, ComponentOf(Last(open).type, Collected(Last(open)))>>,
  used <- [i \in DOMAIN components |-> ComponentOf(components[i].type, Collected(components[i]))],
  target <- IF status = "done" /\ calls # <<>> THEN <<ToldInCalls>> ELSE <<>>,
  state <- CASE status = "analysing" -> "reading"
             [] status = "done" -> "finished"
             [] OTHER -> status
ImplementsDeclaredComponents == Meant!Spec
====
