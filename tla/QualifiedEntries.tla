---- MODULE QualifiedEntries ----
(***************************************************************************)
(* qualified_entries_finder, the tree of names that each semantic context  *)
(* keeps, driven by the analysis of one file after the other: scopes that  *)
(* are opened and closed, declarations, imports and the export of a file   *)
(* that is done.  It is modelled as identifiers_context uses it; the       *)
(* contexts of types, functions and enumerators make fewer of its calls.   *)
(*                                                                         *)
(* An import in the code compiles the other file first, with a finder of   *)
(* its own; here that file comes earlier in Files.                         *)
(***************************************************************************)
EXTENDS Integers, SequencesExt, FiniteSets, Functions

CONSTANTS Files,                   \* in the order in which they are analysed
          Names,                   \* the names that files declare and open
          GlobalName,              \* the empty name, of the root and before a leading ::
          BuiltinNodes,            \* the tree of m_builtin_qualified_contexts
          MaxDecls, MaxScopes      \* bounds, by file: declarations, scopes it opens

\* Position 1 is index 0 of m_nodes_container; k_bad_id is no position at all.
Root == 1
BadId == 0
NotFound == -1

FileIds == DOMAIN Files
AllNames == Names \union UNION { DOMAIN BuiltinNodes[i].nodes \union
                                { e.name : e \in BuiltinNodes[i].entries } :
                                i \in DOMAIN BuiltinNodes }

Entry == [name : AllNames, what : Seq(Nat), exported : BOOLEAN]
IsContainer(t) ==
  /\ t \in Seq(Range(t))
  /\ \A i \in DOMAIN t :
       /\ DOMAIN t[i] = {"name", "parent", "nodes", "entries"}
       /\ t[i].name \in AllNames \union {GlobalName} /\ t[i].parent \in {BadId} \union DOMAIN t
       /\ DOMAIN t[i].nodes \subseteq AllNames /\ Range(t[i].nodes) \subseteq DOMAIN t
       /\ t[i].entries \subseteq Entry


\* The root has the empty name.  Each other node is the child of one node, under its
\* name, and its parent is that node, unless an import created it below the root.
IsTree(t) ==
  /\ t[Root].name = GlobalName
  /\ \A i \in DOMAIN t : \A n \in DOMAIN t[i].nodes : t[t[i].nodes[n]].name = n
  /\ \A i \in DOMAIN t \ {Root} :
       \E p \in 1 .. (i - 1) :
         /\ { q \in DOMAIN t : i \in Range(t[q].nodes) } = {p}
         /\ t[i].parent = p \/ (t[i].parent = BadId /\ p = Root)

ASSUME FilesAssumption == Files \in Seq(Range(Files))
\* As enter_global_node makes it when the builtin names are registered, which no
\* file declares.
ASSUME BuiltinsAssumption ==
  /\ IsContainer(BuiltinNodes) /\ Len(BuiltinNodes) >= Root /\ IsTree(BuiltinNodes)
  /\ \A i \in DOMAIN BuiltinNodes : \A e \in BuiltinNodes[i].entries :
       ~e.exported /\ e.what # <<>> /\ e.what[1] = 0
ASSUME NamesAssumption == GlobalName \notin AllNames
ASSUME BoundsAssumption == MaxDecls \in [FileIds -> Nat] /\ MaxScopes \in [FileIds -> Nat]

VARIABLES
  m_nodes_container, m_current_nodes_path, m_local_nodes,
  file,        \* the file being analysed, a position in Files
  exported,    \* m_exported_qualified_contextes, by file; <<>> before it is done
  guards,      \* the scopes of the analysis that are open, and what opened them
  merging,     \* the activations of merge_node
  backup,      \* m_current_nodes_path, moved away by merge_imported_stuff
  importing,   \* the file whose tree is merged, or 0
  failed,      \* an import failed
  made         \* declarations and scopes of this file so far

tree == <<m_nodes_container, m_current_nodes_path, m_local_nodes>>
import == <<merging, backup, importing>>
vars == <<m_nodes_container, m_current_nodes_path, m_local_nodes, file, exported,
          guards, merging, backup, importing, failed, made>>
----------------------------------------------------------------------------
\* The tree.
current_node_id == IF m_current_nodes_path = <<>> THEN BadId ELSE Last(m_current_nodes_path)
current_node == IF current_node_id # BadId THEN current_node_id ELSE Root

\* create_node, and enter_global_node: the container and the node to go on in.
BelowRoot == Root                                            \* mutant
parent_of_new == current_node_id
LastId == Len(m_nodes_container)                             \* mutant
new_id == Len(m_nodes_container) + 1

created(n) ==
  LET node == [name |-> n, parent |-> parent_of_new, nodes |-> <<>>, entries |-> {}]
      children == [c \in DOMAIN m_nodes_container[current_node].nodes \union {n} |->
                     IF c = n THEN new_id ELSE m_nodes_container[current_node].nodes[c]]
  IN [container |-> Append([m_nodes_container EXCEPT ![current_node].nodes = children], node),
      id |-> new_id]

entered(n) ==
  IF n \in DOMAIN m_nodes_container[current_node].nodes
  THEN [container |-> m_nodes_container, id |-> m_nodes_container[current_node].nodes[n]]
  ELSE created(n)

enter_global_node(n) ==
  /\ m_nodes_container' = entered(n).container
  /\ m_current_nodes_path' = Append(m_current_nodes_path, entered(n).id)
  /\ UNCHANGED m_local_nodes

enter_local_node == /\ m_local_nodes' = Append(m_local_nodes, {})
                    /\ UNCHANGED <<m_nodes_container, m_current_nodes_path>>

leave_path_first == /\ IF Len(m_current_nodes_path) > 1        \* mutant
                       THEN /\ m_current_nodes_path' = Front(m_current_nodes_path)
                            /\ UNCHANGED m_local_nodes
                       ELSE /\ m_local_nodes' = Front(m_local_nodes)
                            /\ UNCHANGED m_current_nodes_path
                    /\ UNCHANGED m_nodes_container
leave_node == /\ IF m_local_nodes # <<>>
                 THEN /\ m_local_nodes' = Front(m_local_nodes)
                      /\ UNCHANGED m_current_nodes_path
                 ELSE /\ m_current_nodes_path' = Front(m_current_nodes_path)
                      /\ UNCHANGED m_local_nodes
              /\ UNCHANGED m_nodes_container

register_entry(e) ==
  /\ IF m_local_nodes # <<>>
     THEN /\ m_local_nodes' = [m_local_nodes EXCEPT ![Len(m_local_nodes)] = @ \union {e}]
          /\ UNCHANGED m_nodes_container
     ELSE /\ m_nodes_container' =
               [m_nodes_container EXCEPT ![current_node].entries = @ \union {e}]
          /\ UNCHANGED m_local_nodes
  /\ UNCHANGED m_current_nodes_path

is_in_global_context == m_local_nodes = <<>>
----------------------------------------------------------------------------
\* Lookup.
named(entries, n) == { e.what : e \in {e \in entries : e.name = n} }

\* The first of some nodes on the way to the root: BadId when the way leaves the
\* container.
climb(nodes) ==
  LET up[i \in 0 .. Len(m_nodes_container)] ==
        IF i = BadId \/ i \in nodes THEN i
        ELSE IF i = Root THEN NotFound
        ELSE up[m_nodes_container[i].parent]
  IN up[current_node]

found(what) == [bad |-> FALSE, what |-> what]
outOfBounds == [bad |-> TRUE, what |-> {}]
in_node(id, n) ==
  CASE id = BadId    -> outOfBounds
    [] id = NotFound -> found({})
    [] OTHER         -> found(named(m_nodes_container[id].entries, n))

find_unqualified(n) ==
  LET nodes == {i \in DOMAIN m_nodes_container : named(m_nodes_container[i].entries, n) # {}}
      inBlock == {i \in DOMAIN m_local_nodes : named(m_local_nodes[i], n) # {}}
      block == CHOOSE i \in inBlock : \A j \in inBlock : j <= i
  IN IF inBlock # {} THEN found(named(m_local_nodes[block], n))
     ELSE in_node(climb(nodes), n)

find_node(q) ==
  LET parents == {i \in DOMAIN m_nodes_container : q[1] \in DOMAIN m_nodes_container[i].nodes}
      child(id, n) == IF id < Root THEN id
                      ELSE IF n \in DOMAIN m_nodes_container[id].nodes
                      THEN m_nodes_container[id].nodes[n] ELSE NotFound
      first == IF q[1] = GlobalName THEN Root ELSE child(climb(parents), q[1])
      at[i \in 1 .. Len(q)] == IF i = 1 THEN first ELSE child(at[i - 1], q[i])
  IN at[Len(q)]

find_qualified(q) == in_node(find_node(Front(q)), Last(q))
find(q) == IF Len(q) > 1 THEN find_qualified(q) ELSE find_unqualified(q[1])
----------------------------------------------------------------------------
\* The analysis of a file.
Analysing == merging = <<>> /\ ~failed /\ file \in FileIds
InNamespace == \A i \in DOMAIN guards : guards[i] = "namespace"

Init == /\ m_nodes_container = BuiltinNodes
        /\ m_current_nodes_path = <<Root>> /\ m_local_nodes = <<>>
        /\ file = 1
        /\ exported = [f \in FileIds |-> <<>>]
        /\ guards = <<>>
        /\ merging = <<>> /\ backup = <<>> /\ importing = 0
        /\ failed = FALSE
        /\ made = [decls |-> 0, scopes |-> 0]

Open(kind) == /\ Analysing /\ made.scopes < MaxScopes[file]
              /\ guards' = Append(guards, kind)
              /\ made' = [made EXCEPT !.scopes = @ + 1]
              /\ UNCHANGED <<file, exported, failed, import>>

OpenNamespace(n) == InNamespace /\ Open("namespace") /\ enter_global_node(n)
OpenClass(n) == InNamespace /\ Open("class") /\ enter_global_node(n)

\* A function with its parameters, a method, a block, a loop.
OpenBlock == Open("block") /\ enter_local_node

\* The destructor of the last guard.
Close == /\ Analysing /\ guards # <<>>
         /\ leave_node
         /\ guards' = Front(guards)
         /\ UNCHANGED <<file, exported, failed, made, import>>

\* A declaration of a variable, a member or a parameter.
Declare(n, export) ==
  /\ Analysing /\ made.decls < MaxDecls[file]
  /\ export => is_in_global_context /\ InNamespace
  /\ register_entry([name |-> n, what |-> <<file, made.decls + 1>>, exported |-> export])
  /\ made' = [made EXCEPT !.decls = @ + 1]
  /\ UNCHANGED <<file, exported, guards, failed, import>>

ExportedOn(e) == e                                           \* mutant
imported_entry(e) == [e EXCEPT !.exported = FALSE]

\* merge_node up to its loop: the entries of a node of the imported tree.
merged(container, into, from) ==
  LET taken == {e \in from.entries : \E old \in container[into].entries : old.name = e.name}
      new == { imported_entry(e) : e \in from.entries \ taken }
  IN /\ m_nodes_container' = [container EXCEPT ![into].entries = @ \union new]
     /\ failed' = (failed \/ taken # {})

Activation(from, id) == [node |-> id, todo |-> Range(from.nodes)]

path_stays == m_current_nodes_path                           \* mutant
path_moved == <<>>
Import(f) ==
  LET root == exported[f][Root]
  IN /\ Analysing /\ InNamespace
     /\ f < file
     /\ backup' = m_current_nodes_path
     /\ m_current_nodes_path' = path_moved
     /\ merged(m_nodes_container, Root, root)
     /\ merging' = << Activation(root, Root) >>
     /\ importing' = f
     /\ UNCHANGED <<m_local_nodes, file, exported, guards, made>>

\* One child, in the order of an unordered map.
MergeChild(id) ==
  LET node == exported[importing][id]
      into == entered(node.name)
  IN /\ merging # <<>> /\ id \in Last(merging).todo
     /\ m_current_nodes_path' = Append(m_current_nodes_path, into.id)
     /\ merged(into.container, into.id, node)
     /\ merging' = Append([merging EXCEPT ![Len(merging)].todo = @ \ {id}],
                          Activation(node, id))
     /\ UNCHANGED <<m_local_nodes, file, exported, guards, backup, importing, made>>

LeaveChild == /\ Len(merging) > 1 /\ Last(merging).todo = {}
              /\ leave_node
              /\ merging' = Front(merging)
              /\ UNCHANGED <<file, exported, guards, backup, importing, failed, made>>

not_restored == m_current_nodes_path                         \* mutant
restored == backup
ImportDone == /\ Len(merging) = 1 /\ Last(merging).todo = {}
              /\ m_current_nodes_path' = restored
              /\ merging' = <<>> /\ backup' = <<>> /\ importing' = 0
              /\ UNCHANGED <<m_nodes_container, m_local_nodes, file, exported, guards,
                             failed, made>>

\* collect_exported_stuff; the next file starts with a clone of the builtin names.
nothing_erased == m_nodes_container                          \* mutant
collect_exported_stuff ==
  [i \in DOMAIN m_nodes_container |->
     [m_nodes_container[i] EXCEPT !.entries = {e \in @ : e.exported}]]

FinishFile == /\ Analysing /\ guards = <<>>
              /\ exported' = [exported EXCEPT ![file] = collect_exported_stuff]
              /\ file' = file + 1
              /\ m_nodes_container' = BuiltinNodes
              /\ m_current_nodes_path' = <<Root>> /\ m_local_nodes' = <<>>
              /\ made' = [decls |-> 0, scopes |-> 0]
              /\ UNCHANGED <<guards, failed, import>>

\* Every file is done, or an import failed and with it the analysis.
Stopped == merging = <<>> /\ (failed \/ file \notin FileIds) /\ UNCHANGED vars

Next == \/ \E n \in Names : OpenNamespace(n) \/ OpenClass(n)
        \/ OpenBlock \/ Close
        \/ \E n \in Names, export \in BOOLEAN : Declare(n, export)
        \/ \E f \in FileIds : Import(f)
        \/ merging # <<>> /\ \E id \in Last(merging).todo : MergeChild(id)
        \/ LeaveChild \/ ImportDone \/ FinishFile \/ Stopped

Spec == Init /\ [][Next]_vars
----------------------------------------------------------------------------
\* The names and nodes are of their types, and the path is empty only while an
\* import is merged (the root and its children are entered from nowhere then).
TypeOK ==
  /\ IsContainer(m_nodes_container) /\ Len(m_nodes_container) >= Root
  /\ m_current_nodes_path \in Seq(DOMAIN m_nodes_container)
  /\ m_local_nodes \in Seq(SUBSET Entry)
  /\ file \in 1 .. Len(Files) + 1
  /\ \A f \in FileIds : IsContainer(exported[f])
  /\ guards \in Seq({"namespace", "class", "block"})
  /\ \A i \in DOMAIN merging : /\ merging[i].node \in DOMAIN exported[importing]
                               /\ merging[i].todo \subseteq DOMAIN exported[importing]
  /\ backup \in Seq(DOMAIN m_nodes_container)
  /\ importing \in 0 .. Len(Files) /\ failed \in BOOLEAN
  /\ made \in [decls : Nat, scopes : Nat]
  /\ (m_current_nodes_path = <<>>) => merging # <<>>

\* leave_node tells from m_local_nodes what it leaves.  It always undoes what the
\* last guard did: there are as many local nodes as blocks are open, and as many
\* nodes on the path as namespaces and classes.
count(kinds) == Cardinality({i \in DOMAIN guards : guards[i] \in kinds})
GuardsMatchNodes ==
  merging = <<>> =>
    /\ Len(m_local_nodes) = count({"block"})
    /\ Len(m_current_nodes_path) = 1 + count({"namespace", "class"})

\* The path leads from the root from child to child, whatever was merged while it
\* was moved away, and so does the path of a merge, from a child of the root.
Leads(path) ==
  \A i \in DOMAIN path :
    LET over == IF i = 1 THEN Root ELSE path[i - 1]
        name == m_nodes_container[path[i]].name
    IN \/ i = 1 /\ path[i] = Root
       \/ /\ name \in DOMAIN m_nodes_container[over].nodes
          /\ m_nodes_container[over].nodes[name] = path[i]
PathLeadsFromRoot == /\ Leads(m_current_nodes_path) /\ Leads(backup)
                     /\ LET path == IF merging = <<>> THEN m_current_nodes_path ELSE backup
                        IN path # <<>> /\ path[1] = Root

\* Whatever was merged, the nodes are a tree in which every child is found under its
\* name, and the paths lie in it.
NodesFormTree == PathLeadsFromRoot /\ IsTree(m_nodes_container)

\* A file offers what it declares itself, never what it imported or what is builtin.
OffersOwnOnly ==
  \A f \in FileIds : \A i \in DOMAIN exported[f] : \A e \in exported[f][i].entries :
    e.exported /\ e.what[1] = f
----------------------------------------------------------------------------
\* Scoped names: the namespace of a node is the way from the root to it.
WayTo(t) ==
  LET way[i \in DOMAIN t] ==
        IF i = Root THEN <<>>
        ELSE LET p == CHOOSE p \in DOMAIN t : i \in Range(t[p].nodes)
             IN Append(way[p], t[i].name)
  IN way

DeclaredBy(t) ==
  LET way == WayTo(t)
  IN UNION { { [at |-> way[i], name |-> e.name, what |-> e.what, exported |-> e.exported] :
               e \in t[i].entries } : i \in DOMAIN t }

Meant == INSTANCE ScopedNames WITH
  Declarations <- UNION { { <<f, i>> : i \in 1 .. MaxDecls[f] } : f \in FileIds },
  BuiltinDeclared <- DeclaredBy(BuiltinNodes),
  BuiltinNamespaces <- Range(WayTo(BuiltinNodes)),
  here <- WayTo(m_nodes_container)
            [Last(IF merging = <<>> THEN m_current_nodes_path ELSE backup)],
  blocks <- [i \in DOMAIN m_local_nodes |->
               { [name |-> e.name, what |-> e.what] : e \in m_local_nodes[i] }],
  namespaces <- Range(WayTo(m_nodes_container)),
  declared <- DeclaredBy(m_nodes_container),
  library <- [f \in FileIds |-> [declared |-> DeclaredBy(exported[f]),
                                 namespaces |-> Range(WayTo(exported[f]))]]

\* The tree with its parents, paths and merges implements scoped names.
ImplementsScopedNames == Meant!Spec

\* A lookup that stays in the container finds the innermost declarations, for a
\* qualified name those of the innermost namespace that its first name names.
Qualifiers == Names \union UNION { DOMAIN BuiltinNodes[i].nodes : i \in DOMAIN BuiltinNodes }
First == Qualifiers \union {GlobalName}
Qualified == { <<a, n>> : a \in First, n \in AllNames }
             \union { <<a, b, n>> : a \in First, b \in Names, n \in AllNames }

LookupFindsInnermost ==
  merging = <<>> =>
    /\ \A n \in AllNames :
         LET result == find(<<n>>) IN result.bad \/ result.what = Meant!Meaning(n)
    /\ \A q \in Qualified :
         LET result == find(q)
         IN result.bad \/ result.what = Meant!QualifiedMeaning(Front(q), Last(q))

\* All that a file exports is there when its import is done, under the names it has
\* in its file.
ImportBringsAll ==
  [][(merging # <<>> /\ merging' = <<>> /\ ~failed) =>
       \A d \in DeclaredBy(exported[importing]) :
         [d EXCEPT !.exported = FALSE] \in DeclaredBy(m_nodes_container)]_vars

\* test/exec/namespaces_smoke_test.cpp looks names up from inside namespaces that
\* are declared outside: every lookup is one in the container.
LookupStaysInContainer ==
  merging = <<>> => \A q \in Qualified \union { <<n>> : n \in AllNames } : ~find(q).bad
====
