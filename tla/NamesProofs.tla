---- MODULE NamesProofs ----
(***************************************************************************)
(* The tree of names, for every sequence of files, any names and any tree  *)
(* of builtin ones: it stays a tree that the paths lie in, whatever        *)
(* imports bring, and imports are not exported on; lookups find the        *)
(* innermost declaration, imports bring all of a file, and the tree        *)
(* implements the abstract specification of scoped names.                  *)
(***************************************************************************)
EXTENDS QualifiedEntries, SequenceTheorems, FiniteSetTheorems, TLAPS, WellFoundedInduction

Kinds == {"namespace", "class", "block"}
Step == [node : Nat, todo : SUBSET Nat]

Tree(t) == IsContainer(t) /\ Len(t) >= Root /\ IsTree(t)

\* Nodes and the names of their children are never lost.
Extends(t, t2) ==
  /\ Len(t) <= Len(t2)
  /\ \A i \in 1 .. Len(t) :
       /\ t2[i].name = t[i].name
       /\ \A n \in DOMAIN t[i].nodes : n \in DOMAIN t2[i].nodes /\ t2[i].nodes[n] = t[i].nodes[n]

\* Leads, for any tree.
Below(t, path, i) ==
  LET over == IF i = 1 THEN Root ELSE path[i - 1]
  IN /\ t[path[i]].name \in DOMAIN t[over].nodes
     /\ t[over].nodes[t[path[i]].name] = path[i]
LeadsIn(t, path) ==
  \A i \in 1 .. Len(path) : (i = 1 /\ path[i] = Root) \/ Below(t, path, i)

\* What is exported is of the file, and the entries of t2 are those of t or none.
Owned(t, f) ==
  \A i \in 1 .. Len(t) : \A e \in t[i].entries : e.exported => e.what[1] = f
NoEntries(t, t2) ==
  \A i \in 1 .. Len(t2) : \A e \in t2[i].entries : i \in 1 .. Len(t) /\ e \in t[i].entries

\* Blocks are opened inside of what else is open.
Count(g, kinds) == Cardinality({ i \in 1 .. Len(g) : g[i] \in kinds })
BlocksInside(g) ==
  \A i \in 1 .. Len(g) : g[i] = "block" => \A j \in i .. Len(g) : g[j] = "block"

\* The path, or the one that is kept while an import is merged.
Standing(t, path, g) ==
  /\ path # <<>> /\ path[1] = Root /\ LeadsIn(t, path)
  /\ Len(path) = 1 + Count(g, {"namespace", "class"})

\* What is left to merge has names that a node may have.
Offered(t, s) ==
  \A i \in s : i \in 1 .. Len(t) /\ t[i].name \in AllNames
Merges ==
  /\ importing \in FileIds /\ importing < file
  /\ m_local_nodes = <<>>
  /\ Len(m_current_nodes_path) = Len(merging) - 1 /\ LeadsIn(m_nodes_container, m_current_nodes_path)
  /\ \A i \in 1 .. Len(merging) :
       /\ merging[i].node \in 1 .. Len(exported[importing])
       /\ Offered(exported[importing], merging[i].todo)

Typed ==
  /\ Tree(m_nodes_container)
  /\ m_current_nodes_path \in Seq(1 .. Len(m_nodes_container))
  /\ backup \in Seq(1 .. Len(m_nodes_container))
  /\ m_local_nodes \in Seq(SUBSET Entry)
  /\ file \in 1 .. Len(Files) + 1
  /\ guards \in Seq(Kinds) /\ merging \in Seq(Step)
  /\ importing \in 0 .. Len(Files) /\ failed \in BOOLEAN
  /\ made \in [decls : Nat, scopes : Nat]
Library ==
  /\ DOMAIN exported = FileIds
  /\ \A f \in FileIds : IsContainer(exported[f])
  /\ \A f \in FileIds : f < file => Tree(exported[f])
Guarded ==
  /\ BlocksInside(guards) /\ Len(m_local_nodes) = Count(guards, {"block"})
  /\ Standing(m_nodes_container, IF merging = <<>> THEN m_current_nodes_path ELSE backup, guards)
  /\ merging = <<>> => backup = <<>>
  /\ merging # <<>> => Merges
Offers == Owned(m_nodes_container, file) /\ OffersOwnOnly

IInv == Typed /\ Library /\ Guarded /\ Offers
----------------------------------------------------------------------------
\* Sequences.
LEMMA LastOf ==
  ASSUME NEW S, NEW s \in Seq(S), s # <<>>
  PROVE  /\ Len(s) \in Nat /\ Len(s) > 0 /\ Last(s) \in S /\ Last(s) = s[Len(s)]
         /\ Front(s) \in Seq(S) /\ Len(Front(s)) = Len(s) - 1
         /\ \A i \in 1 .. Len(s) - 1 : Front(s)[i] = s[i]
<1>1. Len(s) \in Nat \ {0} /\ \A i \in 1 .. Len(s) : s[i] \in S
  BY EmptySeq, LenProperties, ElementOfSeq
<1>2. \A i \in 1 .. Len(s) - 1 : s[i] \in S BY <1>1
<1>3. /\ SubSeq(s, 1, Len(s) - 1) \in Seq(S)
      /\ Len(SubSeq(s, 1, Len(s) - 1)) = IF 1 <= Len(s) - 1 THEN Len(s) - 1 - 1 + 1 ELSE 0
      /\ \A i \in 1 .. Len(s) - 1 - 1 + 1 : SubSeq(s, 1, Len(s) - 1)[i] = s[1 + i - 1]
  BY <1>1, <1>2, SubSeqProperties
<1>4. ASSUME NEW n \in Nat \ {0}
      PROVE  /\ n \in 1 .. n /\ (IF 1 <= n - 1 THEN n - 1 - 1 + 1 ELSE 0) = n - 1
             /\ \A i \in 1 .. n - 1 : i \in 1 .. n - 1 - 1 + 1 /\ 1 + i - 1 = i
  OBVIOUS
<1>5. s[Len(s)] \in S BY <1>1, <1>4
<1>6. Len(SubSeq(s, 1, Len(s) - 1)) = Len(s) - 1 BY <1>1, <1>3, <1>4
<1>7. \A i \in 1 .. Len(s) - 1 : SubSeq(s, 1, Len(s) - 1)[i] = s[i] BY <1>1, <1>3, <1>4
<1> QED BY <1>1, <1>3, <1>5, <1>6, <1>7 DEF Front, Last

LEMMA SeqDomain ==
  ASSUME NEW S, NEW s \in Seq(S)
  PROVE  /\ DOMAIN s = 1 .. Len(s) /\ Len(s) \in Nat /\ s \in Seq(Range(s))
         /\ s = <<>> <=> Len(s) = 0
BY LenProperties, SeqOfRange, EmptySeq
----------------------------------------------------------------------------
\* The tree.
LEMMA TreeDef ==
  ASSUME NEW t
  PROVE  IsContainer(t) <=>
           /\ t \in Seq(Range(t))
           /\ \A i \in 1 .. Len(t) :
                /\ DOMAIN t[i] = {"name", "parent", "nodes", "entries"}
                /\ t[i].name \in AllNames \union {GlobalName}
                /\ t[i].parent \in {BadId} \union 1 .. Len(t)
                /\ DOMAIN t[i].nodes \subseteq AllNames
                /\ \A n \in DOMAIN t[i].nodes : t[i].nodes[n] \in 1 .. Len(t)
                /\ t[i].entries \subseteq Entry
<1>1. t \in Seq(Range(t)) => DOMAIN t = 1 .. Len(t) BY LenProperties
<1>2. \A i : Range(t[i].nodes) \subseteq 1 .. Len(t) <=>
               \A n \in DOMAIN t[i].nodes : t[i].nodes[n] \in 1 .. Len(t)
  BY DEF Range
<1> QED BY <1>1, <1>2 DEF IsContainer

\* Two trees with the same nodes, whatever their entries.
SameNodes(t, t2) ==
  /\ t2 \in Seq(Range(t2)) /\ Len(t2) = Len(t)
  /\ \A i \in 1 .. Len(t) :
       /\ DOMAIN t2[i] = DOMAIN t[i] /\ t2[i].name = t[i].name
       /\ t2[i].parent = t[i].parent /\ t2[i].nodes = t[i].nodes
       /\ t2[i].entries \subseteq Entry

LEMMA SameTree ==
  ASSUME NEW t, NEW t2, Tree(t), SameNodes(t, t2)
  PROVE  Tree(t2) /\ Extends(t, t2)
<1>1. IsContainer(t2) BY TreeDef DEF Tree, SameNodes
<1>2. DOMAIN t = 1 .. Len(t) /\ DOMAIN t2 = 1 .. Len(t2) /\ Len(t2) = Len(t) /\ Len(t) \in Nat
  BY <1>1, TreeDef, SeqDomain DEF Tree, SameNodes
<1>3. \A i : { q \in DOMAIN t : i \in Range(t[q].nodes) } = { q \in DOMAIN t2 : i \in Range(t2[q].nodes) }
  BY <1>2 DEF SameNodes
<1>4. IsTree(t2)
  <2>1. \A i \in DOMAIN t2 : \A n \in DOMAIN t2[i].nodes : t2[t2[i].nodes[n]].name = n
    <3> SUFFICES ASSUME NEW i \in 1 .. Len(t), NEW n \in DOMAIN t2[i].nodes
                 PROVE  t2[t2[i].nodes[n]].name = n
      BY <1>2
    <3>1. t2[i].nodes = t[i].nodes BY DEF SameNodes
    <3>2. t[i].nodes[n] \in 1 .. Len(t) BY <3>1, TreeDef DEF Tree
    <3>3. t[t[i].nodes[n]].name = n BY <3>1, <1>2 DEF Tree, IsTree
    <3> QED BY <3>1, <3>2, <3>3 DEF SameNodes
  <2>2. ASSUME NEW i \in DOMAIN t2 \ {Root}
        PROVE  \E p \in 1 .. (i - 1) : /\ { q \in DOMAIN t2 : i \in Range(t2[q].nodes) } = {p}
                                       /\ t2[i].parent = p \/ (t2[i].parent = BadId /\ p = Root)
    <3>1. PICK p \in 1 .. (i - 1) : /\ { q \in DOMAIN t : i \in Range(t[q].nodes) } = {p}
                                    /\ t[i].parent = p \/ (t[i].parent = BadId /\ p = Root)
      BY <1>2 DEF Tree, IsTree
    <3>2. t2[i].parent = t[i].parent BY <1>2 DEF SameNodes
    <3> QED BY <3>1, <3>2, <1>3
  <2>3. t2[Root].name = GlobalName BY <1>2 DEF Tree, IsTree, SameNodes, Root
  <2> QED BY <2>1, <2>2, <2>3 DEF IsTree
<1>5. Extends(t, t2) BY <1>2 DEF Extends, SameNodes
<1> QED BY <1>1, <1>2, <1>4, <1>5 DEF Tree

\* What create_node and enter_global_node make of a tree: a child n of the node at.
Adds(t, t2, at, n) ==
  /\ t2 \in Seq(Range(t2)) /\ Len(t2) = Len(t) + 1
  /\ \A i \in 1 .. Len(t) :
       /\ DOMAIN t2[i] = DOMAIN t[i] /\ t2[i].name = t[i].name
       /\ t2[i].parent = t[i].parent /\ t2[i].entries = t[i].entries
       /\ i # at => t2[i].nodes = t[i].nodes
  /\ DOMAIN t2[at].nodes = DOMAIN t[at].nodes \union {n}
  /\ \A c \in DOMAIN t[at].nodes : t2[at].nodes[c] = t[at].nodes[c]
  /\ t2[at].nodes[n] = Len(t) + 1
NewNode(r, n, at) ==
  /\ DOMAIN r = {"name", "parent", "nodes", "entries"}
  /\ r.name = n /\ DOMAIN r.nodes = {} /\ r.entries = {}
  /\ r.parent = at \/ (r.parent = BadId /\ at = Root)

LEMMA AddedChildren ==
  ASSUME NEW t, Tree(t), NEW at \in 1 .. Len(t), NEW n \in AllNames, n \notin DOMAIN t[at].nodes,
         NEW t2, Adds(t, t2, at, n), NewNode(t2[Len(t) + 1], n, at),
         NEW i \in 1 .. Len(t2), NEW c \in DOMAIN t2[i].nodes
  PROVE  \/ i = at /\ c = n /\ t2[i].nodes[c] = Len(t) + 1
         \/ /\ i \in 1 .. Len(t) /\ c \in DOMAIN t[i].nodes
            /\ t2[i].nodes[c] = t[i].nodes[c] /\ t[i].nodes[c] \in 1 .. Len(t)
<1>1. Len(t) \in Nat /\ Len(t2) = Len(t) + 1 BY TreeDef, SeqDomain DEF Tree, Adds
<1>2. i \in 1 .. Len(t) \/ i = Len(t) + 1 BY <1>1
<1>3. i # Len(t) + 1 BY DEF NewNode
<1>4. CASE i \in 1 .. Len(t) /\ i # at
  <2>1. t2[i].nodes = t[i].nodes BY <1>4 DEF Adds
  <2> QED BY <1>4, <2>1, TreeDef DEF Tree
<1>5. CASE i = at
  <2>1. CASE c \in DOMAIN t[at].nodes
    <3>1. t2[at].nodes[c] = t[at].nodes[c] BY <2>1 DEF Adds
    <3> QED BY <1>5, <2>1, <3>1, TreeDef DEF Tree
  <2>2. CASE c \notin DOMAIN t[at].nodes
    <3>1. c = n BY <1>5, <2>2 DEF Adds
    <3> QED BY <1>5, <3>1 DEF Adds
  <2> QED BY <2>1, <2>2
<1> QED BY <1>2, <1>3, <1>4, <1>5

LEMMA AddedTree ==
  ASSUME NEW t, Tree(t), NEW at \in 1 .. Len(t), NEW n \in AllNames, n \notin DOMAIN t[at].nodes,
         NEW t2, Adds(t, t2, at, n), NewNode(t2[Len(t) + 1], n, at)
  PROVE  Tree(t2) /\ Extends(t, t2) /\ NoEntries(t, t2)
<1> DEFINE m == Len(t) + 1
<1>1. /\ Len(t) \in Nat /\ Len(t2) = m /\ DOMAIN t = 1 .. Len(t) /\ DOMAIN t2 = 1 .. m
      /\ Len(t) >= Root
  BY TreeDef, SeqDomain DEF Tree, Adds
<1>2. /\ m \notin 1 .. Len(t) /\ m \in 1 .. m /\ m # Root
      /\ \A i \in 1 .. m : i \in 1 .. Len(t) \/ i = m
      /\ \A i \in 1 .. Len(t) : i \in 1 .. m /\ i \in 1 .. m - 1
  BY <1>1 DEF Root
<1>3. \A i \in 1 .. Len(t) : /\ t2[i].name = t[i].name /\ t2[i].parent = t[i].parent
                            /\ t2[i].entries = t[i].entries /\ DOMAIN t2[i] = DOMAIN t[i]
  BY DEF Adds
<1>4. NewNode(t2[m], n, at) OBVIOUS
<1> HIDE DEF m
<1>5. \A i \in 1 .. m : \A c \in DOMAIN t2[i].nodes :
        \/ i = at /\ c = n /\ t2[i].nodes[c] = m
        \/ /\ i \in 1 .. Len(t) /\ c \in DOMAIN t[i].nodes
           /\ t2[i].nodes[c] = t[i].nodes[c] /\ t[i].nodes[c] \in 1 .. Len(t)
  <2> SUFFICES ASSUME NEW i \in 1 .. Len(t2), NEW c \in DOMAIN t2[i].nodes
               PROVE  \/ i = at /\ c = n /\ t2[i].nodes[c] = m
                      \/ /\ i \in 1 .. Len(t) /\ c \in DOMAIN t[i].nodes
                         /\ t2[i].nodes[c] = t[i].nodes[c] /\ t[i].nodes[c] \in 1 .. Len(t)
    BY <1>1
  <2> QED BY AddedChildren DEF m
<1>6. \A i \in 1 .. Len(t) : \A c \in DOMAIN t[i].nodes :
        c \in DOMAIN t2[i].nodes /\ t2[i].nodes[c] = t[i].nodes[c]
  BY DEF Adds
<1>7. IsContainer(t2)
  <2>1. ASSUME NEW i \in 1 .. m
        PROVE  /\ DOMAIN t2[i] = {"name", "parent", "nodes", "entries"}
               /\ t2[i].name \in AllNames \union {GlobalName}
               /\ t2[i].parent \in {BadId} \union 1 .. m
               /\ t2[i].entries \subseteq Entry
    <3>1. CASE i \in 1 .. Len(t) BY <1>2, <1>3, <3>1, TreeDef DEF Tree
    <3>2. CASE i = m BY <1>2, <1>4, <3>2 DEF NewNode
    <3> QED BY <1>2, <3>1, <3>2
  <2>2. ASSUME NEW i \in 1 .. m, NEW c \in DOMAIN t2[i].nodes
        PROVE  c \in AllNames /\ t2[i].nodes[c] \in 1 .. m
    <3>1. i \in 1 .. Len(t) /\ c \in DOMAIN t[i].nodes => c \in AllNames BY TreeDef DEF Tree
    <3> QED BY <1>2, <1>5, <3>1
  <2>3. t2 \in Seq(Range(t2)) BY DEF Adds
  <2> QED BY <1>1, <2>1, <2>2, <2>3, TreeDef
<1>8. IsTree(t2)
  <2>1. ASSUME NEW i \in 1 .. m, NEW c \in DOMAIN t2[i].nodes
        PROVE  t2[t2[i].nodes[c]].name = c
    <3>1. CASE i = at /\ c = n /\ t2[i].nodes[c] = m BY <1>4, <3>1 DEF NewNode
    <3>2. CASE /\ i \in 1 .. Len(t) /\ c \in DOMAIN t[i].nodes
               /\ t2[i].nodes[c] = t[i].nodes[c] /\ t[i].nodes[c] \in 1 .. Len(t)
      <4>1. t[t[i].nodes[c]].name = c BY <1>1, <3>2 DEF Tree, IsTree
      <4> QED BY <1>3, <3>2, <4>1
    <3> QED BY <1>5, <3>1, <3>2
  <2>2. \A i, q : q \in DOMAIN t2 /\ i \in Range(t2[q].nodes) <=>
                    \/ q = at /\ i = m
                    \/ q \in DOMAIN t /\ i \in Range(t[q].nodes)
    <3> SUFFICES ASSUME NEW i, NEW q
                 PROVE  q \in DOMAIN t2 /\ i \in Range(t2[q].nodes) <=>
                          \/ q = at /\ i = m
                          \/ q \in DOMAIN t /\ i \in Range(t[q].nodes)
      OBVIOUS
    <3>1. ASSUME q \in DOMAIN t2, i \in Range(t2[q].nodes)
          PROVE  \/ q = at /\ i = m
                 \/ q \in DOMAIN t /\ i \in Range(t[q].nodes)
      <4>1. PICK c \in DOMAIN t2[q].nodes : i = t2[q].nodes[c] BY <3>1 DEF Range
      <4> QED BY <1>1, <1>5, <3>1, <4>1 DEF Range
    <3>2. ASSUME q = at, i = m PROVE q \in DOMAIN t2 /\ i \in Range(t2[q].nodes)
      <4>1. n \in DOMAIN t2[at].nodes /\ t2[at].nodes[n] = m BY DEF Adds, m
      <4> QED BY <1>1, <1>2, <3>2, <4>1 DEF Range
    <3>3. ASSUME q \in DOMAIN t, i \in Range(t[q].nodes)
          PROVE  q \in DOMAIN t2 /\ i \in Range(t2[q].nodes)
      <4>1. PICK c \in DOMAIN t[q].nodes : i = t[q].nodes[c] BY <3>3 DEF Range
      <4> QED BY <1>1, <1>2, <1>6, <3>3, <4>1 DEF Range
    <3> QED BY <3>1, <3>2, <3>3
  <2>3. ASSUME NEW i \in DOMAIN t2 \ {Root}
        PROVE  \E p \in 1 .. (i - 1) : /\ { q \in DOMAIN t2 : i \in Range(t2[q].nodes) } = {p}
                                       /\ t2[i].parent = p \/ (t2[i].parent = BadId /\ p = Root)
    <3>1. CASE i = m
      <4>1. \A q \in DOMAIN t : m \notin Range(t[q].nodes)
        <5>1. \A q \in 1 .. Len(t) : \A c \in DOMAIN t[q].nodes : t[q].nodes[c] \in 1 .. Len(t)
          BY TreeDef DEF Tree
        <5> QED BY <1>1, <1>2, <5>1 DEF Range
      <4>2. { q \in DOMAIN t2 : m \in Range(t2[q].nodes) } = {at}
        BY <2>2, <4>1
      <4>3. at \in 1 .. m - 1 BY <1>2
      <4> QED BY <1>4, <3>1, <4>2, <4>3 DEF NewNode
    <3>2. CASE i # m
      <4>1. i \in DOMAIN t \ {Root} BY <1>1, <1>2, <3>2
      <4>2. PICK p \in 1 .. (i - 1) : /\ { q \in DOMAIN t : i \in Range(t[q].nodes) } = {p}
                                      /\ t[i].parent = p \/ (t[i].parent = BadId /\ p = Root)
        BY <4>1 DEF Tree, IsTree
      <4>3. { q \in DOMAIN t2 : i \in Range(t2[q].nodes) } = { q \in DOMAIN t : i \in Range(t[q].nodes) }
        BY <2>2, <3>2
      <4>4. t2[i].parent = t[i].parent BY <1>1, <1>3, <4>1
      <4> QED BY <4>2, <4>3, <4>4
    <3> QED BY <3>1, <3>2
  <2>4. t2[Root].name = GlobalName BY <1>1, <1>3 DEF Tree, IsTree, Root
  <2> QED BY <1>1, <2>1, <2>3, <2>4 DEF IsTree
<1>9. Tree(t2) BY <1>1, <1>7, <1>8, <1>2 DEF Tree, Root, m
<1>10. Extends(t, t2)
  <2>1. Len(t) <= Len(t2) BY <1>1 DEF m
  <2> QED BY <1>3, <1>6, <2>1 DEF Extends
<1>11. NoEntries(t, t2)
  <2> SUFFICES ASSUME NEW i \in 1 .. m, NEW e \in t2[i].entries
               PROVE  i \in 1 .. Len(t) /\ e \in t[i].entries
    BY <1>1 DEF NoEntries
  <2>1. i # m BY <1>4 DEF NewNode
  <2> QED BY <1>2, <1>3, <2>1
<1> QED BY <1>9, <1>10, <1>11
LEMMA CurrentNode ==
  ASSUME Tree(m_nodes_container), m_current_nodes_path \in Seq(1 .. Len(m_nodes_container))
  PROVE  /\ current_node \in 1 .. Len(m_nodes_container)
         /\ m_current_nodes_path = <<>> => current_node = Root /\ parent_of_new = BadId
         /\ m_current_nodes_path # <<>> =>
              current_node = Last(m_current_nodes_path) /\ parent_of_new = current_node
<1>1. Len(m_nodes_container) \in Nat /\ Root \in 1 .. Len(m_nodes_container)
      /\ BadId \notin 1 .. Len(m_nodes_container)
  BY TreeDef, SeqDomain DEF Tree, Root, BadId
<1>2. m_current_nodes_path # <<>> => Last(m_current_nodes_path) \in 1 .. Len(m_nodes_container)
  BY LastOf
<1> QED BY <1>1, <1>2 DEF current_node, parent_of_new, current_node_id

WithNode(t, at, children, r) == Append([t EXCEPT ![at].nodes = children], r)

LEMMA CreatedNode ==
  ASSUME NEW t, Tree(t), NEW at \in 1 .. Len(t), NEW n,
         NEW children, DOMAIN children = DOMAIN t[at].nodes \union {n},
         children[n] = Len(t) + 1, \A c \in DOMAIN t[at].nodes \ {n} : children[c] = t[at].nodes[c],
         n \notin DOMAIN t[at].nodes,
         NEW r, NewNode(r, n, at)
  PROVE  Adds(t, WithNode(t, at, children, r), at, n) /\ WithNode(t, at, children, r)[Len(t) + 1] = r
<1> DEFINE t2 == WithNode(t, at, children, r)
           old == [t[at] EXCEPT !.nodes = children]
           S == Range(t) \union {old, r}
           t1 == [t EXCEPT ![at] = old]
<1>1. t \in Seq(Range(t)) /\ Len(t) \in Nat BY TreeDef, SeqDomain DEF Tree
<1>2. t \in Seq(S) BY <1>1, SeqMonotonic
<1>3. /\ t1 \in Seq(S) /\ Len(t1) = Len(t)
      /\ \A j \in 1 .. Len(t) : t1[j] = IF j = at THEN old ELSE t[j]
  BY <1>2, ExceptSeq
<1>4. DOMAIN t[at] = {"name", "parent", "nodes", "entries"} BY TreeDef DEF Tree
<1>5. /\ DOMAIN old = DOMAIN t[at] /\ old.nodes = children
      /\ old.name = t[at].name /\ old.parent = t[at].parent /\ old.entries = t[at].entries
  BY <1>4
<1>6. t2 = Append(t1, r) BY DEF WithNode
<1> HIDE DEF old, t1, t2, S
<1>7. r \in S /\ old \in S BY DEF S
<1>8. /\ t2 \in Seq(S) /\ Len(t2) = Len(t) + 1 /\ t2[Len(t) + 1] = r
      /\ \A j \in 1 .. Len(t) : t2[j] = t1[j]
  BY <1>3, <1>6, <1>7, AppendProperties
<1>9. t2 \in Seq(Range(t2)) BY <1>8, SeqOfRange
<1>10. t2[at] = old /\ \A j \in 1 .. Len(t) : j # at => t2[j] = t[j] BY <1>3, <1>8
<1>11. \A c \in DOMAIN t[at].nodes : children[c] = t[at].nodes[c] OBVIOUS
<1>12. ASSUME NEW i \in 1 .. Len(t)
       PROVE  /\ DOMAIN t2[i] = DOMAIN t[i] /\ t2[i].name = t[i].name
              /\ t2[i].parent = t[i].parent /\ t2[i].entries = t[i].entries
              /\ i # at => t2[i].nodes = t[i].nodes
  BY <1>5, <1>10
<1>13. Adds(t, t2, at, n) BY <1>5, <1>8, <1>9, <1>10, <1>11, <1>12 DEF Adds
<1> QED BY <1>8, <1>13 DEF t2

LEMMA EnteredAdds ==
  ASSUME Tree(m_nodes_container), m_current_nodes_path \in Seq(1 .. Len(m_nodes_container)),
         NEW n \in AllNames, n \notin DOMAIN m_nodes_container[current_node].nodes,
         NEW t2, t2 = entered(n).container
  PROVE  /\ current_node \in 1 .. Len(m_nodes_container)
         /\ Adds(m_nodes_container, t2, current_node, n)
         /\ NewNode(t2[Len(m_nodes_container) + 1], n, current_node)
         /\ entered(n).id = Len(m_nodes_container) + 1
<1> DEFINE t == m_nodes_container
           at == current_node
           m == Len(t) + 1
           children == [c \in DOMAIN t[at].nodes \union {n} |->
                          IF c = n THEN m ELSE t[at].nodes[c]]
           r == [name |-> n, parent |-> parent_of_new, nodes |-> <<>>, entries |-> {}]
<1>1. at \in 1 .. Len(t) /\ (parent_of_new = at \/ (parent_of_new = BadId /\ at = Root))
  BY CurrentNode
<1>2. t2 = WithNode(t, at, children, r) /\ entered(n).id = m
  BY Zenon DEF entered, created, new_id, WithNode
<1>3. NewNode(r, n, at) BY <1>1 DEF NewNode
<1>4. /\ DOMAIN children = DOMAIN t[at].nodes \union {n} /\ children[n] = m
      /\ \A c \in DOMAIN t[at].nodes \ {n} : children[c] = t[at].nodes[c]
  OBVIOUS
<1>5. Tree(t) /\ n \notin DOMAIN t[at].nodes OBVIOUS
<1> HIDE DEF children, r, t, at
<1>6. /\ Adds(t, WithNode(t, at, children, r), at, n)
      /\ WithNode(t, at, children, r)[Len(t) + 1] = r
  <2>1. DOMAIN children = DOMAIN t[at].nodes \union {n} BY <1>4
  <2>2. children[n] = Len(t) + 1 BY <1>4
  <2>3. \A c \in DOMAIN t[at].nodes \ {n} : children[c] = t[at].nodes[c] BY <1>4
  <2>4. at \in 1 .. Len(t) /\ Tree(t) /\ n \notin DOMAIN t[at].nodes BY <1>1, <1>5
  <2> QED BY ONLY SMTT(30), <1>3, <2>1, <2>2, <2>3, <2>4, CreatedNode
<1> QED BY <1>1, <1>2, <1>3, <1>6 DEF t, at

LEMMA EnteredNode ==
  ASSUME Tree(m_nodes_container), m_current_nodes_path \in Seq(1 .. Len(m_nodes_container)),
         NEW n \in AllNames, NEW t2, t2 = entered(n).container, NEW id, id = entered(n).id
  PROVE  /\ Tree(t2) /\ Extends(m_nodes_container, t2) /\ NoEntries(m_nodes_container, t2)
         /\ id \in 1 .. Len(t2) /\ t2[id].name = n
         /\ n \in DOMAIN t2[current_node].nodes /\ t2[current_node].nodes[n] = id
<1> DEFINE t == m_nodes_container
           at == current_node
<1>1. at \in 1 .. Len(t) BY CurrentNode
<1>2. CASE n \in DOMAIN t[at].nodes
  <2>1. t2 = t /\ id = t[at].nodes[n] BY <1>2 DEF entered
  <2>2. Extends(t, t) /\ NoEntries(t, t)
    BY TreeDef, SeqDomain DEF Extends, NoEntries, Tree
  <2>3. id \in 1 .. Len(t) BY <1>1, <1>2, <2>1, TreeDef DEF Tree
  <2>4. DOMAIN t = 1 .. Len(t) BY TreeDef, SeqDomain DEF Tree
  <2>5. t[id].name = n BY <1>1, <1>2, <2>1, <2>4 DEF Tree, IsTree
  <2> QED BY <1>2, <2>1, <2>2, <2>3, <2>5
<1>3. CASE n \notin DOMAIN t[at].nodes
  <2>1. Adds(t, t2, at, n) /\ NewNode(t2[Len(t) + 1], n, at) /\ id = Len(t) + 1
    BY <1>3, EnteredAdds
  <2>2. Tree(t) OBVIOUS
  <2> HIDE DEF t, at
  <2>3. Tree(t2) /\ Extends(t, t2) /\ NoEntries(t, t2) BY <1>1, <1>3, <2>1, <2>2, AddedTree
  <2>4. id \in 1 .. Len(t2)
    <3>1. Len(t) \in Nat BY <2>2, TreeDef, SeqDomain DEF Tree
    <3> QED BY <2>1, <3>1 DEF Adds
  <2>5. t2[id].name = n BY <2>1 DEF NewNode
  <2>6. n \in DOMAIN t2[at].nodes /\ t2[at].nodes[n] = id BY <2>1 DEF Adds
  <2> QED BY <2>3, <2>4, <2>5, <2>6 DEF t, at
<1> QED BY <1>2, <1>3
----------------------------------------------------------------------------
\* Paths.
LEMMA LeadsKept ==
  ASSUME NEW t, NEW t2, Tree(t), Extends(t, t2), Len(t2) \in Nat,
         NEW path \in Seq(1 .. Len(t)), LeadsIn(t, path)
  PROVE  LeadsIn(t2, path) /\ path \in Seq(1 .. Len(t2))
<1>1. Len(t) \in Nat /\ Root \in 1 .. Len(t) /\ 1 .. Len(t) \subseteq 1 .. Len(t2)
  BY TreeDef, SeqDomain DEF Tree, Extends, Root
<1>2. path \in Seq(1 .. Len(t2)) BY <1>1, SeqMonotonic
<1>3. ASSUME NEW i \in 1 .. Len(path), Below(t, path, i) PROVE Below(t2, path, i)
  <2> DEFINE over == IF i = 1 THEN Root ELSE path[i - 1]
  <2>1. Len(path) \in Nat /\ (i # 1 => i - 1 \in 1 .. Len(path)) BY LenProperties
  <2>2. path[i] \in 1 .. Len(t) /\ over \in 1 .. Len(t) BY <1>1, <2>1, ElementOfSeq
  <2>3. t[path[i]].name \in DOMAIN t[over].nodes /\ t[over].nodes[t[path[i]].name] = path[i]
    BY <1>3 DEF Below
  <2> HIDE DEF over
  <2>4. t2[path[i]].name = t[path[i]].name BY <2>2 DEF Extends
  <2>5. t2[path[i]].name \in DOMAIN t2[over].nodes /\ t2[over].nodes[t2[path[i]].name] = path[i]
    BY <2>2, <2>3, <2>4 DEF Extends
  <2> QED BY <2>5 DEF Below, over
<1> QED BY <1>2, <1>3 DEF LeadsIn

LEMMA LeadsOn ==
  ASSUME NEW t, NEW path \in Seq(1 .. Len(t)), LeadsIn(t, path),
         NEW id \in 1 .. Len(t), NEW over, over = IF path = <<>> THEN Root ELSE Last(path),
         t[id].name \in DOMAIN t[over].nodes, t[over].nodes[t[id].name] = id
  PROVE  /\ LeadsIn(t, Append(path, id)) /\ Append(path, id) \in Seq(1 .. Len(t))
         /\ Len(Append(path, id)) = Len(path) + 1
         /\ path # <<>> => Append(path, id)[1] = path[1]
<1> DEFINE longer == Append(path, id)
           n == Len(path)
<1>1. /\ longer \in Seq(1 .. Len(t)) /\ Len(longer) = n + 1 /\ longer[n + 1] = id
      /\ \A i \in 1 .. n : longer[i] = path[i]
  BY AppendProperties
<1>2. n \in Nat /\ (path = <<>> <=> n = 0) /\ Last(path) = path[n] BY SeqDomain DEF Last
<1> HIDE DEF longer
<1>3. ASSUME NEW i \in 1 .. n PROVE (i = 1 /\ longer[i] = Root) \/ Below(t, longer, i)
  <2>1. (i = 1 /\ path[i] = Root) \/ Below(t, path, i) BY DEF LeadsIn
  <2>2. i # 1 => i - 1 \in 1 .. n BY <1>2
  <2>3. longer[i] = path[i] /\ (i # 1 => longer[i - 1] = path[i - 1]) BY <1>1, <2>2
  <2> QED BY <2>1, <2>3 DEF Below
<1>4. Below(t, longer, n + 1)
  <2>1. (IF n + 1 = 1 THEN Root ELSE longer[n + 1 - 1]) = over
    <3>1. CASE n = 0 BY <1>2, <3>1
    <3>2. CASE n # 0
      <4>1. n + 1 # 1 /\ n + 1 - 1 = n /\ n \in 1 .. n BY <1>2, <3>2
      <4> QED BY <1>1, <1>2, <3>2, <4>1
    <3> QED BY <3>1, <3>2
  <2> QED BY <1>1, <2>1 DEF Below
<1>5. \A i \in 1 .. n + 1 : i \in 1 .. n \/ i = n + 1 BY <1>2
<1>6. LeadsIn(t, longer) BY <1>1, <1>3, <1>4, <1>5 DEF LeadsIn
<1>7. path # <<>> => 1 \in 1 .. n BY <1>2
<1> QED BY <1>1, <1>6, <1>7 DEF longer

LEMMA LeadsBack ==
  ASSUME NEW t, NEW path \in Seq(1 .. Len(t)), LeadsIn(t, path), path # <<>>
  PROVE  /\ LeadsIn(t, Front(path)) /\ Front(path) \in Seq(1 .. Len(t))
         /\ Len(Front(path)) = Len(path) - 1
         /\ Len(path) > 1 => Front(path) # <<>> /\ Front(path)[1] = path[1]
<1> DEFINE shorter == Front(path)
           n == Len(path) - 1
<1>0. /\ shorter \in Seq(1 .. Len(t)) /\ Len(shorter) = n
      /\ \A i \in 1 .. n : shorter[i] = path[i]
      /\ Len(path) \in Nat /\ Len(path) > 0
  BY LastOf
<1>1. /\ shorter \in Seq(1 .. Len(t)) /\ Len(shorter) = n
      /\ \A i \in 1 .. n : shorter[i] = path[i]
      /\ n \in Nat /\ Len(path) \in Nat
  BY <1>0
<1> HIDE DEF shorter
<1>2. ASSUME NEW i \in 1 .. n PROVE (i = 1 /\ shorter[i] = Root) \/ Below(t, shorter, i)
  <2>0. i \in 1 .. Len(path) BY <1>1
  <2>1. (i = 1 /\ path[i] = Root) \/ Below(t, path, i) BY <2>0 DEF LeadsIn
  <2>2. i # 1 => i - 1 \in 1 .. n BY <1>1
  <2>3. shorter[i] = path[i] /\ (i # 1 => shorter[i - 1] = path[i - 1]) BY <1>1, <2>2
  <2> QED BY <2>1, <2>3 DEF Below
<1>3. LeadsIn(t, shorter) BY <1>1, <1>2 DEF LeadsIn
<1>4. Len(path) > 1 => shorter # <<>> /\ shorter[1] = path[1]
  <2>1. Len(path) > 1 => 1 \in 1 .. n /\ n # 0
    <3> HIDE DEF shorter
    <3> QED BY SMTT(30), <1>1
  <2> QED BY <1>1, <2>1, SeqDomain
<1> QED BY <1>1, <1>3, <1>4 DEF shorter
----------------------------------------------------------------------------
\* Guards.
LEMMA CountType ==
  ASSUME NEW g \in Seq(Kinds), NEW kinds
  PROVE  /\ IsFiniteSet({ i \in 1 .. Len(g) : g[i] \in kinds }) /\ Count(g, kinds) \in Nat
         /\ Count(g, kinds) = 0 <=> \A i \in 1 .. Len(g) : g[i] \notin kinds
<1> DEFINE S == { i \in 1 .. Len(g) : g[i] \in kinds }
<1>1. Len(g) \in Nat BY LenProperties
<1>2. IsFiniteSet(S)
  <2>1. S \in SUBSET (1 .. Len(g)) /\ IsFiniteSet(1 .. Len(g)) BY <1>1, FS_Interval
  <2> QED BY <2>1, FS_Subset
<1>3. Cardinality(S) \in Nat /\ (Cardinality(S) = 0 <=> S = {})
  BY <1>2, FS_CardinalityType, FS_EmptySet
<1>4. S = {} <=> \A i \in 1 .. Len(g) : g[i] \notin kinds OBVIOUS
<1> QED BY <1>2, <1>3, <1>4 DEF Count

\* One guard more, or one less.
LEMMA CountOneMore ==
  ASSUME NEW g \in Seq(Kinds), NEW h \in Seq(Kinds), NEW kinds,
         Len(h) = Len(g) + 1, \A i \in 1 .. Len(g) : h[i] = g[i]
  PROVE  Count(h, kinds) = Count(g, kinds) + IF h[Len(h)] \in kinds THEN 1 ELSE 0
<1> DEFINE n == Len(g)
           S == { i \in 1 .. n : g[i] \in kinds }
           T == { i \in 1 .. Len(h) : h[i] \in kinds }
<1>1. n \in Nat /\ IsFiniteSet(S) /\ Cardinality(S) \in Nat BY LenProperties, CountType DEF Count
<1>2. /\ n + 1 \notin S /\ \A i \in 1 .. n : i \in 1 .. n + 1
      /\ \A i \in 1 .. n + 1 : i \in 1 .. n \/ i = n + 1
      /\ n + 1 \in 1 .. n + 1
  BY <1>1
<1>3. CASE h[n + 1] \in kinds
  <2>1. T = S \union {n + 1} BY <1>2, <1>3
  <2> QED BY ZenonT(30), <1>1, <1>2, <1>3, <2>1, FS_AddElement DEF Count
<1>4. CASE h[n + 1] \notin kinds
  <2>1. T = S BY <1>2, <1>4
  <2>2. Count(h, kinds) = Cardinality(T) /\ Count(g, kinds) = Cardinality(S) BY DEF Count
  <2> HIDE DEF S, T
  <2> QED BY <1>1, <1>4, <2>1, <2>2
<1> QED BY <1>3, <1>4

LEMMA GuardOpened ==
  ASSUME NEW g \in Seq(Kinds), NEW k \in Kinds, BlocksInside(g),
         k = "block" \/ \A i \in 1 .. Len(g) : g[i] = "namespace"
  PROVE  /\ Append(g, k) \in Seq(Kinds) /\ BlocksInside(Append(g, k))
         /\ \A kinds : Count(Append(g, k), kinds) = Count(g, kinds) + IF k \in kinds THEN 1 ELSE 0
<1> DEFINE h == Append(g, k)
           n == Len(g)
<1>1. h \in Seq(Kinds) /\ Len(h) = n + 1 /\ h[n + 1] = k /\ \A i \in 1 .. n : h[i] = g[i]
  BY AppendProperties
<1>2. n \in Nat BY LenProperties
<1> HIDE DEF h
<1>3. \A kinds : Count(h, kinds) = Count(g, kinds) + IF k \in kinds THEN 1 ELSE 0
  BY <1>1, CountOneMore
<1>4. ASSUME NEW i \in 1 .. n + 1, h[i] = "block", NEW j \in i .. n + 1 PROVE h[j] = "block"
  <2>1. CASE j = n + 1
    <3>1. CASE i = n + 1 BY <1>4, <2>1, <3>1
    <3>2. CASE i # n + 1
      <4>1. i \in 1 .. n BY <1>2, <3>2
      <4>2. g[i] = "block" BY <1>1, <1>4, <4>1
      <4>3. k = "block" BY <4>1, <4>2
      <4> QED BY <1>1, <2>1, <4>3
    <3> QED BY <3>1, <3>2
  <2>2. CASE j # n + 1
    <3>1. i \in 1 .. n /\ j \in i .. n /\ j \in 1 .. n BY <1>2, <2>2
    <3> QED BY <1>1, <1>4, <3>1 DEF BlocksInside
  <2> QED BY <2>1, <2>2
<1>5. BlocksInside(h) BY <1>1, <1>4 DEF BlocksInside
<1> QED BY <1>1, <1>3, <1>5 DEF h

LEMMA GuardClosed ==
  ASSUME NEW g \in Seq(Kinds), g # <<>>, BlocksInside(g)
  PROVE  /\ Front(g) \in Seq(Kinds) /\ BlocksInside(Front(g)) /\ Last(g) \in Kinds
         /\ \A kinds : Count(g, kinds) = Count(Front(g), kinds) + IF Last(g) \in kinds THEN 1 ELSE 0
         /\ Last(g) # "block" => Count(g, {"block"}) = 0
<1> DEFINE h == Front(g)
           n == Len(g)
<1>1. /\ h \in Seq(Kinds) /\ Len(h) = n - 1 /\ \A i \in 1 .. n - 1 : h[i] = g[i]
      /\ n \in Nat /\ n > 0 /\ Last(g) = g[n] /\ Last(g) \in Kinds
  BY LastOf
<1> HIDE DEF h
<1>2. n = Len(h) + 1 BY <1>1
<1>3. \A kinds : Count(g, kinds) = Count(h, kinds) + IF Last(g) \in kinds THEN 1 ELSE 0
  BY <1>1, <1>2, CountOneMore
<1>4. BlocksInside(h)
  <2>1. ASSUME NEW i \in 1 .. n - 1, h[i] = "block", NEW j \in i .. n - 1 PROVE h[j] = "block"
    <3>1. i \in 1 .. n /\ j \in i .. n /\ j \in 1 .. n - 1 BY <1>1
    <3> QED BY <1>1, <2>1, <3>1 DEF BlocksInside
  <2> QED BY <1>1, <2>1 DEF BlocksInside
<1>5. ASSUME Last(g) # "block", NEW i \in 1 .. n PROVE g[i] # "block"
  <2>1. n \in i .. n BY <1>1
  <2> QED BY <1>1, <1>5, <2>1 DEF BlocksInside
<1>6. Last(g) # "block" => Count(g, {"block"}) = 0 BY <1>5, CountType
<1> QED BY <1>1, <1>3, <1>4, <1>6 DEF h
----------------------------------------------------------------------------
\* Entries.
WithEntries(t, i, s) == [t EXCEPT ![i].entries = @ \union s]

LEMMA EntriesAdded ==
  ASSUME NEW t, Tree(t), NEW i \in 1 .. Len(t), NEW s \in SUBSET Entry, NEW f,
         \A e \in s : e.exported => e.what[1] = f
  PROVE  /\ Tree(WithEntries(t, i, s)) /\ Extends(t, WithEntries(t, i, s))
         /\ Owned(t, f) => Owned(WithEntries(t, i, s), f)
<1> DEFINE node == [t[i] EXCEPT !.entries = t[i].entries \union s]
           S == Range(t) \union {node}
           t2 == WithEntries(t, i, s)
<1>1. t \in Seq(Range(t)) /\ Len(t) \in Nat BY TreeDef, SeqDomain DEF Tree
<1>2. t \in Seq(S) BY <1>1, SeqMonotonic
<1>3. /\ t2 \in Seq(S) /\ Len(t2) = Len(t)
      /\ \A j \in 1 .. Len(t) : t2[j] = IF j = i THEN node ELSE t[j]
  <2>1. t2 = [t EXCEPT ![i] = node] BY DEF WithEntries
  <2> HIDE DEF t2, node
  <2> QED BY <1>2, <2>1, ExceptSeq
<1>4. DOMAIN t[i] = {"name", "parent", "nodes", "entries"} /\ t[i].entries \subseteq Entry
  BY TreeDef DEF Tree
<1>5. /\ DOMAIN node = DOMAIN t[i] /\ node.nodes = t[i].nodes
      /\ node.name = t[i].name /\ node.parent = t[i].parent /\ node.entries = t[i].entries \union s
  BY <1>4
<1>6. t2 \in Seq(Range(t2)) BY <1>3, SeqOfRange
<1> HIDE DEF node, t2
<1>7. ASSUME NEW j \in 1 .. Len(t)
      PROVE  /\ DOMAIN t2[j] = DOMAIN t[j] /\ t2[j].name = t[j].name
             /\ t2[j].parent = t[j].parent /\ t2[j].nodes = t[j].nodes
             /\ t2[j].entries \subseteq Entry
  <2>1. t[j].entries \subseteq Entry BY TreeDef DEF Tree
  <2> QED BY <1>3, <1>4, <1>5, <2>1
<1>8. Tree(t2) /\ Extends(t, t2) BY <1>3, <1>6, <1>7, SameTree DEF SameNodes
<1>9. Owned(t, f) => Owned(t2, f) BY <1>3, <1>5 DEF Owned
<1> QED BY <1>8, <1>9 DEF t2

LEMMA OwnedEntered ==
  ASSUME NEW t, NEW t2, NoEntries(t, t2), NEW f, Owned(t, f)
  PROVE  Owned(t2, f)
BY DEF NoEntries, Owned

LEMMA ExtendsTwice ==
  ASSUME NEW t1, NEW t2, NEW t3, Extends(t1, t2), Extends(t2, t3),
         Len(t1) \in Nat, Len(t2) \in Nat, Len(t3) \in Nat
  PROVE  Extends(t1, t3)
<1>1. Len(t1) <= Len(t3) /\ \A i \in 1 .. Len(t1) : i \in 1 .. Len(t2) BY DEF Extends
<1>2. ASSUME NEW i \in 1 .. Len(t1)
      PROVE  /\ t3[i].name = t1[i].name
             /\ \A n \in DOMAIN t1[i].nodes : n \in DOMAIN t3[i].nodes /\ t3[i].nodes[n] = t1[i].nodes[n]
  BY <1>1 DEF Extends
<1> QED BY <1>1, <1>2 DEF Extends

LEMMA EntryImported ==
  ASSUME NEW e \in Entry PROVE imported_entry(e) \in Entry /\ imported_entry(e).exported = FALSE
BY DEF imported_entry, Entry

LEMMA MergedNode ==
  ASSUME NEW t, Tree(t), NEW into \in 1 .. Len(t), NEW from, from.entries \subseteq Entry,
         merged(t, into, from), failed \in BOOLEAN
  PROVE  /\ Tree(m_nodes_container') /\ Extends(t, m_nodes_container') /\ failed' \in BOOLEAN
         /\ \A f : Owned(t, f) => Owned(m_nodes_container', f)
<1> DEFINE taken == {e \in from.entries : \E old \in t[into].entries : old.name = e.name}
           new == { imported_entry(e) : e \in from.entries \ taken }
<1>1. m_nodes_container' = WithEntries(t, into, new) /\ failed' = (failed \/ taken # {})
  BY DEF merged, WithEntries
<1>2. new \in SUBSET Entry /\ \A e \in new : ~e.exported BY EntryImported
<1> HIDE DEF new, taken
<1>3. \A f : /\ Tree(WithEntries(t, into, new)) /\ Extends(t, WithEntries(t, into, new))
             /\ Owned(t, f) => Owned(WithEntries(t, into, new), f)
  BY <1>2, EntriesAdded
<1> QED BY <1>1, <1>3

LEMMA ChildrenOffered ==
  ASSUME NEW t, Tree(t), NEW i \in 1 .. Len(t)
  PROVE  Offered(t, Range(t[i].nodes)) /\ Range(t[i].nodes) \in SUBSET Nat
<1>1. DOMAIN t = 1 .. Len(t) /\ Len(t) \in Nat BY TreeDef, SeqDomain DEF Tree
<1>2. \A c \in DOMAIN t[i].nodes : c \in AllNames /\ t[i].nodes[c] \in 1 .. Len(t)
  BY TreeDef DEF Tree
<1>3. \A c \in DOMAIN t[i].nodes : t[t[i].nodes[c]].name = c BY <1>1 DEF Tree, IsTree
<1>4. \A j \in Range(t[i].nodes) : \E c \in DOMAIN t[i].nodes : j = t[i].nodes[c] BY DEF Range
<1>5. \A j \in 1 .. Len(t) : j \in Nat BY <1>1
<1> QED BY <1>2, <1>3, <1>4, <1>5 DEF Offered
----------------------------------------------------------------------------
\* The steps.
LEMMA FilesAre == Len(Files) \in Nat /\ FileIds = 1 .. Len(Files)
BY FilesAssumption, SeqDomain DEF FileIds

LEMMA LibraryStays ==
  ASSUME IInv, UNCHANGED <<exported, file>>
  PROVE  Library' /\ OffersOwnOnly'
BY DEF IInv, Library, Offers, OffersOwnOnly, FileIds

\* The tree and what can be read off it, when nobody adds to it.
LEMMA TreeStays == ASSUME NEW t, Tree(t) PROVE Extends(t, t) /\ Len(t) \in Nat /\ Root \in 1 .. Len(t)
BY TreeDef, SeqDomain DEF Extends, Tree, Root

LEMMA BackupStays ==
  ASSUME IInv, Tree(m_nodes_container'), Extends(m_nodes_container, m_nodes_container'),
         backup' = backup
  PROVE  backup' \in Seq(1 .. Len(m_nodes_container'))
<1>1. Len(m_nodes_container') \in Nat BY TreeDef, SeqDomain DEF Tree
<1>2. Len(m_nodes_container) \in Nat /\ Len(m_nodes_container) <= Len(m_nodes_container')
      /\ backup \in Seq(1 .. Len(m_nodes_container))
  BY TreeStays DEF IInv, Typed, Extends
<1>3. 1 .. Len(m_nodes_container) \subseteq 1 .. Len(m_nodes_container') BY <1>1, <1>2
<1> QED BY <1>2, <1>3, SeqMonotonic

LEMMA Opened ==
  ASSUME IInv, NEW kind \in Kinds, Open(kind)
  PROVE  /\ merging = <<>> /\ merging' = <<>> /\ backup' = <<>> /\ importing' = importing
         /\ guards' = Append(guards, kind)
         /\ importing' \in 0 .. Len(Files) /\ failed' \in BOOLEAN /\ merging' \in Seq(Step)
         /\ file' \in 1 .. Len(Files) + 1 /\ made' \in [decls : Nat, scopes : Nat]
         /\ Library' /\ OffersOwnOnly' /\ file' = file
<1>1. merging = <<>> /\ UNCHANGED <<file, exported, failed, import>>
      /\ made' = [made EXCEPT !.scopes = @ + 1] /\ guards' = Append(guards, kind)
  BY DEF Open, Analysing
<1>2. file' = file /\ exported' = exported /\ failed' = failed /\ merging' = merging
      /\ backup' = backup /\ importing' = importing
  BY <1>1 DEF import
<1>3. made' \in [decls : Nat, scopes : Nat]
  <2>1. made \in [decls : Nat, scopes : Nat] BY DEF IInv, Typed
  <2>2. [made EXCEPT !.scopes = made.scopes + 1] \in [decls : Nat, scopes : Nat] BY <2>1
  <2> QED BY <1>1, <2>2
<1>4. Library' /\ OffersOwnOnly' BY <1>2, LibraryStays
<1>5. backup = <<>> BY <1>1 DEF IInv, Guarded
<1> QED BY <1>1, <1>2, <1>3, <1>4, <1>5 DEF IInv, Typed

LEMMA OpenGlobalKept ==
  ASSUME IInv, NEW n \in Names, NEW kind \in {"namespace", "class"},
         InNamespace, Open(kind), enter_global_node(n)
  PROVE  IInv'
<1> DEFINE t == m_nodes_container
           t2 == entered(n).container
           id == entered(n).id
           path == m_current_nodes_path
<1>1. /\ m_nodes_container' = t2 /\ m_current_nodes_path' = Append(path, id)
      /\ m_local_nodes' = m_local_nodes
  BY DEF enter_global_node
<1>2. kind \in Kinds /\ n \in AllNames BY DEF Kinds, AllNames
<1>3. /\ merging = <<>> /\ merging' = <<>> /\ backup' = <<>>
      /\ guards' = Append(guards, kind)
      /\ importing' \in 0 .. Len(Files) /\ failed' \in BOOLEAN /\ merging' \in Seq(Step)
      /\ file' \in 1 .. Len(Files) + 1 /\ made' \in [decls : Nat, scopes : Nat]
      /\ Library' /\ OffersOwnOnly' /\ file' = file
  BY <1>2, Opened
<1>4. /\ Tree(t) /\ path \in Seq(1 .. Len(t)) /\ Owned(t, file) /\ guards \in Seq(Kinds)
      /\ m_local_nodes \in Seq(SUBSET Entry)
      /\ BlocksInside(guards) /\ Len(m_local_nodes) = Count(guards, {"block"})
      /\ Standing(t, path, guards)
  BY <1>3 DEF IInv, Typed, Guarded, Offers
<1>5. /\ Tree(t2) /\ Extends(t, t2) /\ NoEntries(t, t2)
      /\ id \in 1 .. Len(t2) /\ t2[id].name = n
      /\ n \in DOMAIN t2[current_node].nodes /\ t2[current_node].nodes[n] = id
  BY <1>2, <1>4, EnteredNode
<1> HIDE DEF t2, id
<1>6. Len(t2) \in Nat BY <1>5, TreeStays
<1>7. LeadsIn(t2, path) /\ path \in Seq(1 .. Len(t2))
  BY <1>4, <1>5, <1>6, LeadsKept DEF Standing
<1>8. current_node = IF path = <<>> THEN Root ELSE Last(path) BY <1>4, CurrentNode
<1>9. /\ LeadsIn(t2, Append(path, id)) /\ Append(path, id) \in Seq(1 .. Len(t2))
      /\ Len(Append(path, id)) = Len(path) + 1
      /\ path # <<>> => Append(path, id)[1] = path[1]
  BY <1>5, <1>7, <1>8, LeadsOn
<1>10. /\ guards' \in Seq(Kinds) /\ BlocksInside(guards')
       /\ \A kinds : Count(guards', kinds) = Count(guards, kinds) + IF kind \in kinds THEN 1 ELSE 0
  <2>1. \A i \in 1 .. Len(guards) : guards[i] = "namespace"
    BY <1>4, LenProperties DEF InNamespace
  <2> QED BY <1>2, <1>3, <1>4, <2>1, GuardOpened
<1>11. Count(guards, {"block"}) \in Nat /\ Count(guards, {"namespace", "class"}) \in Nat
       /\ Len(path) \in Nat
  BY <1>4, CountType, SeqDomain
<1>12. Count(guards', {"block"}) = Count(guards, {"block"}) BY <1>10, <1>11
<1>13. Count(guards', {"namespace", "class"}) = Count(guards, {"namespace", "class"}) + 1
  BY <1>10, <1>11
<1>14. Standing(t2, Append(path, id), guards')
  <2>1. Append(path, id) # <<>> BY <1>9, <1>11, SeqDomain
  <2> QED BY <1>4, <1>9, <1>11, <1>13, <2>1 DEF Standing
<1>15. Owned(t2, file) BY <1>4, <1>5, OwnedEntered
<1>16. Typed'
  <2>1. <<>> \in Seq(1 .. Len(t2)) OBVIOUS
  <2> QED BY <1>1, <1>3, <1>4, <1>5, <1>9, <1>10, <2>1 DEF Typed
<1>17. Guarded' BY <1>1, <1>3, <1>4, <1>10, <1>12, <1>14 DEF Guarded
<1>18. Offers' BY <1>1, <1>3, <1>15 DEF Offers
<1> QED BY <1>3, <1>16, <1>17, <1>18 DEF IInv

LEMMA OpenBlockKept == ASSUME IInv, OpenBlock PROVE IInv'
<1> DEFINE t == m_nodes_container
           path == m_current_nodes_path
<1>1. /\ m_local_nodes' = Append(m_local_nodes, {})
      /\ m_nodes_container' = t /\ m_current_nodes_path' = path
  BY DEF OpenBlock, enter_local_node
<1>2. "block" \in Kinds /\ Open("block") BY DEF Kinds, OpenBlock
<1>3. /\ merging = <<>> /\ merging' = <<>> /\ backup' = <<>>
      /\ guards' = Append(guards, "block")
      /\ importing' \in 0 .. Len(Files) /\ failed' \in BOOLEAN /\ merging' \in Seq(Step)
      /\ file' \in 1 .. Len(Files) + 1 /\ made' \in [decls : Nat, scopes : Nat]
      /\ Library' /\ OffersOwnOnly' /\ file' = file
  BY <1>2, Opened
<1>4. /\ Tree(t) /\ path \in Seq(1 .. Len(t)) /\ Owned(t, file) /\ guards \in Seq(Kinds)
      /\ m_local_nodes \in Seq(SUBSET Entry)
      /\ BlocksInside(guards) /\ Len(m_local_nodes) = Count(guards, {"block"})
      /\ Standing(t, path, guards)
  BY <1>3 DEF IInv, Typed, Guarded, Offers
<1>5. /\ guards' \in Seq(Kinds) /\ BlocksInside(guards')
      /\ \A kinds : Count(guards', kinds) = Count(guards, kinds) + IF "block" \in kinds THEN 1 ELSE 0
  BY <1>2, <1>3, <1>4, GuardOpened
<1>6. Count(guards, {"block"}) \in Nat /\ Count(guards, {"namespace", "class"}) \in Nat
  BY <1>4, CountType
<1>7. Count(guards', {"block"}) = Count(guards, {"block"}) + 1 BY <1>5, <1>6
<1>8. Count(guards', {"namespace", "class"}) = Count(guards, {"namespace", "class"})
  BY <1>5, <1>6
<1>9. m_local_nodes' \in Seq(SUBSET Entry) /\ Len(m_local_nodes') = Len(m_local_nodes) + 1
  <2>1. {} \in SUBSET Entry OBVIOUS
  <2> QED BY <1>1, <1>4, <2>1, AppendProperties
<1>10. Typed'
  <2>1. <<>> \in Seq(1 .. Len(t)) OBVIOUS
  <2> QED BY <1>1, <1>3, <1>4, <1>5, <1>9, <2>1 DEF Typed
<1>11. Standing(t, path, guards') BY <1>4, <1>8 DEF Standing
<1>12. Guarded' BY <1>1, <1>3, <1>4, <1>5, <1>7, <1>9, <1>11 DEF Guarded
<1>13. Offers' BY <1>1, <1>3, <1>4 DEF Offers
<1> QED BY <1>3, <1>10, <1>12, <1>13 DEF IInv
LEMMA CloseKept == ASSUME IInv, Close PROVE IInv'
<1> DEFINE t == m_nodes_container
           path == m_current_nodes_path
<1>1. /\ leave_node /\ guards # <<>> /\ guards' = Front(guards) /\ merging = <<>>
      /\ file' = file /\ exported' = exported /\ failed' = failed /\ made' = made
      /\ merging' = merging /\ backup' = backup /\ importing' = importing
      /\ m_nodes_container' = t
  BY DEF Close, Analysing, import, leave_node
<1>2. /\ Tree(t) /\ path \in Seq(1 .. Len(t)) /\ Owned(t, file) /\ guards \in Seq(Kinds)
      /\ m_local_nodes \in Seq(SUBSET Entry)
      /\ BlocksInside(guards) /\ Len(m_local_nodes) = Count(guards, {"block"})
      /\ Standing(t, path, guards) /\ backup = <<>>
  BY <1>1 DEF IInv, Typed, Guarded, Offers
<1>3. /\ guards' \in Seq(Kinds) /\ BlocksInside(guards') /\ Last(guards) \in Kinds
      /\ \A kinds : Count(guards, kinds) = Count(guards', kinds) + IF Last(guards) \in kinds THEN 1 ELSE 0
      /\ Last(guards) # "block" => Count(guards, {"block"}) = 0
  BY <1>1, <1>2, GuardClosed
<1>4. Count(guards', {"block"}) \in Nat /\ Count(guards', {"namespace", "class"}) \in Nat
  BY <1>3, CountType
<1>5. Library' /\ OffersOwnOnly' BY <1>1, LibraryStays
<1>6. /\ m_current_nodes_path' \in Seq(1 .. Len(t)) /\ m_local_nodes' \in Seq(SUBSET Entry)
      /\ Len(m_local_nodes') = Count(guards', {"block"})
      /\ Standing(t, m_current_nodes_path', guards')
  <2>1. CASE Last(guards) = "block"
    <3>1. Count(guards, {"block"}) = Count(guards', {"block"}) + 1 BY <1>3, <1>4, <2>1
    <3>2. Count(guards, {"namespace", "class"}) = Count(guards', {"namespace", "class"})
      BY <1>3, <1>4, <2>1
    <3>3. m_local_nodes # <<>> BY <1>2, <1>4, <3>1, SeqDomain
    <3>4. m_local_nodes' = Front(m_local_nodes) /\ m_current_nodes_path' = path
      BY <1>1, <3>3 DEF leave_node
    <3>5. Front(m_local_nodes) \in Seq(SUBSET Entry)
          /\ Len(Front(m_local_nodes)) = Len(m_local_nodes) - 1
      BY <1>2, <3>3, LastOf
    <3>6. Len(m_local_nodes') = Count(guards', {"block"}) BY <1>2, <1>4, <3>1, <3>4, <3>5
    <3> QED BY <1>2, <3>2, <3>4, <3>5, <3>6 DEF Standing
  <2>2. CASE Last(guards) # "block"
    <3>1. Count(guards, {"block"}) = Count(guards', {"block"}) BY <1>3, <1>4, <2>2
    <3>2. Count(guards, {"namespace", "class"}) = Count(guards', {"namespace", "class"}) + 1
      BY <1>3, <1>4, <2>2 DEF Kinds
    <3>3. m_local_nodes = <<>> BY <1>2, <1>3, <2>2, SeqDomain
    <3>4. m_local_nodes' = m_local_nodes /\ m_current_nodes_path' = Front(path)
      BY <1>1, <3>3 DEF leave_node
    <3>5. Len(path) = Count(guards', {"namespace", "class"}) + 2 BY <1>2, <1>4, <3>2 DEF Standing
    <3>6. Len(path) > 1 /\ Len(path) - 1 = 1 + Count(guards', {"namespace", "class"})
      BY <1>4, <3>5
    <3>7. /\ LeadsIn(t, Front(path)) /\ Front(path) \in Seq(1 .. Len(t))
          /\ Len(Front(path)) = Len(path) - 1
          /\ Len(path) > 1 => Front(path) # <<>> /\ Front(path)[1] = path[1]
      BY <1>2, LeadsBack DEF Standing
    <3>8. Standing(t, Front(path), guards') BY <1>2, <3>6, <3>7 DEF Standing
    <3> QED BY <1>2, <3>1, <3>4, <3>7, <3>8
  <2> QED BY <2>1, <2>2
<1>7. Typed' BY <1>1, <1>2, <1>3, <1>6 DEF IInv, Typed
<1>8. Guarded' BY <1>1, <1>2, <1>3, <1>6 DEF Guarded
<1>9. Offers' BY <1>1, <1>2, <1>5 DEF Offers
<1> QED BY <1>5, <1>7, <1>8, <1>9 DEF IInv

LEMMA OneMoreMade ==
  ASSUME NEW m \in [decls : Nat, scopes : Nat]
  PROVE  /\ [m EXCEPT !.decls = m.decls + 1] \in [decls : Nat, scopes : Nat]
         /\ [m EXCEPT !.scopes = m.scopes + 1] \in [decls : Nat, scopes : Nat]
<1>1. m.decls + 1 \in Nat /\ m.scopes + 1 \in Nat OBVIOUS
<1> QED BY <1>1

LEMMA DeclareKept ==
  ASSUME IInv, NEW n \in Names, NEW export \in BOOLEAN, Declare(n, export) PROVE IInv'
<1> DEFINE t == m_nodes_container
           path == m_current_nodes_path
           e == [name |-> n, what |-> <<file, made.decls + 1>>, exported |-> export]
<1>1. /\ register_entry(e) /\ merging = <<>> /\ made' = [made EXCEPT !.decls = @ + 1]
      /\ file' = file /\ exported' = exported /\ failed' = failed /\ guards' = guards
      /\ merging' = merging /\ backup' = backup /\ importing' = importing
      /\ m_current_nodes_path' = path
  BY DEF Declare, Analysing, import, register_entry
<1>2. /\ Tree(t) /\ path \in Seq(1 .. Len(t)) /\ Owned(t, file) /\ guards \in Seq(Kinds)
      /\ m_local_nodes \in Seq(SUBSET Entry) /\ made \in [decls : Nat, scopes : Nat]
      /\ file \in 1 .. Len(Files) + 1
      /\ BlocksInside(guards) /\ Len(m_local_nodes) = Count(guards, {"block"})
      /\ Standing(t, path, guards) /\ backup = <<>>
  BY <1>1 DEF IInv, Typed, Guarded, Offers
<1>3. Library' /\ OffersOwnOnly' BY <1>1, LibraryStays
<1>4. made' \in [decls : Nat, scopes : Nat]
  <2>1. [made EXCEPT !.decls = made.decls + 1] \in [decls : Nat, scopes : Nat] BY <1>2, OneMoreMade
  <2> QED BY <1>1, <2>1
<1>5. e \in Entry /\ e.what[1] = file
  <2>1. n \in AllNames BY DEF AllNames
  <2>2. file \in Nat /\ made.decls + 1 \in Nat BY <1>2, FilesAre
  <2>3. <<file, made.decls + 1>> \in Seq(Nat) /\ <<file, made.decls + 1>>[1] = file BY <2>2
  <2> QED BY <2>1, <2>3 DEF Entry
<1> HIDE DEF e
<1>6. /\ Tree(m_nodes_container') /\ Extends(t, m_nodes_container') /\ Owned(m_nodes_container', file)
      /\ m_local_nodes' \in Seq(SUBSET Entry) /\ Len(m_local_nodes') = Len(m_local_nodes)
  <2>1. CASE m_local_nodes # <<>>
    <3>1. m_local_nodes' = [m_local_nodes EXCEPT ![Len(m_local_nodes)] =
                              m_local_nodes[Len(m_local_nodes)] \union {e}]
          /\ m_nodes_container' = t
      BY <1>1, <2>1 DEF register_entry
    <3>2. Len(m_local_nodes) \in 1 .. Len(m_local_nodes)
      <4>1. Len(m_local_nodes) \in Nat /\ Len(m_local_nodes) > 0 BY <1>2, <2>1, LastOf
      <4> QED BY <4>1
    <3>3. m_local_nodes[Len(m_local_nodes)] \union {e} \in SUBSET Entry
      BY <1>2, <1>5, <3>2, ElementOfSeq
    <3>4. m_local_nodes' \in Seq(SUBSET Entry) /\ Len(m_local_nodes') = Len(m_local_nodes)
      BY <1>2, <3>1, <3>2, <3>3, ExceptSeq
    <3> QED BY <1>2, <3>1, <3>4, TreeStays
  <2>2. CASE m_local_nodes = <<>>
    <3>1. m_local_nodes' = m_local_nodes /\ m_nodes_container' = WithEntries(t, current_node, {e})
      BY <1>1, <2>2 DEF register_entry, WithEntries
    <3>2. current_node \in 1 .. Len(t) BY <1>2, CurrentNode
    <3>3. {e} \in SUBSET Entry /\ \A x \in {e} : x.exported => x.what[1] = file BY <1>5
    <3>4. /\ Tree(WithEntries(t, current_node, {e})) /\ Extends(t, WithEntries(t, current_node, {e}))
          /\ Owned(WithEntries(t, current_node, {e}), file)
      BY <1>2, <3>2, <3>3, EntriesAdded
    <3> QED BY <1>2, <3>1, <3>4
  <2> QED BY <2>1, <2>2
<1>7. Len(m_nodes_container') \in Nat BY <1>6, TreeStays
<1>8. LeadsIn(m_nodes_container', path) /\ path \in Seq(1 .. Len(m_nodes_container'))
  BY <1>2, <1>6, <1>7, LeadsKept DEF Standing
<1>9. Typed'
  <2>1. <<>> \in Seq(1 .. Len(m_nodes_container')) OBVIOUS
  <2> QED BY <1>1, <1>2, <1>4, <1>6, <1>8, <2>1 DEF IInv, Typed
<1>10. Standing(m_nodes_container', path, guards) BY <1>2, <1>8 DEF Standing
<1>11. Guarded' BY <1>1, <1>2, <1>6, <1>10 DEF Guarded
<1>12. Offers' BY <1>1, <1>3, <1>6 DEF Offers
<1> QED BY <1>3, <1>9, <1>11, <1>12 DEF IInv
\* While an import is merged: the kept path, and a new activation of merge_node.
LEMMA StandingKept ==
  ASSUME NEW t, NEW t2, Tree(t), Tree(t2), Extends(t, t2),
         NEW path \in Seq(1 .. Len(t)), NEW g, Standing(t, path, g)
  PROVE  Standing(t2, path, g) /\ path \in Seq(1 .. Len(t2))
BY TreeStays, LeadsKept DEF Standing

LEMMA ActivationTyped ==
  ASSUME NEW t, Tree(t), NEW i \in 1 .. Len(t)
  PROVE  /\ Activation(t[i], i) \in Step /\ Activation(t[i], i).node = i
         /\ Offered(t, Activation(t[i], i).todo)
<1>1. i \in Nat BY TreeStays
<1> QED BY <1>1, ChildrenOffered DEF Activation, Step

LEMMA ImportKept == ASSUME IInv, NEW f \in FileIds, Import(f) PROVE IInv'
<1> DEFINE t == m_nodes_container
           root == exported[f][Root]
<1>1. /\ merging = <<>> /\ f < file /\ InNamespace
      /\ backup' = m_current_nodes_path /\ m_current_nodes_path' = <<>>
      /\ merged(t, Root, root)
      /\ merging' = << Activation(root, Root) >> /\ importing' = f
      /\ m_local_nodes' = m_local_nodes /\ file' = file /\ exported' = exported
      /\ guards' = guards /\ made' = made
  BY DEF Import, Analysing, path_moved
<1>2. /\ Tree(t) /\ m_current_nodes_path \in Seq(1 .. Len(t)) /\ Owned(t, file)
      /\ guards \in Seq(Kinds) /\ m_local_nodes \in Seq(SUBSET Entry)
      /\ BlocksInside(guards) /\ Len(m_local_nodes) = Count(guards, {"block"})
      /\ Standing(t, m_current_nodes_path, guards) /\ failed \in BOOLEAN
  BY <1>1 DEF IInv, Typed, Guarded, Offers
<1>3. Tree(exported[f]) /\ Root \in 1 .. Len(exported[f]) /\ root.entries \subseteq Entry
  <2>1. Tree(exported[f]) BY <1>1 DEF IInv, Library
  <2>2. Root \in 1 .. Len(exported[f]) BY <2>1, TreeStays
  <2> QED BY <2>1, <2>2, TreeDef DEF Tree
<1>4. Root \in 1 .. Len(t) BY <1>2, TreeStays
<1>5. /\ Tree(m_nodes_container') /\ Extends(t, m_nodes_container') /\ failed' \in BOOLEAN
      /\ Owned(m_nodes_container', file)
  BY <1>1, <1>2, <1>3, <1>4, MergedNode
<1>6. Standing(m_nodes_container', backup', guards) /\ backup' \in Seq(1 .. Len(m_nodes_container'))
  BY <1>1, <1>2, <1>5, StandingKept
<1>7. m_local_nodes = <<>>
  <2>1. \A i \in 1 .. Len(guards) : guards[i] \notin {"block"}
    BY <1>1, <1>2, LenProperties DEF InNamespace
  <2>2. Count(guards, {"block"}) = 0 BY <1>2, <2>1, CountType
  <2> QED BY <1>2, <2>2, SeqDomain
<1> DEFINE one == Activation(root, Root)
<1>8. one \in Step /\ one.node = Root /\ Offered(exported[f], one.todo)
  BY <1>3, ActivationTyped
<1> HIDE DEF one
<1>9. /\ merging' \in Seq(Step) /\ Len(merging') = 1 /\ merging'[1] = one /\ merging' # <<>>
  <2>1. merging' = <<one>> BY <1>1 DEF one
  <2> QED BY <1>8, <2>1
<1>10. Merges'
  <2>1. importing' \in FileIds' /\ importing' < file' BY <1>1 DEF FileIds
  <2>2. Len(m_current_nodes_path') = Len(merging') - 1 /\ m_current_nodes_path' = <<>>
    BY <1>1, <1>9
  <2>3. LeadsIn(m_nodes_container', <<>>)
    <3>1. \A i \in 1 .. Len(<<>>) : FALSE OBVIOUS
    <3> QED BY <3>1 DEF LeadsIn
  <2>4. \A i \in 1 .. Len(merging') : merging'[i] = one BY <1>9
  <2>5. exported'[importing'] = exported[f] BY <1>1
  <2> QED BY <1>1, <1>3, <1>7, <1>8, <2>1, <2>2, <2>3, <2>4, <2>5 DEF Merges
<1>11. Library' /\ OffersOwnOnly' BY <1>1, LibraryStays
<1>12. Typed'
  <2>1. <<>> \in Seq(1 .. Len(m_nodes_container')) OBVIOUS
  <2>2. f \in 0 .. Len(Files) BY FilesAre
  <2> QED BY <1>1, <1>2, <1>5, <1>6, <1>9, <2>1, <2>2 DEF IInv, Typed
<1>13. Guarded' BY <1>1, <1>2, <1>6, <1>9, <1>10 DEF Guarded
<1>14. Offers' BY <1>1, <1>5, <1>11 DEF Offers
<1> QED BY <1>11, <1>12, <1>13, <1>14 DEF IInv

\* What holds before each step of a merge.
LEMMA Merging ==
  ASSUME IInv, merging # <<>>
  PROVE  /\ Tree(m_nodes_container) /\ Owned(m_nodes_container, file)
         /\ m_current_nodes_path \in Seq(1 .. Len(m_nodes_container))
         /\ backup \in Seq(1 .. Len(m_nodes_container))
         /\ Standing(m_nodes_container, backup, guards) /\ Merges
         /\ guards \in Seq(Kinds) /\ BlocksInside(guards)
         /\ Len(m_local_nodes) = Count(guards, {"block"})
         /\ Tree(exported[importing]) /\ merging \in Seq(Step)
         /\ failed \in BOOLEAN
BY DEF IInv, Typed, Guarded, Offers, Library, Merges

\* merge_node goes on to a child, the activation above waits for it.
Deeper(m, id, a) == Append([m EXCEPT ![Len(m)].todo = @ \ {id}], a)

LEMMA MergingChild ==
  ASSUME NEW m \in Seq(Step), m # <<>>, NEW id, NEW a \in Step, NEW m2, m2 = Deeper(m, id, a)
  PROVE  /\ m2 \in Seq(Step) /\ m2 # <<>> /\ Len(m2) = Len(m) + 1 /\ m2[Len(m) + 1] = a
         /\ \A i \in 1 .. Len(m) : m2[i].node = m[i].node /\ m2[i].todo \subseteq m[i].todo
         /\ \A i \in 1 .. Len(m) : \A k \in m[i].todo : k \in m2[i].todo \/ (i = Len(m) /\ k = id)
<1> DEFINE last == [m[Len(m)] EXCEPT !.todo = m[Len(m)].todo \ {id}]
           m1 == [m EXCEPT ![Len(m)] = last]
<1>1. Len(m) \in Nat /\ Len(m) \in 1 .. Len(m)
  <2>1. Len(m) \in Nat /\ Len(m) > 0 BY LastOf
  <2> QED BY <2>1
<1>2. m[Len(m)] \in Step BY <1>1, ElementOfSeq
<1>3. last \in Step /\ last.node = m[Len(m)].node /\ last.todo = m[Len(m)].todo \ {id}
  BY <1>2 DEF Step
<1>4. m2 = Append(m1, a) BY DEF Deeper
<1> HIDE DEF last
<1>5. m1 \in Seq(Step) /\ Len(m1) = Len(m)
      /\ \A j \in 1 .. Len(m) : m1[j] = IF j = Len(m) THEN last ELSE m[j]
  BY <1>1, <1>3, ExceptSeq
<1> HIDE DEF m1
<1>6. /\ Append(m1, a) \in Seq(Step) /\ Append(m1, a) # <<>> /\ Len(Append(m1, a)) = Len(m1) + 1
      /\ Append(m1, a)[Len(m1) + 1] = a /\ \A i \in 1 .. Len(m1) : Append(m1, a)[i] = m1[i]
  BY <1>5, AppendProperties
<1>7. /\ m2 \in Seq(Step) /\ m2 # <<>> /\ Len(m2) = Len(m) + 1 /\ m2[Len(m) + 1] = a
      /\ \A i \in 1 .. Len(m) : m2[i] = m1[i]
  BY <1>4, <1>5, <1>6
<1>8. ASSUME NEW i \in 1 .. Len(m)
      PROVE  /\ m2[i].node = m[i].node /\ m2[i].todo \subseteq m[i].todo
             /\ \A k \in m[i].todo : k \in m2[i].todo \/ (i = Len(m) /\ k = id)
  BY <1>3, <1>5, <1>7
<1> QED BY <1>7, <1>8

LEMMA MergeChildKept ==
  ASSUME IInv, NEW id, MergeChild(id) PROVE IInv'
<1> DEFINE t == m_nodes_container
           path == m_current_nodes_path
           lib == exported[importing]
           node == lib[id]
           name == node.name
           t1 == entered(name).container
           at == entered(name).id
<1>1. /\ merging # <<>> /\ id \in Last(merging).todo
      /\ m_current_nodes_path' = Append(path, at)
      /\ merged(t1, at, node)
      /\ merging' = Deeper(merging, id, Activation(node, id))
      /\ m_local_nodes' = m_local_nodes /\ file' = file /\ exported' = exported
      /\ guards' = guards /\ backup' = backup /\ importing' = importing /\ made' = made
  BY DEF MergeChild, Deeper
<1>2. /\ Tree(t) /\ Owned(t, file) /\ path \in Seq(1 .. Len(t)) /\ backup \in Seq(1 .. Len(t))
      /\ Standing(t, backup, guards) /\ Merges /\ guards \in Seq(Kinds) /\ BlocksInside(guards)
      /\ Len(m_local_nodes) = Count(guards, {"block"})
      /\ Tree(lib) /\ merging \in Seq(Step) /\ failed \in BOOLEAN
  BY <1>1, Merging
<1>3. id \in 1 .. Len(lib) /\ name \in AllNames /\ node.entries \subseteq Entry
  <2>1. Len(merging) \in 1 .. Len(merging)
    <3>1. Len(merging) \in Nat /\ Len(merging) > 0 BY <1>1, <1>2, LastOf
    <3> QED BY <3>1
  <2>2. Offered(lib, Last(merging).todo) BY <1>2, <2>1 DEF Merges, Last
  <2>3. id \in 1 .. Len(lib) /\ node.name \in AllNames BY <1>1, <2>2 DEF Offered
  <2> QED BY <1>2, <2>3, TreeDef DEF Tree
<1>4. /\ Tree(t1) /\ Extends(t, t1) /\ NoEntries(t, t1)
      /\ at \in 1 .. Len(t1) /\ t1[at].name = name
      /\ name \in DOMAIN t1[current_node].nodes /\ t1[current_node].nodes[name] = at
  <2> HIDE DEF name
  <2> QED BY <1>2, <1>3, EnteredNode
<1> HIDE DEF t1, at, name, node, lib
<1>5. Len(t1) \in Nat /\ Owned(t1, file) BY <1>2, <1>4, TreeStays, OwnedEntered
<1>6. /\ Tree(m_nodes_container') /\ Extends(t1, m_nodes_container') /\ failed' \in BOOLEAN
      /\ Owned(m_nodes_container', file)
  BY <1>1, <1>2, <1>3, <1>4, <1>5, MergedNode
<1>7. /\ LeadsIn(t1, Append(path, at)) /\ Append(path, at) \in Seq(1 .. Len(t1))
      /\ Len(Append(path, at)) = Len(path) + 1
  <2>1. LeadsIn(t1, path) /\ path \in Seq(1 .. Len(t1))
    BY <1>2, <1>4, <1>5, LeadsKept DEF Merges
  <2>2. current_node = IF path = <<>> THEN Root ELSE Last(path) BY <1>2, CurrentNode
  <2> QED BY <1>4, <2>1, <2>2, LeadsOn
<1>8. /\ LeadsIn(m_nodes_container', m_current_nodes_path')
      /\ m_current_nodes_path' \in Seq(1 .. Len(m_nodes_container'))
  <2>1. Len(m_nodes_container') \in Nat BY <1>6, TreeStays
  <2> QED BY <1>1, <1>4, <1>6, <1>7, <2>1, LeadsKept
<1>9. Standing(m_nodes_container', backup, guards) /\ backup \in Seq(1 .. Len(m_nodes_container'))
  <2>1. Standing(t1, backup, guards) /\ backup \in Seq(1 .. Len(t1)) BY <1>2, <1>4, StandingKept
  <2> QED BY <1>4, <1>6, <2>1, StandingKept
<1> DEFINE a == Activation(node, id)
<1>10. a \in Step /\ a.node = id /\ Offered(lib, a.todo) BY <1>2, <1>3, ActivationTyped DEF node
<1>11. /\ merging' \in Seq(Step) /\ merging' # <<>> /\ Len(merging') = Len(merging) + 1
       /\ merging'[Len(merging) + 1] = a
       /\ \A i \in 1 .. Len(merging) : merging'[i].node = merging[i].node
                                       /\ merging'[i].todo \subseteq merging[i].todo
  BY <1>1, <1>2, <1>10, MergingChild
<1> HIDE DEF a
<1>12. Merges'
  <2>1. importing' \in FileIds' /\ importing' < file' /\ m_local_nodes' = <<>>
    BY <1>1, <1>2 DEF FileIds, Merges
  <2>2. Len(m_current_nodes_path') = Len(merging') - 1
    <3>1. Len(merging) \in Nat /\ Len(path) = Len(merging) - 1 BY <1>2, SeqDomain DEF Merges
    <3> QED BY <1>1, <1>7, <1>11, <3>1
  <2>3. exported'[importing'] = lib BY <1>1 DEF lib
  <2>4. ASSUME NEW i \in 1 .. Len(merging')
        PROVE  merging'[i].node \in 1 .. Len(lib) /\ Offered(lib, merging'[i].todo)
    <3>1. i \in 1 .. Len(merging) \/ i = Len(merging) + 1 BY <1>2, <1>11, SeqDomain
    <3>2. CASE i \in 1 .. Len(merging)
      <4>1. merging[i].node \in 1 .. Len(lib) /\ Offered(lib, merging[i].todo)
        BY <1>2, <3>2 DEF Merges, lib
      <4> QED BY <1>11, <3>2, <4>1 DEF Offered
    <3>3. CASE i = Len(merging) + 1 BY <1>3, <1>10, <1>11, <3>3
    <3> QED BY <3>1, <3>2, <3>3
  <2> QED BY <1>8, <2>1, <2>2, <2>3, <2>4 DEF Merges
<1>13. Library' /\ OffersOwnOnly' BY <1>1, LibraryStays
<1>14. Typed' BY <1>1, <1>2, <1>6, <1>8, <1>9, <1>11 DEF IInv, Typed
<1>15. Guarded' BY <1>1, <1>2, <1>9, <1>11, <1>12 DEF Guarded
<1>16. Offers' BY <1>1, <1>6, <1>13 DEF Offers
<1> QED BY <1>13, <1>14, <1>15, <1>16 DEF IInv
LEMMA LeaveChildKept == ASSUME IInv, LeaveChild PROVE IInv'
<1> DEFINE t == m_nodes_container
           path == m_current_nodes_path
<1>1. /\ Len(merging) > 1 /\ leave_node /\ merging' = Front(merging)
      /\ file' = file /\ exported' = exported /\ guards' = guards /\ backup' = backup
      /\ importing' = importing /\ failed' = failed /\ made' = made
      /\ m_nodes_container' = t
  BY DEF LeaveChild, leave_node
<1>2. merging # <<>> /\ merging \in Seq(Step) /\ Len(merging) \in Nat
  <2>1. merging \in Seq(Step) BY DEF IInv, Typed
  <2>2. Len(merging) \in Nat /\ (merging = <<>> <=> Len(merging) = 0) BY <2>1, SeqDomain
  <2> QED BY <1>1, <2>1, <2>2
<1>3. /\ Tree(t) /\ Owned(t, file) /\ path \in Seq(1 .. Len(t)) /\ backup \in Seq(1 .. Len(t))
      /\ Standing(t, backup, guards) /\ Merges /\ guards \in Seq(Kinds) /\ BlocksInside(guards)
      /\ Len(m_local_nodes) = Count(guards, {"block"})
  BY <1>2, Merging
<1>4. m_local_nodes = <<>> /\ Len(path) = Len(merging) - 1 /\ LeadsIn(t, path)
  BY <1>3 DEF Merges
<1>5. m_local_nodes' = m_local_nodes /\ m_current_nodes_path' = Front(path)
  BY <1>1, <1>4 DEF leave_node
<1>6. path # <<>>
  <2>1. Len(path) # 0 BY <1>1, <1>2, <1>4
  <2> QED BY <1>3, <2>1, SeqDomain
<1>7. LeadsIn(t, Front(path)) /\ Front(path) \in Seq(1 .. Len(t))
      /\ Len(Front(path)) = Len(path) - 1
  BY <1>3, <1>4, <1>6, LeadsBack
<1>8. /\ merging' \in Seq(Step) /\ Len(merging') = Len(merging) - 1
      /\ \A i \in 1 .. Len(merging) - 1 : merging'[i] = merging[i]
  BY <1>1, <1>2, LastOf
<1>9. merging' # <<>>
  <2>1. Len(merging') # 0 BY <1>1, <1>2, <1>8
  <2> QED BY <1>8, <2>1, SeqDomain
<1>10. Merges'
  <2>1. Len(m_current_nodes_path') = Len(merging') - 1 BY <1>4, <1>5, <1>7, <1>8
  <2>2. \A i \in 1 .. Len(merging') : i \in 1 .. Len(merging) /\ merging'[i] = merging[i]
    BY <1>2, <1>8
  <2>3. importing' \in FileIds' /\ importing' < file' BY <1>1, <1>3 DEF Merges, FileIds
  <2>4. m_local_nodes' = <<>> /\ LeadsIn(m_nodes_container', m_current_nodes_path')
    BY <1>1, <1>4, <1>5, <1>7
  <2>5. \A i \in 1 .. Len(merging') : /\ merging'[i].node \in 1 .. Len(exported'[importing'])
                                      /\ Offered(exported'[importing'], merging'[i].todo)
    BY <1>1, <1>3, <2>2 DEF Merges
  <2> QED BY <2>1, <2>3, <2>4, <2>5 DEF Merges
<1>11. Library' /\ OffersOwnOnly' BY <1>1, LibraryStays
<1>12. Typed' BY <1>1, <1>3, <1>5, <1>7, <1>8 DEF IInv, Typed
<1>13. Guarded' BY <1>1, <1>3, <1>5, <1>9, <1>10 DEF Guarded
<1>14. Offers' BY <1>1, <1>3, <1>11 DEF Offers
<1> QED BY <1>11, <1>12, <1>13, <1>14 DEF IInv

LEMMA ImportDoneKept == ASSUME IInv, ImportDone PROVE IInv'
<1>1. /\ Len(merging) = 1 /\ m_current_nodes_path' = backup
      /\ merging' = <<>> /\ backup' = <<>> /\ importing' = 0
      /\ m_nodes_container' = m_nodes_container /\ m_local_nodes' = m_local_nodes
      /\ file' = file /\ exported' = exported /\ guards' = guards /\ failed' = failed
      /\ made' = made
  BY DEF ImportDone, restored
<1>2. merging # <<>>
  <2>1. Len(<<>>) = 0 OBVIOUS
  <2> QED BY <1>1, <2>1
<1>3. /\ Tree(m_nodes_container) /\ Owned(m_nodes_container, file)
      /\ backup \in Seq(1 .. Len(m_nodes_container))
      /\ Standing(m_nodes_container, backup, guards)
      /\ guards \in Seq(Kinds) /\ BlocksInside(guards)
      /\ Len(m_local_nodes) = Count(guards, {"block"})
  BY <1>2, Merging
<1>4. Library' /\ OffersOwnOnly' BY <1>1, LibraryStays
<1>5. Typed'
  <2>1. <<>> \in Seq(1 .. Len(m_nodes_container)) /\ <<>> \in Seq(Step) OBVIOUS
  <2>2. 0 \in 0 .. Len(Files) BY FilesAre
  <2> QED BY <1>1, <1>3, <2>1, <2>2 DEF IInv, Typed
<1>6. Guarded' BY <1>1, <1>3 DEF Guarded
<1>7. Offers' BY <1>1, <1>3, <1>4 DEF Offers
<1> QED BY <1>4, <1>5, <1>6, <1>7 DEF IInv

\* The finder that a file starts with: a clone of the builtin names.
LEMMA Fresh ==
  /\ Tree(BuiltinNodes) /\ <<Root>> \in Seq(1 .. Len(BuiltinNodes))
  /\ Standing(BuiltinNodes, <<Root>>, <<>>)
  /\ \A f : Owned(BuiltinNodes, f)
  /\ BlocksInside(<<>>) /\ Count(<<>>, {"block"}) = 0 /\ <<>> \in Seq(Kinds)
  /\ [decls |-> 0, scopes |-> 0] \in [decls : Nat, scopes : Nat]
<1>1. Tree(BuiltinNodes) BY BuiltinsAssumption DEF Tree
<1>2. Root \in 1 .. Len(BuiltinNodes) BY <1>1, TreeStays
<1>3. \A i \in 1 .. Len(<<Root>>) : i = 1 /\ <<Root>>[i] = Root OBVIOUS
<1>4. <<>> \in Seq(Kinds) /\ \A i \in 1 .. Len(<<>>) : FALSE OBVIOUS
<1>5. \A kinds : Count(<<>>, kinds) = 0 BY <1>4, CountType
<1>6. Standing(BuiltinNodes, <<Root>>, <<>>)
  <2>1. LeadsIn(BuiltinNodes, <<Root>>) BY <1>3 DEF LeadsIn
  <2>2. <<Root>> # <<>> /\ <<Root>>[1] = Root /\ Len(<<Root>>) = 1 OBVIOUS
  <2>3. Count(<<>>, {"namespace", "class"}) = 0 BY <1>5
  <2> QED BY <2>1, <2>2, <2>3 DEF Standing
<1>7. \A f : Owned(BuiltinNodes, f)
  <2>1. DOMAIN BuiltinNodes = 1 .. Len(BuiltinNodes) BY <1>1, TreeDef, SeqDomain DEF Tree
  <2> QED BY <2>1, BuiltinsAssumption DEF Owned
<1>8. BlocksInside(<<>>) BY <1>4 DEF BlocksInside
<1> QED BY <1>1, <1>2, <1>4, <1>5, <1>6, <1>7, <1>8

LEMMA ExportedTree ==
  ASSUME Tree(m_nodes_container)
  PROVE  /\ Tree(collect_exported_stuff) /\ Extends(m_nodes_container, collect_exported_stuff)
         /\ Len(collect_exported_stuff) = Len(m_nodes_container)
         /\ \A i \in 1 .. Len(m_nodes_container) :
              collect_exported_stuff[i].entries = {e \in m_nodes_container[i].entries : e.exported}
         /\ \A f : Owned(m_nodes_container, f) =>
              \A i \in DOMAIN collect_exported_stuff : \A e \in collect_exported_stuff[i].entries :
                e.exported /\ e.what[1] = f
<1> DEFINE t == m_nodes_container
           t2 == collect_exported_stuff
<1>1. DOMAIN t = 1 .. Len(t) /\ Len(t) \in Nat BY TreeDef, SeqDomain DEF Tree
<1>2. t2 = [i \in 1 .. Len(t) |-> [t[i] EXCEPT !.entries = {e \in t[i].entries : e.exported}]]
  BY <1>1 DEF collect_exported_stuff
<1>3. t2 \in [1 .. Len(t) -> Range(t2)] BY <1>2 DEF Range
<1>4. t2 \in Seq(Range(t2)) /\ Len(t2) = Len(t) /\ DOMAIN t2 = 1 .. Len(t)
  <2> HIDE DEF t2, t
  <2> QED BY <1>1, <1>3
<1>5. ASSUME NEW i \in 1 .. Len(t)
      PROVE  /\ DOMAIN t2[i] = DOMAIN t[i] /\ t2[i].name = t[i].name
             /\ t2[i].parent = t[i].parent /\ t2[i].nodes = t[i].nodes
             /\ t2[i].entries = {e \in t[i].entries : e.exported}
             /\ t2[i].entries \subseteq Entry
  <2>1. DOMAIN t[i] = {"name", "parent", "nodes", "entries"} /\ t[i].entries \subseteq Entry
    BY TreeDef DEF Tree
  <2>2. t2[i] = [t[i] EXCEPT !.entries = {e \in t[i].entries : e.exported}] BY <1>2
  <2> HIDE DEF t2, t
  <2>3. t2[i].entries = {e \in t[i].entries : e.exported} BY <2>1, <2>2
  <2>4. t2[i].name = t[i].name /\ t2[i].parent = t[i].parent /\ t2[i].nodes = t[i].nodes
        /\ DOMAIN t2[i] = DOMAIN t[i]
    BY <2>1, <2>2
  <2> QED BY <2>1, <2>3, <2>4
<1>6. Tree(t2) /\ Extends(t, t2) BY <1>4, <1>5, SameTree DEF SameNodes
<1> HIDE DEF t2
<1>7. ASSUME NEW f, Owned(t, f), NEW i \in DOMAIN t2, NEW e \in t2[i].entries
      PROVE  e.exported /\ e.what[1] = f
  <2>1. i \in 1 .. Len(t) /\ e \in t[i].entries /\ e.exported BY <1>4, <1>5, <1>7
  <2> QED BY <1>7, <2>1 DEF Owned
<1> QED BY <1>4, <1>5, <1>6, <1>7 DEF t2

LEMMA FinishFileKept == ASSUME IInv, FinishFile PROVE IInv'
<1> DEFINE new == collect_exported_stuff
<1>1. /\ merging = <<>> /\ file \in FileIds /\ guards = <<>>
      /\ exported' = [exported EXCEPT ![file] = new]
      /\ file' = file + 1 /\ m_nodes_container' = BuiltinNodes
      /\ m_current_nodes_path' = <<Root>> /\ m_local_nodes' = <<>>
      /\ made' = [decls |-> 0, scopes |-> 0]
      /\ guards' = guards /\ failed' = failed
      /\ merging' = merging /\ backup' = backup /\ importing' = importing
  BY DEF FinishFile, Analysing, import
<1>2. Tree(m_nodes_container) /\ Owned(m_nodes_container, file) /\ backup = <<>>
      /\ importing \in 0 .. Len(Files) /\ failed \in BOOLEAN /\ merging \in Seq(Step)
  BY <1>1 DEF IInv, Typed, Guarded, Offers
<1>3. /\ Tree(new) /\ \A i \in DOMAIN new : \A e \in new[i].entries : e.exported /\ e.what[1] = file
  BY <1>2, ExportedTree
<1> HIDE DEF new
<1>4. FileIds' = FileIds /\ file \in 1 .. Len(Files) /\ Len(Files) \in Nat
      /\ file' \in 1 .. Len(Files) + 1 /\ \A f \in FileIds : f < file' => f < file \/ f = file
  <2>1. FileIds' = FileIds BY DEF FileIds
  <2> QED BY <1>1, <2>1, FilesAre
<1>5. /\ \A f \in FileIds : exported'[f] = IF f = file THEN new ELSE exported[f]
      /\ DOMAIN exported' = FileIds
  BY <1>1 DEF IInv, Library
<1>6. Library'
  <2>1. \A f \in FileIds : IsContainer(exported'[f]) /\ (f < file' => Tree(exported'[f]))
    BY <1>3, <1>4, <1>5 DEF IInv, Library, Tree
  <2> QED BY <1>4, <1>5, <2>1 DEF Library
<1>7. OffersOwnOnly'
  <2>1. ASSUME NEW f \in FileIds, NEW i \in DOMAIN exported'[f], NEW e \in exported'[f][i].entries
        PROVE  e.exported /\ e.what[1] = f
    <3>1. CASE f = file BY <1>3, <1>5, <2>1, <3>1
    <3>2. CASE f # file
      <4>1. exported'[f] = exported[f] BY <1>5, <3>2
      <4> QED BY <2>1, <4>1 DEF IInv, Offers, OffersOwnOnly
    <3> QED BY <3>1, <3>2
  <2> QED BY <1>4, <2>1 DEF OffersOwnOnly
<1>8. Typed'
  <2>1. <<>> \in Seq(1 .. Len(BuiltinNodes)) /\ <<>> \in Seq(SUBSET Entry) OBVIOUS
  <2> QED BY <1>1, <1>2, <1>4, <2>1, Fresh DEF Typed
<1>9. Guarded'
  <2>1. Len(<<>>) = 0 OBVIOUS
  <2> QED BY <1>1, <1>2, <2>1, Fresh DEF Guarded
<1>10. Offers' BY <1>1, <1>7, Fresh DEF Offers
<1> QED BY <1>6, <1>8, <1>9, <1>10 DEF IInv

LEMMA InitHolds == Init => IInv
<1> SUFFICES ASSUME Init PROVE IInv OBVIOUS
<1>1. /\ m_nodes_container = BuiltinNodes /\ m_current_nodes_path = <<Root>>
      /\ m_local_nodes = <<>> /\ file = 1 /\ exported = [f \in FileIds |-> <<>>]
      /\ guards = <<>> /\ merging = <<>> /\ backup = <<>> /\ importing = 0 /\ failed = FALSE
      /\ made = [decls |-> 0, scopes |-> 0]
  BY DEF Init
<1>2. /\ Len(<<>>) = 0 /\ <<>> \in Seq(SUBSET Entry) /\ <<>> \in Seq(Step)
      /\ <<>> \in Seq(1 .. Len(BuiltinNodes)) /\ DOMAIN <<>> = {}
  OBVIOUS
<1>3. /\ 1 \in 1 .. Len(Files) + 1 /\ 0 \in 0 .. Len(Files) /\ \A f \in FileIds : ~(f < 1)
  BY FilesAre
<1>4. IsContainer(<<>>)
  <2>1. <<>> \in Seq(Range(<<>>)) /\ \A i \in 1 .. Len(<<>>) : FALSE OBVIOUS
  <2> QED BY <2>1, TreeDef
<1>5. \A f \in FileIds : exported[f] = <<>> BY <1>1
<1>6. Typed BY <1>1, <1>2, <1>3, Fresh DEF Typed
<1>7. Library BY <1>1, <1>3, <1>4, <1>5 DEF Library
<1>8. Guarded BY <1>1, <1>2, Fresh DEF Guarded
<1>9. OffersOwnOnly BY <1>2, <1>5 DEF OffersOwnOnly
<1>10. Offers BY <1>1, <1>9, Fresh DEF Offers
<1> QED BY <1>6, <1>7, <1>8, <1>10 DEF IInv

LEMMA NothingChanges == ASSUME IInv, UNCHANGED vars PROVE IInv'
<1>1. /\ m_nodes_container' = m_nodes_container /\ m_current_nodes_path' = m_current_nodes_path
      /\ m_local_nodes' = m_local_nodes /\ file' = file /\ exported' = exported
      /\ guards' = guards /\ merging' = merging /\ backup' = backup /\ importing' = importing
      /\ failed' = failed /\ made' = made
  BY DEF vars
<1>2. Library' /\ OffersOwnOnly' BY <1>1, LibraryStays
<1>3. Typed' BY <1>1 DEF IInv, Typed
<1>4. Guarded'
  <2>1. Merges => Merges' BY <1>1 DEF Merges, FileIds
  <2> QED BY <1>1, <2>1 DEF IInv, Guarded
<1>5. Offers' BY <1>1, <1>2 DEF IInv, Offers
<1> QED BY <1>2, <1>3, <1>4, <1>5 DEF IInv

\* Scopes, imports and merges keep the finder a tree that the paths lie in: the
\* inductive invariant.
THEOREM NamesInductive == Spec => []IInv
<1>1. ASSUME IInv, [Next]_vars PROVE IInv'
  <2>1. CASE \E n \in Names : OpenNamespace(n) \/ OpenClass(n)
    BY <1>1, <2>1, OpenGlobalKept DEF OpenNamespace, OpenClass
  <2>2. CASE OpenBlock BY <1>1, <2>2, OpenBlockKept
  <2>3. CASE Close BY <1>1, <2>3, CloseKept
  <2>4. CASE \E n \in Names, export \in BOOLEAN : Declare(n, export)
    BY <1>1, <2>4, DeclareKept
  <2>5. CASE \E f \in FileIds : Import(f) BY <1>1, <2>5, ImportKept
  <2>6. CASE \E id \in Last(merging).todo : MergeChild(id) BY <1>1, <2>6, MergeChildKept
  <2>7. CASE LeaveChild BY <1>1, <2>7, LeaveChildKept
  <2>8. CASE ImportDone BY <1>1, <2>8, ImportDoneKept
  <2>9. CASE FinishFile BY <1>1, <2>9, FinishFileKept
  <2>10. CASE UNCHANGED vars BY <1>1, <2>10, NothingChanges
  <2> QED BY <1>1, <2>1, <2>2, <2>3, <2>4, <2>5, <2>6, <2>7, <2>8, <2>9, <2>10 DEF Next, Stopped
<1> QED BY <1>1, InitHolds, PTL DEF Spec

\* The nodes and the entries of the finder and of what files export keep their
\* types, and the path is empty at most while an import is merged.
THEOREM NamesTyped == Spec => []TypeOK
<1>1. ASSUME IInv PROVE TypeOK
  <2>1. IsContainer(m_nodes_container) /\ DOMAIN m_nodes_container = 1 .. Len(m_nodes_container)
        /\ Len(m_nodes_container) >= Root
    BY <1>1, TreeDef, SeqDomain DEF IInv, Typed, Tree
  <2>2. ASSUME NEW i \in DOMAIN merging
        PROVE  /\ merging[i].node \in DOMAIN exported[importing]
               /\ merging[i].todo \subseteq DOMAIN exported[importing]
    <3>1. i \in 1 .. Len(merging) /\ merging # <<>>
      <4>1. DOMAIN merging = 1 .. Len(merging) /\ (merging = <<>> <=> Len(merging) = 0)
            /\ Len(merging) \in Nat
        BY <1>1, SeqDomain DEF IInv, Typed
      <4> QED BY <4>1
    <3>2. Merges /\ Tree(exported[importing]) BY <1>1, <3>1, Merging
    <3>3. DOMAIN exported[importing] = 1 .. Len(exported[importing])
      BY <3>2, TreeDef, SeqDomain DEF Tree
    <3> QED BY <3>1, <3>2, <3>3 DEF Merges, Offered
  <2>3. m_current_nodes_path = <<>> => merging # <<>> BY <1>1 DEF IInv, Guarded, Standing
  <2> QED BY <1>1, <2>1, <2>2, <2>3 DEF IInv, Typed, Library, TypeOK, Kinds
<1> QED BY <1>1, NamesInductive, PTL

\* leave_node, which looks at m_local_nodes only, leaves what the last guard entered.
THEOREM GuardsMatch == Spec => []GuardsMatchNodes
<1>1. ASSUME IInv PROVE GuardsMatchNodes
  <2>1. \A kinds : count(kinds) = Count(guards, kinds)
    <3>1. DOMAIN guards = 1 .. Len(guards) BY <1>1, SeqDomain DEF IInv, Typed
    <3> QED BY <3>1 DEF count, Count
  <2> QED BY <1>1, <2>1 DEF IInv, Guarded, Standing, GuardsMatchNodes
<1> QED BY <1>1, NamesInductive, PTL

\* Whatever is merged, each node is the child of one node under its name, and the
\* path, also the one that an import keeps, leads from the root from child to child.
THEOREM TreeKept == Spec => []NodesFormTree
<1>1. ASSUME IInv PROVE NodesFormTree
  <2>1. \A path \in Seq(1 .. Len(m_nodes_container)) :
          LeadsIn(m_nodes_container, path) => Leads(path)
    BY SeqDomain DEF LeadsIn, Leads, Below
  <2>2. LeadsIn(m_nodes_container, <<>>)
    <3>1. \A i \in 1 .. Len(<<>>) : FALSE OBVIOUS
    <3> QED BY <3>1 DEF LeadsIn
  <2>3. LeadsIn(m_nodes_container, m_current_nodes_path) /\ LeadsIn(m_nodes_container, backup)
    BY <1>1, <2>2 DEF IInv, Guarded, Standing, Merges
  <2>4. Leads(m_current_nodes_path) /\ Leads(backup) BY <1>1, <2>1, <2>3 DEF IInv, Typed
  <2> QED BY <1>1, <2>4 DEF IInv, Typed, Tree, Guarded, Standing, NodesFormTree, PathLeadsFromRoot
<1> QED BY <1>1, NamesInductive, PTL

\* What a file exports it has declared itself: imports are not exported on, nor are
\* builtin names.
THEOREM ExportsOwn == Spec => []OffersOwnOnly
<1>1. IInv => OffersOwnOnly BY DEF IInv, Offers
<1> QED BY <1>1, NamesInductive, PTL

----------------------------------------------------------------------------
\* Induction over positions in the container.
LEMMA LeastOf ==
  ASSUME NEW T, T \subseteq Nat, T # {}
  PROVE  \E n \in T : \A m \in T : n <= m
<1>1. IsWellFoundedOn(OpToRel(<, Nat), Nat) BY NatLessThanWellFounded
<1>2. PICK n \in T : \A m \in T : ~ (<<m, n>> \in OpToRel(<, Nat)) BY <1>1, WFMin
<1>3. ASSUME NEW m \in T, m < n PROVE FALSE
  <2>1. <<m, n>> \in Nat \X Nat /\ <<m, n>>[1] < <<m, n>>[2] BY <1>2, <1>3
  <2>2. <<m, n>> \in {ss \in Nat \X Nat : ss[1] < ss[2]} BY <2>1
  <2> QED BY <1>2, <2>2 DEF OpToRel
<1>4. \A m \in T : n <= m
  <2> TAKE m \in T
  <2>1. n \in Nat /\ m \in Nat /\ ~(m < n) BY <1>3
  <2> QED BY <2>1
<1> QED BY <1>2, <1>4

\* What holds of each number when it holds of those below it holds of all.
LEMMA SetInduction ==
  ASSUME NEW n \in Nat, NEW S, \A i \in 1 .. n : (\A j \in 1 .. i - 1 : j \in S) => i \in S
  PROVE  \A i \in 1 .. n : i \in S
<1> DEFINE T == {i \in 1 .. n : i \notin S}
<1> SUFFICES ASSUME T # {} PROVE FALSE OBVIOUS
<1>1. T \subseteq Nat OBVIOUS
<1>2. PICK i \in T : \A j \in T : i <= j BY <1>1, LeastOf
<1>3. \A j \in 1 .. i - 1 : j \in 1 .. n /\ ~(i <= j) BY <1>1, <1>2
<1>4. \A j \in 1 .. i - 1 : j \in S BY <1>2, <1>3
<1> QED BY <1>2, <1>4

----------------------------------------------------------------------------
\* The node that node i of the tree is a child of.
Over(t, i) == CHOOSE p \in DOMAIN t : i \in Range(t[p].nodes)

LEMMA OverIs ==
  ASSUME NEW t, Tree(t), NEW i \in 1 .. Len(t), i # Root
  PROVE  /\ Over(t, i) \in 1 .. i - 1 /\ Over(t, i) \in 1 .. Len(t)
         /\ t[i].name \in DOMAIN t[Over(t, i)].nodes /\ t[Over(t, i)].nodes[t[i].name] = i
         /\ t[i].name \in AllNames
         /\ t[i].parent = Over(t, i) \/ (t[i].parent = BadId /\ Over(t, i) = Root)
<1>1. DOMAIN t = 1 .. Len(t) /\ Len(t) \in Nat BY TreeDef, SeqDomain DEF Tree
<1>2. PICK p \in 1 .. (i - 1) : /\ { q \in DOMAIN t : i \in Range(t[q].nodes) } = {p}
                                /\ t[i].parent = p \/ (t[i].parent = BadId /\ p = Root)
  BY <1>1 DEF Tree, IsTree
<1>3. p \in DOMAIN t /\ i \in Range(t[p].nodes) BY <1>2
<1>4. \A q \in DOMAIN t : i \in Range(t[q].nodes) => q = p BY <1>2
<1>5. Over(t, i) = p BY <1>3, <1>4 DEF Over
<1>6. PICK n \in DOMAIN t[p].nodes : t[p].nodes[n] = i BY <1>3 DEF Range
<1>7. t[i].name = n BY <1>3, <1>6 DEF Tree, IsTree
<1>8. n \in AllNames BY <1>1, <1>3, <1>6, TreeDef DEF Tree
<1> QED BY <1>1, <1>2, <1>3, <1>5, <1>6, <1>7, <1>8

\* No other node has it as a child, and the root is nobody's.
LEMMA ChildOf ==
  ASSUME NEW t, Tree(t), NEW p \in 1 .. Len(t), NEW n \in DOMAIN t[p].nodes
  PROVE  /\ t[p].nodes[n] \in 1 .. Len(t) /\ t[p].nodes[n] # Root
         /\ Over(t, t[p].nodes[n]) = p /\ t[t[p].nodes[n]].name = n /\ n \in AllNames
<1> DEFINE i == t[p].nodes[n]
<1>1. DOMAIN t = 1 .. Len(t) /\ Len(t) \in Nat /\ i \in 1 .. Len(t) /\ n \in AllNames
  BY TreeDef, SeqDomain DEF Tree
<1>2. t[i].name = n BY <1>1 DEF Tree, IsTree
<1>3. i # Root BY <1>1, <1>2, NamesAssumption DEF Tree, IsTree
<1>4. PICK q \in 1 .. (i - 1) : { r \in DOMAIN t : i \in Range(t[r].nodes) } = {q}
  BY <1>1, <1>3 DEF Tree, IsTree
<1>5. p \in DOMAIN t /\ i \in Range(t[p].nodes) BY <1>1 DEF Range
<1>6. Over(t, i) = p BY <1>4, <1>5 DEF Over
<1> QED BY <1>1, <1>2, <1>3, <1>6

\* The way from the root: what the recursion in WayTo computes.
Steps(t, way, i) == IF i = Root THEN <<>> ELSE Append(way[Over(t, i)], t[i].name)

LEMMA WayIs ==
  ASSUME NEW t, Tree(t)
  PROVE  /\ DOMAIN WayTo(t) = 1 .. Len(t)
         /\ \A i \in 1 .. Len(t) : WayTo(t)[i] = Steps(t, WayTo(t), i)
<1> DEFINE N == Len(t)
           Is(w, n) == DOMAIN w = 1 .. n /\ \A i \in 1 .. n : w[i] = Steps(t, w, i)
           T == {n \in 1 .. N : \E w : Is(w, n)}
<1>1. DOMAIN t = 1 .. N /\ N \in Nat /\ N >= 1 BY TreeDef, SeqDomain DEF Tree, Root
<1>2. ASSUME NEW n \in 1 .. N, \A j \in 1 .. n - 1 : j \in T PROVE n \in T
  <2>1. \E w : Is(w, n - 1)
    <3>1. CASE n = 1
      <4>1. Is(<<>>, n - 1) BY <3>1
      <4> QED BY <4>1
    <3>2. CASE n # 1
      <4>1. n - 1 \in 1 .. n - 1 BY <1>1, <3>2
      <4> QED BY <1>2, <4>1
    <3> QED BY <3>1, <3>2
  <2>2. PICK w : Is(w, n - 1) BY <2>1
  <2> DEFINE v == [i \in 1 .. n |-> IF i = n THEN Steps(t, w, n) ELSE w[i]]
  <2>3. \A i \in 1 .. n : i # Root => Over(t, i) \in 1 .. n /\ Over(t, i) # n
    BY <1>1, OverIs
  <2>4. \A i \in 1 .. n : i # Root => v[Over(t, i)] = w[Over(t, i)] BY <2>3
  <2>5. \A i \in 1 .. n : v[i] = Steps(t, w, i)
    <3>1. \A i \in 1 .. n : i # n => i \in 1 .. n - 1 BY <1>1
    <3> QED BY <2>2, <3>1
  <2>6. \A i \in 1 .. n : v[i] = Steps(t, v, i) BY <2>4, <2>5 DEF Steps
  <2>7. Is(v, n) BY <2>6
  <2> QED BY <2>7
<1>3. \A i \in 1 .. N : i \in T
  <2> HIDE DEF T
  <2> QED BY <1>1, <1>2, SetInduction
<1>4. PICK w : Is(w, N) BY <1>1, <1>3
<1> DEFINE Way(f) == f = [i \in DOMAIN t |->
                           IF i = Root THEN <<>>
                           ELSE LET p == CHOOSE p \in DOMAIN t : i \in Range(t[p].nodes)
                                IN Append(f[p], t[i].name)]
<1>5. \A f : Way(f) => Is(f, N) BY <1>1 DEF Steps, Over
<1>6. Way([i \in DOMAIN t |-> w[i]])
  <2>1. \A i \in 1 .. N : i # Root => Over(t, i) \in DOMAIN t BY <1>1, OverIs
  <2> DEFINE f == [i \in DOMAIN t |-> w[i]]
  <2>2. \A i \in DOMAIN t : f[i] = IF i = Root THEN <<>>
                           ELSE LET p == CHOOSE p \in DOMAIN t : i \in Range(t[p].nodes)
                                IN Append(f[p], t[i].name)
    BY <1>1, <1>4, <2>1 DEF Steps, Over
  <2> QED BY <2>2
<1>7. Way(CHOOSE f : Way(f)) BY <1>6
<1>8. WayTo(t) = CHOOSE f : Way(f) BY DEF WayTo
<1> QED BY <1>5, <1>7, <1>8

\* What is appended can be told from what it is appended to.
LEMMA AppendOne ==
  ASSUME NEW S, NEW s \in Seq(S), NEW x \in S, NEW u \in Seq(S), NEW y \in S
  PROVE  /\ Append(s, x) = Append(u, y) => s = u /\ x = y
         /\ Append(s, x) # <<>> /\ Append(s, x) \in Seq(S) /\ Len(Append(s, x)) = Len(s) + 1
<1>1. /\ Len(s) \in Nat /\ Len(u) \in Nat /\ Append(s, x) \in Seq(S)
      /\ Len(Append(s, x)) = Len(s) + 1 /\ Len(Append(u, y)) = Len(u) + 1
      /\ Append(s, x)[Len(s) + 1] = x /\ Append(u, y)[Len(u) + 1] = y
      /\ \A i \in 1 .. Len(s) : Append(s, x)[i] = s[i]
      /\ \A i \in 1 .. Len(u) : Append(u, y)[i] = u[i]
  BY AppendProperties, LenProperties
<1>2. Append(s, x) # <<>> BY <1>1, EmptySeq
<1>3. ASSUME Append(s, x) = Append(u, y) PROVE s = u /\ x = y
  <2>1. Len(s) = Len(u) BY <1>1, <1>3
  <2>2. \A i \in 1 .. Len(s) : s[i] = u[i] BY <1>1, <1>3, <2>1
  <2>3. s = u BY <2>1, <2>2, SeqEqual
  <2> QED BY <1>1, <1>3, <2>1, <2>3
<1> QED BY <1>1, <1>2, <1>3

LEMMA WayTyped ==
  ASSUME NEW t, Tree(t)
  PROVE  /\ DOMAIN WayTo(t) = 1 .. Len(t) /\ Root \in 1 .. Len(t) /\ WayTo(t)[Root] = <<>>
         /\ \A i \in 1 .. Len(t) : WayTo(t)[i] \in Seq(AllNames)
         /\ \A i \in 1 .. Len(t) \ {Root} :
              WayTo(t)[i] = Append(WayTo(t)[Over(t, i)], t[i].name)
<1> DEFINE N == Len(t)
           way == WayTo(t)
           T == {i \in 1 .. N : way[i] \in Seq(AllNames)}
<1>1. DOMAIN t = 1 .. N /\ N \in Nat /\ Root \in 1 .. N BY TreeDef, SeqDomain DEF Tree, Root
<1>2. DOMAIN way = 1 .. N /\ \A i \in 1 .. N : way[i] = Steps(t, way, i) BY WayIs
<1> HIDE DEF way
<1>3. way[Root] = <<>> /\ \A i \in 1 .. N \ {Root} : way[i] = Append(way[Over(t, i)], t[i].name)
  BY <1>1, <1>2 DEF Steps
<1>4. ASSUME NEW i \in 1 .. N, \A j \in 1 .. i - 1 : j \in T PROVE i \in T
  <2>1. CASE i = Root BY <1>3, <2>1, EmptySeq
  <2>2. CASE i # Root
    <3>1. Over(t, i) \in T /\ t[i].name \in AllNames BY <1>4, <2>2, OverIs
    <3>2. way[Over(t, i)] \in Seq(AllNames) BY <3>1
    <3>3. Append(way[Over(t, i)], t[i].name) \in Seq(AllNames) BY <3>1, <3>2, AppendOne
    <3> QED BY <1>3, <2>2, <3>3
  <2> QED BY <2>1, <2>2
<1>5. \A i \in 1 .. N : i \in T
  <2> HIDE DEF T
  <2> QED BY <1>1, <1>4, SetInduction
<1> QED BY <1>1, <1>2, <1>3, <1>5 DEF way

\* Two nodes are not called the same.
LEMMA WayOne ==
  ASSUME NEW t, Tree(t), NEW i \in 1 .. Len(t), NEW j \in 1 .. Len(t), WayTo(t)[i] = WayTo(t)[j]
  PROVE  i = j
<1> DEFINE N == Len(t)
           way == WayTo(t)
           T == {k \in 1 .. N : \A l \in 1 .. N : way[k] = way[l] => k = l}
<1>1. N \in Nat BY TreeDef, SeqDomain DEF Tree
<1>2. /\ way[Root] = <<>> /\ \A k \in 1 .. N : way[k] \in Seq(AllNames)
      /\ \A k \in 1 .. N \ {Root} : way[k] = Append(way[Over(t, k)], t[k].name)
  BY WayTyped
<1> HIDE DEF way
<1>3. ASSUME NEW k \in 1 .. N, \A l \in 1 .. k - 1 : l \in T PROVE k \in T
  <2> SUFFICES ASSUME NEW l \in 1 .. N, way[k] = way[l] PROVE k = l OBVIOUS
  <2>1. \A m \in 1 .. N \ {Root} : /\ Over(t, m) \in 1 .. m - 1 /\ Over(t, m) \in 1 .. N
                                   /\ t[m].name \in AllNames /\ t[Over(t, m)].nodes[t[m].name] = m
    BY OverIs
  <2>2. \A m \in 1 .. N \ {Root} : way[m] # <<>> BY <1>2, <2>1, AppendOne
  <2>3. CASE k = Root BY <1>2, <2>2, <2>3
  <2>4. CASE l = Root BY <1>2, <2>2, <2>4
  <2>5. CASE k # Root /\ l # Root
    <3> DEFINE s == way[Over(t, k)]
               u == way[Over(t, l)]
    <3>0. /\ s \in Seq(AllNames) /\ u \in Seq(AllNames)
          /\ t[k].name \in AllNames /\ t[l].name \in AllNames
          /\ Append(s, t[k].name) = Append(u, t[l].name)
      BY <1>2, <2>1, <2>5
    <3> HIDE DEF s, u
    <3>1. s = u /\ t[k].name = t[l].name BY <3>0, AppendOne
    <3> USE DEF s, u
    <3>2. Over(t, k) = Over(t, l) BY <1>3, <2>1, <2>5, <3>1
    <3> QED BY <2>1, <2>5, <3>1, <3>2
  <2> QED BY <2>3, <2>4, <2>5
<1>4. \A k \in 1 .. N : k \in T
  <2> HIDE DEF T
  <2> QED BY <1>1, <1>3, SetInduction
<1> QED BY <1>4 DEF way

\* Prefixes.
LEMMA PrefixOf ==
  ASSUME NEW S, NEW s \in Seq(S), NEW l \in 0 .. Len(s)
  PROVE  /\ SubSeq(s, 1, l) \in Seq(S) /\ Len(SubSeq(s, 1, l)) = l
         /\ \A i \in 1 .. l : SubSeq(s, 1, l)[i] = s[i]
<1>1. Len(s) \in Nat /\ \A i \in 1 .. Len(s) : s[i] \in S BY LenProperties, ElementOfSeq
<1>2. \A i \in 1 .. l : i \in 1 .. Len(s) BY <1>1
<1>3. \A i \in 1 .. l : s[i] \in S BY <1>1, <1>2
<1>4. /\ SubSeq(s, 1, l) \in Seq(S) /\ Len(SubSeq(s, 1, l)) = IF 1 <= l THEN l - 1 + 1 ELSE 0
      /\ \A i \in 1 .. l - 1 + 1 : SubSeq(s, 1, l)[i] = s[1 + i - 1]
  BY <1>3, <1>1, SubSeqProperties
<1>5. l \in Nat /\ (IF 1 <= l THEN l - 1 + 1 ELSE 0) = l
      /\ \A i \in 1 .. l : i \in 1 .. l - 1 + 1 /\ 1 + i - 1 = i
  BY <1>1
<1> QED BY <1>4, <1>5

LEMMA PrefixesAre ==
  ASSUME NEW S, NEW s \in Seq(S)
  PROVE  /\ s \in Prefixes(s) /\ <<>> \in Prefixes(s)
         /\ \A p \in Prefixes(s) : p \in Seq(S) /\ Len(p) \in 0 .. Len(s)
         /\ \A p, q \in Prefixes(s) : Len(p) = Len(q) => p = q
<1>1. Len(s) \in Nat BY LenProperties
<1>2. SubSeq(s, 1, Len(s)) = s
  <2>1. Len(s) \in 0 .. Len(s) BY <1>1
  <2> QED BY <2>1, PrefixOf, SeqEqual
<1>3. SubSeq(s, 1, 0) = <<>>
  <2>1. 0 \in 0 .. Len(s) BY <1>1
  <2>2. SubSeq(s, 1, 0) \in Seq(S) /\ Len(SubSeq(s, 1, 0)) = 0 BY <2>1, PrefixOf
  <2> QED BY <2>2, EmptySeq
<1>4. ASSUME NEW p \in Prefixes(s) PROVE p \in Seq(S) /\ Len(p) \in 0 .. Len(s) /\ p = SubSeq(s, 1, Len(p))
  <2>1. PICK l \in 0 .. Len(s) : p = SubSeq(s, 1, l) BY DEF Prefixes
  <2> QED BY <2>1, PrefixOf
<1>5. 0 \in 0 .. Len(s) /\ Len(s) \in 0 .. Len(s) BY <1>1
<1> QED BY <1>2, <1>3, <1>4, <1>5 DEF Prefixes

LEMMA PrefixesOn ==
  ASSUME NEW S, NEW s \in Seq(S), NEW x \in S
  PROVE  Prefixes(Append(s, x)) = Prefixes(s) \union {Append(s, x)}
<1> DEFINE u == Append(s, x)
<1>1. /\ Len(s) \in Nat /\ u \in Seq(S) /\ Len(u) = Len(s) + 1
      /\ \A i \in 1 .. Len(s) : u[i] = s[i]
  BY AppendProperties, LenProperties
<1> HIDE DEF u
<1>2. ASSUME NEW l \in 0 .. Len(s) PROVE SubSeq(u, 1, l) = SubSeq(s, 1, l)
  <2>1. l \in 0 .. Len(u) /\ \A i \in 1 .. l : i \in 1 .. Len(s) BY <1>1
  <2>2. /\ SubSeq(u, 1, l) \in Seq(S) /\ Len(SubSeq(u, 1, l)) = l
        /\ \A i \in 1 .. l : SubSeq(u, 1, l)[i] = u[i]
    BY <1>1, <2>1, PrefixOf
  <2>3. /\ SubSeq(s, 1, l) \in Seq(S) /\ Len(SubSeq(s, 1, l)) = l
        /\ \A i \in 1 .. l : SubSeq(s, 1, l)[i] = s[i]
    BY PrefixOf
  <2> QED BY <1>1, <2>1, <2>2, <2>3, SeqEqual
<1>3. u \in Prefixes(u) BY <1>1, PrefixesAre
<1>4. \A l \in 0 .. Len(u) : l \in 0 .. Len(s) \/ l = Len(u) BY <1>1
<1>5. \A l \in 0 .. Len(s) : l \in 0 .. Len(u) BY <1>1
<1>6. SubSeq(u, 1, Len(u)) = u
  <2>1. Len(u) \in 0 .. Len(u) BY <1>1
  <2> QED BY <1>1, <2>1, PrefixOf, SeqEqual
<1> QED BY <1>2, <1>3, <1>4, <1>5, <1>6 DEF Prefixes, u

\* The prefixes of the way to a node are the ways to those it lies in.
LEMMA WayPrefixes ==
  ASSUME NEW t, Tree(t), NEW i \in 1 .. Len(t)
  PROVE  /\ i = Root => Prefixes(WayTo(t)[i]) = {<<>>}
         /\ i # Root => Prefixes(WayTo(t)[i]) = Prefixes(WayTo(t)[Over(t, i)]) \union {WayTo(t)[i]}
         /\ i # Root => Len(WayTo(t)[i]) = Len(WayTo(t)[Over(t, i)]) + 1
<1>1. CASE i = Root
  <2>1. <<>> \in Seq(AllNames) /\ Len(<<>>) = 0 BY EmptySeq
  <2>2. \A p \in Prefixes(<<>>) : p \in Seq(AllNames) /\ Len(p) \in 0 .. 0 BY <2>1, PrefixesAre
  <2>3. <<>> \in Prefixes(<<>>) BY <2>1, PrefixesAre
  <2>4. \A p \in Prefixes(<<>>) : p = <<>> BY <2>2, EmptySeq
  <2> QED BY <1>1, <2>3, <2>4, WayTyped
<1>2. CASE i # Root
  <2> DEFINE s == WayTo(t)[Over(t, i)]
             x == t[i].name
  <2>1. s \in Seq(AllNames) /\ x \in AllNames /\ WayTo(t)[i] = Append(s, x)
    BY <1>2, OverIs, WayTyped
  <2> HIDE DEF s, x
  <2>2. Prefixes(Append(s, x)) = Prefixes(s) \union {Append(s, x)} BY <2>1, PrefixesOn
  <2>3. Len(Append(s, x)) = Len(s) + 1 BY <2>1, AppendOne
  <2> QED BY <1>2, <2>1, <2>2, <2>3 DEF s, x
<1> QED BY <1>1, <1>2

LEMMA PrefixNode ==
  ASSUME NEW t, Tree(t), NEW i \in 1 .. Len(t), NEW p \in Prefixes(WayTo(t)[i])
  PROVE  \E j \in 1 .. Len(t) : WayTo(t)[j] = p
<1> DEFINE T == {k \in 1 .. Len(t) : \A q \in Prefixes(WayTo(t)[k]) : \E j \in 1 .. Len(t) : WayTo(t)[j] = q}
<1>1. Len(t) \in Nat BY TreeDef, SeqDomain DEF Tree
<1>2. ASSUME NEW k \in 1 .. Len(t), \A l \in 1 .. k - 1 : l \in T PROVE k \in T
  <2>1. CASE k = Root
    <3>1. Prefixes(WayTo(t)[k]) = {<<>>} BY <2>1, WayPrefixes
    <3>2. WayTo(t)[k] = <<>> BY <2>1, WayTyped
    <3> QED BY <3>1, <3>2
  <2>2. CASE k # Root
    <3>1. Over(t, k) \in T BY <1>2, <2>2, OverIs
    <3>2. Prefixes(WayTo(t)[k]) = Prefixes(WayTo(t)[Over(t, k)]) \union {WayTo(t)[k]}
      BY <2>2, WayPrefixes
    <3>3. \A q \in Prefixes(WayTo(t)[k]) : \E j \in 1 .. Len(t) : WayTo(t)[j] = q
      BY <3>1, <3>2
    <3> QED BY <3>3
  <2> QED BY <2>1, <2>2
<1>3. \A k \in 1 .. Len(t) : k \in T
  <2> HIDE DEF T
  <2> QED BY <1>1, <1>2, SetInduction
<1> QED BY <1>3
----------------------------------------------------------------------------
\* The way to the root that a lookup climbs.
Climbed(up, nodes, i) ==
  IF i = BadId \/ i \in nodes THEN i
  ELSE IF i = Root THEN NotFound ELSE up[m_nodes_container[i].parent]

LEMMA ClimbIs ==
  ASSUME Tree(m_nodes_container), NEW nodes
  PROVE  \E up : /\ climb(nodes) = up[current_node]
                 /\ \A i \in 0 .. Len(m_nodes_container) : up[i] = Climbed(up, nodes, i)
<1> DEFINE t == m_nodes_container
           N == Len(t)
           Is(u, n) == \A i \in 0 .. n : u[i] = Climbed(u, nodes, i)
           T == {n \in 1 .. N : \E u : Is(u, n)}
<1>1. N \in Nat /\ N >= 1 /\ Root = 1 /\ BadId = 0 BY TreeDef, SeqDomain DEF Tree, Root, BadId
<1>2. \A i \in 1 .. N : i # Root => t[i].parent \in 0 .. i - 1
  <2> SUFFICES ASSUME NEW i \in 1 .. N, i # Root PROVE t[i].parent \in 0 .. i - 1 OBVIOUS
  <2>1. Over(t, i) \in 1 .. i - 1 /\ (t[i].parent = Over(t, i) \/ t[i].parent = BadId) BY OverIs
  <2> QED BY <1>1, <2>1
<1> HIDE DEF t
<1>3. ASSUME NEW n \in 1 .. N, \A j \in 1 .. n - 1 : j \in T PROVE n \in T
  <2>1. \E u : Is(u, n - 1)
    <3>1. CASE n = 1
      <4>1. Is([i \in 0 .. 0 |-> 0], n - 1) BY <3>1, <1>1 DEF Climbed
      <4> QED BY <4>1
    <3>2. CASE n # 1
      <4>1. n - 1 \in 1 .. n - 1 BY <1>1, <3>2
      <4> QED BY <1>3, <4>1
    <3> QED BY <3>1, <3>2
  <2>2. PICK u : Is(u, n - 1) BY <2>1
  <2> DEFINE v == [i \in 0 .. n |-> IF i = n THEN Climbed(u, nodes, n) ELSE u[i]]
  <2>3. \A i \in 0 .. n : i # n => i \in 0 .. n - 1 BY <1>1
  <2>4. \A i \in 0 .. n : v[i] = Climbed(u, nodes, i) BY <2>2, <2>3
  <2>5. \A i \in 0 .. n : i # BadId /\ i # Root => t[i].parent \in 0 .. n /\ t[i].parent # n
    BY <1>1, <1>2
  <2>6. \A i \in 0 .. n : i # BadId /\ i # Root => v[t[i].parent] = u[t[i].parent] BY <2>5
  <2>7. \A i \in 0 .. n : v[i] = Climbed(v, nodes, i) BY <2>4, <2>6 DEF Climbed, t
  <2>8. Is(v, n) BY <2>7
  <2> QED BY <2>8
<1>4. \A i \in 1 .. N : i \in T
  <2> HIDE DEF T
  <2> QED BY <1>1, <1>3, SetInduction
<1>5. PICK u : Is(u, N) BY <1>1, <1>4
<1> DEFINE Up(f) == f = [i \in 0 .. N |-> IF i = BadId \/ i \in nodes THEN i
                                         ELSE IF i = Root THEN NotFound ELSE f[t[i].parent]]
<1>6. Up([i \in 0 .. N |-> u[i]])
  <2> DEFINE f == [i \in 0 .. N |-> u[i]]
  <2>1. \A i \in 0 .. N : i # BadId /\ i # Root => t[i].parent \in 0 .. N BY <1>1, <1>2
  <2>2. \A i \in 0 .. N : f[i] = IF i = BadId \/ i \in nodes THEN i
                                ELSE IF i = Root THEN NotFound ELSE f[t[i].parent]
    BY <1>5, <2>1 DEF Climbed, t
  <2> QED BY <2>2
<1>7. Up(CHOOSE f : Up(f)) BY <1>6
<1>8. climb(nodes) = (CHOOSE f : Up(f))[current_node] BY DEF climb, t
<1>9. \A f : Up(f) => \A i \in 0 .. N : f[i] = Climbed(f, nodes, i) BY DEF Climbed, t
<1> QED BY <1>7, <1>8, <1>9 DEF t

\* The nearest of some nodes that a node lies in, unless the way leaves the container.
Around(t, nodes, i) == {j \in nodes : WayTo(t)[j] \in Prefixes(WayTo(t)[i])}
Innermost(t, nodes, i, r) ==
  /\ r \in Around(t, nodes, i)
  /\ \A j \in Around(t, nodes, i) : Len(WayTo(t)[j]) <= Len(WayTo(t)[r])
Nearest(nodes, i, r) ==
  \/ r = BadId
  \/ r = NotFound /\ Around(m_nodes_container, nodes, i) = {}
  \/ Innermost(m_nodes_container, nodes, i, r)

LEMMA ClimbNearest ==
  ASSUME Tree(m_nodes_container), m_current_nodes_path \in Seq(1 .. Len(m_nodes_container)),
         NEW nodes, nodes \subseteq 1 .. Len(m_nodes_container)
  PROVE  Nearest(nodes, current_node, climb(nodes))
<1> DEFINE t == m_nodes_container
           N == Len(t)
           way == WayTo(t)
<1>1. PICK up : climb(nodes) = up[current_node] /\ \A i \in 0 .. N : up[i] = Climbed(up, nodes, i)
  BY ClimbIs
<1> DEFINE T == {i \in 1 .. N : Nearest(nodes, i, up[i])}
<1>2. N \in Nat /\ N >= 1 /\ Root = 1 /\ BadId = 0 /\ NotFound = -1
  BY TreeDef, SeqDomain DEF Tree, Root, BadId, NotFound
<1>3. /\ way[Root] = <<>>
      /\ \A i \in 1 .. N : /\ way[i] \in Seq(AllNames) /\ Len(way[i]) \in Nat /\ way[i] \in Prefixes(way[i])
                           /\ \A p \in Prefixes(way[i]) : Len(p) <= Len(way[i])
                           /\ \A j \in 1 .. N : way[j] = way[i] => j = i
                           /\ i = Root => Prefixes(way[i]) = {<<>>}
                           /\ i # Root => Prefixes(way[i]) = Prefixes(way[Over(t, i)]) \union {way[i]}
  <2> SUFFICES ASSUME NEW i \in 1 .. N
               PROVE  /\ way[i] \in Seq(AllNames) /\ Len(way[i]) \in Nat /\ way[i] \in Prefixes(way[i])
                      /\ \A p \in Prefixes(way[i]) : Len(p) <= Len(way[i])
                      /\ \A j \in 1 .. N : way[j] = way[i] => j = i
                      /\ i = Root => Prefixes(way[i]) = {<<>>}
                      /\ i # Root => Prefixes(way[i]) = Prefixes(way[Over(t, i)]) \union {way[i]}
    BY WayTyped
  <2>1. way[i] \in Seq(AllNames) BY WayTyped
  <2> HIDE DEF way
  <2>2. Len(way[i]) \in Nat /\ way[i] \in Prefixes(way[i]) /\ \A p \in Prefixes(way[i]) : Len(p) \in 0 .. Len(way[i])
    BY <2>1, LenProperties, PrefixesAre
  <2> USE DEF way
  <2>3. \A j \in 1 .. N : way[j] = way[i] => j = i BY WayOne
  <2>4. /\ i = Root => Prefixes(way[i]) = {<<>>}
        /\ i # Root => Prefixes(way[i]) = Prefixes(way[Over(t, i)]) \union {way[i]}
    BY WayPrefixes
  <2> HIDE DEF way
  <2> QED BY <2>1, <2>2, <2>3, <2>4
<1>4. \A i \in 1 .. N \ {Root} : /\ Over(t, i) \in 1 .. i - 1
                                 /\ t[i].parent = Over(t, i) \/ t[i].parent = BadId
  BY OverIs
<1>10. nodes \subseteq 1 .. N OBVIOUS
<1> HIDE DEF t, way
<1>5. ASSUME NEW i \in 1 .. N, \A j \in 1 .. i - 1 : j \in T PROVE Nearest(nodes, i, up[i])
  <2>1. up[i] = Climbed(up, nodes, i) BY <1>1, <1>2
  <2>2. CASE i \in nodes
    <3>1. up[i] = i BY <2>1, <2>2 DEF Climbed
    <3> QED BY <1>3, <2>2, <3>1 DEF Nearest, Innermost, Around, way, t
  <2>3. CASE i \notin nodes /\ i = Root
    <3>1. up[i] = NotFound BY <1>2, <2>1, <2>3 DEF Climbed
    <3>2. \A j \in nodes : way[j] \notin Prefixes(way[i])
      BY <1>2, <1>3, <1>10, <2>3
    <3> QED BY <3>1, <3>2 DEF Nearest, Around, way, t
  <2>4. CASE i \notin nodes /\ i # Root
    <3>1. up[i] = up[t[i].parent] BY <1>2, <2>1, <2>4 DEF Climbed, t
    <3>2. CASE t[i].parent = BadId
      <4>1. up[BadId] = BadId BY <1>1, <1>2 DEF Climbed
      <4> QED BY <3>1, <3>2, <4>1 DEF Nearest
    <3>3. CASE t[i].parent = Over(t, i)
      <4>1. Nearest(nodes, Over(t, i), up[i]) BY <1>4, <1>5, <2>4, <3>1, <3>3
      <4>2. {j \in nodes : way[j] \in Prefixes(way[i])} = {j \in nodes : way[j] \in Prefixes(way[Over(t, i)])}
        <5>1. Prefixes(way[i]) = Prefixes(way[Over(t, i)]) \union {way[i]} BY <1>3, <2>4
        <5>2. \A j \in nodes : way[j] # way[i] BY <1>3, <1>10, <2>4
        <5> QED BY <5>1, <5>2
      <4> QED BY <4>1, <4>2 DEF Nearest, Innermost, Around, way, t
    <3> QED BY <1>4, <2>4, <3>2, <3>3
  <2> QED BY <2>2, <2>3, <2>4
<1>6. \A i \in 1 .. N : i \in T
  <2>1. \A i \in 1 .. N : (\A j \in 1 .. i - 1 : j \in T) => i \in T BY <1>5
  <2> HIDE DEF T
  <2> QED BY <1>2, <2>1, SetInduction
<1>7. current_node \in 1 .. N BY CurrentNode DEF t
<1> QED BY <1>1, <1>6, <1>7
----------------------------------------------------------------------------
\* What is declared in the namespace of a node is what the node has entries for.
Declaration(t, i, e) ==
  [at |-> WayTo(t)[i], name |-> e.name, what |-> e.what, exported |-> e.exported]

LEMMA DeclaredIs ==
  ASSUME NEW t, Tree(t), NEW d
  PROVE  d \in DeclaredBy(t) <=> \E i \in 1 .. Len(t) : \E e \in t[i].entries : d = Declaration(t, i, e)
<1>1. DOMAIN t = 1 .. Len(t) BY TreeDef, SeqDomain DEF Tree
<1>2. DeclaredBy(t) = UNION { { Declaration(t, i, e) : e \in t[i].entries } : i \in 1 .. Len(t) }
  BY <1>1 DEF DeclaredBy, Declaration
<1> QED BY <1>2

LEMMA NamedAt ==
  ASSUME NEW t, Tree(t), NEW i \in 1 .. Len(t), NEW n
  PROVE  { d.what : d \in {d \in DeclaredBy(t) : d.at = WayTo(t)[i] /\ d.name = n} } = named(t[i].entries, n)
<1> DEFINE way == WayTo(t)
           D == {d \in DeclaredBy(t) : d.at = way[i] /\ d.name = n}
<1>1. ASSUME NEW d \in D PROVE d.what \in named(t[i].entries, n)
  <2>0. PICK j \in 1 .. Len(t) : \E e \in t[j].entries : d = Declaration(t, j, e) BY DeclaredIs
  <2>1. PICK e \in t[j].entries : d = Declaration(t, j, e) BY <2>0
  <2>2. way[j] = way[i] /\ e.name = n /\ d.what = e.what BY <2>1 DEF Declaration
  <2>3. j = i BY <2>2, WayOne
  <2> QED BY <2>2, <2>3 DEF named
<1>2. ASSUME NEW e \in t[i].entries, e.name = n PROVE \E d \in D : d.what = e.what
  <2> DEFINE d == Declaration(t, i, e)
  <2>1. d \in DeclaredBy(t) BY DeclaredIs
  <2>2. d.at = way[i] /\ d.name = n /\ d.what = e.what BY <1>2 DEF Declaration
  <2> HIDE DEF d
  <2> QED BY <2>1, <2>2
<1> HIDE DEF D
<1>3. { d.what : d \in D } = named(t[i].entries, n) BY <1>1, <1>2 DEF named
<1> QED BY <1>3 DEF D

\* The innermost of the namespaces around a node is that of the nearest node.
LEMMA InnermostIs ==
  ASSUME NEW t, Tree(t), NEW i \in 1 .. Len(t), NEW places, places \subseteq Prefixes(WayTo(t)[i]),
         NEW p \in places, \A q \in places : Len(q) <= Len(p)
  PROVE  (CHOOSE r \in places : \A q \in places : Len(q) <= Len(r)) = p
<1> DEFINE m == CHOOSE r \in places : \A q \in places : Len(q) <= Len(r)
<1>1. m \in places /\ \A q \in places : Len(q) <= Len(m) OBVIOUS
<1> HIDE DEF m
<1>2. WayTo(t)[i] \in Seq(AllNames) BY WayTyped
<1>3. /\ \A q \in places : Len(q) \in Nat
      /\ \A q, r \in places : Len(q) = Len(r) => q = r
  <2>1. Len(WayTo(t)[i]) \in Nat BY <1>2, LenProperties
  <2>2. \A q \in places : Len(q) \in 0 .. Len(WayTo(t)[i]) BY <1>2, PrefixesAre
  <2>3. \A q, r \in places : Len(q) = Len(r) => q = r BY <1>2, PrefixesAre
  <2> QED BY <2>1, <2>2, <2>3
<1>4. Len(m) = Len(p) BY <1>1, <1>3
<1>5. m = p BY <1>1, <1>3, <1>4
<1> QED BY <1>5 DEF m

\* The namespaces around a node of which some property holds are those of the nodes
\* that have it.
LEMMA PlacesAre ==
  ASSUME NEW t, Tree(t), NEW i \in 1 .. Len(t), NEW nodes, nodes \subseteq 1 .. Len(t),
         NEW places, places \subseteq Prefixes(WayTo(t)[i]),
         \A j \in 1 .. Len(t) : WayTo(t)[j] \in Prefixes(WayTo(t)[i]) =>
                                  (j \in nodes <=> WayTo(t)[j] \in places)
  PROVE  /\ Around(t, nodes, i) = {} => places = {}
         /\ \A r : Innermost(t, nodes, i, r) =>
              /\ WayTo(t)[r] \in places /\ r \in 1 .. Len(t)
              /\ (CHOOSE p \in places : \A q \in places : Len(q) <= Len(p)) = WayTo(t)[r]
<1> DEFINE way == WayTo(t)
           around == {j \in nodes : way[j] \in Prefixes(way[i])}
<1>1. \A p \in places : \E j \in around : way[j] = p
  <2> TAKE p \in places
  <2>1. PICK j \in 1 .. Len(t) : way[j] = p BY PrefixNode
  <2>2. j \in around BY <2>1
  <2> QED BY <2>1, <2>2
<1>2. \A j \in around : way[j] \in places OBVIOUS
<1>3. around \subseteq 1 .. Len(t) OBVIOUS
<1> HIDE DEF around
<1>4. around = {} => places = {} BY <1>1
<1>5. ASSUME NEW r \in around, \A j \in around : Len(way[j]) <= Len(way[r])
      PROVE  way[r] \in places /\ (CHOOSE p \in places : \A q \in places : Len(q) <= Len(p)) = way[r]
  <2>1. way[r] \in places BY <1>2
  <2>2. \A q \in places : Len(q) <= Len(way[r]) BY <1>1, <1>5
  <2> HIDE DEF way
  <2>3. places \subseteq Prefixes(WayTo(t)[i]) OBVIOUS
  <2>4. (CHOOSE p \in places : \A q \in places : Len(q) <= Len(p)) = way[r]
    BY <2>1, <2>2, <2>3, InnermostIs
  <2> QED BY <2>1, <2>4
<1> QED BY <1>3, <1>4, <1>5 DEF around, Around, Innermost

\* Where the analysis is.
LEMMA HereIs ==
  ASSUME IInv, merging = <<>>
  PROVE  /\ Tree(m_nodes_container) /\ current_node \in 1 .. Len(m_nodes_container)
         /\ m_current_nodes_path \in Seq(1 .. Len(m_nodes_container))
         /\ Meant!Around = Prefixes(WayTo(m_nodes_container)[current_node])
         /\ \A n : \A i \in 1 .. Len(m_nodes_container) :
              Meant!DeclaredIn(WayTo(m_nodes_container)[i], n) = named(m_nodes_container[i].entries, n)
<1>1. Tree(m_nodes_container) /\ m_current_nodes_path \in Seq(1 .. Len(m_nodes_container))
  BY DEF IInv, Typed
<1>2. m_current_nodes_path # <<>> BY DEF IInv, Guarded, Standing
<1>3. current_node \in 1 .. Len(m_nodes_container) /\ current_node = Last(m_current_nodes_path)
  BY <1>1, <1>2, CurrentNode
<1>4. Meant!Around = Prefixes(WayTo(m_nodes_container)[current_node])
  BY <1>3 DEF Meant!Around, Meant!Prefixes, Prefixes
<1>5. \A n : \A i \in 1 .. Len(m_nodes_container) :
        Meant!DeclaredIn(WayTo(m_nodes_container)[i], n) = named(m_nodes_container[i].entries, n)
  BY <1>1, NamedAt DEF Meant!DeclaredIn
<1> QED BY <1>1, <1>3, <1>4, <1>5

\* What a lookup may say of the place that is looked for.
LEMMA Unqualified ==
  ASSUME IInv, merging = <<>>, NEW n, m_local_nodes \in Seq(SUBSET Entry)
  PROVE  find_unqualified(n).bad \/ find_unqualified(n).what = Meant!Meaning(n)
<1> DEFINE t == m_nodes_container
           N == Len(t)
           way == WayTo(t)
           nodes == {i \in 1 .. N : named(t[i].entries, n) # {}}
           places == {p \in Meant!Around : Meant!DeclaredIn(p, n) # {}}
           inBlock == {i \in DOMAIN m_local_nodes : named(m_local_nodes[i], n) # {}}
           block == CHOOSE i \in inBlock : \A j \in inBlock : j <= i
           r == climb(nodes)
<1>1. /\ Tree(t) /\ current_node \in 1 .. N /\ m_current_nodes_path \in Seq(1 .. N)
      /\ Meant!Around = Prefixes(way[current_node])
      /\ \A i \in 1 .. N : Meant!DeclaredIn(way[i], n) = named(t[i].entries, n)
  BY HereIs
<1>2. DOMAIN t = 1 .. N BY <1>1, TreeDef, SeqDomain DEF Tree
<1>3. find_unqualified(n) = IF inBlock # {} THEN found(named(m_local_nodes[block], n)) ELSE in_node(r, n)
  BY <1>2 DEF find_unqualified
<1>4. Meant!Meaning(n) =
        IF inBlock # {} THEN named(m_local_nodes[block], n)
        ELSE IF places # {} THEN Meant!DeclaredIn(Meant!Innermost(places), n) ELSE {}
  <2> DEFINE b == [i \in DOMAIN m_local_nodes |->
                     { [name |-> e.name, what |-> e.what] : e \in m_local_nodes[i] }]
             inB == {i \in DOMAIN b : \E d \in b[i] : d.name = n}
             bl == CHOOSE i \in inB : \A j \in inB : j <= i
  <2>0. ASSUME NEW i \in DOMAIN m_local_nodes
        PROVE  /\ b[i] = { [name |-> e.name, what |-> e.what] : e \in m_local_nodes[i] }
               /\ (\E d \in b[i] : d.name = n) <=> named(m_local_nodes[i], n) # {}
               /\ { d.what : d \in {d \in b[i] : d.name = n} } = named(m_local_nodes[i], n)
    <3> DEFINE shown(e) == [name |-> e.name, what |-> e.what]
    <3>1. b[i] = { shown(e) : e \in m_local_nodes[i] } OBVIOUS
    <3>2. \A e : shown(e).name = e.name /\ shown(e).what = e.what OBVIOUS
    <3> HIDE DEF b, shown
    <3>3. (\E d \in b[i] : d.name = n) <=> named(m_local_nodes[i], n) # {}
      BY <3>1, <3>2 DEF named
    <3>4. { d.what : d \in {d \in b[i] : d.name = n} } = named(m_local_nodes[i], n)
      BY <3>1, <3>2 DEF named
    <3> QED BY <3>1, <3>3, <3>4 DEF shown
  <2>6. DOMAIN b = DOMAIN m_local_nodes OBVIOUS
  <2> HIDE DEF b
  <2>1. inB = inBlock BY <2>0, <2>6
  <2>2. bl = block BY <2>1
  <2>3. \A i \in DOMAIN m_local_nodes : { d.what : d \in {d \in b[i] : d.name = n} } = named(m_local_nodes[i], n)
    BY <2>0
  <2>4. inBlock # {} => block \in DOMAIN m_local_nodes
    <3> SUFFICES ASSUME inBlock # {} PROVE \E i \in inBlock : \A j \in inBlock : j <= i OBVIOUS
    <3> DEFINE L == Len(m_local_nodes)
               T == {k \in Nat : L - k \in inBlock}
    <3>1. L \in Nat /\ DOMAIN m_local_nodes = 1 .. L BY SeqDomain
    <3>2. inBlock \subseteq 1 .. L BY <3>1
    <3> HIDE DEF inBlock, L
    <3>3. \A i \in inBlock : L - i \in T BY <3>1, <3>2
    <3>4. T # {} /\ T \subseteq Nat BY <3>3
    <3>5. PICK k \in T : \A m \in T : k <= m BY <3>4, LeastOf
    <3>6. \A j \in inBlock : j <= L - k BY <3>1, <3>2, <3>3, <3>5
    <3> QED BY <3>5, <3>6
  <2>5. Meant!Meaning(n) =
          IF inB # {} THEN { d.what : d \in {d \in b[bl] : d.name = n} }
          ELSE IF places # {} THEN Meant!DeclaredIn(Meant!Innermost(places), n) ELSE {}
    BY DEF Meant!Meaning, b
  <2> HIDE DEF inB, bl, inBlock, block
  <2> QED BY <2>1, <2>2, <2>3, <2>4, <2>5
<1> HIDE DEF block, inBlock
<1>5. CASE inBlock # {} BY <1>3, <1>4, <1>5 DEF found
<1>6. CASE inBlock = {}
  <2>1. nodes \subseteq 1 .. N OBVIOUS
  <2>2. places \subseteq Prefixes(way[current_node]) BY <1>1
  <2>3. \A j \in 1 .. N : way[j] \in Prefixes(way[current_node]) => (j \in nodes <=> way[j] \in places)
    BY <1>1
  <2>4. Nearest(nodes, current_node, r) BY <1>1, <2>1, ClimbNearest
  <2> HIDE DEF nodes, places, r
  <2>5. /\ Around(t, nodes, current_node) = {} => places = {}
        /\ Innermost(t, nodes, current_node, r) =>
             /\ way[r] \in places /\ r \in 1 .. N
             /\ (CHOOSE p \in places : \A q \in places : Len(q) <= Len(p)) = way[r]
    BY <1>1, <2>1, <2>2, <2>3, PlacesAre
  <2>6. CASE r = BadId BY <1>3, <1>6, <2>6 DEF in_node, outOfBounds, BadId, NotFound
  <2>7. CASE r = NotFound /\ Around(t, nodes, current_node) = {}
    <3>1. find_unqualified(n) = found({}) BY <1>3, <1>6, <2>7 DEF in_node, NotFound, BadId
    <3> QED BY <1>4, <1>6, <2>5, <2>7, <3>1 DEF found
  <2>8. CASE Innermost(t, nodes, current_node, r)
    <3>1. places # {} /\ Meant!Innermost(places) = way[r] BY <2>5, <2>8 DEF Meant!Innermost
    <3>2. r \in 1 .. N /\ r # BadId /\ r # NotFound BY <2>5, <2>8 DEF BadId, NotFound
    <3>3. find_unqualified(n) = found(named(t[r].entries, n)) BY <1>3, <1>6, <3>2 DEF in_node
    <3>4. Meant!Meaning(n) = named(t[r].entries, n) BY <1>1, <1>4, <1>6, <3>1, <3>2
    <3> QED BY <3>3, <3>4 DEF found
  <2> QED BY <2>4, <2>6, <2>7, <2>8 DEF Nearest
<1> QED BY <1>5, <1>6

\* Where the names of a qualified name lead, from a node.
Child(id, n) ==
  IF id < Root THEN id
  ELSE IF n \in DOMAIN m_nodes_container[id].nodes THEN m_nodes_container[id].nodes[n] ELSE NotFound
HaveChild(n) == {i \in DOMAIN m_nodes_container : n \in DOMAIN m_nodes_container[i].nodes}
FirstNode(n) == IF n = GlobalName THEN Root ELSE Child(climb(HaveChild(n)), n)

LEMMA FindNodeIs ==
  ASSUME NEW a, NEW b
  PROVE  find_node(<<a>>) = FirstNode(a) /\ find_node(<<a, b>>) = Child(FirstNode(a), b)
<1>1. ASSUME NEW q, Len(q) \in {1, 2}
      PROVE  find_node(q) = IF Len(q) = 1 THEN FirstNode(q[1]) ELSE Child(FirstNode(q[1]), q[2])
  <2> DEFINE Is(at) == at = [i \in 1 .. Len(q) |-> IF i = 1 THEN FirstNode(q[1]) ELSE Child(at[i - 1], q[i])]
             f == [i \in 1 .. Len(q) |-> IF i = 1 THEN FirstNode(q[1]) ELSE Child(FirstNode(q[1]), q[2])]
  <2>1. Is(f)
    <3>1. \A i \in 1 .. Len(q) : i = 1 \/ (i = 2 /\ i - 1 = 1 /\ 1 \in 1 .. Len(q)) BY <1>1
    <3>2. \A i \in 1 .. Len(q) : f[i] = IF i = 1 THEN FirstNode(q[1]) ELSE Child(f[i - 1], q[i])
      BY <3>1
    <3> QED BY <3>2
  <2> DEFINE at == CHOOSE g : Is(g)
  <2>2. Is(at) BY <2>1
  <2>3. find_node(q) = at[Len(q)] BY DEF find_node, FirstNode, Child, HaveChild
  <2> HIDE DEF at
  <2>4. \A i \in 1 .. Len(q) : at[i] = IF i = 1 THEN FirstNode(q[1]) ELSE Child(at[i - 1], q[i])
    BY <2>2
  <2>5. CASE Len(q) = 1 BY <2>3, <2>4, <2>5
  <2>6. CASE Len(q) = 2
    <3>1. 1 \in 1 .. Len(q) /\ 2 \in 1 .. Len(q) /\ 2 - 1 = 1 BY <2>6
    <3>2. at[1] = FirstNode(q[1]) /\ at[2] = Child(at[1], q[2]) BY <2>4, <3>1
    <3> QED BY <2>3, <2>6, <3>2
  <2> QED BY <1>1, <2>5, <2>6
<1>2. Len(<<a>>) = 1 /\ <<a>>[1] = a /\ Len(<<a, b>>) = 2 /\ <<a, b>>[1] = a /\ <<a, b>>[2] = b
  OBVIOUS
<1> QED BY <1>1, <1>2

\* The children of a node are the namespaces right below its own.
LEMMA NamespaceIs ==
  ASSUME NEW t, Tree(t), NEW i \in 1 .. Len(t), NEW n \in AllNames
  PROVE  /\ Append(WayTo(t)[i], n) \in Range(WayTo(t)) <=> n \in DOMAIN t[i].nodes
         /\ n \in DOMAIN t[i].nodes => WayTo(t)[t[i].nodes[n]] = Append(WayTo(t)[i], n)
<1> DEFINE way == WayTo(t)
<1>1. /\ DOMAIN way = 1 .. Len(t) /\ \A j \in 1 .. Len(t) : way[j] \in Seq(AllNames)
      /\ way[Root] = <<>>
      /\ \A j \in 1 .. Len(t) \ {Root} : way[j] = Append(way[Over(t, j)], t[j].name)
  BY WayTyped
<1>2. ASSUME n \in DOMAIN t[i].nodes PROVE way[t[i].nodes[n]] = Append(way[i], n)
  <2>1. /\ t[i].nodes[n] \in 1 .. Len(t) \ {Root} /\ Over(t, t[i].nodes[n]) = i
        /\ t[t[i].nodes[n]].name = n
    BY <1>2, ChildOf
  <2> QED BY <1>1, <2>1
<1>3. ASSUME NEW j \in 1 .. Len(t), way[j] = Append(way[i], n) PROVE n \in DOMAIN t[i].nodes
  <2> DEFINE s == way[i]
  <2>1. s \in Seq(AllNames) BY <1>1
  <2>2. j # Root
    <3> HIDE DEF s
    <3>1. Append(s, n) # <<>> BY <2>1, AppendOne
    <3> QED BY <1>1, <1>3, <3>1 DEF s
  <2> DEFINE u == way[Over(t, j)]
  <2>3. /\ Over(t, j) \in 1 .. Len(t) /\ t[j].name \in AllNames
        /\ t[j].name \in DOMAIN t[Over(t, j)].nodes
    BY <2>2, OverIs
  <2>4. u \in Seq(AllNames) /\ Append(u, t[j].name) = Append(s, n) BY <1>1, <1>3, <2>2, <2>3
  <2> HIDE DEF s, u
  <2>5. u = s /\ t[j].name = n BY <2>1, <2>3, <2>4, AppendOne
  <2>6. Over(t, j) = i
    <3>1. WayTo(t)[Over(t, j)] = WayTo(t)[i] BY <2>5 DEF s, u
    <3> QED BY <2>3, <3>1, WayOne
  <2> QED BY <2>3, <2>5, <2>6
<1>4. n \in DOMAIN t[i].nodes => t[i].nodes[n] \in 1 .. Len(t) BY ChildOf
<1> QED BY <1>1, <1>2, <1>3, <1>4 DEF Range

LEMMA FrontOfTwo ==
  ASSUME NEW S, NEW a \in S, NEW b \in S
  PROVE  Front(<<a, b>>) = <<a>> /\ Last(<<a, b>>) = b
<1> DEFINE q == <<a, b>>
           p == <<a>>
<1>1. q \in Seq(S) /\ q # <<>> /\ p \in Seq(S) /\ Len(q) = 2 /\ Len(p) = 1 /\ q[1] = p[1] /\ q[2] = b
  OBVIOUS
<1> HIDE DEF q, p
<1>5. /\ Front(q) \in Seq(S) /\ Len(Front(q)) = Len(q) - 1 /\ Last(q) = q[Len(q)]
      /\ \A i \in 1 .. Len(q) - 1 : Front(q)[i] = q[i]
  BY <1>1, LastOf
<1>2. Front(q) \in Seq(S) /\ Len(Front(q)) = 1 /\ Front(q)[1] = q[1] /\ Last(q) = q[2]
  BY <1>1, <1>5
<1>3. \A i \in 1 .. 1 : i = 1 OBVIOUS
<1>4. Front(q) = p BY <1>1, <1>2, <1>3, SeqEqual
<1> QED BY <1>1, <1>2, <1>4 DEF q, p

LEMMA FrontOfThree ==
  ASSUME NEW S, NEW a \in S, NEW b \in S, NEW c \in S
  PROVE  Front(<<a, b, c>>) = <<a, b>> /\ Last(<<a, b, c>>) = c
<1> DEFINE q == <<a, b, c>>
           p == <<a, b>>
<1>1. /\ q \in Seq(S) /\ q # <<>> /\ p \in Seq(S) /\ Len(q) = 3 /\ Len(p) = 2
      /\ q[1] = p[1] /\ q[2] = p[2] /\ q[3] = c
  OBVIOUS
<1> HIDE DEF q, p
<1>5. /\ Front(q) \in Seq(S) /\ Len(Front(q)) = Len(q) - 1 /\ Last(q) = q[Len(q)]
      /\ \A i \in 1 .. Len(q) - 1 : Front(q)[i] = q[i]
  BY <1>1, LastOf
<1>2. /\ Front(q) \in Seq(S) /\ Len(Front(q)) = 2 /\ Front(q)[1] = q[1] /\ Front(q)[2] = q[2]
      /\ Last(q) = q[3]
  BY <1>1, <1>5
<1>3. \A i \in 1 .. 2 : i = 1 \/ i = 2 OBVIOUS
<1>4. Front(q) = p BY <1>1, <1>2, <1>3, SeqEqual
<1> QED BY <1>1, <1>2, <1>4 DEF q, p

LEMMA Concats ==
  ASSUME NEW S, NEW s \in Seq(S), NEW a \in S, NEW b \in S
  PROVE  s \o <<a>> = Append(s, a) /\ s \o <<a, b>> = Append(Append(s, a), b)
<1>1. <<a, b>> \in Seq(S) /\ Len(<<a, b>>) = 2 /\ <<a, b>>[1] = a /\ <<a, b>>[2] = b
  OBVIOUS
<1>2. s \o <<a>> = Append(s, a) OBVIOUS
<1>3. s \o <<a, b>> = Append(Append(s, a), b)
  <2>4. /\ Len(s) \in Nat /\ Append(s, a) \in Seq(S) /\ Len(Append(s, a)) = Len(s) + 1
        /\ Append(s, a)[Len(s) + 1] = a /\ \A i \in 1 .. Len(s) : Append(s, a)[i] = s[i]
    BY AppendProperties, LenProperties
  <2> DEFINE v == Append(s, a)
             w == Append(v, b)
             z == s \o <<a, b>>
  <2> HIDE DEF v
  <2>5. /\ w \in Seq(S) /\ Len(w) = Len(v) + 1 /\ w[Len(v) + 1] = b /\ \A i \in 1 .. Len(v) : w[i] = v[i]
    BY <2>4, AppendProperties DEF v
  <2>6. /\ z \in Seq(S) /\ Len(z) = Len(s) + 2
        /\ \A i \in 1 .. Len(s) + 2 : z[i] = IF i <= Len(s) THEN s[i] ELSE <<a, b>>[i - Len(s)]
    BY <1>1, ConcatProperties
  <2> HIDE DEF w, z
  <2>7. ASSUME NEW i \in 1 .. Len(z) PROVE z[i] = w[i]
    <3>1. i \in 1 .. Len(s) \/ i = Len(s) + 1 \/ i = Len(s) + 2 BY <2>4, <2>6
    <3>2. CASE i \in 1 .. Len(s) BY <2>4, <2>5, <2>6, <3>2 DEF v
    <3>3. CASE i = Len(s) + 1 BY <1>1, <2>4, <2>5, <2>6, <3>3 DEF v
    <3>4. CASE i = Len(s) + 2 BY <1>1, <2>4, <2>5, <2>6, <3>4 DEF v
    <3> QED BY <3>1, <3>2, <3>3, <3>4
  <2>8. Len(z) = Len(w) BY <2>4, <2>5, <2>6 DEF v
  <2>9. z = w BY <2>5, <2>6, <2>7, <2>8, SeqEqual
  <2> QED BY <2>9 DEF z, w, v
<1> QED BY <1>2, <1>3

\* A node stands for a namespace, if there is one and the way stays in the container.
StandsFor(r, there, at) ==
  LET way == WayTo(m_nodes_container)
  IN \/ r = BadId
     \/ r = NotFound /\ ~(there /\ at \in Range(way))
     \/ r \in 1 .. Len(m_nodes_container) /\ there /\ at \in Range(way) /\ way[r] = at

LEMMA ChildStands ==
  ASSUME Tree(m_nodes_container), NEW r, NEW there \in BOOLEAN, NEW at, NEW n \in AllNames,
         StandsFor(r, there, at), r = NotFound => ~there
  PROVE  StandsFor(Child(r, n), there, Append(at, n))
<1> DEFINE t == m_nodes_container
           way == WayTo(t)
<1>1. Root = 1 /\ BadId = 0 /\ NotFound = -1 /\ Len(t) \in Nat /\ DOMAIN way = 1 .. Len(t)
  BY TreeDef, SeqDomain, WayIs DEF Tree, Root, BadId, NotFound
<1>2. CASE r = BadId
  <2>1. Child(r, n) = BadId BY <1>1, <1>2 DEF Child
  <2> QED BY <2>1 DEF StandsFor
<1>3. CASE r = NotFound
  <2>1. Child(r, n) = NotFound BY <1>1, <1>3 DEF Child
  <2> QED BY <1>3, <2>1 DEF StandsFor
<1>4. CASE r \in 1 .. Len(t) /\ there /\ at \in Range(way) /\ way[r] = at
  <2>1. /\ Append(at, n) \in Range(way) <=> n \in DOMAIN t[r].nodes
        /\ n \in DOMAIN t[r].nodes => way[t[r].nodes[n]] = Append(at, n)
    BY <1>4, NamespaceIs
  <2>2. Child(r, n) = IF n \in DOMAIN t[r].nodes THEN t[r].nodes[n] ELSE NotFound
    BY <1>1, <1>4 DEF Child
  <2>3. n \in DOMAIN t[r].nodes => t[r].nodes[n] \in 1 .. Len(t) BY <1>4, ChildOf
  <2> HIDE DEF t, way
  <2>4. CASE n \in DOMAIN t[r].nodes BY <1>4, <2>1, <2>2, <2>3, <2>4 DEF StandsFor, t, way
  <2>5. CASE n \notin DOMAIN t[r].nodes BY <1>4, <2>1, <2>2, <2>5 DEF StandsFor, t, way
  <2> QED BY <2>4, <2>5
<1> QED BY <1>2, <1>3, <1>4 DEF StandsFor

\* The places that the first name of a qualified name may mean, and the one it does.
Places(a) == {p \in Meant!Around : Append(p, a) \in Range(WayTo(m_nodes_container))}
There(a) == a = GlobalName \/ Places(a) # {}
FirstPlace(a) == IF a = GlobalName THEN <<>> ELSE Append(Meant!Innermost(Places(a)), a)

LEMMA FirstStands ==
  ASSUME IInv, merging = <<>>, NEW a \in AllNames \union {GlobalName}
  PROVE  /\ StandsFor(FirstNode(a), There(a), FirstPlace(a))
         /\ FirstNode(a) = NotFound => ~There(a)
         /\ There(a) /\ a # GlobalName /\ FirstNode(a) # BadId => Meant!Innermost(Places(a)) \in Seq(AllNames)
<1> DEFINE t == m_nodes_container
           N == Len(t)
           way == WayTo(t)
           r == climb(HaveChild(a))
<1>1. /\ Tree(t) /\ current_node \in 1 .. N /\ m_current_nodes_path \in Seq(1 .. N)
      /\ Meant!Around = Prefixes(way[current_node])
  BY HereIs
<1>2. /\ Root = 1 /\ BadId = 0 /\ NotFound = -1 /\ N \in Nat /\ N >= 1 /\ DOMAIN way = 1 .. N
      /\ way[Root] = <<>> /\ DOMAIN t = 1 .. N /\ \A i \in 1 .. N : way[i] \in Seq(AllNames)
  BY <1>1, TreeDef, SeqDomain, WayTyped DEF Tree, Root, BadId, NotFound
<1>3. CASE a = GlobalName
  <2>1. FirstNode(a) = Root /\ There(a) /\ FirstPlace(a) = <<>> BY <1>3 DEF FirstNode, There, FirstPlace
  <2>2. Root \in 1 .. N /\ <<>> \in Range(way) BY <1>2 DEF Range
  <2>3. Root # NotFound BY <1>2
  <2> HIDE DEF way, t
  <2> QED BY <1>2, <1>3, <2>1, <2>2, <2>3 DEF StandsFor, way, t
<1>4. CASE a # GlobalName
  <2> DEFINE nodes == HaveChild(a)
             places == Places(a)
  <2>0. a \in AllNames BY <1>4
  <2>1. nodes \subseteq 1 .. N BY <1>2 DEF HaveChild
  <2>2. places \subseteq Prefixes(way[current_node]) BY <1>1 DEF Places
  <2>3. \A j \in 1 .. N : way[j] \in Prefixes(way[current_node]) => (j \in nodes <=> way[j] \in places)
    <3> TAKE j \in 1 .. N
    <3> HAVE way[j] \in Prefixes(way[current_node])
    <3>1. Append(way[j], a) \in Range(way) <=> a \in DOMAIN t[j].nodes BY <1>1, <2>0, NamespaceIs
    <3> HIDE DEF way, t
    <3> QED BY <1>1, <1>2, <3>1 DEF HaveChild, Places, t, way
  <2>4. Nearest(nodes, current_node, r) BY <1>1, <2>1, ClimbNearest
  <2> HIDE DEF nodes, places, r
  <2>5. /\ Around(t, nodes, current_node) = {} => places = {}
        /\ Innermost(t, nodes, current_node, r) =>
             /\ way[r] \in places /\ r \in 1 .. N
             /\ (CHOOSE p \in places : \A q \in places : Len(q) <= Len(p)) = way[r]
    BY <1>1, <2>1, <2>2, <2>3, PlacesAre
  <2>6. FirstNode(a) = Child(r, a) /\ (There(a) <=> places # {})
    BY <1>4 DEF FirstNode, There, nodes, places, r
  <2>7. CASE r = BadId
    <3>1. Child(r, a) = BadId BY <1>2, <2>7 DEF Child
    <3>2. FirstNode(a) = BadId /\ BadId # NotFound BY <1>2, <2>6, <3>1
    <3> QED BY <3>2 DEF StandsFor
  <2>8. CASE r = NotFound /\ Around(t, nodes, current_node) = {}
    <3>0. r < Root BY <1>2, <2>8
    <3>1. Child(r, a) = NotFound /\ ~There(a) BY <3>0, <2>5, <2>6, <2>8 DEF Child
    <3> QED BY <2>6, <3>1 DEF StandsFor
  <2>9. CASE Innermost(t, nodes, current_node, r)
    <3>1. Meant!Innermost(places) = way[r] /\ r \in 1 .. N /\ places # {}
      BY <2>5, <2>9 DEF Meant!Innermost
    <3>2. FirstPlace(a) = Append(way[r], a) /\ There(a) BY <1>4, <2>6, <3>1 DEF FirstPlace, places
    <3>3. r \in nodes BY <2>9 DEF Innermost, Around
    <3>4. a \in DOMAIN t[r].nodes BY <3>3 DEF nodes, HaveChild
    <3>5. Child(r, a) = t[r].nodes[a] BY <1>2, <3>1, <3>4 DEF Child
    <3>6. t[r].nodes[a] \in 1 .. N BY <1>1, <3>1, <3>4, ChildOf
    <3>7. Append(way[r], a) \in Range(way) /\ way[t[r].nodes[a]] = Append(way[r], a)
      BY <1>1, <2>0, <3>1, <3>4, NamespaceIs
    <3>8. t[r].nodes[a] # NotFound BY <1>2, <3>6
    <3>9. way[r] \in Seq(AllNames) BY <1>2, <3>1
    <3> HIDE DEF way, t
    <3> QED BY <2>6, <3>1, <3>2, <3>5, <3>6, <3>7, <3>8, <3>9 DEF StandsFor, way, t, places
  <2> QED BY <2>4, <2>7, <2>8, <2>9 DEF Nearest
<1> QED BY <1>3, <1>4

LEMMA MeaningAt ==
  ASSUME IInv, merging = <<>>, NEW r, NEW there \in BOOLEAN, NEW at, NEW n, StandsFor(r, there, at)
  PROVE  \/ in_node(r, n).bad
         \/ in_node(r, n).what = IF there /\ at \in Range(WayTo(m_nodes_container))
                                 THEN Meant!DeclaredIn(at, n) ELSE {}
<1>1. \A i \in 1 .. Len(m_nodes_container) :
        Meant!DeclaredIn(WayTo(m_nodes_container)[i], n) = named(m_nodes_container[i].entries, n)
  BY HereIs
<1>2. CASE r = BadId BY <1>2 DEF in_node, outOfBounds, BadId, NotFound
<1>3. CASE r = NotFound /\ ~(there /\ at \in Range(WayTo(m_nodes_container)))
  <2>1. in_node(r, n) = found({}) BY <1>3 DEF in_node, BadId, NotFound
  <2> QED BY <1>3, <2>1 DEF found
<1>4. CASE /\ r \in 1 .. Len(m_nodes_container) /\ there
           /\ at \in Range(WayTo(m_nodes_container)) /\ WayTo(m_nodes_container)[r] = at
  <2>1. in_node(r, n) = found(named(m_nodes_container[r].entries, n))
    BY <1>4 DEF in_node, BadId, NotFound
  <2>2. Meant!DeclaredIn(at, n) = named(m_nodes_container[r].entries, n) BY <1>1, <1>4
  <2> QED BY <1>4, <2>1, <2>2 DEF found
<1> QED BY <1>2, <1>3, <1>4 DEF StandsFor

LEMMA QualifiedByOne ==
  ASSUME IInv, merging = <<>>, NEW a \in AllNames \union {GlobalName}, NEW n \in AllNames
  PROVE  \/ find(<<a, n>>).bad
         \/ find(<<a, n>>).what = Meant!QualifiedMeaning(Front(<<a, n>>), Last(<<a, n>>))
<1> DEFINE S == AllNames \union {GlobalName}
           q == <<a>>
           r == FirstNode(a)
<1>1. Front(<<a, n>>) = q /\ Last(<<a, n>>) = n /\ Tail(q) = <<>>
  <2>1. a \in S /\ n \in S OBVIOUS
  <2> HIDE DEF S
  <2> QED BY <2>1, FrontOfTwo
<1>2. find(<<a, n>>) = in_node(r, n)
  <2>1. Len(<<a, n>>) > 1 OBVIOUS
  <2>2. find(<<a, n>>) = in_node(find_node(q), n) BY <1>1, <2>1 DEF find, find_qualified
  <2> QED BY <2>2, FindNodeIs
<1>3. /\ StandsFor(r, There(a), FirstPlace(a))
      /\ There(a) /\ a # GlobalName /\ r # BadId => Meant!Innermost(Places(a)) \in Seq(AllNames)
  BY FirstStands
<1>4. CASE r = BadId BY <1>2, <1>4 DEF in_node, outOfBounds, BadId, NotFound
<1>5. CASE r # BadId
  <2>1. There(a) => FirstPlace(a) = IF a = GlobalName THEN Tail(q) ELSE Meant!Innermost(Places(a)) \o q
    <3>1. ASSUME There(a), a # GlobalName
          PROVE  Append(Meant!Innermost(Places(a)), a) = Meant!Innermost(Places(a)) \o <<a>>
      <4>1. Meant!Innermost(Places(a)) \in Seq(AllNames) /\ a \in AllNames BY <1>3, <1>5, <3>1
      <4> QED BY <4>1, Concats
    <3> QED BY <1>1, <3>1 DEF FirstPlace
  <2>2. q[1] = a OBVIOUS
  <2> HIDE DEF q
  <2>3. Meant!QualifiedMeaning(q, n) =
          IF There(a) /\ (IF a = GlobalName THEN Tail(q) ELSE Meant!Innermost(Places(a)) \o q)
                           \in Range(WayTo(m_nodes_container))
          THEN Meant!DeclaredIn(IF a = GlobalName THEN Tail(q) ELSE Meant!Innermost(Places(a)) \o q, n)
          ELSE {}
    BY <2>2 DEF Meant!QualifiedMeaning, Places, There
  <2>4. Meant!QualifiedMeaning(q, n) =
          IF There(a) /\ FirstPlace(a) \in Range(WayTo(m_nodes_container))
          THEN Meant!DeclaredIn(FirstPlace(a), n) ELSE {}
    BY <2>1, <2>3
  <2>5. There(a) \in BOOLEAN BY DEF There
  <2> HIDE DEF r
  <2> QED BY <1>1, <1>2, <1>3, <2>4, <2>5, MeaningAt
<1> QED BY <1>4, <1>5

LEMMA QualifiedByTwo ==
  ASSUME IInv, merging = <<>>, NEW a \in AllNames \union {GlobalName}, NEW b \in AllNames, NEW n \in AllNames
  PROVE  \/ find(<<a, b, n>>).bad
         \/ find(<<a, b, n>>).what = Meant!QualifiedMeaning(Front(<<a, b, n>>), Last(<<a, b, n>>))
<1> DEFINE S == AllNames \union {GlobalName}
           q == <<a, b>>
           r == Child(FirstNode(a), b)
           at == Append(FirstPlace(a), b)
<1>1. Front(<<a, b, n>>) = q /\ Last(<<a, b, n>>) = n /\ Tail(q) = Append(<<>>, b)
  <2>1. a \in S /\ b \in S /\ n \in S OBVIOUS
  <2> HIDE DEF S
  <2> QED BY <2>1, FrontOfThree
<1>2. find(<<a, b, n>>) = in_node(r, n)
  <2>1. Len(<<a, b, n>>) > 1 OBVIOUS
  <2>2. find(<<a, b, n>>) = in_node(find_node(q), n) BY <1>1, <2>1 DEF find, find_qualified
  <2> QED BY <2>2, FindNodeIs
<1>3. /\ StandsFor(FirstNode(a), There(a), FirstPlace(a))
      /\ FirstNode(a) = NotFound => ~There(a)
      /\ There(a) /\ a # GlobalName /\ FirstNode(a) # BadId => Meant!Innermost(Places(a)) \in Seq(AllNames)
  BY FirstStands
<1>4. CASE FirstNode(a) = BadId
  <2>1. r = BadId BY <1>4 DEF Child, Root, BadId
  <2> QED BY <1>2, <2>1 DEF in_node, outOfBounds, BadId, NotFound
<1>5. CASE FirstNode(a) # BadId
  <2>0. There(a) \in BOOLEAN /\ Tree(m_nodes_container) BY HereIs DEF There
  <2>6. StandsFor(r, There(a), at) BY <1>3, <2>0, ChildStands
  <2>1. There(a) => at = IF a = GlobalName THEN Tail(q) ELSE Meant!Innermost(Places(a)) \o q
    <3>1. ASSUME There(a), a # GlobalName
          PROVE  at = Meant!Innermost(Places(a)) \o q
      <4>1. Meant!Innermost(Places(a)) \in Seq(AllNames) /\ a \in AllNames BY <1>3, <1>5, <3>1
      <4>2. Meant!Innermost(Places(a)) \o q = Append(Append(Meant!Innermost(Places(a)), a), b)
        BY <4>1, Concats
      <4> QED BY <3>1, <4>2 DEF FirstPlace
    <3>2. a = GlobalName => at = Append(<<>>, b) BY DEF FirstPlace
    <3> QED BY <1>1, <3>1, <3>2
  <2>2. q[1] = a OBVIOUS
  <2> HIDE DEF q, at
  <2>3. Meant!QualifiedMeaning(q, n) =
          IF There(a) /\ (IF a = GlobalName THEN Tail(q) ELSE Meant!Innermost(Places(a)) \o q)
                           \in Range(WayTo(m_nodes_container))
          THEN Meant!DeclaredIn(IF a = GlobalName THEN Tail(q) ELSE Meant!Innermost(Places(a)) \o q, n)
          ELSE {}
    BY <2>2 DEF Meant!QualifiedMeaning, Places, There
  <2>4. Meant!QualifiedMeaning(q, n) =
          IF There(a) /\ at \in Range(WayTo(m_nodes_container)) THEN Meant!DeclaredIn(at, n) ELSE {}
    BY <2>1, <2>3
  <2> HIDE DEF r
  <2> QED BY <1>1, <1>2, <2>0, <2>4, <2>6, MeaningAt
<1> QED BY <1>4, <1>5

\* Lookups that stay in the container find the innermost declaration around the
\* analysis: find_unqualified, find_node and find_qualified, by way of parent_id.
THEOREM LookupsFindInnermost == Spec => []LookupFindsInnermost
<1>1. IInv => LookupFindsInnermost
  <2> SUFFICES ASSUME IInv, merging = <<>>
               PROVE  /\ \A n \in AllNames : find(<<n>>).bad \/ find(<<n>>).what = Meant!Meaning(n)
                      /\ \A q \in Qualified :
                           \/ find(q).bad
                           \/ find(q).what = Meant!QualifiedMeaning(Front(q), Last(q))
    BY DEF LookupFindsInnermost
  <2>1. ASSUME NEW n \in AllNames PROVE find(<<n>>).bad \/ find(<<n>>).what = Meant!Meaning(n)
    <3>1. find(<<n>>) = find_unqualified(n)
      <4>1. ~(Len(<<n>>) > 1) /\ <<n>>[1] = n OBVIOUS
      <4> QED BY <4>1 DEF find
    <3>2. m_local_nodes \in Seq(SUBSET Entry) BY DEF IInv, Typed
    <3> QED BY <3>1, <3>2, Unqualified
  <2>2. ASSUME NEW q \in Qualified
        PROVE  find(q).bad \/ find(q).what = Meant!QualifiedMeaning(Front(q), Last(q))
    <3>1. First \subseteq AllNames \union {GlobalName} /\ Names \subseteq AllNames
      BY DEF First, Qualifiers, AllNames
    <3>2. CASE q \in { <<a, n>> : a \in First, n \in AllNames }
      <4>1. PICK a \in First, n \in AllNames : q = <<a, n>> BY <3>2
      <4>2. a \in AllNames \union {GlobalName} BY <3>1
      <4> QED BY <4>1, <4>2, QualifiedByOne
    <3>3. CASE q \in { <<a, b, n>> : a \in First, b \in Names, n \in AllNames }
      <4>1. PICK a \in First, b \in Names, n \in AllNames : q = <<a, b, n>> BY <3>3
      <4>2. a \in AllNames \union {GlobalName} /\ b \in AllNames BY <3>1
      <4> QED BY <4>1, <4>2, QualifiedByTwo
    <3> QED BY <3>2, <3>3 DEF Qualified
  <2> QED BY <2>1, <2>2
<1> QED BY <1>1, NamesInductive, PTL

----------------------------------------------------------------------------
\* How the tree reads when it grows.
LEMMA WaysKept ==
  ASSUME NEW t, NEW t2, Tree(t), Tree(t2), Extends(t, t2), NEW i \in 1 .. Len(t)
  PROVE  i \in 1 .. Len(t2) /\ WayTo(t2)[i] = WayTo(t)[i]
<1> DEFINE T == {k \in 1 .. Len(t) : WayTo(t2)[k] = WayTo(t)[k]}
<1>1. Len(t) \in Nat /\ Len(t2) \in Nat /\ \A k \in 1 .. Len(t) : k \in 1 .. Len(t2)
  BY TreeStays DEF Extends
<1>2. ASSUME NEW k \in 1 .. Len(t), \A j \in 1 .. k - 1 : j \in T PROVE k \in T
  <2>1. CASE k = Root BY <2>1, WayTyped
  <2>2. CASE k # Root
    <3> DEFINE p == Over(t, k)
               n == t[k].name
    <3>1. /\ p \in 1 .. k - 1 /\ p \in 1 .. Len(t) /\ n \in DOMAIN t[p].nodes
          /\ t[p].nodes[n] = k
      BY <2>2, OverIs
    <3>2. /\ n \in DOMAIN t2[p].nodes /\ t2[p].nodes[n] = k /\ t2[k].name = n
      BY <3>1 DEF Extends
    <3> HIDE DEF p, n
    <3>3. Over(t2, k) = p BY <1>1, <3>1, <3>2, ChildOf
    <3>4. WayTo(t2)[k] = Append(WayTo(t2)[p], n) 
      <4>1. k \in 1 .. Len(t2) \ {Root} BY <1>1, <2>2
      <4> QED BY <3>2, <3>3, <4>1, WayTyped
    <3>5. WayTo(t)[k] = Append(WayTo(t)[p], n) BY <2>2, WayTyped DEF p, n
    <3>6. p \in T BY <1>2, <3>1
    <3> QED BY <3>4, <3>5, <3>6
  <2> QED BY <2>1, <2>2
<1>3. \A k \in 1 .. Len(t) : k \in T
  <2> HIDE DEF T
  <2> QED BY <1>1, <1>2, SetInduction
<1> QED BY <1>1, <1>3

LEMMA WaysSame ==
  ASSUME NEW t, NEW t2, Tree(t), Tree(t2), Extends(t, t2), Len(t2) = Len(t)
  PROVE  Range(WayTo(t2)) = Range(WayTo(t)) /\ \A i \in 1 .. Len(t) : WayTo(t2)[i] = WayTo(t)[i]
<1>1. DOMAIN WayTo(t) = 1 .. Len(t) /\ DOMAIN WayTo(t2) = 1 .. Len(t) BY WayTyped
<1>2. \A i \in 1 .. Len(t) : WayTo(t2)[i] = WayTo(t)[i] BY WaysKept
<1> QED BY <1>1, <1>2 DEF Range

\* Entries that are added to a node are declared in its namespace.
LEMMA EntriesDeclared ==
  ASSUME NEW t, Tree(t), NEW i \in 1 .. Len(t), NEW s \in SUBSET Entry, NEW f,
         \A e \in s : e.exported => e.what[1] = f
  PROVE  /\ Range(WayTo(WithEntries(t, i, s))) = Range(WayTo(t))
         /\ \A j \in 1 .. Len(t) : WayTo(WithEntries(t, i, s))[j] = WayTo(t)[j]
         /\ DeclaredBy(WithEntries(t, i, s)) = DeclaredBy(t) \union { Declaration(t, i, e) : e \in s }
<1> DEFINE t2 == WithEntries(t, i, s)
           node == [t[i] EXCEPT !.entries = t[i].entries \union s]
<1>1. t \in Seq(Range(t)) /\ DOMAIN t = 1 .. Len(t) BY TreeDef, SeqDomain DEF Tree
<1>2. DOMAIN t[i] = {"name", "parent", "nodes", "entries"} BY TreeDef DEF Tree
<1>3. t2 = [t EXCEPT ![i] = node] BY DEF WithEntries
<1>4. DOMAIN t2 = 1 .. Len(t) /\ \A j \in 1 .. Len(t) : t2[j] = IF j = i THEN node ELSE t[j]
  BY <1>1, <1>3
<1>5. node.entries = t[i].entries \union s BY <1>2
<1> HIDE DEF node
<1>7. Tree(t2) /\ Extends(t, t2) BY EntriesAdded DEF t2
<1>8. Len(t2) = Len(t)
  <2>1. DOMAIN t2 = 1 .. Len(t2) /\ Len(t2) \in Nat /\ Len(t) \in Nat BY <1>7, TreeDef, SeqDomain DEF Tree
  <2> HIDE DEF t2
  <2> QED BY <1>4, <2>1
<1> HIDE DEF t2
<1>9. Range(WayTo(t2)) = Range(WayTo(t)) /\ \A j \in 1 .. Len(t) : WayTo(t2)[j] = WayTo(t)[j]
  BY <1>7, <1>8, WaysSame
<1>10. \A j \in 1 .. Len(t) : \A e : Declaration(t2, j, e) = Declaration(t, j, e)
  BY <1>9 DEF Declaration
<1>11. ASSUME NEW d PROVE d \in DeclaredBy(t2) <=> d \in DeclaredBy(t) \/ \E e \in s : d = Declaration(t, i, e)
  <2>1. d \in DeclaredBy(t2) <=> \E j \in 1 .. Len(t) : \E e \in t2[j].entries : d = Declaration(t, j, e)
    BY <1>7, <1>8, <1>10, DeclaredIs
  <2>2. d \in DeclaredBy(t) <=> \E j \in 1 .. Len(t) : \E e \in t[j].entries : d = Declaration(t, j, e)
    BY DeclaredIs
  <2>3. \A j \in 1 .. Len(t) : \A e : e \in t2[j].entries <=> e \in t[j].entries \/ (j = i /\ e \in s)
    BY <1>4, <1>5
  <2> QED BY <2>1, <2>2, <2>3
<1>12. DeclaredBy(t2) = DeclaredBy(t) \union { Declaration(t, i, e) : e \in s }
  BY <1>11
<1> QED BY <1>9, <1>12 DEF t2

LEMMA GrownReads ==
  ASSUME NEW t, NEW t2, Tree(t), Tree(t2), Extends(t, t2), NoEntries(t, t2),
         NEW id \in 1 .. Len(t2), \A i \in 1 .. Len(t2) : i \in 1 .. Len(t) \/ i = id,
         \A i \in 1 .. Len(t) : t2[i].entries = t[i].entries
  PROVE  /\ Range(WayTo(t2)) = Range(WayTo(t)) \union {WayTo(t2)[id]}
         /\ DeclaredBy(t2) = DeclaredBy(t)
<1>1. DOMAIN WayTo(t) = 1 .. Len(t) /\ DOMAIN WayTo(t2) = 1 .. Len(t2) BY WayTyped
<1>2. \A i \in 1 .. Len(t) : i \in 1 .. Len(t2) /\ WayTo(t2)[i] = WayTo(t)[i] BY WaysKept
<1>3. Range(WayTo(t2)) = Range(WayTo(t)) \union {WayTo(t2)[id]}
  <2> DEFINE v == WayTo(t)
             w == WayTo(t2)
  <2>1. DOMAIN v = 1 .. Len(t) /\ DOMAIN w = 1 .. Len(t2) BY <1>1
  <2>2. \A i \in 1 .. Len(t) : i \in 1 .. Len(t2) /\ w[i] = v[i] BY <1>2
  <2> HIDE DEF v, w
  <2>3. Range(w) = Range(v) \union {w[id]} BY <2>1, <2>2 DEF Range
  <2> QED BY <2>3 DEF v, w
<1>4. \A i \in 1 .. Len(t) : \A e : Declaration(t2, i, e) = Declaration(t, i, e)
  BY <1>2 DEF Declaration
<1>5. ASSUME NEW d PROVE d \in DeclaredBy(t2) <=> d \in DeclaredBy(t)
  <2>1. d \in DeclaredBy(t) <=> \E i \in 1 .. Len(t) : \E e \in t[i].entries : d = Declaration(t, i, e)
    BY DeclaredIs
  <2>2. d \in DeclaredBy(t2) <=> \E i \in 1 .. Len(t2) : \E e \in t2[i].entries : d = Declaration(t2, i, e)
    BY DeclaredIs
  <2>3. \A i \in 1 .. Len(t2) : \A e \in t2[i].entries : i \in 1 .. Len(t) BY DEF NoEntries
  <2> QED BY <1>2, <1>4, <2>1, <2>2, <2>3
<1>6. DeclaredBy(t2) = DeclaredBy(t) BY <1>5
<1> QED BY <1>3, <1>6

\* A node that is entered stands for the namespace right below the one the path is in.
LEMMA EnteredReads ==
  ASSUME Tree(m_nodes_container), m_current_nodes_path \in Seq(1 .. Len(m_nodes_container)),
         NEW n \in AllNames, NEW t2, t2 = entered(n).container, NEW id, id = entered(n).id
  PROVE  /\ WayTo(t2)[id] = Append(WayTo(m_nodes_container)[current_node], n)
         /\ Range(WayTo(t2)) = Range(WayTo(m_nodes_container)) \union {WayTo(t2)[id]}
         /\ DeclaredBy(t2) = DeclaredBy(m_nodes_container)
<1> DEFINE t == m_nodes_container
           at == current_node
<1>0. Tree(t) OBVIOUS
<1>1. /\ Tree(t2) /\ Extends(t, t2) /\ NoEntries(t, t2) /\ id \in 1 .. Len(t2)
      /\ n \in DOMAIN t2[at].nodes /\ t2[at].nodes[n] = id
  BY EnteredNode
<1>2. at \in 1 .. Len(t) /\ Len(t) \in Nat BY CurrentNode, TreeStays
<1>3. at \in 1 .. Len(t2) /\ WayTo(t2)[at] = WayTo(t)[at] BY <1>1, <1>2, WaysKept
<1>4. WayTo(t2)[id] = Append(WayTo(t)[at], n) BY <1>1, <1>3, NamespaceIs
<1>5. /\ Len(t2) = Len(t) \/ (Len(t2) = Len(t) + 1 /\ id = Len(t) + 1)
      /\ \A i \in 1 .. Len(t) : t2[i].entries = t[i].entries
  <2>1. CASE n \in DOMAIN t[at].nodes
    <3>1. t2 = t BY <2>1 DEF entered
    <3> QED BY <3>1
  <2>2. CASE n \notin DOMAIN t[at].nodes
    <3>1. Adds(t, t2, at, n) /\ id = Len(t) + 1 BY <2>2, EnteredAdds
    <3> HIDE DEF t, at
    <3> QED BY <1>2, <3>1 DEF Adds
  <2> QED BY <2>1, <2>2
<1> HIDE DEF t, at
<1>6. \A i \in 1 .. Len(t2) : i \in 1 .. Len(t) \/ i = id BY <1>2, <1>5
<1>7. Range(WayTo(t2)) = Range(WayTo(t)) \union {WayTo(t2)[id]} /\ DeclaredBy(t2) = DeclaredBy(t)
  BY <1>0, <1>1, <1>5, <1>6, GrownReads
<1> QED BY <1>4, <1>7 DEF t, at

LEMMA DeclaredHere ==
  ASSUME NEW t, Tree(t), NEW i \in 1 .. Len(t), NEW d
  PROVE  d \in DeclaredBy(t) /\ d.at = WayTo(t)[i] <=> \E e \in t[i].entries : d = Declaration(t, i, e)
<1>1. ASSUME d \in DeclaredBy(t), d.at = WayTo(t)[i] PROVE \E e \in t[i].entries : d = Declaration(t, i, e)
  <2>1. PICK j \in 1 .. Len(t) : \E e \in t[j].entries : d = Declaration(t, j, e) BY <1>1, DeclaredIs
  <2>2. WayTo(t)[j] = WayTo(t)[i] BY <1>1, <2>1 DEF Declaration
  <2>3. j = i BY <2>2, WayOne
  <2> QED BY <2>1, <2>3
<1>2. ASSUME NEW e \in t[i].entries, d = Declaration(t, i, e)
      PROVE  d \in DeclaredBy(t) /\ d.at = WayTo(t)[i]
  <2>1. d \in DeclaredBy(t) BY <1>2, DeclaredIs
  <2> QED BY <1>2, <2>1 DEF Declaration
<1> QED BY <1>1, <1>2

\* Merging a node imports the namespace it stands for.
Offer(lib, at) == {d \in DeclaredBy(lib) : d.at = at}
Taken(t, lib, at) ==
  {d \in Offer(lib, at) : \E old \in DeclaredBy(t) : old.at = at /\ old.name = d.name}
Brings(t, lib, at) == {[d EXCEPT !.exported = FALSE] : d \in Offer(lib, at) \ Taken(t, lib, at)}

LEMMA Unexported ==
  ASSUME NEW a, NEW n, NEW w, NEW x, NEW d, d = [at |-> a, name |-> n, what |-> w, exported |-> x]
  PROVE  [d EXCEPT !.exported = FALSE] = [at |-> a, name |-> n, what |-> w, exported |-> FALSE]
<1>1. \A y : [d EXCEPT !.exported = y] = [at |-> a, name |-> n, what |-> w, exported |-> y]
  OBVIOUS
<1> QED BY Zenon, <1>1

LEMMA MergedReads ==
  ASSUME NEW t, Tree(t), NEW into \in 1 .. Len(t), NEW lib, Tree(lib), NEW id \in 1 .. Len(lib),
         merged(t, into, lib[id]), NEW at, at = WayTo(t)[into], at = WayTo(lib)[id]
  PROVE  /\ Range(WayTo(m_nodes_container')) = Range(WayTo(t))
         /\ \A i \in 1 .. Len(t) : WayTo(m_nodes_container')[i] = WayTo(t)[i]
         /\ DeclaredBy(m_nodes_container') = DeclaredBy(t) \union Brings(t, lib, at)
         /\ failed' = (failed \/ Taken(t, lib, at) # {})
<1> DEFINE from == lib[id].entries
           taken == {e \in from : \E old \in t[into].entries : old.name = e.name}
           new == { imported_entry(e) : e \in from \ taken }
           D(e) == Declaration(lib, id, e)
           E(e) == Declaration(t, into, e)
<1>1. m_nodes_container' = WithEntries(t, into, new) /\ failed' = (failed \/ taken # {})
  BY DEF merged, WithEntries
<1>2. from \subseteq Entry BY TreeDef DEF Tree
<1>3. new \in SUBSET Entry /\ \A e \in new : e.exported => e.what[1] = 0
  BY <1>2, EntryImported
<1>4. ASSUME NEW e \in from
      PROVE  E(imported_entry(e)) = [D(e) EXCEPT !.exported = FALSE] /\ D(e).name = e.name
  <2> DEFINE x == imported_entry(e)
  <2>1. x.name = e.name /\ x.what = e.what /\ x.exported = FALSE
    BY <1>2 DEF imported_entry, Entry
  <2> HIDE DEF x
  <2>2. E(x) = [at |-> at, name |-> e.name, what |-> e.what, exported |-> FALSE]
    BY <2>1 DEF Declaration
  <2>3. D(e) = [at |-> at, name |-> e.name, what |-> e.what, exported |-> e.exported]
    BY DEF Declaration
  <2> HIDE DEF D, E
  <2>4. D(e).name = e.name BY <2>3
  <2>5. [D(e) EXCEPT !.exported = FALSE] = E(x) BY <2>2, <2>3, Unexported
  <2> QED BY <2>4, <2>5 DEF x
<1>5. \A d : d \in Offer(lib, at) <=> \E e \in from : d = D(e) BY DeclaredHere DEF Offer
<1>6. ASSUME NEW d PROVE d \in DeclaredBy(t) /\ d.at = at <=> \E e \in t[into].entries : d = E(e)
  <2>1. d \in DeclaredBy(t) /\ d.at = WayTo(t)[into] <=>
          \E e \in t[into].entries : d = Declaration(t, into, e)
    BY DeclaredHere
  <2> QED BY <2>1
<1>7. \A e : E(e).name = e.name BY DEF Declaration
<1>8. /\ Range(WayTo(WithEntries(t, into, new))) = Range(WayTo(t))
      /\ \A j \in 1 .. Len(t) : WayTo(WithEntries(t, into, new))[j] = WayTo(t)[j]
      /\ DeclaredBy(WithEntries(t, into, new)) = DeclaredBy(t) \union { E(e) : e \in new }
  <2> HIDE DEF new
  <2> QED BY <1>3, EntriesDeclared
<1> HIDE DEF D, E, from
<1>9. \A e \in from : e \in taken <=> \E old \in DeclaredBy(t) : old.at = at /\ old.name = e.name
  BY <1>6, <1>7
<1>10. \A e \in from : e \in taken <=> D(e) \in Taken(t, lib, at)
  BY <1>4, <1>5, <1>9 DEF Taken
<1>11. Taken(t, lib, at) # {} <=> taken # {}
  <2>1. \A d \in Taken(t, lib, at) : \E e \in from : d = D(e) BY <1>5 DEF Taken
  <2> QED BY <1>10, <2>1
<1>12. { E(e) : e \in new } = Brings(t, lib, at)
  <2>1. \A e \in from \ taken : D(e) \in Offer(lib, at) \ Taken(t, lib, at) BY <1>5, <1>10
  <2>2. \A d \in Offer(lib, at) \ Taken(t, lib, at) : \E e \in from \ taken : d = D(e) BY <1>5, <1>10
  <2> HIDE DEF taken
  <2>3. ASSUME NEW x \in new PROVE E(x) \in Brings(t, lib, at)
    <3>1. PICK e \in from \ taken : x = imported_entry(e) OBVIOUS
    <3> QED BY <1>4, <2>1, <3>1 DEF Brings
  <2>4. ASSUME NEW y \in Brings(t, lib, at) PROVE \E x \in new : y = E(x)
    <3>1. PICK d \in Offer(lib, at) \ Taken(t, lib, at) : y = [d EXCEPT !.exported = FALSE] BY DEF Brings
    <3>2. PICK e \in from \ taken : d = D(e) BY <2>2, <3>1
    <3>3. y = E(imported_entry(e)) /\ imported_entry(e) \in new BY <1>4, <3>1, <3>2
    <3> QED BY <3>3
  <2> QED BY <2>3, <2>4
<1> HIDE DEF taken, new
<1> QED BY <1>1, <1>8, <1>11, <1>12

\* The blocks, as the abstract specification has them.
Shown(nodes) ==
  [i \in DOMAIN nodes |-> { [name |-> e.name, what |-> e.what] : e \in nodes[i] }]
Shows == SUBSET [name : AllNames, what : Seq(Nat)]

LEMMA ShownIs ==
  ASSUME NEW l \in Seq(SUBSET Entry)
  PROVE  /\ Shown(l) \in Seq(Shows) /\ Len(Shown(l)) = Len(l) /\ Len(l) \in Nat
         /\ \A i \in 1 .. Len(l) : Shown(l)[i] = { [name |-> e.name, what |-> e.what] : e \in l[i] }
         /\ Shown(l) = <<>> <=> l = <<>>
<1>1. DOMAIN l = 1 .. Len(l) /\ Len(l) \in Nat BY SeqDomain
<1>2. ASSUME NEW i \in 1 .. Len(l) PROVE { [name |-> e.name, what |-> e.what] : e \in l[i] } \in Shows
  <2>1. l[i] \in SUBSET Entry BY ElementOfSeq
  <2> QED BY <2>1 DEF Entry, Shows
<1>3. Shown(l) \in [1 .. Len(l) -> Shows] BY <1>1, <1>2 DEF Shown
<1>4. Shown(l) \in Seq(Shows) /\ Len(Shown(l)) = Len(l)
  <2> DEFINE s == Shown(l)
  <2>1. s \in [1 .. Len(l) -> Shows] BY <1>3
  <2> HIDE DEF s
  <2>2. s \in Seq(Shows) /\ Len(s) = Len(l) BY <1>1, <2>1
  <2> QED BY <2>2 DEF s
<1>5. \A i \in 1 .. Len(l) : Shown(l)[i] = { [name |-> e.name, what |-> e.what] : e \in l[i] }
  BY <1>1 DEF Shown
<1>6. Shown(l) = <<>> <=> l = <<>> BY <1>4, SeqDomain
<1> QED BY <1>1, <1>4, <1>5, <1>6

LEMMA ShownMore ==
  ASSUME NEW l \in Seq(SUBSET Entry)
  PROVE  Shown(Append(l, {})) = Append(Shown(l), {})
<1> DEFINE m == Append(l, {})
           s == Shown(l)
           u == Append(s, {})
<1>1. {} \in SUBSET Entry /\ {} \in Shows BY DEF Shows
<1>2. /\ m \in Seq(SUBSET Entry) /\ Len(m) = Len(l) + 1 /\ m[Len(l) + 1] = {}
      /\ \A i \in 1 .. Len(l) : m[i] = l[i]
  BY <1>1, AppendProperties
<1>3. s \in Seq(Shows) /\ Len(s) = Len(l) /\ Len(l) \in Nat
      /\ \A i \in 1 .. Len(l) : s[i] = { [name |-> e.name, what |-> e.what] : e \in l[i] }
  BY ShownIs
<1> HIDE DEF m, s
<1>4. /\ u \in Seq(Shows) /\ Len(u) = Len(s) + 1 /\ u[Len(s) + 1] = {}
      /\ \A i \in 1 .. Len(s) : u[i] = s[i]
  BY <1>1, <1>3, AppendProperties
<1>5. Shown(m) \in Seq(Shows) /\ Len(Shown(m)) = Len(m)
      /\ \A i \in 1 .. Len(m) : Shown(m)[i] = { [name |-> e.name, what |-> e.what] : e \in m[i] }
  BY <1>2, ShownIs
<1> HIDE DEF u
<1>6. ASSUME NEW i \in 1 .. Len(u) PROVE Shown(m)[i] = u[i]
  <2>1. i \in 1 .. Len(l) \/ i = Len(l) + 1 BY <1>3, <1>4
  <2>2. i \in 1 .. Len(m) BY <1>2, <1>3, <1>4
  <2>3. CASE i \in 1 .. Len(l) BY <1>2, <1>3, <1>4, <1>5, <2>2, <2>3
  <2>4. CASE i = Len(l) + 1
    <3>1. m[i] = {} /\ u[i] = {} BY <1>2, <1>3, <1>4, <2>4
    <3>2. Shown(m)[i] = {} BY <1>5, <2>2, <3>1
    <3> QED BY <3>1, <3>2
  <2> QED BY <2>1, <2>3, <2>4
<1>7. Shown(m) = u BY <1>2, <1>3, <1>4, <1>5, <1>6, SeqEqual
<1> QED BY <1>7 DEF u, m, s

LEMMA ShownLess ==
  ASSUME NEW l \in Seq(SUBSET Entry), l # <<>>
  PROVE  Shown(Front(l)) = Front(Shown(l))
<1> DEFINE m == Front(l)
           s == Shown(l)
           u == Front(s)
<1>1. /\ Len(l) \in Nat /\ Len(l) > 0 /\ m \in Seq(SUBSET Entry) /\ Len(m) = Len(l) - 1
      /\ \A i \in 1 .. Len(l) - 1 : m[i] = l[i]
  BY LastOf
<1>2. s \in Seq(Shows) /\ Len(s) = Len(l) /\ s # <<>>
      /\ \A i \in 1 .. Len(l) : s[i] = { [name |-> e.name, what |-> e.what] : e \in l[i] }
  BY ShownIs
<1> HIDE DEF m, s
<1>3. u \in Seq(Shows) /\ Len(u) = Len(s) - 1 /\ \A i \in 1 .. Len(s) - 1 : u[i] = s[i]
  BY <1>2, LastOf
<1>4. Shown(m) \in Seq(Shows) /\ Len(Shown(m)) = Len(m)
      /\ \A i \in 1 .. Len(m) : Shown(m)[i] = { [name |-> e.name, what |-> e.what] : e \in m[i] }
  BY <1>1, ShownIs
<1> HIDE DEF u
<1>5. ASSUME NEW i \in 1 .. Len(u) PROVE Shown(m)[i] = u[i]
  <2>1. i \in 1 .. Len(l) /\ i \in 1 .. Len(l) - 1 /\ i \in 1 .. Len(m) /\ i \in 1 .. Len(s) - 1
    BY <1>1, <1>2, <1>3
  <2> QED BY <1>1, <1>2, <1>3, <1>4, <2>1
<1>6. Shown(m) = u BY <1>1, <1>2, <1>3, <1>4, <1>5, SeqEqual
<1> QED BY <1>6 DEF u, m, s

LEMMA ShownChanged ==
  ASSUME NEW l \in Seq(SUBSET Entry), l # <<>>, NEW e \in Entry,
         NEW m, m = [l EXCEPT ![Len(l)] = l[Len(l)] \union {e}]
  PROVE  Shown(m) = [Shown(l) EXCEPT ![Len(Shown(l))] = @ \union {[name |-> e.name, what |-> e.what]}]
<1> DEFINE s == Shown(l)
           n == Len(l)
           h(x) == [name |-> x.name, what |-> x.what]
           u == [s EXCEPT ![n] = s[n] \union {h(e)}]
<1>1. n \in Nat /\ n > 0 /\ n \in 1 .. n BY LastOf
<1>2. s \in Seq(Shows) /\ Len(s) = n /\ \A i \in 1 .. n : s[i] = { h(x) : x \in l[i] }
  BY ShownIs
<1>3. l[n] \union {e} \in SUBSET Entry BY <1>1, ElementOfSeq
<1>4. /\ m \in Seq(SUBSET Entry) /\ Len(m) = n
      /\ \A i \in 1 .. n : m[i] = IF i = n THEN l[n] \union {e} ELSE l[i]
  BY <1>1, <1>3, ExceptSeq
<1>5. Shown(m) \in Seq(Shows) /\ Len(Shown(m)) = n /\ \A i \in 1 .. n : Shown(m)[i] = { h(x) : x \in m[i] }
  BY <1>4, ShownIs
<1>6. s[n] \union {h(e)} \in Shows
  <2>1. s[n] \in Shows BY <1>1, <1>2, ElementOfSeq
  <2> QED BY <2>1 DEF Shows, Entry
<1> HIDE DEF s, h
<1>7. u \in Seq(Shows) /\ Len(u) = n /\ \A i \in 1 .. n : u[i] = IF i = n THEN s[n] \union {h(e)} ELSE s[i]
  BY <1>1, <1>2, <1>6, ExceptSeq
<1> HIDE DEF u
<1>8. ASSUME NEW i \in 1 .. n PROVE Shown(m)[i] = u[i]
  <2>1. CASE i = n
    <3>1. Shown(m)[i] = { h(x) : x \in l[n] \union {e} } BY <1>4, <1>5, <2>1
    <3>2. u[i] = { h(x) : x \in l[n] } \union {h(e)} BY <1>1, <1>2, <1>7, <2>1
    <3> QED BY <3>1, <3>2
  <2>2. CASE i # n BY <1>2, <1>4, <1>5, <1>7, <2>2
  <2> QED BY <2>1, <2>2
<1>9. Shown(m) = u BY <1>5, <1>7, <1>8, SeqEqual
<1> QED BY <1>2, <1>9 DEF u, s, h

----------------------------------------------------------------------------
\* Where the analysis is, and what files offer, as the abstract specification has them.
Here == WayTo(m_nodes_container)[Last(IF merging = <<>> THEN m_current_nodes_path ELSE backup)]
Lib == [f \in FileIds |-> [declared |-> DeclaredBy(exported[f]),
                           namespaces |-> Range(WayTo(exported[f]))]]

\* What is declared next has not been declared before.
Unused ==
  \A i \in 1 .. Len(m_nodes_container) : \A e \in m_nodes_container[i].entries :
    \A k \in Nat : e.what = <<file, k>> => k <= made.decls

\* Each activation of a merge is at nodes of the same name in both trees, and what it
\* still has to merge are children of the one in the imported tree.
Along ==
  \A i \in 1 .. Len(merging) :
    /\ WayTo(exported[importing])[merging[i].node] =
         IF i = 1 THEN <<>> ELSE WayTo(m_nodes_container)[m_current_nodes_path[i - 1]]
    /\ merging[i].todo \subseteq Range(exported[importing][merging[i].node].nodes)

\* All that the imported file declares is there, or in a part that is still to merge.
Brought(t, lib, j) ==
  \A e \in lib[j].entries : [Declaration(lib, j, e) EXCEPT !.exported = FALSE] \in DeclaredBy(t)
Waits(lib, s, j) == \E k \in s : WayTo(lib)[k] \in Prefixes(WayTo(lib)[j])
Coming ==
  \A j \in 1 .. Len(exported[importing]) :
    \/ Brought(m_nodes_container, exported[importing], j)
    \/ \E i \in 1 .. Len(merging) : Waits(exported[importing], merging[i].todo, j)

Merged == merging # <<>> => Along /\ (~failed => Coming)

LEMMA NoBlocks == ASSUME IInv, InNamespace PROVE m_local_nodes = <<>>
<1>1. /\ guards \in Seq(Kinds) /\ m_local_nodes \in Seq(SUBSET Entry)
      /\ Len(m_local_nodes) = Count(guards, {"block"})
  BY DEF IInv, Typed, Guarded
<1>2. \A i \in 1 .. Len(guards) : guards[i] \notin {"block"}
  BY <1>1, LenProperties DEF InNamespace
<1>3. Count(guards, {"block"}) = 0 BY <1>1, <1>2, CountType
<1> QED BY <1>1, <1>3, SeqDomain

\* Before each step of an analysis that no import interrupts.
LEMMA Analysed ==
  ASSUME IInv, merging = <<>>
  PROVE  /\ Tree(m_nodes_container) /\ m_current_nodes_path \in Seq(1 .. Len(m_nodes_container))
         /\ m_current_nodes_path # <<>> /\ m_current_nodes_path[1] = Root
         /\ LeadsIn(m_nodes_container, m_current_nodes_path)
         /\ current_node = Last(m_current_nodes_path) /\ current_node \in 1 .. Len(m_nodes_container)
         /\ Here = WayTo(m_nodes_container)[current_node] /\ Here \in Seq(AllNames)
         /\ m_local_nodes \in Seq(SUBSET Entry)
         /\ made \in [decls : Nat, scopes : Nat] /\ failed \in BOOLEAN
         /\ backup = <<>>
<1>1. /\ Tree(m_nodes_container) /\ m_current_nodes_path \in Seq(1 .. Len(m_nodes_container))
      /\ m_current_nodes_path # <<>> /\ m_current_nodes_path[1] = Root /\ backup = <<>>
      /\ LeadsIn(m_nodes_container, m_current_nodes_path)
      /\ m_local_nodes \in Seq(SUBSET Entry)
      /\ made \in [decls : Nat, scopes : Nat] /\ failed \in BOOLEAN
  BY DEF IInv, Typed, Guarded, Standing
<1>2. current_node = Last(m_current_nodes_path) /\ current_node \in 1 .. Len(m_nodes_container)
  BY <1>1, CurrentNode
<1>3. WayTo(m_nodes_container)[current_node] \in Seq(AllNames) BY <1>1, <1>2, WayTyped
<1> QED BY <1>1, <1>2, <1>3 DEF Here

LEMMA OpenGlobalMeant ==
  ASSUME IInv, Unused, NEW n \in Names, NEW kind \in {"namespace", "class"},
         InNamespace, Open(kind), enter_global_node(n)
  PROVE  Unused' /\ Merged' /\ Meant!OpenNamespace(n)
<1> DEFINE t == m_nodes_container
           t2 == entered(n).container
           id == entered(n).id
           path == m_current_nodes_path
<1>1. /\ m_nodes_container' = t2 /\ m_current_nodes_path' = Append(path, id)
      /\ m_local_nodes' = m_local_nodes
  BY DEF enter_global_node
<1>2. /\ merging = <<>> /\ ~failed /\ made' = [made EXCEPT !.scopes = @ + 1]
      /\ file' = file /\ exported' = exported /\ failed' = failed /\ merging' = merging
  BY DEF Open, Analysing, import
<1>3. /\ Tree(t) /\ path \in Seq(1 .. Len(t)) /\ current_node \in 1 .. Len(t)
      /\ Here = WayTo(t)[current_node] /\ Here \in Seq(AllNames)
      /\ made \in [decls : Nat, scopes : Nat]
  BY <1>2, Analysed
<1>4. n \in AllNames BY DEF AllNames
<1>5. /\ WayTo(t2)[id] = Append(Here, n)
      /\ Range(WayTo(t2)) = Range(WayTo(t)) \union {Append(Here, n)}
      /\ DeclaredBy(t2) = DeclaredBy(t)
  <2>1. /\ WayTo(t2)[id] = Append(WayTo(t)[current_node], n)
        /\ Range(WayTo(t2)) = Range(WayTo(t)) \union {WayTo(t2)[id]}
        /\ DeclaredBy(t2) = DeclaredBy(t)
    BY <1>3, <1>4, EnteredReads
  <2> QED BY <1>3, <2>1
<1>6. NoEntries(t, t2) /\ id \in 1 .. Len(t2) BY <1>3, <1>4, EnteredNode
<1> HIDE DEF t2, id
<1>7. Unused'
  <2>1. made'.decls = made.decls BY <1>2, <1>3
  <2> QED BY <1>1, <1>2, <1>6, <2>1 DEF Unused, NoEntries
<1>8. Merged' BY <1>2 DEF Merged
<1>9. Here' = Append(Here, n)
  <2>1. Last(Append(path, id)) = id
    <3>1. Append(path, id)[Len(path) + 1] = id /\ Len(Append(path, id)) = Len(path) + 1
      BY <1>3
    <3> QED BY <3>1 DEF Last
  <2> QED BY <1>1, <1>2, <1>5, <2>1 DEF Here
<1>10. Shown(m_local_nodes) = <<>>
  <2>1. m_local_nodes = <<>> BY NoBlocks
  <2> QED BY <1>2, <2>1, Analysed, ShownIs
<1>11. Shown(m_local_nodes)' = Shown(m_local_nodes) /\ Lib' = Lib BY <1>1, <1>2 DEF Shown, Lib
<1>12. Range(WayTo(m_nodes_container')) = Range(WayTo(m_nodes_container)) \union {Here'}
       /\ DeclaredBy(m_nodes_container') = DeclaredBy(m_nodes_container)
  BY <1>1, <1>5, <1>9
<1>13. Meant!OpenNamespace(n)
  BY <1>2, <1>9, <1>10, <1>11, <1>12 DEF Meant!OpenNamespace, Here, Shown, Lib
<1> QED BY <1>7, <1>8, <1>13

LEMMA OpenBlockMeant == ASSUME IInv, Unused, OpenBlock PROVE Unused' /\ Merged' /\ Meant!OpenBlock
<1>1. /\ m_local_nodes' = Append(m_local_nodes, {})
      /\ m_nodes_container' = m_nodes_container /\ m_current_nodes_path' = m_current_nodes_path
  BY DEF OpenBlock, enter_local_node
<1>2. /\ merging = <<>> /\ ~failed /\ made' = [made EXCEPT !.scopes = @ + 1]
      /\ file' = file /\ exported' = exported /\ failed' = failed /\ merging' = merging
      /\ backup' = backup
  BY DEF OpenBlock, Open, Analysing, import
<1>3. m_local_nodes \in Seq(SUBSET Entry) /\ made \in [decls : Nat, scopes : Nat]
  BY <1>2, Analysed
<1>4. Unused'
  <2>1. made'.decls = made.decls BY <1>2, <1>3
  <2> QED BY <1>1, <1>2, <2>1 DEF Unused
<1>5. Merged' BY <1>2 DEF Merged
<1>6. Here' = Here /\ Lib' = Lib BY <1>1, <1>2 DEF Here, Lib
<1>7. Shown(m_local_nodes') = Append(Shown(m_local_nodes), {}) BY <1>1, <1>3, ShownMore
<1>8. Range(WayTo(m_nodes_container')) = Range(WayTo(m_nodes_container))
      /\ DeclaredBy(m_nodes_container') = DeclaredBy(m_nodes_container)
  BY <1>1
<1>9. Meant!OpenBlock
  BY <1>2, <1>6, <1>7, <1>8 DEF Meant!OpenBlock, Here, Shown, Lib
<1> QED BY <1>4, <1>5, <1>9

\* The namespace of the last node of a path is right below that of the one before.
LEMMA PathReads ==
  ASSUME NEW t, Tree(t), NEW path \in Seq(1 .. Len(t)), LeadsIn(t, path), Len(path) > 1
  PROVE  /\ Last(path) \in 1 .. Len(t) /\ Last(Front(path)) \in 1 .. Len(t)
         /\ t[Last(path)].name \in AllNames
         /\ WayTo(t)[Last(path)] = Append(WayTo(t)[Last(Front(path))], t[Last(path)].name)
<1> DEFINE n == Len(path)
           p == path[n - 1]
           i == path[n]
<1>1. n \in Nat /\ n \in 1 .. n /\ n - 1 \in 1 .. n /\ n # 1 /\ n # 0
  <2>1. n \in Nat /\ n > 1 BY LenProperties
  <2> HIDE DEF n
  <2> QED BY <2>1
<1>2. path # <<>> BY <1>1, SeqDomain
<1>3. /\ Last(path) = i /\ Front(path) \in Seq(1 .. Len(t)) /\ Len(Front(path)) = n - 1
      /\ \A k \in 1 .. n - 1 : Front(path)[k] = path[k]
  BY <1>2, LastOf
<1>4. Last(Front(path)) = p
  <2>1. n - 1 \in 1 .. n - 1 BY <1>1
  <2>2. Last(Front(path)) = Front(path)[Len(Front(path))] BY DEF Last
  <2> QED BY <1>3, <2>1, <2>2
<1>5. p \in 1 .. Len(t) /\ i \in 1 .. Len(t) BY <1>1, ElementOfSeq
<1>6. Below(t, path, n) BY <1>1 DEF LeadsIn
<1>7. t[i].name \in DOMAIN t[p].nodes /\ t[p].nodes[t[i].name] = i BY <1>1, <1>6 DEF Below
<1> HIDE DEF p, i
<1>8. i # Root /\ Over(t, i) = p BY <1>5, <1>7, ChildOf
<1>9. WayTo(t)[i] = Append(WayTo(t)[p], t[i].name) BY <1>5, <1>8, WayTyped
<1>10. t[i].name \in AllNames BY <1>5, <1>8, OverIs
<1> QED BY <1>3, <1>4, <1>5, <1>9, <1>10

LEMMA FrontOfAppend ==
  ASSUME NEW S, NEW s \in Seq(S), NEW x \in S
  PROVE  Front(Append(s, x)) = s /\ Append(s, x) # <<>>
<1> DEFINE u == Append(s, x)
<1>1. /\ Len(s) \in Nat /\ u \in Seq(S) /\ Len(u) = Len(s) + 1 /\ \A i \in 1 .. Len(s) : u[i] = s[i]
  BY AppendProperties, LenProperties
<1>2. u # <<>> BY AppendOne
<1> HIDE DEF u
<1>3. /\ Front(u) \in Seq(S) /\ Len(Front(u)) = Len(u) - 1
      /\ \A i \in 1 .. Len(u) - 1 : Front(u)[i] = u[i]
  BY <1>1, <1>2, LastOf
<1>4. Len(Front(u)) = Len(s) /\ \A i \in 1 .. Len(s) : Front(u)[i] = s[i] BY <1>1, <1>3
<1>5. Front(u) = s BY <1>3, <1>4, SeqEqual
<1> QED BY <1>2, <1>5 DEF u

LEMMA CloseMeant ==
  ASSUME IInv, Unused, Close
  PROVE  Unused' /\ Merged' /\ (Meant!CloseNamespace \/ Meant!CloseBlock)
<1> DEFINE t == m_nodes_container
           path == m_current_nodes_path
<1>1. /\ merging = <<>> /\ ~failed /\ made' = made /\ leave_node /\ m_nodes_container' = t
      /\ file' = file /\ exported' = exported /\ failed' = failed /\ merging' = merging
      /\ guards # <<>> /\ guards' = Front(guards)
  BY DEF Close, Analysing, import, leave_node
<1>2. /\ Tree(t) /\ path \in Seq(1 .. Len(t)) /\ path # <<>> /\ LeadsIn(t, path)
      /\ current_node = Last(path) /\ Here = WayTo(t)[Last(path)]
      /\ m_local_nodes \in Seq(SUBSET Entry)
  BY <1>1, Analysed
<1>3. Unused' /\ Merged' BY <1>1 DEF Unused, Merged
<1>4. Lib' = Lib BY <1>1 DEF Lib
<1>5. Range(WayTo(m_nodes_container')) = Range(WayTo(m_nodes_container))
      /\ DeclaredBy(m_nodes_container') = DeclaredBy(m_nodes_container)
  BY <1>1
<1>6. CASE m_local_nodes # <<>>
  <2>1. m_local_nodes' = Front(m_local_nodes) /\ m_current_nodes_path' = path
    BY <1>1, <1>6 DEF leave_node
  <2>2. Here' = Here BY <1>1, <2>1 DEF Here
  <2>3. Shown(m_local_nodes') = Front(Shown(m_local_nodes)) BY <1>2, <1>6, <2>1, ShownLess
  <2>4. Shown(m_local_nodes) # <<>> BY <1>2, <1>6, ShownIs
  <2>5. Meant!CloseBlock
    BY <1>1, <1>4, <1>5, <2>2, <2>3, <2>4 DEF Meant!CloseBlock, Meant!Front, Front, Here, Shown, Lib
  <2> QED BY <1>3, <2>5
<1>7. CASE m_local_nodes = <<>>
  <2>1. m_local_nodes' = m_local_nodes /\ m_current_nodes_path' = Front(path)
    BY <1>1, <1>7 DEF leave_node
  <2>2. Len(path) > 1
    <3>1. IInv' BY CloseKept
    <3>2. Front(path) # <<>> BY <1>1, <2>1, <3>1 DEF IInv, Guarded, Standing
    <3>3. Front(path) \in Seq(1 .. Len(t)) /\ Len(Front(path)) = Len(path) - 1 /\ Len(path) \in Nat
          /\ Len(path) > 0
      BY <1>2, LastOf
    <3>4. Len(Front(path)) # 0 BY <3>2, <3>3, SeqDomain
    <3> QED BY <3>3, <3>4
  <2>3. /\ Last(Front(path)) \in 1 .. Len(t) /\ t[Last(path)].name \in AllNames
        /\ WayTo(t)[Last(path)] = Append(WayTo(t)[Last(Front(path))], t[Last(path)].name)
    BY <1>2, <2>2, PathReads
  <2>4. WayTo(t)[Last(Front(path))] \in Seq(AllNames) BY <1>2, <2>3, WayTyped
  <2>5. Here' = WayTo(t)[Last(Front(path))] BY <1>1, <2>1 DEF Here
  <2>6. Front(Here) = Here' /\ Here # <<>>
    <3> DEFINE s == WayTo(t)[Last(Front(path))]
               x == t[Last(path)].name
    <3>1. s \in Seq(AllNames) /\ x \in AllNames /\ Here = Append(s, x) /\ Here' = s
      BY <1>2, <2>3, <2>4, <2>5
    <3> HIDE DEF s, x
    <3> QED BY <3>1, FrontOfAppend
  <2>7. Shown(m_local_nodes') = Shown(m_local_nodes) /\ Shown(m_local_nodes) = <<>>
    BY <1>2, <1>7, <2>1, ShownIs
  <2>8. Meant!CloseNamespace
    BY <1>1, <1>4, <1>5, <2>6, <2>7 DEF Meant!CloseNamespace, Meant!Front, Front, Here, Shown, Lib
  <2> QED BY <1>3, <2>8
<1> QED BY <1>6, <1>7

LEMMA DeclareMeant ==
  ASSUME IInv, Unused, NEW n \in Names, NEW export \in BOOLEAN, Declare(n, export)
  PROVE  /\ Unused' /\ Merged' /\ Meant!Declare(n, <<file, made.decls + 1>>, export)
         /\ <<file, made.decls + 1>> \in UNION { { <<f, i>> : i \in 1 .. MaxDecls[f] } : f \in FileIds }
<1> DEFINE t == m_nodes_container
           path == m_current_nodes_path
           what == <<file, made.decls + 1>>
           e == [name |-> n, what |-> what, exported |-> export]
<1>1. /\ register_entry(e) /\ merging = <<>> /\ ~failed /\ file \in FileIds
      /\ made.decls < MaxDecls[file] /\ (export => m_local_nodes = <<>>)
      /\ made' = [made EXCEPT !.decls = @ + 1]
      /\ file' = file /\ exported' = exported /\ failed' = failed
      /\ merging' = merging /\ m_current_nodes_path' = path
  BY DEF Declare, Analysing, import, register_entry, is_in_global_context
<1>2. /\ Tree(t) /\ current_node \in 1 .. Len(t) /\ Here = WayTo(t)[current_node]
      /\ current_node = Last(path)
      /\ m_local_nodes \in Seq(SUBSET Entry) /\ made \in [decls : Nat, scopes : Nat]
  BY <1>1, Analysed
<1>3. file \in Nat /\ MaxDecls[file] \in Nat BY <1>1, FilesAre, BoundsAssumption
<1>4. made.decls \in Nat /\ made.decls + 1 \in 1 .. MaxDecls[file] /\ made'.decls = made.decls + 1
  BY <1>1, <1>2, <1>3
<1>5. what \in UNION { { <<f, i>> : i \in 1 .. MaxDecls[f] } : f \in FileIds } BY <1>1, <1>4
<1>6. e \in Entry /\ e.what[1] = file /\ e.name = n /\ e.what = what /\ e.exported = export
  <2>1. n \in AllNames BY DEF AllNames
  <2>2. what \in Seq(Nat) /\ what[1] = file BY <1>3, <1>4
  <2> HIDE DEF what
  <2> QED BY <2>1, <2>2 DEF Entry
<1>7. \A d \in DeclaredBy(t) : d.what # what
  <2> SUFFICES ASSUME NEW d \in DeclaredBy(t), d.what = what PROVE FALSE OBVIOUS
  <2>0. PICK i \in 1 .. Len(t) : \E x \in t[i].entries : d = Declaration(t, i, x) BY <1>2, DeclaredIs
  <2>1. PICK x \in t[i].entries : d = Declaration(t, i, x) BY <2>0
  <2>2. x.what = <<file, made.decls + 1>> BY <2>1 DEF Declaration
  <2>3. made.decls + 1 <= made.decls BY <1>4, <2>2 DEF Unused
  <2> QED BY <1>4, <2>3
<1>8. \A k \in Nat : what = <<file, k>> => k <= made.decls + 1 BY <1>4
<1>9. Merged' BY <1>1 DEF Merged
<1>10. Lib' = Lib BY <1>1 DEF Lib
<1> HIDE DEF e, what
<1>11. CASE m_local_nodes # <<>>
  <2>1. m_local_nodes' = [m_local_nodes EXCEPT ![Len(m_local_nodes)] =
                            m_local_nodes[Len(m_local_nodes)] \union {e}]
        /\ m_nodes_container' = t
    BY <1>1, <1>11 DEF register_entry
  <2>2. Unused' BY <1>1, <1>4, <2>1 DEF Unused
  <2>3. Here' = Here BY <1>1, <2>1 DEF Here
  <2>4. Shown(m_local_nodes') = [Shown(m_local_nodes) EXCEPT ![Len(Shown(m_local_nodes))] =
                                   @ \union {[name |-> n, what |-> what]}]
    BY <1>2, <1>6, <1>11, <2>1, ShownChanged
  <2>5. Shown(m_local_nodes) # <<>> BY <1>2, <1>11, ShownIs
  <2>6. Meant!Declare(n, what, export)
    BY <1>1, <1>7, <1>10, <1>11, <2>1, <2>3, <2>4, <2>5 DEF Meant!Declare, Here, Shown, Lib
  <2> QED BY <1>5, <1>9, <2>2, <2>6 DEF what
<1>12. CASE m_local_nodes = <<>>
  <2>1. m_local_nodes' = m_local_nodes /\ m_nodes_container' = WithEntries(t, current_node, {e})
    BY <1>1, <1>12 DEF register_entry, WithEntries
  <2>3. /\ Range(WayTo(m_nodes_container')) = Range(WayTo(t))
        /\ \A j \in 1 .. Len(t) : WayTo(m_nodes_container')[j] = WayTo(t)[j]
        /\ DeclaredBy(m_nodes_container') = DeclaredBy(t) \union { Declaration(t, current_node, x) : x \in {e} }
    <3> DEFINE s == {e}
               i == current_node
    <3>1. s \in SUBSET Entry /\ \A x \in s : x.exported => x.what[1] = file BY <1>6
    <3>2. Tree(t) /\ i \in 1 .. Len(t) BY <1>2
    <3>3. m_nodes_container' = WithEntries(t, i, s) BY <2>1
    <3> HIDE DEF s, i, t
    <3>4. /\ Range(WayTo(WithEntries(t, i, s))) = Range(WayTo(t))
          /\ \A j \in 1 .. Len(t) : WayTo(WithEntries(t, i, s))[j] = WayTo(t)[j]
          /\ DeclaredBy(WithEntries(t, i, s)) = DeclaredBy(t) \union { Declaration(t, i, x) : x \in s }
      BY <3>1, <3>2, EntriesDeclared
    <3>5. /\ Range(WayTo(m_nodes_container')) = Range(WayTo(t))
          /\ \A j \in 1 .. Len(t) : WayTo(m_nodes_container')[j] = WayTo(t)[j]
          /\ DeclaredBy(m_nodes_container') = DeclaredBy(t) \union { Declaration(t, i, x) : x \in s }
      BY <3>3, <3>4, Zenon
    <3> QED BY <3>5 DEF s, i, t
  <2>4. Declaration(t, current_node, e) = [at |-> Here, name |-> n, what |-> what, exported |-> export]
    BY <1>2 DEF Declaration, e
  <2>5. DeclaredBy(m_nodes_container') =
          DeclaredBy(t) \union {[at |-> Here, name |-> n, what |-> what, exported |-> export]}
    BY <2>3, <2>4
  <2>6. Here' = Here BY <1>1, <1>2, <2>3 DEF Here
  <2>7. Shown(m_local_nodes') = Shown(m_local_nodes) /\ Shown(m_local_nodes) = <<>>
    BY <1>2, <1>12, <2>1, ShownIs
  <2>8. Unused'
    <3>1. ASSUME NEW i \in 1 .. Len(m_nodes_container'), NEW x \in m_nodes_container'[i].entries,
                 NEW k \in Nat, x.what = <<file, k>>
          PROVE  k <= made.decls + 1
      <4>0. /\ t \in Seq(Range(t)) /\ DOMAIN t[current_node] = {"name", "parent", "nodes", "entries"}
            /\ Len(t) \in Nat /\ DOMAIN t = 1 .. Len(t)
        BY <1>2, TreeDef, SeqDomain DEF Tree
      <4>1. i \in 1 .. Len(t) /\ (x \in t[i].entries \/ x = e)
        BY <1>2, <2>1, <3>1, <4>0 DEF WithEntries
      <4>2. CASE x = e BY <1>6, <1>8, <3>1, <4>2
      <4>3. CASE x \in t[i].entries
        <5>1. k <= made.decls BY <3>1, <4>1, <4>3 DEF Unused
        <5> QED BY <1>4, <5>1
      <4> QED BY <4>1, <4>2, <4>3
    <3> QED BY <1>1, <1>4, <3>1 DEF Unused
  <2>9. Meant!Declare(n, what, export)
    BY <1>1, <1>7, <1>10, <2>3, <2>5, <2>6, <2>7 DEF Meant!Declare, Here, Shown, Lib
  <2> QED BY <1>5, <1>9, <2>8, <2>9 DEF what
<1> QED BY <1>11, <1>12

\* A part of an imported tree that is merged is there, and stays there.
LEMMA BroughtBy ==
  ASSUME NEW t, NEW t2, NEW lib, Tree(lib), NEW id \in 1 .. Len(lib),
         NEW at, at = WayTo(lib)[id], Taken(t, lib, at) = {},
         DeclaredBy(t2) = DeclaredBy(t) \union Brings(t, lib, at)
  PROVE  Brought(t2, lib, id)
<1> SUFFICES ASSUME NEW e \in lib[id].entries
             PROVE  [Declaration(lib, id, e) EXCEPT !.exported = FALSE] \in DeclaredBy(t2)
  BY DEF Brought
<1> DEFINE d == Declaration(lib, id, e)
<1>1. d \in DeclaredBy(lib) /\ d.at = at BY DeclaredHere
<1> HIDE DEF d
<1>2. d \in Offer(lib, at) \ Taken(t, lib, at) BY <1>1 DEF Offer
<1>3. [d EXCEPT !.exported = FALSE] \in Brings(t, lib, at) BY <1>2 DEF Brings
<1> QED BY <1>3 DEF d

LEMMA BroughtStays ==
  ASSUME NEW t, NEW t2, NEW lib, NEW j, Brought(t, lib, j), DeclaredBy(t) \subseteq DeclaredBy(t2)
  PROVE  Brought(t2, lib, j)
BY DEF Brought

\* What is below a node is the node itself, or waits for one of its children.
LEMMA WaitsBelow ==
  ASSUME NEW lib, Tree(lib), NEW i \in 1 .. Len(lib)
  PROVE  \A j \in 1 .. Len(lib) :
           WayTo(lib)[i] \in Prefixes(WayTo(lib)[j]) => i = j \/ Waits(lib, Range(lib[i].nodes), j)
<1> DEFINE T == {j \in 1 .. Len(lib) :
                   WayTo(lib)[i] \in Prefixes(WayTo(lib)[j]) =>
                     i = j \/ Waits(lib, Range(lib[i].nodes), j)}
<1>1. ASSUME NEW j \in 1 .. Len(lib), \A k \in 1 .. j - 1 : k \in T PROVE j \in T
  <2> SUFFICES ASSUME WayTo(lib)[i] \in Prefixes(WayTo(lib)[j]), i # j
               PROVE  Waits(lib, Range(lib[i].nodes), j)
    OBVIOUS
  <2>1. WayTo(lib)[i] # WayTo(lib)[j] BY WayOne
  <2>2. j # Root
    <3> SUFFICES ASSUME j = Root PROVE FALSE OBVIOUS
    <3>1. Prefixes(WayTo(lib)[j]) = {<<>>} BY WayPrefixes
    <3>2. WayTo(lib)[j] = <<>> BY WayTyped
    <3> QED BY <2>1, <3>1, <3>2
  <2> DEFINE p == Over(lib, j)
  <2>3. /\ p \in 1 .. j - 1 /\ p \in 1 .. Len(lib)
        /\ lib[j].name \in DOMAIN lib[p].nodes /\ lib[p].nodes[lib[j].name] = j
    BY <2>2, OverIs
  <2>4. Prefixes(WayTo(lib)[j]) = Prefixes(WayTo(lib)[p]) \union {WayTo(lib)[j]}
    BY <2>2, WayPrefixes
  <2> HIDE DEF p
  <2>5. WayTo(lib)[i] \in Prefixes(WayTo(lib)[p]) BY <2>1, <2>4
  <2>6. i = p \/ Waits(lib, Range(lib[i].nodes), p) BY <1>1, <2>3, <2>5
  <2>7. CASE i = p
    <3>1. j \in Range(lib[i].nodes) BY <2>3, <2>7 DEF Range
    <3>2. WayTo(lib)[j] \in Prefixes(WayTo(lib)[j]) BY <2>4
    <3> QED BY <3>1, <3>2 DEF Waits
  <2>8. CASE Waits(lib, Range(lib[i].nodes), p) BY <2>4, <2>8 DEF Waits
  <2> QED BY <2>6, <2>7, <2>8
<1>2. Len(lib) \in Nat BY TreeStays
<1>3. \A j \in 1 .. Len(lib) : j \in T
  <2> HIDE DEF T
  <2> QED BY <1>1, <1>2, SetInduction
<1> QED BY <1>3

\* An import reads as the import of one namespace of a file.
LEMMA ImportReads ==
  ASSUME NEW f \in FileIds, Tree(exported[f]), f < file, file \in Nat,
         NEW at \in Range(WayTo(exported[f])),
         m_local_nodes = <<>>, m_local_nodes' = m_local_nodes,
         Here' = Here, exported' = exported, file' = file,
         Range(WayTo(m_nodes_container')) = Range(WayTo(m_nodes_container)) \union {at},
         DeclaredBy(m_nodes_container') =
           DeclaredBy(m_nodes_container) \union Brings(m_nodes_container, exported[f], at),
         failed' = (failed \/ Taken(m_nodes_container, exported[f], at) # {})
  PROVE  Meant!Import(f, at) /\ f \in DOMAIN Files /\ at \in Lib[f].namespaces
<1> DEFINE D == DeclaredBy(exported[f])
           W == Range(WayTo(exported[f]))
<1>1. Lib[f].declared = D /\ Lib[f].namespaces = W BY DEF Lib
<1>2. Lib' = Lib BY DEF Lib
<1>3. Shown(m_local_nodes) = <<>> /\ Shown(m_local_nodes') = Shown(m_local_nodes)
  <2>1. DOMAIN m_local_nodes = {} OBVIOUS
  <2>2. Shown(m_local_nodes) = <<>> BY <2>1 DEF Shown
  <2> QED BY <2>2
<1>4. f \in 1 .. (file - 1) BY FilesAre
<1>5. f \in DOMAIN Files BY DEF FileIds
<1> DEFINE offered == {d \in Lib[f].declared : d.at = at}
           taken == {d \in offered : \E old \in DeclaredBy(m_nodes_container) :
                                       old.at = at /\ old.name = d.name}
<1>6. offered = Offer(exported[f], at) BY <1>1 DEF Offer
<1>7. taken = Taken(m_nodes_container, exported[f], at) BY <1>6 DEF Taken
<1>8. Brings(m_nodes_container, exported[f], at) = {[d EXCEPT !.exported = FALSE] : d \in offered \ taken}
  BY <1>6, <1>7 DEF Brings
<1>9. Meant!Import(f, at)
  BY <1>1, <1>2, <1>3, <1>4, <1>7, <1>8 DEF Meant!Import, Meant!Finished, Here, Shown, Lib
<1> QED BY <1>1, <1>5, <1>9

\* What is imported from a file that is done was not declared in this one.
LEMMA UnusedMerged ==
  ASSUME IInv, Unused, NEW t, Tree(t), NoEntries(m_nodes_container, t),
         NEW into \in 1 .. Len(t), NEW f \in FileIds, f < file, NEW id \in 1 .. Len(exported[f]),
         merged(t, into, exported[f][id]), file' = file, made' = made
  PROVE  Unused'
<1> DEFINE from == exported[f][id]
           taken == {e \in from.entries : \E old \in t[into].entries : old.name = e.name}
           new == { imported_entry(e) : e \in from.entries \ taken }
<1>1. m_nodes_container' = WithEntries(t, into, new) BY DEF merged, WithEntries
<1>2. /\ t \in Seq(Range(t)) /\ DOMAIN t = 1 .. Len(t) /\ Len(t) \in Nat
      /\ DOMAIN t[into] = {"name", "parent", "nodes", "entries"}
  BY TreeDef, SeqDomain DEF Tree
<1>3. file \in Nat BY FilesAre DEF IInv, Typed
<1>4. \A e \in from.entries : e \in Entry /\ e.what[1] = f
  <2>1. Tree(exported[f]) BY DEF IInv, Library
  <2>2. id \in DOMAIN exported[f] BY <2>1, TreeDef, SeqDomain DEF Tree
  <2> QED BY <2>1, <2>2, TreeDef DEF Tree, IInv, Offers, OffersOwnOnly
<1>5. f # file BY <1>3, FilesAre
<1>6. ASSUME NEW x \in new, NEW k \in Nat, x.what = <<file, k>> PROVE FALSE
  <2>1. PICK e \in from.entries : x = imported_entry(e) OBVIOUS
  <2>2. x.what = e.what BY <1>4, <2>1 DEF imported_entry, Entry
  <2>3. <<file, k>>[1] = file OBVIOUS
  <2> QED BY <1>4, <1>5, <1>6, <2>2, <2>3
<1> HIDE DEF new
<1>7. ASSUME NEW i \in 1 .. Len(m_nodes_container'), NEW x \in m_nodes_container'[i].entries,
             NEW k \in Nat, x.what = <<file, k>>
      PROVE  k <= made.decls
  <2>1. i \in 1 .. Len(t) /\ (x \in t[i].entries \/ x \in new)
    BY <1>1, <1>2, <1>7 DEF WithEntries
  <2>2. x \in t[i].entries BY <1>6, <1>7, <2>1
  <2>3. i \in 1 .. Len(m_nodes_container) /\ x \in m_nodes_container[i].entries
    BY <2>1, <2>2 DEF NoEntries
  <2> QED BY <1>7, <2>3 DEF Unused
<1> QED BY <1>7 DEF Unused

\* The root of the other tree is merged, and all else is below its children.
LEMMA ImportMeant ==
  ASSUME IInv, Unused, NEW f \in FileIds, Import(f)
  PROVE  /\ Unused' /\ Merged' /\ Meant!Import(f, <<>>)
         /\ f \in DOMAIN Files /\ <<>> \in Lib[f].namespaces
<1> DEFINE t == m_nodes_container
           path == m_current_nodes_path
           lib == exported[f]
           at == <<>>
<1>1. /\ merging = <<>> /\ f < file /\ InNamespace /\ failed = FALSE
      /\ backup' = path /\ m_current_nodes_path' = <<>>
      /\ merged(t, Root, lib[Root])
      /\ merging' = << Activation(lib[Root], Root) >> /\ importing' = f
      /\ m_local_nodes' = m_local_nodes /\ file' = file /\ exported' = exported
      /\ guards' = guards /\ made' = made
  <2>1. /\ merging = <<>> /\ f < file /\ InNamespace /\ ~failed /\ failed \in BOOLEAN
        /\ backup' = path /\ m_current_nodes_path' = <<>>
        /\ merged(t, Root, lib[Root])
        /\ merging' = << Activation(lib[Root], Root) >> /\ importing' = f
        /\ m_local_nodes' = m_local_nodes /\ file' = file /\ exported' = exported
        /\ guards' = guards /\ made' = made
    BY DEF Import, Analysing, path_moved, IInv, Typed
  <2> QED BY <2>1
<1>2. /\ Tree(t) /\ path \in Seq(1 .. Len(t)) /\ current_node = Last(path)
      /\ current_node \in 1 .. Len(t) /\ Here = WayTo(t)[current_node]
  BY <1>1, Analysed
<1>3. Tree(lib) /\ Root \in 1 .. Len(lib) /\ WayTo(lib)[Root] = at /\ DOMAIN WayTo(lib) = 1 .. Len(lib)
  <2>1. Tree(lib) BY <1>1 DEF IInv, Library
  <2> QED BY <2>1, TreeStays, WayTyped
<1>4. Root \in 1 .. Len(t) /\ WayTo(t)[Root] = at /\ DOMAIN WayTo(t) = 1 .. Len(t)
  BY <1>2, TreeStays, WayTyped
<1> HIDE DEF at
<1>5. /\ Range(WayTo(m_nodes_container')) = Range(WayTo(t))
      /\ \A i \in 1 .. Len(t) : WayTo(m_nodes_container')[i] = WayTo(t)[i]
      /\ DeclaredBy(m_nodes_container') = DeclaredBy(t) \union Brings(t, lib, at)
      /\ failed' = (failed \/ Taken(t, lib, at) # {})
  <2> HIDE DEF lib, t
  <2>1. merged(t, Root, lib[Root]) BY <1>1
  <2> QED BY <1>2, <1>3, <1>4, <2>1, MergedReads
<1>6. at \in Range(WayTo(t)) /\ at \in Range(WayTo(lib)) BY <1>3, <1>4 DEF Range
<1>7. Unused'
  <2>1. NoEntries(t, t) BY DEF NoEntries
  <2> QED BY <1>1, <1>2, <1>3, <1>4, <2>1, UnusedMerged
<1> DEFINE one == Activation(lib[Root], Root)
<1>8. merging' # <<>> /\ Len(merging') = 1 /\ merging'[1] = one BY <1>1
<1>9. one.node = Root /\ one.todo = Range(lib[Root].nodes) BY DEF Activation
<1> HIDE DEF one
<1>10. Here' = Here BY <1>1, <1>2, <1>5, <1>8 DEF Here
<1>11. exported'[importing'] = lib BY <1>1
<1> HIDE DEF lib
<1>12. Along'
  <2>1. \A i \in 1 .. Len(merging') : i = 1 BY <1>8
  <2>2. /\ WayTo(lib)[merging'[1].node] = <<>>
        /\ merging'[1].todo \subseteq Range(lib[merging'[1].node].nodes)
    BY <1>3, <1>8, <1>9 DEF at
  <2> QED BY <1>11, <2>1, <2>2 DEF Along
<1>13. ~failed' => Coming'
  <2> SUFFICES ASSUME ~failed' PROVE Coming' OBVIOUS
  <2>1. Taken(t, lib, at) = {} BY <1>5
  <2>2. Brought(m_nodes_container', lib, Root) BY <1>3, <1>5, <2>1, BroughtBy
  <2>3. ASSUME NEW j \in 1 .. Len(lib)
        PROVE  \/ Brought(m_nodes_container', lib, j)
               \/ \E i \in 1 .. Len(merging') : Waits(lib, merging'[i].todo, j)
    <3>1. WayTo(lib)[j] \in Seq(AllNames) BY <1>3, WayTyped
    <3>2. WayTo(lib)[Root] \in Prefixes(WayTo(lib)[j]) BY <1>3, <3>1, PrefixesAre DEF at
    <3>3. Root = j \/ Waits(lib, Range(lib[Root].nodes), j) BY <1>3, <3>2, WaitsBelow
    <3>4. 1 \in 1 .. Len(merging') BY <1>8
    <3> QED BY <1>8, <1>9, <2>2, <3>3, <3>4
  <2> QED BY <1>11, <2>3 DEF Coming
<1>14. m_local_nodes = <<>> BY <1>1, NoBlocks
<1>15. Meant!Import(f, at) /\ f \in DOMAIN Files /\ at \in Lib[f].namespaces
  <2>1. file \in Nat BY FilesAre DEF IInv, Typed
  <2>2. Range(WayTo(m_nodes_container')) = Range(WayTo(m_nodes_container)) \union {at} BY <1>5, <1>6
  <2> QED BY <1>1, <1>3, <1>5, <1>6, <1>10, <1>14, <2>1, <2>2, ImportReads DEF lib
<1> QED BY <1>7, <1>12, <1>13, <1>15 DEF Merged, at

\* A merge that goes on.
LEMMA MergingOn ==
  ASSUME IInv, Merged, merging # <<>>
  PROVE  /\ Tree(m_nodes_container) /\ m_current_nodes_path \in Seq(1 .. Len(m_nodes_container))
         /\ Tree(exported[importing]) /\ importing \in FileIds /\ importing < file /\ file \in Nat
         /\ merging \in Seq(Step) /\ Len(merging) \in Nat /\ Len(merging) \in 1 .. Len(merging)
         /\ Len(m_current_nodes_path) = Len(merging) - 1 /\ m_local_nodes = <<>>
         /\ \A i \in 1 .. Len(merging) : merging[i].node \in 1 .. Len(exported[importing])
         /\ backup \in Seq(1 .. Len(m_nodes_container)) /\ backup # <<>>
         /\ Last(backup) \in 1 .. Len(m_nodes_container)
         /\ Here = WayTo(m_nodes_container)[Last(backup)] /\ failed \in BOOLEAN
         /\ Along /\ (~failed => Coming)
<1>1. /\ Tree(m_nodes_container) /\ m_current_nodes_path \in Seq(1 .. Len(m_nodes_container))
      /\ backup \in Seq(1 .. Len(m_nodes_container)) /\ Merges /\ backup # <<>>
      /\ Tree(exported[importing]) /\ merging \in Seq(Step) /\ failed \in BOOLEAN
  BY Merging DEF Standing
<1>2. Len(merging) \in Nat /\ Len(merging) > 0 BY <1>1, LastOf
<1>3. Len(merging) \in 1 .. Len(merging) BY <1>2
<1>4. Last(backup) \in 1 .. Len(m_nodes_container) BY <1>1, LastOf
<1>5. file \in Nat BY FilesAre DEF IInv, Typed
<1> QED BY <1>1, <1>2, <1>3, <1>4, <1>5 DEF Merges, Merged, Here

\* The next child is merged into the namespace it stands for.
LEMMA ChildNamespace ==
  ASSUME IInv, Merged, merging # <<>>, NEW id \in Last(merging).todo,
         NEW lib, lib = exported[importing]
  PROVE  /\ id \in 1 .. Len(lib) /\ lib[id].name \in AllNames
         /\ WayTo(lib)[id] = Append(WayTo(m_nodes_container)[current_node], lib[id].name)
<1> DEFINE t == m_nodes_container
           path == m_current_nodes_path
           n == Len(merging)
           p == merging[n].node
<1>1. /\ Tree(t) /\ path \in Seq(1 .. Len(t)) /\ Tree(lib) /\ n \in Nat /\ n \in 1 .. n
      /\ Len(path) = n - 1 /\ p \in 1 .. Len(lib) /\ Along
  BY MergingOn
<1>2. WayTo(lib)[p] = IF n = 1 THEN <<>> ELSE WayTo(t)[path[n - 1]] BY <1>1 DEF Along
<1>3. id \in Range(lib[p].nodes) BY <1>1 DEF Along, Last
<1>4. WayTo(lib)[p] = WayTo(t)[current_node]
  <2>1. CASE n = 1
    <3>1. path = <<>> BY <1>1, <2>1, SeqDomain
    <3>2. current_node = Root BY <1>1, <3>1, CurrentNode
    <3> QED BY <1>1, <1>2, <2>1, <3>2, WayTyped
  <2>2. CASE n # 1
    <3>1. path # <<>> BY <1>1, <2>2, SeqDomain
    <3>2. current_node = path[n - 1] BY <1>1, <3>1, CurrentNode, LastOf
    <3> QED BY <1>2, <2>2, <3>2
  <2> QED BY <2>1, <2>2
<1> HIDE DEF p
<1>5. PICK c \in DOMAIN lib[p].nodes : lib[p].nodes[c] = id BY <1>3 DEF Range
<1>6. id \in 1 .. Len(lib) /\ lib[id].name = c /\ c \in AllNames BY <1>1, <1>5, ChildOf
<1>7. WayTo(lib)[id] = Append(WayTo(lib)[p], c) BY <1>1, <1>5, <1>6, NamespaceIs
<1> QED BY <1>4, <1>6, <1>7

LEMMA MergeChildMeant ==
  ASSUME IInv, Unused, Merged, NEW id, MergeChild(id)
  PROVE  /\ Unused' /\ Merged'
         /\ \E f \in DOMAIN Files : \E at \in Lib[f].namespaces : Meant!Import(f, at)
<1> DEFINE t == m_nodes_container
           path == m_current_nodes_path
           lib == exported[importing]
           name == lib[id].name
           t1 == entered(name).container
           i1 == entered(name).id
           w == WayTo(lib)[id]
           a == Activation(lib[id], id)
<1>1. /\ merging # <<>> /\ id \in Last(merging).todo
      /\ m_current_nodes_path' = Append(path, i1)
      /\ merged(t1, i1, lib[id])
      /\ merging' = Deeper(merging, id, a)
      /\ m_local_nodes' = m_local_nodes /\ file' = file /\ exported' = exported
      /\ guards' = guards /\ backup' = backup /\ importing' = importing /\ made' = made
  BY DEF MergeChild, Deeper
<1>2. /\ Tree(t) /\ path \in Seq(1 .. Len(t)) /\ Tree(lib) /\ importing \in FileIds
      /\ importing < file /\ file \in Nat
      /\ merging \in Seq(Step) /\ Len(merging) \in Nat /\ Len(path) = Len(merging) - 1
      /\ m_local_nodes = <<>> /\ Last(backup) \in 1 .. Len(t) /\ Here = WayTo(t)[Last(backup)]
      /\ failed \in BOOLEAN /\ Along /\ (~failed => Coming)
      /\ \A i \in 1 .. Len(merging) : merging[i].node \in 1 .. Len(lib)
  BY <1>1, MergingOn
<1>3. id \in 1 .. Len(lib) /\ name \in AllNames /\ w = Append(WayTo(t)[current_node], name)
  BY <1>1, ChildNamespace
<1> HIDE DEF name
<1>4. /\ Tree(t1) /\ Extends(t, t1) /\ NoEntries(t, t1) /\ i1 \in 1 .. Len(t1)
      /\ Len(t1) \in Nat
  <2>1. /\ Tree(t1) /\ Extends(t, t1) /\ NoEntries(t, t1) /\ i1 \in 1 .. Len(t1)
    BY <1>2, <1>3, EnteredNode
  <2> QED BY <2>1, TreeStays
<1>5. /\ WayTo(t1)[i1] = w
      /\ Range(WayTo(t1)) = Range(WayTo(t)) \union {w}
      /\ DeclaredBy(t1) = DeclaredBy(t)
  <2>1. /\ WayTo(t1)[i1] = Append(WayTo(t)[current_node], name)
        /\ Range(WayTo(t1)) = Range(WayTo(t)) \union {WayTo(t1)[i1]}
        /\ DeclaredBy(t1) = DeclaredBy(t)
    BY <1>2, <1>3, EnteredReads
  <2> QED BY <1>3, <2>1
<1> HIDE DEF t1, i1, w
<1>6. /\ Range(WayTo(m_nodes_container')) = Range(WayTo(t1))
      /\ \A i \in 1 .. Len(t1) : WayTo(m_nodes_container')[i] = WayTo(t1)[i]
      /\ DeclaredBy(m_nodes_container') = DeclaredBy(t1) \union Brings(t1, lib, w)
      /\ failed' = (failed \/ Taken(t1, lib, w) # {})
  <2>1. w = WayTo(lib)[id] BY DEF w
  <2> HIDE DEF lib, t
  <2>2. merged(t1, i1, lib[id]) BY <1>1
  <2> QED BY <1>2, <1>3, <1>4, <1>5, <2>1, <2>2, MergedReads
<1>7. Taken(t1, lib, w) = Taken(t, lib, w) /\ Brings(t1, lib, w) = Brings(t, lib, w)
  BY <1>5 DEF Taken, Brings
<1>8. \A i \in 1 .. Len(t) : i \in 1 .. Len(t1) /\ WayTo(m_nodes_container')[i] = WayTo(t)[i]
  BY <1>2, <1>4, <1>6, WaysKept
<1>9. Unused' BY <1>1, <1>2, <1>3, <1>4, UnusedMerged
<1>10. /\ merging' # <<>> /\ Len(merging') = Len(merging) + 1 /\ merging'[Len(merging) + 1] = a
       /\ \A i \in 1 .. Len(merging) : merging'[i].node = merging[i].node
                                       /\ merging'[i].todo \subseteq merging[i].todo
       /\ \A i \in 1 .. Len(merging) : \A k \in merging[i].todo :
            k \in merging'[i].todo \/ (i = Len(merging) /\ k = id)
  <2>1. a \in Step BY <1>2, <1>3, ActivationTyped
  <2> HIDE DEF a
  <2> QED BY <1>1, <1>2, <2>1, MergingChild
<1>11. a.node = id /\ a.todo = Range(lib[id].nodes) BY DEF Activation
<1> HIDE DEF a
<1>12. Here' = Here BY <1>1, <1>2, <1>8, <1>10 DEF Here
<1>13. exported'[importing'] = lib BY <1>1
<1>14. Along'
  <2>1. /\ \A i \in 1 .. Len(path) : path'[i] = path[i] /\ path[i] \in 1 .. Len(t)
        /\ path'[Len(path) + 1] = i1
    <3>1. path \in Seq(1 .. Len(t1))
      <4>1. Len(t) \in Nat BY <1>2, TreeStays
      <4>2. Len(t) <= Len(t1) BY <1>4 DEF Extends
      <4>3. 1 .. Len(t) \subseteq 1 .. Len(t1) BY <1>4, <4>1, <4>2
      <4> QED BY <1>2, <4>3, SeqMonotonic
    <3>2. \A i \in 1 .. Len(path) : path[i] \in 1 .. Len(t) BY <1>2, ElementOfSeq
    <3> QED BY <1>1, <1>4, <3>1, <3>2, AppendProperties
  <2>2. WayTo(m_nodes_container')[i1] = w BY <1>4, <1>5, <1>6
  <2>3. ASSUME NEW i \in 1 .. Len(merging')
        PROVE  /\ WayTo(lib)[merging'[i].node] =
                    IF i = 1 THEN <<>> ELSE WayTo(m_nodes_container')[path'[i - 1]]
               /\ merging'[i].todo \subseteq Range(lib[merging'[i].node].nodes)
    <3>1. i \in 1 .. Len(merging) \/ i = Len(merging) + 1 BY <1>2, <1>10
    <3>2. CASE i \in 1 .. Len(merging)
      <4>1. /\ WayTo(lib)[merging[i].node] = IF i = 1 THEN <<>> ELSE WayTo(t)[path[i - 1]]
            /\ merging[i].todo \subseteq Range(lib[merging[i].node].nodes)
        BY <1>2, <3>2 DEF Along
      <4>2. CASE i = 1 BY <1>10, <3>2, <4>1, <4>2
      <4>3. CASE i # 1
        <5>1. i - 1 \in 1 .. Len(path) BY <1>2, <3>2, <4>3
        <5>2. WayTo(m_nodes_container')[path'[i - 1]] = WayTo(t)[path[i - 1]]
          BY <1>8, <2>1, <5>1
        <5> QED BY <1>10, <3>2, <4>1, <4>3, <5>2
      <4> QED BY <4>2, <4>3
    <3>3. CASE i = Len(merging) + 1
      <4>1. merging'[i] = a /\ i # 1
        <5>1. Len(merging) # 0 BY <1>1, <1>2, SeqDomain
        <5> QED BY <1>2, <1>10, <3>3, <5>1
      <4>2. path'[i - 1] = i1 BY <1>2, <2>1, <3>3
      <4> QED BY <1>11, <2>2, <4>1, <4>2 DEF w
    <3> QED BY <3>1, <3>2, <3>3
  <2> QED BY <1>13, <2>3 DEF Along
<1>15. ~failed' => Coming'
  <2> SUFFICES ASSUME ~failed' PROVE Coming' OBVIOUS
  <2>1. ~failed /\ Taken(t, lib, w) = {} BY <1>2, <1>6, <1>7
  <2>2. DeclaredBy(m_nodes_container') = DeclaredBy(t) \union Brings(t, lib, w) BY <1>5, <1>6, <1>7
  <2>3. Brought(m_nodes_container', lib, id) BY <1>2, <1>3, <2>1, <2>2, BroughtBy DEF w
  <2>4. ASSUME NEW j \in 1 .. Len(lib)
        PROVE  \/ Brought(m_nodes_container', lib, j)
               \/ \E i \in 1 .. Len(merging') : Waits(lib, merging'[i].todo, j)
    <3>1. \/ Brought(t, lib, j)
          \/ \E i \in 1 .. Len(merging) : Waits(lib, merging[i].todo, j)
      BY <1>2, <2>1 DEF Coming
    <3>2. CASE Brought(t, lib, j) BY <2>2, <3>2, BroughtStays
    <3>3. ASSUME NEW i \in 1 .. Len(merging), NEW k \in merging[i].todo,
                 WayTo(lib)[k] \in Prefixes(WayTo(lib)[j])
          PROVE  \/ Brought(m_nodes_container', lib, j)
                 \/ \E m \in 1 .. Len(merging') : Waits(lib, merging'[m].todo, j)
      <4>1. i \in 1 .. Len(merging') BY <1>2, <1>10
      <4>2. CASE k \in merging'[i].todo BY <3>3, <4>1, <4>2 DEF Waits
      <4>3. CASE k = id
        <5>1. id = j \/ Waits(lib, Range(lib[id].nodes), j) BY <1>2, <1>3, <3>3, <4>3, WaitsBelow
        <5>2. Len(merging) + 1 \in 1 .. Len(merging') BY <1>2, <1>10
        <5> QED BY <1>10, <1>11, <2>3, <5>1, <5>2
      <4> QED BY <1>10, <3>3, <4>2, <4>3
    <3> QED BY <3>1, <3>2, <3>3 DEF Waits
  <2> QED BY <1>13, <2>4 DEF Coming
<1>16. Meant!Import(importing, w) /\ importing \in DOMAIN Files /\ w \in Lib[importing].namespaces
  <2>1. w \in Range(WayTo(lib))
    <3>1. DOMAIN WayTo(lib) = 1 .. Len(lib) BY <1>2, WayTyped
    <3> QED BY <1>3, <3>1 DEF w, Range
  <2>2. /\ Range(WayTo(m_nodes_container')) = Range(WayTo(t)) \union {w}
        /\ DeclaredBy(m_nodes_container') = DeclaredBy(t) \union Brings(t, lib, w)
        /\ failed' = (failed \/ Taken(t, lib, w) # {})
    BY <1>5, <1>6, <1>7
  <2> QED BY <1>1, <1>2, <1>12, <2>1, <2>2, ImportReads
<1> QED BY <1>9, <1>14, <1>15, <1>16 DEF Merged

LEMMA LeaveChildMeant ==
  ASSUME IInv, Unused, Merged, LeaveChild
  PROVE  Unused' /\ Merged' /\ UNCHANGED Meant!vars
<1> DEFINE t == m_nodes_container
           path == m_current_nodes_path
           lib == exported[importing]
           n == Len(merging)
<1>1. /\ n > 1 /\ Last(merging).todo = {} /\ leave_node /\ merging' = Front(merging)
      /\ file' = file /\ exported' = exported /\ backup' = backup
      /\ importing' = importing /\ failed' = failed /\ made' = made
      /\ m_nodes_container' = t
  BY DEF LeaveChild, leave_node
<1>2. merging # <<>>
  <2>1. Len(<<>>) = 0 OBVIOUS
  <2> QED BY <1>1, <2>1
<1>3. /\ Tree(t) /\ path \in Seq(1 .. Len(t)) /\ Tree(lib) /\ merging \in Seq(Step) /\ n \in Nat
      /\ Len(path) = n - 1 /\ m_local_nodes = <<>> /\ Here = WayTo(t)[Last(backup)]
      /\ Along /\ (~failed => Coming)
  BY <1>2, MergingOn
<1>4. m_local_nodes' = m_local_nodes /\ m_current_nodes_path' = Front(path)
  BY <1>1, <1>3 DEF leave_node
<1>5. path # <<>>
  <2>1. n \in Nat /\ n > 1 /\ Len(path) = n - 1 BY <1>1, <1>3
  <2> HIDE DEF n
  <2>2. Len(path) # 0 BY <2>1
  <2> QED BY <1>3, <2>2, SeqDomain
<1>6. \A i \in 1 .. n - 2 : m_current_nodes_path'[i] = path[i]
  <2>1. \A i \in 1 .. Len(path) - 1 : m_current_nodes_path'[i] = path[i] BY <1>3, <1>4, <1>5, LastOf
  <2> QED BY <1>3, <2>1
<1>7. /\ merging' \in Seq(Step) /\ Len(merging') = n - 1
      /\ \A i \in 1 .. n - 1 : merging'[i] = merging[i]
  BY <1>1, <1>2, <1>3, LastOf
<1>8. merging' # <<>>
  <2>1. Len(merging') # 0 BY <1>1, <1>3, <1>7
  <2> QED BY <1>7, <2>1, SeqDomain
<1>9. Here' = Here BY <1>1, <1>3, <1>8 DEF Here
<1>10. Unused' BY <1>1 DEF Unused
<1>11. Along'
  <2>1. ASSUME NEW i \in 1 .. Len(merging')
        PROVE  /\ WayTo(lib)[merging'[i].node] =
                    IF i = 1 THEN <<>> ELSE WayTo(t)[m_current_nodes_path'[i - 1]]
               /\ merging'[i].todo \subseteq Range(lib[merging'[i].node].nodes)
    <3>1. i \in 1 .. n /\ i \in 1 .. n - 1 /\ (i # 1 => i - 1 \in 1 .. n - 2) BY <1>3, <1>7
    <3>2. /\ WayTo(lib)[merging[i].node] = IF i = 1 THEN <<>> ELSE WayTo(t)[path[i - 1]]
          /\ merging[i].todo \subseteq Range(lib[merging[i].node].nodes)
      BY <1>3, <3>1 DEF Along
    <3> QED BY <1>6, <1>7, <3>1, <3>2
  <2> QED BY <1>1, <2>1 DEF Along
<1>12. ~failed' => Coming'
  <2> SUFFICES ASSUME ~failed PROVE Coming' BY <1>1
  <2>1. ASSUME NEW j \in 1 .. Len(lib)
        PROVE  \/ Brought(t, lib, j)
               \/ \E i \in 1 .. Len(merging') : Waits(lib, merging'[i].todo, j)
    <3>1. \/ Brought(t, lib, j)
          \/ \E i \in 1 .. n : Waits(lib, merging[i].todo, j)
      BY <1>3 DEF Coming
    <3>2. ASSUME NEW i \in 1 .. n, Waits(lib, merging[i].todo, j)
          PROVE  \E k \in 1 .. Len(merging') : Waits(lib, merging'[k].todo, j)
      <4>1. i # n BY <1>1, <3>2 DEF Waits, Last
      <4>2. i \in 1 .. n - 1 /\ i \in 1 .. Len(merging') BY <1>3, <1>7, <4>1
      <4> QED BY <1>7, <3>2, <4>2
    <3> QED BY <3>1, <3>2
  <2> QED BY <1>1, <2>1 DEF Coming
<1>13. Lib' = Lib /\ Shown(m_local_nodes)' = Shown(m_local_nodes) BY <1>1, <1>4 DEF Lib, Shown
<1>14. UNCHANGED Meant!vars BY <1>1, <1>9, <1>13 DEF Meant!vars, Here, Lib, Shown
<1> QED BY <1>8, <1>10, <1>11, <1>12, <1>14 DEF Merged

\* A merge ends when nothing is left of the imported tree.
LEMMA AllBrought ==
  ASSUME IInv, Merged, ImportDone, ~failed, NEW d \in DeclaredBy(exported[importing])
  PROVE  [d EXCEPT !.exported = FALSE] \in DeclaredBy(m_nodes_container)
<1> DEFINE lib == exported[importing]
<1>1. Len(merging) = 1 /\ Last(merging).todo = {} BY DEF ImportDone
<1>2. merging # <<>>
  <2>1. Len(<<>>) = 0 OBVIOUS
  <2> QED BY <1>1, <2>1
<1>3. Tree(lib) /\ Coming BY <1>2, MergingOn
<1>4. PICK j \in 1 .. Len(lib) : \E e \in lib[j].entries : d = Declaration(lib, j, e)
  BY <1>3, DeclaredIs
<1>5. PICK e \in lib[j].entries : d = Declaration(lib, j, e) BY <1>4
<1>6. \A i \in 1 .. Len(merging) : merging[i].todo = {} BY <1>1 DEF Last
<1>7. Brought(m_nodes_container, lib, j) BY <1>3, <1>6 DEF Coming, Waits
<1> QED BY <1>5, <1>7 DEF Brought

LEMMA ImportDoneMeant ==
  ASSUME IInv, Unused, Merged, ImportDone
  PROVE  Unused' /\ Merged' /\ UNCHANGED Meant!vars
<1>1. /\ Len(merging) = 1 /\ m_current_nodes_path' = backup /\ merging' = <<>>
      /\ m_nodes_container' = m_nodes_container /\ m_local_nodes' = m_local_nodes
      /\ file' = file /\ exported' = exported /\ failed' = failed /\ made' = made
  BY DEF ImportDone, restored
<1>2. merging # <<>>
  <2>1. Len(<<>>) = 0 OBVIOUS
  <2> QED BY <1>1, <2>1
<1>3. Here' = Here BY <1>1, <1>2 DEF Here
<1>4. Unused' /\ Merged' BY <1>1 DEF Unused, Merged
<1>5. Lib' = Lib /\ Shown(m_local_nodes)' = Shown(m_local_nodes) BY <1>1 DEF Lib, Shown
<1>6. UNCHANGED Meant!vars BY <1>1, <1>3, <1>5 DEF Meant!vars, Here, Lib, Shown
<1> QED BY <1>4, <1>6

\* A file offers what it declares for others, in the namespaces it has.
LEMMA ExportedReads ==
  ASSUME Tree(m_nodes_container), NEW c, c = collect_exported_stuff
  PROVE  /\ Range(WayTo(c)) = Range(WayTo(m_nodes_container))
         /\ DeclaredBy(c) = {d \in DeclaredBy(m_nodes_container) : d.exported}
<1> DEFINE t == m_nodes_container
<1>1. /\ Tree(t) /\ Tree(c) /\ Extends(t, c) /\ Len(c) = Len(t)
      /\ \A i \in 1 .. Len(t) : c[i].entries = {e \in t[i].entries : e.exported}
  BY ExportedTree
<1> HIDE DEF t
<1>2. Range(WayTo(c)) = Range(WayTo(t)) /\ \A i \in 1 .. Len(t) : WayTo(c)[i] = WayTo(t)[i]
  BY <1>1, WaysSame
<1>3. \A i \in 1 .. Len(t) : \A e : Declaration(c, i, e) = Declaration(t, i, e)
                                    /\ Declaration(t, i, e).exported = e.exported
  BY <1>2 DEF Declaration
<1>4. ASSUME NEW d PROVE d \in DeclaredBy(c) <=> d \in DeclaredBy(t) /\ d.exported
  <2>1. d \in DeclaredBy(c) <=> \E i \in 1 .. Len(t) : \E e \in c[i].entries : d = Declaration(t, i, e)
    BY <1>1, <1>3, DeclaredIs
  <2>2. d \in DeclaredBy(t) <=> \E i \in 1 .. Len(t) : \E e \in t[i].entries : d = Declaration(t, i, e)
    BY <1>1, DeclaredIs
  <2>3. \A i \in 1 .. Len(t) : \A e : e \in c[i].entries <=> e \in t[i].entries /\ e.exported
    BY <1>1
  <2> QED BY <1>3, <2>1, <2>2, <2>3
<1>5. DeclaredBy(c) = {d \in DeclaredBy(t) : d.exported} BY <1>4
<1> QED BY <1>2, <1>5 DEF t

LEMMA FinishFileMeant ==
  ASSUME IInv, FinishFile
  PROVE  Unused' /\ Merged' /\ Meant!FinishFile
<1> DEFINE t == m_nodes_container
           path == m_current_nodes_path
           c == collect_exported_stuff
<1>1. /\ merging = <<>> /\ ~failed /\ file \in FileIds /\ guards = <<>>
      /\ exported' = [exported EXCEPT ![file] = c]
      /\ file' = file + 1 /\ m_nodes_container' = BuiltinNodes
      /\ m_current_nodes_path' = <<Root>> /\ m_local_nodes' = <<>>
      /\ merging' = merging /\ failed' = failed
  BY DEF FinishFile, Analysing, import
<1>2. /\ Tree(t) /\ path \in Seq(1 .. Len(t)) /\ path # <<>> /\ path[1] = Root
      /\ Here = WayTo(t)[Last(path)] /\ current_node = Last(path)
  BY <1>1, Analysed
<1>3. m_local_nodes = <<>> /\ Len(path) = 1
  <2>1. Count(guards, {"block"}) = 0 /\ Count(guards, {"namespace", "class"}) = 0
    <3>1. <<>> \in Seq(Kinds) /\ \A i \in 1 .. Len(<<>>) : FALSE OBVIOUS
    <3>2. \A kinds : Count(<<>>, kinds) = 0 BY <3>1, CountType
    <3> QED BY <1>1, <3>2
  <2>2. /\ Len(m_local_nodes) = Count(guards, {"block"}) /\ m_local_nodes \in Seq(SUBSET Entry)
        /\ Len(path) = 1 + Count(guards, {"namespace", "class"})
    BY <1>1 DEF IInv, Typed, Guarded, Standing
  <2> QED BY <2>1, <2>2, SeqDomain
<1>4. Here = <<>> /\ Here' = <<>>
  <2>1. Last(path) = Root BY <1>2, <1>3 DEF Last
  <2>2. Last(<<Root>>) = Root BY DEF Last
  <2>3. WayTo(t)[Root] = <<>> /\ WayTo(BuiltinNodes)[Root] = <<>> BY <1>2, Fresh, WayTyped
  <2> QED BY <1>1, <1>2, <2>1, <2>2, <2>3 DEF Here
<1>5. Unused'
  <2>1. DOMAIN BuiltinNodes = 1 .. Len(BuiltinNodes) BY Fresh, TreeDef, SeqDomain DEF Tree
  <2>2. file \in Nat /\ file + 1 # 0 BY <1>1, FilesAre
  <2>3. ASSUME NEW i \in 1 .. Len(BuiltinNodes), NEW e \in BuiltinNodes[i].entries, NEW k \in Nat,
               e.what = <<file + 1, k>>
        PROVE  FALSE
    <3>1. e.what[1] = 0 BY <2>1, BuiltinsAssumption
    <3>2. <<file + 1, k>>[1] = file + 1 OBVIOUS
    <3> QED BY <2>2, <2>3, <3>1, <3>2
  <2> QED BY <1>1, <2>3 DEF Unused
<1>6. Merged' BY <1>1 DEF Merged
<1> DEFINE offer == [declared |-> {d \in DeclaredBy(t) : d.exported}, namespaces |-> Range(WayTo(t))]
<1>7. Lib' = [Lib EXCEPT ![file] = offer]
  <2>1. DeclaredBy(c) = {d \in DeclaredBy(t) : d.exported} /\ Range(WayTo(c)) = Range(WayTo(t))
    BY <1>2, ExportedReads
  <2> HIDE DEF c, t
  <2>2. DOMAIN exported = FileIds BY DEF IInv, Library
  <2>3. [declared |-> DeclaredBy(c), namespaces |-> Range(WayTo(c))] = offer BY <2>1
  <2> HIDE DEF offer
  <2>4. \A f \in FileIds : exported'[f] = IF f = file THEN c ELSE exported[f] BY <1>1, <2>2
  <2>5. ASSUME NEW f \in FileIds
        PROVE  [declared |-> DeclaredBy(exported'[f]), namespaces |-> Range(WayTo(exported'[f]))] =
                 [Lib EXCEPT ![file] = offer][f]
    <3>1. CASE f = file BY <2>3, <2>4, <3>1 DEF Lib
    <3>2. CASE f # file BY <2>4, <3>2 DEF Lib
    <3> QED BY <3>1, <3>2
  <2>6. DOMAIN [Lib EXCEPT ![file] = offer] = FileIds BY DEF Lib
  <2> QED BY <2>5, <2>6 DEF Lib
<1>8. Shown(m_local_nodes) = <<>> /\ Shown(m_local_nodes') = <<>>
  <2>1. DOMAIN <<>> = {} OBVIOUS
  <2> QED BY <1>1, <1>3, <2>1 DEF Shown
<1>9. Meant!FinishFile
  BY <1>1, <1>4, <1>7, <1>8 DEF Meant!FinishFile, Here, Lib, Shown, FileIds
<1> QED BY <1>5, <1>6, <1>9

LEMMA NoWays == DOMAIN WayTo(<<>>) = {}
<1> DEFINE Def(way) ==
             way = [i \in DOMAIN <<>> |->
                      IF i = Root THEN <<>>
                      ELSE LET p == CHOOSE p \in DOMAIN <<>> : i \in Range(<<>>[p].nodes)
                           IN Append(way[p], <<>>[i].name)]
<1>1. DOMAIN <<>> = {} OBVIOUS
<1>2. Def(<<>>) BY <1>1
<1>3. WayTo(<<>>) = CHOOSE way : Def(way) BY DEF WayTo
<1>4. Def(WayTo(<<>>)) BY <1>2, <1>3
<1> QED BY <1>1, <1>4

LEMMA InitMeant == Init => Meant!Init /\ Unused /\ Merged
<1> SUFFICES ASSUME Init PROVE Meant!Init /\ Unused /\ Merged OBVIOUS
<1>1. /\ m_nodes_container = BuiltinNodes /\ m_current_nodes_path = <<Root>> /\ m_local_nodes = <<>>
      /\ file = 1 /\ exported = [f \in FileIds |-> <<>>] /\ merging = <<>> /\ failed = FALSE
  BY DEF Init
<1>2. Here = <<>>
  <2>1. Last(<<Root>>) = Root BY DEF Last
  <2>2. WayTo(BuiltinNodes)[Root] = <<>> BY Fresh, WayTyped
  <2> QED BY <1>1, <2>1, <2>2 DEF Here
<1>3. Shown(m_local_nodes) = <<>>
  <2>1. DOMAIN <<>> = {} OBVIOUS
  <2> QED BY <1>1, <2>1 DEF Shown
<1>4. Lib = [f \in FileIds |-> Meant!Nothing]
  <2>1. DeclaredBy(<<>>) = {} 
    <3>1. DOMAIN <<>> = {} OBVIOUS
    <3> QED BY <3>1 DEF DeclaredBy
  <2>2. Range(WayTo(<<>>)) = {} BY NoWays DEF Range
  <2> QED BY <1>1, <2>1, <2>2 DEF Lib, Meant!Nothing
<1>5. Unused
  <2>1. DOMAIN BuiltinNodes = 1 .. Len(BuiltinNodes) BY Fresh, TreeDef, SeqDomain DEF Tree
  <2>2. ASSUME NEW i \in 1 .. Len(BuiltinNodes), NEW e \in BuiltinNodes[i].entries, NEW k \in Nat,
               e.what = <<1, k>>
        PROVE  FALSE
    <3>1. e.what[1] = 0 BY <2>1, BuiltinsAssumption
    <3>2. <<1, k>>[1] = 1 OBVIOUS
    <3> QED BY <2>2, <3>1, <3>2
  <2> QED BY <1>1, <2>2 DEF Unused
<1>6. Merged BY <1>1 DEF Merged
<1>7. Meant!Init BY <1>1, <1>2, <1>3, <1>4 DEF Meant!Init, Here, Shown, Lib, FileIds
<1> QED BY <1>5, <1>6, <1>7

LEMMA NothingMeant ==
  ASSUME Unused, Merged, UNCHANGED vars PROVE Unused' /\ Merged' /\ UNCHANGED Meant!vars
<1>1. /\ m_nodes_container' = m_nodes_container /\ m_current_nodes_path' = m_current_nodes_path
      /\ m_local_nodes' = m_local_nodes /\ file' = file /\ exported' = exported
      /\ guards' = guards /\ merging' = merging /\ backup' = backup /\ importing' = importing
      /\ failed' = failed /\ made' = made
  BY DEF vars
<1>2. Unused' /\ Merged'
  <2>1. (Along => Along') /\ (Coming => Coming') BY <1>1 DEF Along, Coming
  <2> QED BY <1>1, <2>1 DEF Unused, Merged
<1>3. Here' = Here /\ Lib' = Lib /\ Shown(m_local_nodes)' = Shown(m_local_nodes)
  BY <1>1 DEF Here, Lib, Shown
<1>4. UNCHANGED Meant!vars BY <1>1, <1>3 DEF Meant!vars, Here, Lib, Shown
<1> QED BY <1>2, <1>4

\* Each step of the analysis is one of scoped names, or none.
LEMMA StepMeant ==
  ASSUME IInv, Unused, Merged, [Next]_vars
  PROVE  Unused' /\ Merged' /\ (Meant!Next \/ UNCHANGED Meant!vars)
<1>1. CASE \E n \in Names : OpenNamespace(n) \/ OpenClass(n)
  <2>1. PICK n \in Names : OpenNamespace(n) \/ OpenClass(n) BY <1>1
  <2>2. Unused' /\ Merged' /\ Meant!OpenNamespace(n)
    BY <2>1, OpenGlobalMeant DEF OpenNamespace, OpenClass
  <2> QED BY <2>2 DEF Meant!Next
<1>2. CASE OpenBlock BY <1>2, OpenBlockMeant DEF Meant!Next
<1>3. CASE Close BY <1>3, CloseMeant DEF Meant!Next
<1>4. CASE \E n \in Names, export \in BOOLEAN : Declare(n, export)
  <2>1. PICK n \in Names, export \in BOOLEAN : Declare(n, export) BY <1>4
  <2>2. /\ Unused' /\ Merged' /\ Meant!Declare(n, <<file, made.decls + 1>>, export)
        /\ <<file, made.decls + 1>> \in UNION { { <<f, i>> : i \in 1 .. MaxDecls[f] } : f \in FileIds }
    BY <2>1, DeclareMeant
  <2> QED BY <2>2 DEF Meant!Next
<1>5. CASE \E f \in FileIds : Import(f)
  <2>1. PICK f \in FileIds : Import(f) BY <1>5
  <2>2. /\ Unused' /\ Merged' /\ Meant!Import(f, <<>>)
        /\ f \in DOMAIN Files /\ <<>> \in Lib[f].namespaces
    BY <2>1, ImportMeant
  <2> QED BY <2>2 DEF Meant!Next, Lib
<1>6. CASE \E id \in Last(merging).todo : MergeChild(id)
  <2>1. PICK id : MergeChild(id) BY <1>6
  <2>2. /\ Unused' /\ Merged'
        /\ \E f \in DOMAIN Files : \E at \in Lib[f].namespaces : Meant!Import(f, at)
    BY <2>1, MergeChildMeant
  <2> QED BY <2>2 DEF Meant!Next, Lib
<1>7. CASE LeaveChild BY <1>7, LeaveChildMeant
<1>8. CASE ImportDone BY <1>8, ImportDoneMeant
<1>9. CASE FinishFile BY <1>9, FinishFileMeant DEF Meant!Next
<1>10. CASE UNCHANGED vars BY <1>10, NothingMeant
<1> QED BY <1>1, <1>2, <1>3, <1>4, <1>5, <1>6, <1>7, <1>8, <1>9, <1>10 DEF Next, Stopped

\* While an import is merged, what the path, the activations and the tree say of each
\* other: what the imported file offers is there or below a child that still waits.
THEOREM MergesInductive == Spec => [](IInv /\ Unused /\ Merged)
<1>1. Init => Unused /\ Merged BY InitMeant
<1>2. IInv /\ Unused /\ Merged /\ [Next]_vars => Unused' /\ Merged' BY StepMeant
<1> QED BY <1>1, <1>2, NamesInductive, PTL DEF Spec

\* The guards, declarations, imports and exports of qualified_entries_finder do to the tree
\* what the abstract specification does to namespaces: opening and closing scopes,
\* declaring, importing namespace after namespace, offering what is exported.
THEOREM ScopedNamesImplemented == Spec => ImplementsScopedNames
<1>1. Init => Meant!Init BY InitMeant
<1>2. IInv /\ Unused /\ Merged /\ [Next]_vars => [Meant!Next]_(Meant!vars) BY StepMeant
<1> QED BY <1>1, <1>2, MergesInductive, PTL DEF Spec, ImplementsScopedNames, Meant!Spec

\* merge_imported_stuff comes to an end only when the whole tree of the other file is
\* merged: all it exports is declared, in the namespaces and under the names it has there.
THEOREM ImportsBringAll == Spec => ImportBringsAll
<1>1. ASSUME IInv, Merged, [Next]_vars, merging # <<>>, merging' = <<>>
      PROVE  ImportDone
  <2>1. merging \in Seq(Step) BY <1>1 DEF IInv, Typed
  <2>2. ~(\E id : MergeChild(id))
    <3> SUFFICES ASSUME NEW id, MergeChild(id) PROVE FALSE OBVIOUS
    <3>1. id \in 1 .. Len(exported[importing]) /\ Tree(exported[importing])
      BY <1>1, MergingOn, ChildNamespace DEF MergeChild
    <3> DEFINE a == Activation(exported[importing][id], id)
    <3>2. a \in Step BY <3>1, ActivationTyped
    <3>3. merging' = Deeper(merging, id, a) BY DEF MergeChild, Deeper
    <3> HIDE DEF a
    <3> QED BY <1>1, <2>1, <3>2, <3>3, MergingChild
  <2>3. ~LeaveChild
    <3> SUFFICES ASSUME LeaveChild PROVE FALSE OBVIOUS
    <3>1. merging' = Front(merging) /\ Len(merging) > 1 BY DEF LeaveChild
    <3>2. Len(merging') = Len(merging) - 1 /\ Len(merging) \in Nat BY <1>1, <2>1, <3>1, LastOf
    <3>3. Len(merging') # 0 BY <3>1, <3>2
    <3>4. Len(<<>>) = 0 OBVIOUS
    <3> QED BY <1>1, <3>3, <3>4
  <2> QED BY <1>1, <2>2, <2>3
       DEF Next, Stopped, vars, OpenNamespace, OpenClass, OpenBlock, Open, Close, Declare, Import,
           FinishFile, Analysing
<1>2. IInv /\ Merged /\ [Next]_vars =>
        [(merging # <<>> /\ merging' = <<>> /\ ~failed) =>
           \A d \in DeclaredBy(exported[importing]) :
             [d EXCEPT !.exported = FALSE] \in DeclaredBy(m_nodes_container)]_vars
  BY <1>1, AllBrought
<1> QED BY <1>2, MergesInductive, PTL DEF Spec, ImportBringsAll
====
