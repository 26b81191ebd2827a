---- MODULE ComponentsProofs ----
(***************************************************************************)
(* Declarative scripts, for any number of them, any names and any bounds:  *)
(* pointers between declarations go back, and in scripts that base nothing *)
(* on a declaration and declare no name again that an import brought along *)
(* the declaration that is found by a name is that of the type of the name.*)
(***************************************************************************)
EXTENDS Components, SequenceTheorems, TLAPS

IsSequence(s) == s \in Seq(Range(s))

\* A body that is visited while there are n declarations.
Fields == {"kind", "name", "type", "declaration", "nodes"}
IsBody(b, n) ==
  /\ DOMAIN b = Fields /\ b.kind \in {"declaration", "component"}
  /\ b.declaration \in 0 .. n
Declares(b) == b.kind = "declaration"
\* found leads from names to some of the first n declarations.
Leads(found, n) == \A name \in DOMAIN found : found[name] \in 1 .. n

Typed ==
  /\ script \in 1 .. Scripts /\ IsSequence(contexts) /\ Len(contexts) = script - 1
  /\ DOMAIN BuiltinTypes \subseteq DOMAIN types /\ exported \subseteq DOMAIN types \intersect Names
  /\ IsSequence(declarations)
  /\ \A d \in 1 .. Len(declarations) : declarations[d].declaration \in 0 .. d - 1
  /\ Leads(component_declarations, Len(declarations))
  /\ \A s \in 1 .. Len(contexts) : Leads(contexts[s].component_declarations, Len(declarations))
  /\ IsSequence(open) /\ \A i \in 1 .. Len(open) : IsBody(open[i], Len(declarations))
  /\ status \in Statuses
\* Only a body by itself declares: what is visited inside another is a component.
Bodies ==
  \A i \in 1 .. Len(open) : Declares(open[i]) =>
    Len(open) = 1 /\ open[i].name \in Names
IInv == Typed /\ Bodies
----------------------------------------------------------------------------
\* Sequences.
LEMMA SequenceFacts ==
  ASSUME NEW s, IsSequence(s)
  PROVE  /\ Len(s) \in Nat /\ DOMAIN s = 1 .. Len(s) /\ (s = <<>> <=> Len(s) = 0)
         /\ \A i \in 1 .. Len(s) : s[i] \in Range(s)
<1>1. s \in Seq(Range(s)) BY DEF IsSequence
<1> QED BY <1>1, LenProperties, EmptySeq, ElementOfSeq

LEMMA NoSequence == IsSequence(<<>>) /\ Len(<<>>) = 0
BY EmptySeq DEF IsSequence

LEMMA Appending ==
  ASSUME NEW s, IsSequence(s), NEW x
  PROVE  /\ IsSequence(Append(s, x)) /\ Len(Append(s, x)) = Len(s) + 1
         /\ \A i \in 1 .. Len(s) : Append(s, x)[i] = s[i]
         /\ Append(s, x)[Len(s) + 1] = x
<1> DEFINE S == Range(s) \union {x}
<1>1. s \in Seq(S)
  <2>1. s \in Seq(Range(s)) BY DEF IsSequence
  <2> QED BY <2>1, SeqMonotonic
<1>2. x \in S OBVIOUS
<1> HIDE DEF S
<1>3. Append(s, x) \in Seq(S) BY <1>1, <1>2, AppendProperties
<1>4. IsSequence(Append(s, x)) BY <1>3, SeqOfRange DEF IsSequence
<1> QED BY <1>1, <1>2, <1>4, AppendProperties

LEMMA Replacing ==
  ASSUME NEW s, IsSequence(s), NEW k \in 1 .. Len(s), NEW x
  PROVE  /\ IsSequence([s EXCEPT ![k] = x]) /\ Len([s EXCEPT ![k] = x]) = Len(s)
         /\ \A i \in 1 .. Len(s) : [s EXCEPT ![k] = x][i] = IF i = k THEN x ELSE s[i]
<1> DEFINE S == Range(s) \union {x}
<1>1. s \in Seq(S)
  <2>1. s \in Seq(Range(s)) BY DEF IsSequence
  <2> QED BY <2>1, SeqMonotonic
<1>2. x \in S OBVIOUS
<1> HIDE DEF S
<1>3. [s EXCEPT ![k] = x] \in Seq(S) BY <1>1, <1>2, ExceptSeq
<1>4. IsSequence([s EXCEPT ![k] = x]) BY <1>3, SeqOfRange DEF IsSequence
<1> QED BY <1>1, <1>2, <1>4, ExceptSeq

LEMMA Shortening ==
  ASSUME NEW s, IsSequence(s), s # <<>>
  PROVE  /\ IsSequence(Front(s)) /\ Len(Front(s)) = Len(s) - 1
         /\ \A i \in 1 .. Len(s) - 1 : Front(s)[i] = s[i]
         /\ Last(s) = s[Len(s)] /\ Len(s) \in 1 .. Len(s)
<1>1. Len(s) \in Nat \ {0} /\ \A i \in 1 .. Len(s) : s[i] \in Range(s) BY SequenceFacts
<1>2. \A i \in 1 .. Len(s) - 1 : s[i] \in Range(s) BY <1>1
<1>3. /\ SubSeq(s, 1, Len(s) - 1) \in Seq(Range(s))
      /\ Len(SubSeq(s, 1, Len(s) - 1)) = IF 1 <= Len(s) - 1 THEN Len(s) - 1 - 1 + 1 ELSE 0
      /\ \A i \in 1 .. Len(s) - 1 - 1 + 1 : SubSeq(s, 1, Len(s) - 1)[i] = s[1 + i - 1]
  BY <1>1, <1>2, SubSeqProperties
<1>4. ASSUME NEW n \in Nat \ {0}
      PROVE  /\ n \in 1 .. n /\ (IF 1 <= n - 1 THEN n - 1 - 1 + 1 ELSE 0) = n - 1
             /\ \A i \in 1 .. n - 1 : i \in 1 .. n - 1 - 1 + 1 /\ 1 + i - 1 = i
  OBVIOUS
<1>5. IsSequence(SubSeq(s, 1, Len(s) - 1)) BY <1>3, SeqOfRange DEF IsSequence
<1>6. Len(SubSeq(s, 1, Len(s) - 1)) = Len(s) - 1 BY <1>1, <1>3, <1>4
<1>7. \A i \in 1 .. Len(s) - 1 : SubSeq(s, 1, Len(s) - 1)[i] = s[i] BY <1>1, <1>3, <1>4
<1> QED BY <1>1, <1>4, <1>5, <1>6, <1>7 DEF Front, Last

LEMMA Prepending ==
  ASSUME NEW S, NEW x \in S, NEW s \in Seq(S)
  PROVE  /\ <<x>> \o s \in Seq(S) /\ Len(<<x>> \o s) # 0
         /\ Head(<<x>> \o s) = x /\ Tail(<<x>> \o s) = s
<1>1. <<x>> \in Seq(S) /\ Len(<<x>>) = 1 /\ <<x>>[1] = x OBVIOUS
<1> DEFINE t == <<x>> \o s
<1>2. /\ t \in Seq(S) /\ Len(t) = 1 + Len(s) /\ Len(s) \in Nat
      /\ \A i \in 1 .. 1 + Len(s) : t[i] = IF i <= 1 THEN <<x>>[i] ELSE s[i - 1]
  BY <1>1, ConcatProperties, LenProperties
<1> HIDE DEF t
<1>3. t # <<>> /\ Len(t) # 0 BY <1>2, EmptySeq
<1>4. Head(t) = x
  <2>1. Head(t) = t[1] BY <1>2, <1>3
  <2>2. 1 \in 1 .. 1 + Len(s) BY <1>2
  <2> QED BY <1>1, <1>2, <2>1, <2>2
<1>5. /\ Tail(t) \in Seq(S) /\ Len(Tail(t)) = Len(s)
      /\ \A i \in 1 .. Len(s) : Tail(t)[i] = t[i + 1]
  BY <1>2, <1>3, HeadTailProperties
<1>6. ASSUME NEW i \in 1 .. Len(s) PROVE Tail(t)[i] = s[i]
  <2>1. i + 1 \in 1 .. 1 + Len(s) /\ ~(i + 1 <= 1) /\ i + 1 - 1 = i BY <1>2
  <2> QED BY <1>2, <1>5, <2>1
<1>7. Tail(t) = s BY <1>5, <1>6, SeqEqual
<1> QED BY <1>2, <1>3, <1>4, <1>7 DEF t
LEMMA Alone ==
  ASSUME NEW b
  PROVE  IsSequence(<<b>>) /\ Len(<<b>>) = 1 /\ <<b>>[1] = b
<1>1. <<b>> \in Seq({b}) /\ Len(<<b>>) = 1 /\ <<b>>[1] = b OBVIOUS
<1> QED BY <1>1, SeqOfRange DEF IsSequence
----------------------------------------------------------------------------
\* Bodies.
LEMMA NewBody ==
  ASSUME NEW n \in Nat, NEW kind \in {"declaration", "component"}, NEW name, NEW type, NEW d \in 0 .. n
  PROVE  LET b == Body(kind, name, type, d)
         IN  /\ IsBody(b, n) /\ b.kind = kind /\ b.name = name /\ b.type = type /\ b.declaration = d
BY DEF Body, IsBody, Fields

LEMMA SameBody ==
  ASSUME NEW b, NEW n \in Nat, IsBody(b, n), NEW nodes
  PROVE  LET c == [b EXCEPT !.nodes = nodes]
         IN  /\ IsBody(c, n) /\ c.kind = b.kind /\ c.name = b.name /\ c.type = b.type
             /\ c.declaration = b.declaration
BY DEF IsBody, Fields

LEMMA FoundOne ==
  ASSUME NEW n \in Nat, Leads(component_declarations, n), NEW name
  PROVE  Found(name) \in 0 .. n
BY DEF Found, Leads

\* What only changes the bodies that are visited.
LEMMA OnlyOpen ==
  ASSUME IInv,
         script' = script, types' = types, exported' = exported,
         component_declarations' = component_declarations, declarations' = declarations,
         contexts' = contexts, status' \in Statuses,
         IsSequence(open'), \A i \in 1 .. Len(open') : IsBody(open'[i], Len(declarations)),
         Bodies'
  PROVE  IInv'
BY DEF IInv, Typed

LEMMA RefusedKept == ASSUME IInv, Refused PROVE IInv'
<1>1. /\ script' = script /\ types' = types /\ exported' = exported /\ open' = open
      /\ component_declarations' = component_declarations /\ declarations' = declarations
      /\ contexts' = contexts /\ status' \in Statuses
  BY DEF Refused, analysis, Statuses
<1>2. IsSequence(open') /\ (\A i \in 1 .. Len(open') : IsBody(open'[i], Len(declarations))) /\ Bodies'
  BY <1>1 DEF IInv, Typed, Bodies
<1> QED BY <1>1, <1>2, OnlyOpen

LEMMA DeclareKept ==
  ASSUME IInv, NEW name \in Names, NEW base, DeclareComponent(name, base)
  PROVE  IInv'
<1> DEFINE type == <<name>> \o (IF base = None THEN <<>> ELSE types[base])
           derived == IF base = None THEN 0 ELSE Found(DerivedLookup(name, base))
           b == Body("declaration", name, type, derived)
<1>1. CASE ~MayDeclare(name, base) BY <1>1, RefusedKept DEF DeclareComponent
<1>2. CASE MayDeclare(name, base)
  <2>1. /\ open' = <<b>> /\ script' = script /\ types' = types /\ exported' = exported
        /\ component_declarations' = component_declarations /\ declarations' = declarations
        /\ contexts' = contexts /\ status' = status
    BY <1>2 DEF DeclareComponent
  <2>2. Len(declarations) \in Nat /\ Leads(component_declarations, Len(declarations))
    BY SequenceFacts DEF IInv, Typed
  <2>3. derived \in 0 .. Len(declarations) BY <2>2, FoundOne
  <2> HIDE DEF type, derived
  <2>4. IsBody(b, Len(declarations)) /\ b.name = name BY <2>2, <2>3, NewBody
  <2> HIDE DEF b
  <2>5. IsSequence(open') /\ Len(open') = 1 /\ open'[1] = b BY <2>1, Alone
  <2>6. \A i \in 1 .. Len(open') : IsBody(open'[i], Len(declarations)) BY <2>4, <2>5
  <2>7. Bodies' BY <2>4, <2>5 DEF Bodies
  <2>8. status' \in Statuses BY <2>1 DEF IInv, Typed
  <2> QED BY <2>1, <2>5, <2>6, <2>7, <2>8, OnlyOpen
<1> QED BY <1>1, <1>2

LEMMA VisitKept == ASSUME IInv, NEW name, VisitComponent(name) PROVE IInv'
<1> DEFINE may == name \in DOMAIN types /\ (open # <<>> => Last(open).kind = "component")
           b == Body("component", None, types[name], Found(name))
<1>1. CASE ~may BY <1>1, RefusedKept DEF VisitComponent
<1>2. CASE may
  <2>1. /\ open' = Append(open, b) /\ script' = script /\ types' = types /\ exported' = exported
        /\ component_declarations' = component_declarations /\ declarations' = declarations
        /\ contexts' = contexts /\ status' = status
    BY <1>2 DEF VisitComponent
  <2>2. /\ Len(declarations) \in Nat /\ Leads(component_declarations, Len(declarations))
        /\ IsSequence(open) /\ \A i \in 1 .. Len(open) : IsBody(open[i], Len(declarations))
    BY SequenceFacts DEF IInv, Typed
  <2>3. IsBody(b, Len(declarations)) /\ b.kind = "component" BY <2>2, FoundOne, NewBody
  <2> HIDE DEF b
  <2>4. Len(open) \in Nat /\ IsSequence(open') /\ Len(open') = Len(open) + 1
        /\ (\A i \in 1 .. Len(open) : open'[i] = open[i]) /\ open'[Len(open) + 1] = b
    BY <2>1, <2>2, Appending, SequenceFacts
  <2>5. ASSUME NEW i \in 1 .. Len(open')
        PROVE  IsBody(open'[i], Len(declarations)) /\ ~Declares(open'[i])
    <3>1. CASE i = Len(open) + 1 BY <2>3, <2>4, <3>1 DEF Declares
    <3>2. CASE i \in 1 .. Len(open)
      <4>1. Len(open) # 0 /\ 1 \in 1 .. Len(open) BY <2>4, <3>2
      <4>2. open # <<>> /\ Last(open) = open[Len(open)]
        BY <2>2, <4>1, SequenceFacts, Shortening
      <4>3. Declares(open[i]) => Len(open) = 1 BY <3>2 DEF IInv, Bodies
      <4>4. open[Len(open)].kind = "component" BY <1>2, <4>2
      <4>5. ~Declares(open[i])
        <5>1. ASSUME Len(open) = 1 PROVE i = Len(open) BY <3>2, <5>1
        <5> QED BY <4>3, <4>4, <5>1 DEF Declares
      <4> QED BY <2>2, <2>4, <3>2, <4>5
    <3> QED BY <2>4, <3>1, <3>2
  <2>6. Bodies' BY <2>5 DEF Bodies
  <2>7. status' \in Statuses BY <2>1 DEF IInv, Typed
  <2> QED BY <2>1, <2>4, <2>5, <2>6, <2>7, OnlyOpen
<1> QED BY <1>1, <1>2
\* What another node does to the bodies: the k-th gets it.
WithNodes(s, k, nodes) == [s EXCEPT ![k].nodes = nodes]

LEMMA NodesKept ==
  ASSUME NEW n \in Nat, NEW s, IsSequence(s), \A i \in 1 .. Len(s) : IsBody(s[i], n),
         NEW k \in 1 .. Len(s), NEW nodes
  PROVE  /\ IsSequence(WithNodes(s, k, nodes)) /\ Len(WithNodes(s, k, nodes)) = Len(s)
         /\ \A i \in 1 .. Len(s) :
              /\ IsBody(WithNodes(s, k, nodes)[i], n)
              /\ WithNodes(s, k, nodes)[i].kind = s[i].kind
              /\ WithNodes(s, k, nodes)[i].name = s[i].name
              /\ WithNodes(s, k, nodes)[i].type = s[i].type
              /\ WithNodes(s, k, nodes)[i].declaration = s[i].declaration
<1> DEFINE c == [s[k] EXCEPT !.nodes = nodes]
           t == [s EXCEPT ![k] = c]
<1>1. /\ IsBody(c, n) /\ c.kind = s[k].kind /\ c.name = s[k].name /\ c.type = s[k].type
      /\ c.declaration = s[k].declaration
  BY SameBody
<1> HIDE DEF c
<1>2. IsSequence(t) /\ Len(t) = Len(s) /\ \A i \in 1 .. Len(s) : t[i] = IF i = k THEN c ELSE s[i]
  BY Replacing
<1> HIDE DEF t
<1>3. \A i \in 1 .. Len(s) :
        /\ IsBody(t[i], n) /\ t[i].kind = s[i].kind /\ t[i].name = s[i].name
        /\ t[i].type = s[i].type /\ t[i].declaration = s[i].declaration
  BY <1>1, <1>2
<1>4. WithNodes(s, k, nodes) = t BY DEF t, c, WithNodes
<1> QED BY <1>2, <1>3, <1>4

LEMMA AddNodeKept == ASSUME IInv, InBody, NEW node, AddNode(node) PROVE IInv'
<1> DEFINE nodes == Append(open[Len(open)].nodes, node)
<1>1. /\ open' = WithNodes(open, Len(open), nodes)
      /\ script' = script /\ types' = types /\ exported' = exported
      /\ component_declarations' = component_declarations /\ declarations' = declarations
      /\ contexts' = contexts /\ status' = status
  BY DEF AddNode, WithNodes
<1> HIDE DEF nodes
<1>2. /\ Len(declarations) \in Nat /\ IsSequence(open) /\ open # <<>>
      /\ \A i \in 1 .. Len(open) : IsBody(open[i], Len(declarations))
  BY SequenceFacts DEF IInv, Typed, InBody
<1>3. Len(open) \in 1 .. Len(open) BY <1>2, Shortening
<1>4. /\ IsSequence(open') /\ Len(open') = Len(open)
      /\ \A i \in 1 .. Len(open) :
           /\ IsBody(open'[i], Len(declarations)) /\ open'[i].kind = open[i].kind
           /\ open'[i].name = open[i].name
  BY <1>1, <1>2, <1>3, NodesKept
<1>5. Bodies' BY <1>4 DEF IInv, Bodies, Declares
<1>6. status' \in Statuses BY <1>1 DEF IInv, Typed
<1> QED BY <1>1, <1>4, <1>5, <1>6, OnlyOpen

LEMMA PropertyKept ==
  ASSUME IInv, NEW access, NEW value,
         VisitProperty(access, value) \/ VisitPropertyAppend(access, value)
  PROVE  IInv'
<1>1. CASE VisitProperty(access, value)
  BY <1>1, AddNodeKept, RefusedKept DEF VisitProperty
<1>2. CASE VisitPropertyAppend(access, value)
  BY <1>2, AddNodeKept, RefusedKept DEF VisitPropertyAppend
<1> QED BY <1>1, <1>2

LEMMA EndDeclarationKept == ASSUME IInv, EndDeclaration PROVE IInv'
<1> DEFINE b == Last(open)
           n == Len(declarations)
<1>1. /\ open # <<>> /\ b.kind = "declaration" /\ open' = <<>>
      /\ declarations' = Append(declarations, b)
      /\ types' = Put(types, b.name, b.type) /\ exported' = exported \union {b.name}
      /\ component_declarations' = Put(component_declarations, b.name, n + 1)
      /\ script' = script /\ contexts' = contexts /\ status' = status
  BY DEF EndDeclaration, InBody
<1>2. /\ IsSequence(declarations) /\ n \in Nat /\ IsSequence(open)
      /\ Leads(component_declarations, n)
      /\ \A i \in 1 .. Len(open) : IsBody(open[i], n)
      /\ \A d \in 1 .. n : declarations[d].declaration \in 0 .. d - 1
      /\ \A s \in 1 .. Len(contexts) : Leads(contexts[s].component_declarations, n)
  BY SequenceFacts DEF IInv, Typed
<1>3. b = open[Len(open)] /\ Len(open) \in 1 .. Len(open) BY <1>1, <1>2, Shortening
<1>4. IsBody(b, n) /\ b.name \in Names BY <1>1, <1>2, <1>3 DEF IInv, Bodies, Declares
<1> HIDE DEF b
<1>5. /\ IsSequence(declarations') /\ Len(declarations') = n + 1
      /\ \A d \in 1 .. n : declarations'[d] = declarations[d]
      /\ declarations'[n + 1] = b
  BY <1>1, <1>2, Appending
<1>6. \A d \in 1 .. n + 1 : declarations'[d].declaration \in 0 .. d - 1
  <2> TAKE d \in 1 .. n + 1
  <2>1. CASE d = n + 1
    <3>1. b.declaration \in 0 .. n /\ n + 1 - 1 = n BY <1>2, <1>4 DEF IsBody
    <3> QED BY <1>5, <2>1, <3>1
  <2>2. CASE d \in 1 .. n BY <1>2, <1>5, <2>2
  <2> QED BY <1>2, <2>1, <2>2
<1>7. 1 .. n \subseteq 1 .. n + 1 /\ n + 1 \in 1 .. n + 1 BY <1>2
<1>8. Leads(component_declarations', n + 1)
  <2> SUFFICES ASSUME NEW m \in DOMAIN component_declarations'
               PROVE  component_declarations'[m] \in 1 .. n + 1
    BY DEF Leads
  <2>1. \/ component_declarations'[m] = n + 1
        \/ /\ m \in DOMAIN component_declarations
           /\ component_declarations'[m] = component_declarations[m]
    BY <1>1 DEF Put
  <2> QED BY <1>2, <1>7, <2>1 DEF Leads
<1>9. \A s \in 1 .. Len(contexts) : Leads(contexts[s].component_declarations, n + 1)
  BY <1>2, <1>7 DEF Leads
<1>10. /\ DOMAIN BuiltinTypes \subseteq DOMAIN types'
       /\ exported' \subseteq DOMAIN types' \intersect Names
  <2>1. DOMAIN types' = {b.name} \union DOMAIN types BY <1>1 DEF Put
  <2> QED BY <1>1, <1>4, <2>1 DEF IInv, Typed
<1>11. IsSequence(open') /\ Len(open') = 0 BY <1>1, NoSequence
<1>12. Typed' BY <1>1, <1>5, <1>6, <1>8, <1>9, <1>10, <1>11 DEF IInv, Typed
<1>13. Bodies' BY <1>11 DEF Bodies
<1> QED BY <1>12, <1>13 DEF IInv

LEMMA EndComponentKept == ASSUME IInv, EndComponent PROVE IInv'
<1> DEFINE n == Len(declarations)
<1>1. /\ open # <<>> /\ Last(open).kind = "component"
      /\ script' = script /\ types' = types /\ exported' = exported
      /\ component_declarations' = component_declarations /\ declarations' = declarations
      /\ contexts' = contexts /\ status' = status
  BY DEF EndComponent, InBody
<1>2. /\ n \in Nat /\ IsSequence(open) /\ status' \in Statuses
      /\ \A i \in 1 .. Len(open) : IsBody(open[i], n)
  BY <1>1, SequenceFacts DEF IInv, Typed
<1>3. CASE Len(open) = 1
  <2>1. open' = <<>> BY <1>3 DEF EndComponent
  <2>2. IsSequence(open') /\ Len(open') = 0 BY <2>1, NoSequence
  <2>3. Bodies' BY <2>2 DEF Bodies
  <2> QED BY <1>1, <1>2, <2>2, <2>3, OnlyOpen
<1>4. CASE Len(open) # 1
  <2> DEFINE k == Len(open) - 1
             nodes == Front(open)[k].nodes \o Collected(Last(open))
  <2>1. open' = WithNodes(Front(open), k, nodes)
    BY <1>4 DEF EndComponent, WithNodes
  <2> HIDE DEF nodes
  <2>2. /\ IsSequence(Front(open)) /\ Len(Front(open)) = k
        /\ \A i \in 1 .. k : Front(open)[i] = open[i]
        /\ Len(open) \in Nat /\ Len(open) # 0
    BY <1>1, <1>2, Shortening, SequenceFacts
  <2>3. k \in 1 .. k /\ \A i \in 1 .. k : i \in 1 .. Len(open) BY <1>4, <2>2
  <2>4. \A i \in 1 .. k : IsBody(Front(open)[i], n) BY <1>2, <2>2, <2>3
  <2>5. /\ IsSequence(open') /\ Len(open') = k
        /\ \A i \in 1 .. k : IsBody(open'[i], n) /\ open'[i].kind = Front(open)[i].kind
    <3> DEFINE f == Front(open)
    <3>1. /\ IsSequence(f) /\ k \in 1 .. Len(f) /\ Len(f) = k
          /\ \A i \in 1 .. Len(f) : IsBody(f[i], n)
      BY <2>2, <2>3, <2>4
    <3>2. open' = WithNodes(f, k, nodes) BY <2>1
    <3> HIDE DEF f
    <3>3. /\ IsSequence(WithNodes(f, k, nodes)) /\ Len(WithNodes(f, k, nodes)) = k
          /\ \A i \in 1 .. k : /\ IsBody(WithNodes(f, k, nodes)[i], n)
                               /\ WithNodes(f, k, nodes)[i].kind = f[i].kind
      <4>1. n \in Nat BY <1>2
      <4> HIDE DEF n, k
      <4> QED BY <4>1, <3>1, NodesKept
    <3> QED BY <3>2, <3>3 DEF f
  <2>6. \A i \in 1 .. Len(open') : ~Declares(open'[i])
    BY <1>4, <2>2, <2>3, <2>5 DEF IInv, Bodies, Declares
  <2>7. Bodies' BY <2>6 DEF Bodies
  <2> QED BY <1>1, <1>2, <2>5, <2>7, OnlyOpen
<1> QED BY <1>3, <1>4
LEMMA ImportKept == ASSUME IInv, NEW s \in DOMAIN contexts, Import(s) PROVE IInv'
<1> DEFINE n == Len(declarations)
           more == contexts[s]
<1>1. CASE ~(DOMAIN more.types \intersect DOMAIN types = {}) BY <1>1, RefusedKept DEF Import
<1>2. CASE DOMAIN more.types \intersect DOMAIN types = {}
  <2>1. /\ types' = Merge(types, more.types)
        /\ component_declarations' = Merge(component_declarations, more.component_declarations)
        /\ script' = script /\ exported' = exported /\ open' = open
        /\ declarations' = declarations /\ contexts' = contexts /\ status' = status
    BY <1>2 DEF Import, Inserted
  <2>2. IsSequence(contexts) BY DEF IInv, Typed
  <2>3. s \in 1 .. Len(contexts) BY <2>2, SequenceFacts
  <2>4. Leads(component_declarations, n) /\ Leads(more.component_declarations, n)
    BY <2>3 DEF IInv, Typed
  <2> HIDE DEF more
  <2>5. Leads(component_declarations', n) BY <2>1, <2>4 DEF Leads, Merge
  <2>6. DOMAIN types \subseteq DOMAIN types' BY <2>1 DEF Merge
  <2>7. /\ DOMAIN BuiltinTypes \subseteq DOMAIN types'
        /\ exported' \subseteq DOMAIN types' \intersect Names
    BY <2>1, <2>6 DEF IInv, Typed
  <2>8. Typed' BY <2>1, <2>5, <2>7 DEF IInv, Typed
  <2>9. Bodies' BY <2>1 DEF IInv, Bodies
  <2> QED BY <2>8, <2>9 DEF IInv
<1> QED BY <1>1, <1>2

LEMMA AssertedKept ==
  ASSUME IInv, UNCHANGED analysis, status' \in Statuses PROVE IInv'
<1>1. /\ script' = script /\ types' = types /\ exported' = exported /\ open' = open
      /\ component_declarations' = component_declarations /\ declarations' = declarations
      /\ contexts' = contexts
  BY DEF analysis
<1>2. IsSequence(open') /\ (\A i \in 1 .. Len(open') : IsBody(open'[i], Len(declarations))) /\ Bodies'
  BY <1>1 DEF IInv, Typed, Bodies
<1> QED BY <1>1, <1>2, OnlyOpen

\* What an analysed script leaves behind.
Context == [types |-> [n \in exported |-> types[n]], component_declarations |-> component_declarations]

LEMMA EndScriptKept == ASSUME IInv, EndScript PROVE IInv'
<1> DEFINE targets == \A i \in DOMAIN components : HasTarget(components[i].type)
<1>1. CASE ~targets
  <2>1. UNCHANGED analysis /\ status' \in Statuses BY <1>1 DEF EndScript, Statuses
  <2> QED BY <2>1, AssertedKept
<1>2. CASE targets
  <2>1. /\ script < Scripts /\ contexts' = Append(contexts, Context) /\ script' = script + 1
        /\ types' = BuiltinTypes /\ component_declarations' = <<>> /\ exported' = {}
        /\ declarations' = declarations /\ open' = open /\ status' = status
    BY <1>2 DEF EndScript, NextScript, Context
  <2>2. /\ IsSequence(contexts) /\ Len(contexts) = script - 1 /\ script \in 1 .. Scripts
        /\ Leads(component_declarations, Len(declarations))
        /\ \A s \in 1 .. Len(contexts) : Leads(contexts[s].component_declarations, Len(declarations))
        /\ Scripts \in Nat
    BY ComponentsAssumption DEF IInv, Typed
  <2>3. /\ IsSequence(contexts') /\ Len(contexts') = Len(contexts) + 1
        /\ \A s \in 1 .. Len(contexts) : contexts'[s] = contexts[s]
        /\ contexts'[Len(contexts) + 1] = Context
    BY <2>1, <2>2, Appending
  <2>4. ASSUME NEW s \in 1 .. Len(contexts')
        PROVE  Leads(contexts'[s].component_declarations, Len(declarations))
    <3>1. Context.component_declarations = component_declarations BY DEF Context
    <3>2. s \in 1 .. Len(contexts) \/ s = Len(contexts) + 1 BY <2>2, <2>3
    <3> QED BY <2>2, <2>3, <3>1, <3>2
  <2>5. script' \in 1 .. Scripts /\ Len(contexts') = script' - 1 BY <2>1, <2>2, <2>3
  <2>6. Leads(component_declarations', Len(declarations)) BY <2>1 DEF Leads
  <2>7. Typed' BY <2>1, <2>3, <2>4, <2>5, <2>6 DEF IInv, Typed
  <2>8. Bodies' BY <2>1 DEF IInv, Bodies
  <2> QED BY <2>7, <2>8 DEF IInv
<1> QED BY <1>1, <1>2
LEMMA RegisterEnds ==
  ASSUME NEW type, NEW instance, Register(type, instance) PROVE status' \in Statuses
BY DEF Register, Ended, Statuses

LEMMA CreateKept == ASSUME IInv, Create PROVE IInv'
<1>1. UNCHANGED analysis BY DEF Create
<1>2. status' \in Statuses
  <2> DEFINE bad == \E i \in DOMAIN components : ~HasTarget(components[i].type)
             collected == InstanceOf(Collected(Last(components)))
  <2>1. CASE bad
    <3>0. components # <<>>
      <4>1. DOMAIN <<>> = {} OBVIOUS
      <4> QED BY <2>1, <4>1
    <3>1. Ended("asserted") BY <2>1, <3>0 DEF Create
    <3> QED BY <3>1 DEF Ended, Statuses
  <2>2. CASE ~bad /\ components = <<>>
    <3>1. Ended("done") BY <2>2 DEF Create
    <3> QED BY <3>1 DEF Ended, Statuses
  <2>3. CASE ~bad /\ components # <<>>
    <3>1. \/ \E how \in {"thrown", "asserted"} : collected.ends = how /\ Ended(how)
          \/ collected.ends = None /\ Register(Last(components).type, collected.instance)
      BY <2>3 DEF Create
    <3> QED BY <3>1, RegisterEnds DEF Ended, Statuses
  <2> QED BY <2>1, <2>2, <2>3
<1> QED BY <1>1, <1>2, AssertedKept

LEMMA StutterKept == ASSUME IInv, UNCHANGED vars PROVE IInv'
<1>1. UNCHANGED analysis /\ status' = status BY DEF vars
<1>2. status' \in Statuses BY <1>1 DEF IInv, Typed
<1> QED BY <1>1, <1>2, AssertedKept
----------------------------------------------------------------------------
LEMMA InitHolds == ASSUME Init PROVE IInv
<1>1. IsSequence(<<>>) /\ Len(<<>>) = 0 BY NoSequence
<1>2. DOMAIN BuiltinTypes \subseteq DOMAIN types BY DEF Init
<1>3. Leads(component_declarations, Len(declarations)) BY DEF Init, Leads
<1>4. Scripts \in Nat /\ Scripts > 0 BY ComponentsAssumption
<1> QED BY <1>1, <1>2, <1>3, <1>4 DEF Init, IInv, Typed, Bodies, Statuses

LEMMA NextKept == ASSUME IInv, [Next]_vars PROVE IInv'
<1>1. CASE \E name \in Names, base \in BuiltinNames \union Names \union {None} : DeclareComponent(name, base)
  BY <1>1, DeclareKept
<1>2. CASE \E name \in BuiltinNames \union Names : VisitComponent(name)
  BY <1>2, VisitKept
<1>3. CASE \E access \in Accesses, value \in Values :
             VisitProperty(access, value) \/ VisitPropertyAppend(access, value)
  BY <1>3, PropertyKept
<1>4. CASE \E s \in DOMAIN contexts : Import(s) BY <1>4, ImportKept
<1>5. CASE EndDeclaration BY <1>5, EndDeclarationKept
<1>6. CASE EndComponent BY <1>6, EndComponentKept
<1>7. CASE EndScript BY <1>7, EndScriptKept
<1>8. CASE Create BY <1>8, CreateKept
<1>9. CASE UNCHANGED vars BY <1>9, StutterKept
<1> QED BY <1>1, <1>2, <1>3, <1>4, <1>5, <1>6, <1>7, <1>8, <1>9 DEF Next

\* In every script, whatever it declares, imports and builds on: pointers between
\* declarations go back, what names lead to is a declaration that is there, and only a
\* body by itself declares (visit(component_declaration_node), visit(component_node),
\* visit(import_node) of decl_sema/sema_builder_ast_visitor.cpp).
THEOREM ComponentsInductive == Spec => []IInv
<1>1. Init => IInv BY InitHolds
<1>2. IInv /\ [Next]_vars => IInv' BY NextKept
<1> QED BY <1>1, <1>2, PTL DEF Spec

\* The type invariant that the runs check.
THEOREM ComponentsTyped == Spec => []TypeOK
<1>1. IInv => TypeOK
  <2> SUFFICES ASSUME IInv PROVE TypeOK OBVIOUS
  <2>1. Len(declarations) \in Nat /\ DOMAIN declarations = 1 .. Len(declarations)
    BY SequenceFacts DEF IInv, Typed
  <2>2. Range(component_declarations) \subseteq DOMAIN declarations
    BY <2>1 DEF IInv, Typed, Leads, Range
  <2>3. \A d \in DOMAIN declarations : declarations[d].declaration \in 0..d - 1
    BY <2>1 DEF IInv, Typed
  <2> QED BY <2>2, <2>3 DEF IInv, Typed, TypeOK
<1> QED BY <1>1, ComponentsInductive, PTL
----------------------------------------------------------------------------
\* Names and declarations, in scripts that do without what the two maps disagree about.
Plain == {"base of a script", "declaration of another script"} \subseteq Avoided

Own(name, type) == Len(type) # 0 /\ Head(type) = name
\* Every name of a script's type leads to the declaration of that type.
Agree(map, found, ds) ==
  \A n \in DOMAIN map \intersect Names :
    n \in DOMAIN found /\ Own(n, map[n]) /\ ds[found[n]].type = map[n]
\* A declaration on top of a builtin type, or of nothing.
OnBuiltin(b) ==
  b.declaration = 0 /\ (Len(Tail(b.type)) = 0 \/ Head(Tail(b.type)) \in DOMAIN BuiltinTypes)

Matched ==
  /\ DOMAIN types \subseteq DOMAIN BuiltinTypes \union Names
  /\ \A n \in DOMAIN BuiltinTypes : types[n] = BuiltinTypes[n]
  /\ DOMAIN component_declarations \subseteq Names
  /\ Agree(types, component_declarations, declarations)
  /\ \A s \in 1 .. Len(contexts) :
       /\ DOMAIN contexts[s].types \subseteq Names
       /\ DOMAIN contexts[s].component_declarations \subseteq Names
       /\ Agree(contexts[s].types, contexts[s].component_declarations, declarations)
  /\ \A d \in 1 .. Len(declarations) : OnBuiltin(declarations[d])
  /\ \A i \in 1 .. Len(open) :
       Declares(open[i]) => OnBuiltin(open[i]) /\ Own(open[i].name, open[i].type)

LEMMA BuiltinHeads ==
  \A n \in DOMAIN BuiltinTypes :
    /\ BuiltinTypes[n] \in Seq(DOMAIN BuiltinTypes)
    /\ Len(BuiltinTypes[n]) # 0 /\ Head(BuiltinTypes[n]) = n
<1> DEFINE D == Targets \union {Product, ListsType, "product_type"}
<1>1. DOMAIN BuiltinTypes = D BY DEF BuiltinTypes
<1>2. Product \in D OBVIOUS
<1> SUFFICES ASSUME NEW n \in D
             PROVE  /\ BuiltinTypes[n] \in Seq(D)
                    /\ Len(BuiltinTypes[n]) # 0 /\ Head(BuiltinTypes[n]) = n
  BY <1>1
<1>3. BuiltinTypes[n] = IF n \in Targets THEN <<n, Product>> ELSE <<n>> BY DEF BuiltinTypes
<1> HIDE DEF D
<1>4. CASE n \in Targets
  <2>1. /\ <<n, Product>> \in Seq(D) /\ Len(<<n, Product>>) = 2 /\ Head(<<n, Product>>) = n
    BY <1>2
  <2> QED BY <1>3, <1>4, <2>1
<1>5. CASE n \notin Targets
  <2>1. <<n>> \in Seq(D) /\ Len(<<n>>) = 1 /\ Head(<<n>>) = n OBVIOUS
  <2> QED BY <1>3, <1>5, <2>1
<1> QED BY <1>4, <1>5

\* The type of a declaration on base.
LEMMA DeclaredType ==
  ASSUME NEW name, NEW base \in DOMAIN BuiltinTypes \union {None},
         \A n \in DOMAIN BuiltinTypes : types[n] = BuiltinTypes[n],
         NEW type, type = <<name>> \o (IF base = None THEN <<>> ELSE types[base])
  PROVE  /\ Own(name, type)
         /\ Len(Tail(type)) = 0 \/ Head(Tail(type)) \in DOMAIN BuiltinTypes
<1> DEFINE S == DOMAIN BuiltinTypes \union {name}
<1>1. CASE base = None
  <2>1. <<>> \in Seq(S) /\ Len(<<>>) = 0 BY EmptySeq
  <2>0. name \in S OBVIOUS
  <2>2. type = <<name>> \o <<>> BY <1>1
  <2> HIDE DEF S
  <2>3. \A s \in Seq(S) : Len(<<name>> \o s) # 0 /\ Head(<<name>> \o s) = name /\ Tail(<<name>> \o s) = s
    BY <2>0, Prepending
  <2> QED BY <2>1, <2>2, <2>3 DEF Own
<1>2. CASE base # None
  <2>1. base \in DOMAIN BuiltinTypes /\ type = <<name>> \o BuiltinTypes[base] BY <1>2
  <2> DEFINE t == BuiltinTypes[base]
  <2>2. t \in Seq(DOMAIN BuiltinTypes) /\ Head(t) = base BY <2>1, BuiltinHeads
  <2>3. name \in S /\ DOMAIN BuiltinTypes \subseteq S OBVIOUS
  <2> HIDE DEF S, t
  <2>4. t \in Seq(S) BY <2>2, <2>3, SeqMonotonic
  <2>6. name \in S BY <2>3
  <2>5. Len(<<name>> \o t) # 0 /\ Head(<<name>> \o t) = name /\ Tail(<<name>> \o t) = t
    BY <2>4, <2>6, Prepending
  <2> QED BY <2>1, <2>2, <2>5 DEF Own, t
<1> QED BY <1>1, <1>2

\* Another declaration changes nothing for the names that lead to the others.
LEMMA StillAgree ==
  ASSUME NEW map, NEW found, IsSequence(declarations), Leads(found, Len(declarations)),
         Agree(map, found, declarations), NEW b
  PROVE  Agree(map, found, Append(declarations, b))
<1>1. \A d \in 1 .. Len(declarations) : Append(declarations, b)[d] = declarations[d]
  BY Appending
<1> QED BY <1>1 DEF Agree, Leads

LEMMA MatchedSame ==
  ASSUME Matched, types' = types, component_declarations' = component_declarations,
         declarations' = declarations, contexts' = contexts,
         \A i \in 1 .. Len(open') :
           Declares(open'[i]) => OnBuiltin(open'[i]) /\ Own(open'[i].name, open'[i].type)
  PROVE  Matched'
BY DEF Matched

LEMMA MatchedStays == ASSUME Matched, UNCHANGED analysis PROVE Matched'
<1>1. /\ types' = types /\ open' = open /\ component_declarations' = component_declarations
      /\ declarations' = declarations /\ contexts' = contexts
  BY DEF analysis
<1> QED BY <1>1 DEF Matched

LEMMA DeclareMatched ==
  ASSUME Plain, IInv, Matched, NEW name \in Names, NEW base, DeclareComponent(name, base)
  PROVE  Matched'
<1> DEFINE type == <<name>> \o (IF base = None THEN <<>> ELSE types[base])
           derived == IF base = None THEN 0 ELSE Found(DerivedLookup(name, base))
           b == Body("declaration", name, type, derived)
<1>1. CASE ~MayDeclare(name, base) BY <1>1, MatchedStays DEF DeclareComponent, Refused
<1>2. CASE MayDeclare(name, base)
  <2>1. /\ open' = <<b>> /\ types' = types
        /\ component_declarations' = component_declarations /\ declarations' = declarations
        /\ contexts' = contexts
    BY <1>2 DEF DeclareComponent
  <2>2. base \in DOMAIN BuiltinTypes \union {None} /\ name \notin DOMAIN component_declarations
    BY DEF DeclareComponent, Without, Plain
  <2>3. derived = 0 BY <2>2 DEF Found, DerivedLookup
  <2>4. Own(name, type) /\ (Len(Tail(type)) = 0 \/ Head(Tail(type)) \in DOMAIN BuiltinTypes)
    BY <2>2, DeclaredType DEF Matched
  <2> HIDE DEF type, derived
  <2>5. b.name = name /\ b.type = type /\ b.declaration = 0 BY <2>3 DEF Body
  <2> HIDE DEF b
  <2>6. OnBuiltin(b) /\ Own(b.name, b.type) BY <2>4, <2>5 DEF OnBuiltin
  <2>7. Len(open') = 1 /\ open'[1] = b BY <2>1, Alone
  <2>8. \A i \in 1 .. Len(open') :
          Declares(open'[i]) => OnBuiltin(open'[i]) /\ Own(open'[i].name, open'[i].type)
    BY <2>6, <2>7
  <2> QED BY <2>1, <2>8, MatchedSame
<1> QED BY <1>1, <1>2
LEMMA VisitMatched ==
  ASSUME IInv, Matched, NEW name, VisitComponent(name) PROVE Matched'
<1> DEFINE may == name \in DOMAIN types /\ (open # <<>> => Last(open).kind = "component")
           b == Body("component", None, types[name], Found(name))
<1>1. CASE ~may BY <1>1, MatchedStays DEF VisitComponent, Refused
<1>2. CASE may
  <2>1. /\ open' = Append(open, b) /\ types' = types
        /\ component_declarations' = component_declarations /\ declarations' = declarations
        /\ contexts' = contexts
    BY <1>2 DEF VisitComponent
  <2>2. b.kind = "component" BY DEF Body
  <2>3. IsSequence(open) BY DEF IInv, Typed
  <2> HIDE DEF b
  <2>4. /\ Len(open') = Len(open) + 1 /\ Len(open) \in Nat
        /\ (\A i \in 1 .. Len(open) : open'[i] = open[i]) /\ open'[Len(open) + 1] = b
    BY <2>1, <2>3, Appending, SequenceFacts
  <2>5. ASSUME NEW i \in 1 .. Len(open'), Declares(open'[i])
        PROVE  OnBuiltin(open'[i]) /\ Own(open'[i].name, open'[i].type)
    <3>1. i # Len(open) + 1 BY <2>2, <2>4, <2>5 DEF Declares
    <3>2. i \in 1 .. Len(open) BY <2>4, <3>1
    <3> QED BY <2>4, <2>5, <3>2 DEF Matched
  <2> QED BY <2>1, <2>5, MatchedSame
<1> QED BY <1>1, <1>2

LEMMA AddNodeMatched ==
  ASSUME IInv, Matched, InBody, NEW node, AddNode(node) PROVE Matched'
<1> DEFINE nodes == Append(open[Len(open)].nodes, node)
<1>1. /\ open' = WithNodes(open, Len(open), nodes) /\ types' = types
      /\ component_declarations' = component_declarations /\ declarations' = declarations
      /\ contexts' = contexts
  BY DEF AddNode, WithNodes
<1> HIDE DEF nodes
<1>2. /\ Len(declarations) \in Nat /\ IsSequence(open) /\ open # <<>>
      /\ \A i \in 1 .. Len(open) : IsBody(open[i], Len(declarations))
  BY SequenceFacts DEF IInv, Typed, InBody
<1>3. Len(open) \in 1 .. Len(open) BY <1>2, Shortening
<1>4. /\ Len(open') = Len(open)
      /\ \A i \in 1 .. Len(open) :
           /\ open'[i].kind = open[i].kind /\ open'[i].name = open[i].name
           /\ open'[i].type = open[i].type /\ open'[i].declaration = open[i].declaration
  BY <1>1, <1>2, <1>3, NodesKept
<1>5. \A i \in 1 .. Len(open') :
        Declares(open'[i]) => OnBuiltin(open'[i]) /\ Own(open'[i].name, open'[i].type)
  BY <1>4 DEF Matched, Declares, OnBuiltin
<1> QED BY <1>1, <1>5, MatchedSame

LEMMA PropertyMatched ==
  ASSUME IInv, Matched, NEW access, NEW value,
         VisitProperty(access, value) \/ VisitPropertyAppend(access, value)
  PROVE  Matched'
<1>1. Refused => Matched' BY MatchedStays DEF Refused
<1>2. CASE VisitProperty(access, value) BY <1>1, <1>2, AddNodeMatched DEF VisitProperty
<1>3. CASE VisitPropertyAppend(access, value) BY <1>1, <1>3, AddNodeMatched DEF VisitPropertyAppend
<1> QED BY <1>2, <1>3

LEMMA EndComponentMatched == ASSUME IInv, Matched, EndComponent PROVE Matched'
<1>1. /\ types' = types /\ component_declarations' = component_declarations
      /\ declarations' = declarations /\ contexts' = contexts
  BY DEF EndComponent
<1>2. ASSUME NEW i \in 1 .. Len(open') PROVE ~Declares(open'[i])
  <2> DEFINE n == Len(declarations)
             k == Len(open) - 1
             f == Front(open)
             nodes == f[k].nodes \o Collected(Last(open))
  <2>1. /\ IsSequence(open) /\ open # <<>> /\ Last(open).kind = "component" /\ n \in Nat
        /\ \A j \in 1 .. Len(open) : IsBody(open[j], n)
    BY SequenceFacts DEF IInv, Typed, EndComponent, InBody
  <2>2. /\ IsSequence(f) /\ Len(f) = k /\ (\A j \in 1 .. k : f[j] = open[j])
        /\ Len(open) \in Nat
    BY <2>1, Shortening, SequenceFacts
  <2>3. CASE Len(open) = 1
    <3>1. open' = <<>> BY <2>3 DEF EndComponent
    <3> QED BY <3>1, <1>2, NoSequence
  <2>4. CASE Len(open) # 1
    <3>1. open' = WithNodes(f, k, nodes) BY <2>4 DEF EndComponent, WithNodes
    <3> HIDE DEF nodes
    <3>2. Len(open) # 0 BY <2>1, SequenceFacts
    <3>3. k \in 1 .. Len(f) /\ \A j \in 1 .. Len(f) : j \in 1 .. Len(open) BY <2>2, <2>4, <3>2
    <3>4. \A j \in 1 .. Len(f) : IsBody(f[j], n) BY <2>1, <2>2, <3>3
    <3>5. /\ Len(WithNodes(f, k, nodes)) = Len(f)
          /\ \A j \in 1 .. Len(f) : WithNodes(f, k, nodes)[j].kind = f[j].kind
      <4>1. n \in Nat BY <2>1
      <4>2. IsSequence(f) BY <2>2
      <4>3. k \in 1 .. Len(f) BY <3>3
      <4> HIDE DEF n, k, f
      <4> QED BY <4>1, <4>2, <4>3, <3>4, NodesKept
    <3>6. i \in 1 .. Len(f) /\ open'[i].kind = open[i].kind BY <1>2, <2>2, <3>1, <3>5
    <3>7. ~Declares(open[i]) BY <2>4, <3>3, <3>6 DEF IInv, Bodies
    <3> QED BY <3>6, <3>7 DEF Declares
  <2> QED BY <2>3, <2>4
<1> QED BY <1>1, <1>2, MatchedSame

LEMMA EndDeclarationMatched == ASSUME IInv, Matched, EndDeclaration PROVE Matched'
<1> DEFINE b == Last(open)
           n == Len(declarations)
<1>1. /\ open # <<>> /\ b.kind = "declaration" /\ open' = <<>>
      /\ declarations' = Append(declarations, b)
      /\ types' = Put(types, b.name, b.type)
      /\ component_declarations' = Put(component_declarations, b.name, n + 1)
      /\ contexts' = contexts
  BY DEF EndDeclaration, InBody
<1>2. /\ IsSequence(declarations) /\ n \in Nat /\ IsSequence(open)
      /\ Leads(component_declarations, n)
      /\ \A s \in 1 .. Len(contexts) : Leads(contexts[s].component_declarations, n)
  BY SequenceFacts DEF IInv, Typed
<1>3. b = open[Len(open)] /\ Len(open) \in 1 .. Len(open) BY <1>1, <1>2, Shortening
<1>4. /\ b.name \in Names /\ OnBuiltin(b) /\ Own(b.name, b.type)
      /\ b.name \notin DOMAIN BuiltinTypes
  BY <1>1, <1>3, ComponentsAssumption DEF IInv, Bodies, Declares, Matched
<1> HIDE DEF b
<1>5. /\ Len(declarations') = n + 1
      /\ \A d \in 1 .. n : declarations'[d] = declarations[d]
      /\ declarations'[n + 1] = b
  BY <1>1, <1>2, Appending
<1>6. \A d \in 1 .. Len(declarations') : OnBuiltin(declarations'[d])
  <2> TAKE d \in 1 .. Len(declarations')
  <2>1. d \in 1 .. n \/ d = n + 1 BY <1>2, <1>5
  <2> QED BY <1>4, <1>5, <2>1 DEF Matched
<1>7. Agree(types, component_declarations, declarations')
  BY <1>1, <1>2, StillAgree DEF Matched
<1>8. Agree(types', component_declarations', declarations')
  <2> SUFFICES ASSUME NEW m \in DOMAIN types' \intersect Names
               PROVE  /\ m \in DOMAIN component_declarations' /\ Own(m, types'[m])
                      /\ declarations'[component_declarations'[m]].type = types'[m]
    BY DEF Agree
  <2>1. /\ m \in DOMAIN types \union {b.name}
        /\ types'[m] = IF m = b.name THEN b.type ELSE types[m]
    BY <1>1 DEF Put
  <2>2. CASE m = b.name
    <3>1. m \in DOMAIN component_declarations' /\ component_declarations'[m] = n + 1
      BY <1>1, <2>2 DEF Put
    <3> QED BY <1>4, <1>5, <2>1, <2>2, <3>1
  <2>3. CASE m # b.name
    <3>1. /\ m \in DOMAIN component_declarations /\ Own(m, types[m])
          /\ declarations'[component_declarations[m]].type = types[m]
      BY <1>7, <2>1, <2>3 DEF Agree
    <3>2. m \in DOMAIN component_declarations' /\ component_declarations'[m] = component_declarations[m]
      BY <1>1, <2>3, <3>1 DEF Put
    <3> QED BY <2>1, <2>3, <3>1, <3>2
  <2> QED BY <2>2, <2>3
<1>9. \A s \in 1 .. Len(contexts') :
        /\ DOMAIN contexts'[s].types \subseteq Names
        /\ DOMAIN contexts'[s].component_declarations \subseteq Names
        /\ Agree(contexts'[s].types, contexts'[s].component_declarations, declarations')
  BY <1>1, <1>2, StillAgree DEF Matched
<1>10. /\ DOMAIN types' \subseteq DOMAIN BuiltinTypes \union Names
       /\ DOMAIN component_declarations' \subseteq Names
  BY <1>1, <1>4 DEF Put, Matched
<1>11. \A m \in DOMAIN BuiltinTypes : types'[m] = BuiltinTypes[m]
  <2> TAKE m \in DOMAIN BuiltinTypes
  <2>1. m # b.name /\ m \in DOMAIN types BY <1>4 DEF IInv, Typed
  <2>2. types'[m] = types[m] BY <1>1, <2>1 DEF Put
  <2> QED BY <2>2 DEF Matched
<1>12. Len(open') = 0 BY <1>1, NoSequence
<1> QED BY <1>6, <1>8, <1>9, <1>10, <1>11, <1>12 DEF Matched
LEMMA ImportMatched ==
  ASSUME Plain, IInv, Matched, NEW s \in DOMAIN contexts, Import(s) PROVE Matched'
<1> DEFINE more == contexts[s]
           leads == more.component_declarations
<1>1. CASE ~(DOMAIN more.types \intersect DOMAIN types = {})
  BY <1>1, MatchedStays DEF Import, Refused
<1>2. CASE DOMAIN more.types \intersect DOMAIN types = {}
  <2>1. /\ types' = Merge(types, more.types)
        /\ component_declarations' = Merge(component_declarations, leads)
        /\ open' = open /\ declarations' = declarations /\ contexts' = contexts
    BY <1>2 DEF Import, Inserted
  <2>2. IsSequence(contexts) BY DEF IInv, Typed
  <2>3. s \in 1 .. Len(contexts) BY <2>2, SequenceFacts
  <2>4. /\ DOMAIN more.types \subseteq Names /\ DOMAIN leads \subseteq Names
        /\ Agree(more.types, leads, declarations)
        /\ Agree(types, component_declarations, declarations)
    BY <2>3 DEF Matched
  <2>5. \A n \in DOMAIN leads \intersect DOMAIN component_declarations :
          leads[n] = component_declarations[n]
    BY DEF Import, Without, Plain
  <2> HIDE DEF more, leads
  <2>6. Agree(types', component_declarations', declarations)
    <3> SUFFICES ASSUME NEW n \in DOMAIN types' \intersect Names
                 PROVE  /\ n \in DOMAIN component_declarations' /\ Own(n, types'[n])
                        /\ declarations[component_declarations'[n]].type = types'[n]
      BY DEF Agree
    <3>1. CASE n \in DOMAIN types
      <4>1. types'[n] = types[n] BY <2>1, <3>1 DEF Merge
      <4>2. /\ n \in DOMAIN component_declarations /\ Own(n, types[n])
            /\ declarations[component_declarations[n]].type = types[n]
        BY <2>4, <3>1 DEF Agree
      <4>3. n \in DOMAIN component_declarations' /\ component_declarations'[n] = component_declarations[n]
        BY <2>1, <4>2 DEF Merge
      <4> QED BY <4>1, <4>2, <4>3
    <3>2. CASE n \notin DOMAIN types
      <4>1. n \in DOMAIN more.types /\ types'[n] = more.types[n] BY <2>1, <3>2 DEF Merge
      <4>2. n \in DOMAIN leads /\ Own(n, more.types[n]) /\ declarations[leads[n]].type = more.types[n]
        BY <2>4, <4>1 DEF Agree
      <4>3. n \in DOMAIN component_declarations' /\ component_declarations'[n] = leads[n]
        BY <2>1, <2>5, <4>2 DEF Merge
      <4> QED BY <4>1, <4>2, <4>3
    <3> QED BY <3>1, <3>2
  <2>7. /\ DOMAIN types' \subseteq DOMAIN BuiltinTypes \union Names
        /\ DOMAIN component_declarations' \subseteq Names
    BY <2>1, <2>4 DEF Merge, Matched
  <2>8. \A m \in DOMAIN BuiltinTypes : types'[m] = BuiltinTypes[m]
    <3> TAKE m \in DOMAIN BuiltinTypes
    <3>1. m \in DOMAIN types BY DEF IInv, Typed
    <3>2. types'[m] = types[m] BY <2>1, <3>1 DEF Merge
    <3> QED BY <3>2 DEF Matched
  <2> QED BY <2>1, <2>6, <2>7, <2>8 DEF Matched
<1> QED BY <1>1, <1>2

LEMMA EndScriptMatched == ASSUME IInv, Matched, EndScript PROVE Matched'
<1> DEFINE targets == \A i \in DOMAIN components : HasTarget(components[i].type)
<1>1. CASE ~targets BY <1>1, MatchedStays DEF EndScript
<1>2. CASE targets
  <2>1. /\ contexts' = Append(contexts, Context) /\ open' = open /\ declarations' = declarations
        /\ types' = BuiltinTypes /\ component_declarations' = <<>>
    BY <1>2 DEF EndScript, NextScript, Context
  <2>2. /\ Context.component_declarations = component_declarations
        /\ DOMAIN Context.types = exported /\ \A n \in exported : Context.types[n] = types[n]
    BY DEF Context
  <2>3. exported \subseteq DOMAIN types \intersect Names BY DEF IInv, Typed
  <2> HIDE DEF Context
  <2>4. /\ DOMAIN Context.types \subseteq Names
        /\ DOMAIN Context.component_declarations \subseteq Names
        /\ Agree(Context.types, Context.component_declarations, declarations)
    BY <2>2, <2>3 DEF Matched, Agree
  <2>5. IsSequence(contexts) BY DEF IInv, Typed
  <2>6. /\ Len(contexts') = Len(contexts) + 1 /\ Len(contexts) \in Nat
        /\ \A s \in 1 .. Len(contexts) : contexts'[s] = contexts[s]
        /\ contexts'[Len(contexts) + 1] = Context
    BY <2>1, <2>5, Appending, SequenceFacts
  <2>7. ASSUME NEW s \in 1 .. Len(contexts')
        PROVE  /\ DOMAIN contexts'[s].types \subseteq Names
               /\ DOMAIN contexts'[s].component_declarations \subseteq Names
               /\ Agree(contexts'[s].types, contexts'[s].component_declarations, declarations)
    <3>1. CASE s \in 1 .. Len(contexts)
      <4>1. contexts'[s] = contexts[s] BY <2>6, <3>1
      <4> QED BY <3>1, <4>1 DEF Matched
    <3>2. CASE s = Len(contexts) + 1
      <4>1. contexts'[s] = Context BY <2>6, <3>2
      <4> QED BY <2>4, <4>1
    <3> QED BY <2>6, <3>1, <3>2
  <2>8. /\ DOMAIN component_declarations' = {} /\ DOMAIN types' = DOMAIN BuiltinTypes
        /\ \A m \in DOMAIN BuiltinTypes : types'[m] = BuiltinTypes[m]
    BY <2>1
  <2>9. Agree(types', component_declarations', declarations)
    BY <2>8, ComponentsAssumption DEF Agree
  <2> QED BY <2>1, <2>7, <2>8, <2>9 DEF Matched
<1> QED BY <1>1, <1>2

LEMMA InitMatched == ASSUME Init PROVE Matched
<1>1. /\ types = BuiltinTypes /\ DOMAIN component_declarations = {}
      /\ Len(contexts) = 0 /\ Len(declarations) = 0 /\ Len(open) = 0
  BY NoSequence DEF Init
<1>2. Agree(types, component_declarations, declarations)
  BY <1>1, ComponentsAssumption DEF Agree
<1> QED BY <1>1, <1>2 DEF Matched

LEMMA NextMatched == ASSUME Plain, IInv, Matched, [Next]_vars PROVE Matched'
<1>1. CASE \E name \in Names, base \in BuiltinNames \union Names \union {None} : DeclareComponent(name, base)
  BY <1>1, DeclareMatched
<1>2. CASE \E name \in BuiltinNames \union Names : VisitComponent(name) BY <1>2, VisitMatched
<1>3. CASE \E access \in Accesses, value \in Values :
             VisitProperty(access, value) \/ VisitPropertyAppend(access, value)
  BY <1>3, PropertyMatched
<1>4. CASE \E s \in DOMAIN contexts : Import(s) BY <1>4, ImportMatched
<1>5. CASE EndDeclaration BY <1>5, EndDeclarationMatched
<1>6. CASE EndComponent BY <1>6, EndComponentMatched
<1>7. CASE EndScript BY <1>7, EndScriptMatched
<1>8. CASE Create BY <1>8, MatchedStays DEF Create
<1>9. CASE UNCHANGED vars BY <1>9, MatchedStays DEF vars
<1> QED BY <1>1, <1>2, <1>3, <1>4, <1>5, <1>6, <1>7, <1>8, <1>9 DEF Next

LEMMA MatchedAgrees == ASSUME IInv, Matched PROVE DeclarationsMatchTypes
<1>1. ASSUME NEW name \in DOMAIN types PROVE IsDeclarationOf(Found(name), types[name])
  <2>1. CASE name \in DOMAIN BuiltinTypes
    <3>1. Head(types[name]) \in DOMAIN BuiltinTypes BY <2>1, BuiltinHeads DEF Matched
    <3>2. name \notin DOMAIN component_declarations BY <2>1, ComponentsAssumption DEF Matched
    <3> QED BY <3>1, <3>2 DEF IsDeclarationOf, Found
  <2>2. CASE name \in Names
    <3>1. /\ name \in DOMAIN component_declarations /\ Own(name, types[name])
          /\ declarations[component_declarations[name]].type = types[name]
      BY <2>2 DEF Matched, Agree
    <3>2. component_declarations[name] # 0 BY <3>1 DEF IInv, Typed, Leads
    <3>3. Head(types[name]) \notin DOMAIN BuiltinTypes BY <2>2, <3>1, ComponentsAssumption DEF Own
    <3> QED BY <3>1, <3>2, <3>3 DEF IsDeclarationOf, Found, Own
  <2> QED BY <2>1, <2>2 DEF Matched
<1>2. ASSUME NEW d \in DOMAIN declarations
      PROVE  IsDeclarationOf(declarations[d].declaration, Tail(declarations[d].type))
  <2>1. d \in 1 .. Len(declarations) BY SequenceFacts DEF IInv, Typed
  <2> QED BY <2>1 DEF Matched, OnBuiltin, IsDeclarationOf
<1> QED BY <1>1, <1>2 DEF DeclarationsMatchTypes

\* In every script that bases no declaration on that of a script and declares no name
\* that came along with an import, imports and declarations fill m_qualified_ctxs.types
\* and component_declarations alike: the declaration that visit(component_node) finds by
\* the name of a type is the declaration of this type, and a component collects the
\* properties of its own type.  (What a base of a script leads to, a run shows.)
THEOREM DeclarationsMatch ==
  ASSUME Plain PROVE Spec => []DeclarationsMatchTypes
<1>1. Init => Matched BY InitMatched
<1>2. IInv /\ Matched /\ [Next]_vars => Matched' BY NextMatched
<1>3. IInv /\ Matched => DeclarationsMatchTypes BY MatchedAgrees
<1> QED BY <1>1, <1>2, <1>3, ComponentsInductive, PTL DEF Spec
====
