---- MODULE InstancesProofs ----
(***************************************************************************)
(* Who owns instances, for any variables, numbers, cells and sizes of      *)
(* lists, in scripts that keep no result of at, front or back: each element*)
(* that exists is in one list, once.  In those that also add no int& to a  *)
(* list by an operator, what is declared as int or list, or held by a list,*)
(* is no reference, and the variables have value semantics.                *)
(***************************************************************************)
EXTENDS Instances, FiniteSetTheorems, SequenceTheorems, WellFoundedInduction, TLAPS

\* Results of at, front and back are not kept: what they return instead of a value is a
\* finding of its own.
Direct == "element" \notin Forms
\* Nor is a reference an operand of + or += of a list, which would store it.
ByValue == Direct /\ "reference" \notin Forms

IntRef == [kind : {"reference"}, m_instance : OfType({"int"})]
ListRef == [kind : {"reference"}, m_instance : OfType({"list"})]
\* What a list holds.
ElementInstance == IF "reference" \in Forms THEN IntInstance \union IntRef ELSE IntInstance
\* What an instance that a variable owns is by the type of the variable.
OfItsType(v, instance) ==
  /\ TypeOf[v] = "int" => instance \in IntInstance
  /\ TypeOf[v] = "list" => instance \in ListInstance
  /\ TypeOf[v] = "int&" => instance \in IntRef
  /\ TypeOf[v] = "list&" => instance \in ListRef

Shaped(h) ==
  /\ DOMAIN h \subseteq Variables \union Cells
  /\ \A v \in DOMAIN h \intersect Variables : OfItsType(v, h[v])
  /\ \A c \in DOMAIN h \intersect Cells : h[c] \in ElementInstance

\* The lists of a heap, and what each of them owns.
ListsIn(h) == {l \in DOMAIN h : h[l].kind = "list"}
Owns(h, l) == Range(h[l].m_list)
Owned(h) ==
  /\ \A l \in ListsIn(h) : Owns(h, l) \subseteq DOMAIN h /\ IsInjective(h[l].m_list)
  /\ \A l, k \in ListsIn(h) : l # k => Owns(h, l) \intersect Owns(h, k) = {}
  /\ \A c \in DOMAIN h \intersect Cells : \E l \in ListsIn(h) : c \in Owns(h, l)

Sound(h) == Shaped(h) /\ Owned(h)
IInv == Sound(heap) /\ status \in {"running", "undefined", "terminated"}
----------------------------------------------------------------------------
\* Variables and cells.
LEMMA Kinds ==
  /\ \A v \in Variables : v \notin Cells /\ TypeOf[v] \in {"int", "int&", "list", "list&"}
  /\ \A c \in Cells : c \in Nat /\ c \notin Variables
  /\ IsFiniteSet(Cells)
BY CellsAssumption, TypesAssumption

LEMMA ElementsAre ==
  /\ IntInstance \subseteq ElementInstance
  /\ \A i \in ElementInstance : i \in IntInstance \/ i \in IntRef
  /\ \A i \in ElementInstance : i.kind \in {"int", "reference"}
  /\ "reference" \notin Forms => ElementInstance = IntInstance
BY DEF ElementInstance, IntInstance, IntRef

LEMMA ShapedFacts ==
  ASSUME NEW h, Shaped(h)
  PROVE  /\ \A v \in DOMAIN h \intersect OfType({"int"}) : h[v] \in IntInstance
         /\ \A v \in DOMAIN h \intersect OfType({"list"}) : h[v] \in ListInstance
         /\ \A v \in DOMAIN h \intersect OfType({"int&"}) : h[v] \in IntRef
         /\ \A v \in DOMAIN h \intersect OfType({"list&"}) : h[v] \in ListRef
         /\ \A i \in DOMAIN h : h[i].kind = "list" <=> i \in OfType({"list"})
         /\ \A i \in DOMAIN h \ Cells : h[i].kind = "reference" <=> i \in OfType({"int&", "list&"})
         /\ \A c \in DOMAIN h \intersect Cells :
              /\ h[c] \in IntInstance \/ h[c] \in IntRef
              /\ "reference" \notin Forms => h[c] \in IntInstance
<1>1. /\ \A v \in DOMAIN h \intersect OfType({"int"}) : h[v] \in IntInstance
      /\ \A v \in DOMAIN h \intersect OfType({"list"}) : h[v] \in ListInstance
      /\ \A v \in DOMAIN h \intersect OfType({"int&"}) : h[v] \in IntRef
      /\ \A v \in DOMAIN h \intersect OfType({"list&"}) : h[v] \in ListRef
  BY DEF Shaped, OfItsType, OfType
<1>2. ASSUME NEW i \in DOMAIN h
      PROVE  /\ h[i].kind = "list" <=> i \in OfType({"list"})
             /\ i \notin Cells => (h[i].kind = "reference" <=> i \in OfType({"int&", "list&"}))
  <2>1. CASE i \in Cells
    <3>1. h[i].kind # "list" /\ i \notin Variables BY <2>1, Kinds, ElementsAre DEF Shaped
    <3> QED BY <2>1, <3>1 DEF OfType
  <2>2. CASE i \in Variables
    <3>1. /\ i \in OfType({"int"}) => h[i].kind = "int"
          /\ i \in OfType({"list"}) => h[i].kind = "list"
          /\ i \in OfType({"int&"}) => h[i].kind = "reference"
          /\ i \in OfType({"list&"}) => h[i].kind = "reference"
      BY <1>1 DEF IntInstance, ListInstance, IntRef, ListRef
    <3>2. TypeOf[i] \in {"int", "int&", "list", "list&"} BY <2>2, Kinds
    <3> QED BY <2>2, <3>1, <3>2 DEF OfType
  <2> QED BY <2>1, <2>2 DEF Shaped
<1>3. \A c \in DOMAIN h \intersect Cells :
        /\ h[c] \in IntInstance \/ h[c] \in IntRef
        /\ "reference" \notin Forms => h[c] \in IntInstance
  BY ElementsAre DEF Shaped
<1> QED BY <1>1, <1>2, <1>3

LEMMA ListIs ==
  ASSUME NEW h, Shaped(h), NEW l \in ListsIn(h)
  PROVE  /\ l \in OfType({"list"}) /\ l \in Variables /\ l \notin Cells
         /\ h[l] \in ListInstance /\ h[l].m_list \in Seq(Cells) /\ Owns(h, l) \subseteq Cells
<1>1. l \in OfType({"list"}) BY ShapedFacts DEF ListsIn
<1>2. l \in Variables /\ l \notin Cells BY <1>1, Kinds DEF OfType
<1>3. h[l] \in ListInstance BY <1>1, ShapedFacts DEF ListsIn
<1>4. h[l].m_list \in Seq(Cells) BY <1>3 DEF ListInstance
<1>5. Owns(h, l) \subseteq Cells BY <1>4, RangeOfSeq DEF Owns
<1> QED BY <1>1, <1>2, <1>3, <1>4, <1>5
----------------------------------------------------------------------------
\* The instance that is denoted: a reference, an element or not, leads to a variable that
\* is none, so that the recursion ends after one step.
LEMMA DenotedIs ==
  ASSUME Shaped(heap), NEW i \in Variables \union Cells, NEW gone
  PROVE  Denoted(i, gone) = IF i \in Live \ gone /\ IsReference(i) THEN heap[i].m_instance ELSE i
<1> DEFINE Ids == Variables \union Cells
           Follows(j) == j \in Live \ gone /\ IsReference(j)
           Is(to) == to = [j \in Ids |-> IF Follows(j) THEN to[heap[j].m_instance] ELSE j]
           there == [j \in Ids |-> IF Follows(j) THEN heap[j].m_instance ELSE j]
<1>1. ASSUME NEW j \in Ids, Follows(j)
      PROVE  heap[j].m_instance \in Ids /\ ~Follows(heap[j].m_instance)
  <2>1. j \in Live /\ heap[j].kind = "reference" BY <1>1 DEF IsReference
  <2>2. heap[j] \in IntRef \/ heap[j] \in ListRef
    <3>1. CASE j \in Cells
      <4>1. heap[j] \in IntInstance \/ heap[j] \in IntRef BY <2>1, <3>1, ShapedFacts DEF Live
      <4> QED BY <2>1, <4>1 DEF IntInstance
    <3>2. CASE j \notin Cells
      <4>1. j \in OfType({"int&", "list&"}) BY <2>1, <3>2, ShapedFacts DEF Live
      <4>2. j \in OfType({"int&"}) \/ j \in OfType({"list&"}) BY <4>1 DEF OfType
      <4> QED BY <2>1, <4>2, ShapedFacts DEF Live
    <3> QED BY <3>1, <3>2
  <2>3. heap[j].m_instance \in OfType({"int"}) \/ heap[j].m_instance \in OfType({"list"})
    BY <2>2 DEF IntRef, ListRef
  <2>4. heap[j].m_instance \in Variables /\ heap[j].m_instance \notin OfType({"int&", "list&"})
    BY <2>3 DEF OfType
  <2>5. heap[j].m_instance \notin Cells BY <2>4, Kinds
  <2> QED BY <2>4, <2>5, ShapedFacts DEF Live, IsReference
<1> HIDE DEF Follows, Ids
<1>2. Is(there)
  <2>1. \A j \in Ids : there[j] = IF Follows(j) THEN there[heap[j].m_instance] ELSE j
    BY <1>1
  <2> QED BY <2>1
<1> DEFINE to == CHOOSE f : Is(f)
<1>3. Is(to) BY <1>2
<1> HIDE DEF to
<1>4. \A j \in Ids : to[j] = IF Follows(j) THEN to[heap[j].m_instance] ELSE j BY <1>3
<1>5. Denoted(i, gone) = IF Follows(i) THEN to[i] ELSE i
  BY DEF Denoted, to, Follows, Ids
<1>6. i \in Ids BY DEF Ids
<1>7. CASE Follows(i)
  <2>1. to[i] = to[heap[i].m_instance] BY <1>4, <1>6, <1>7
  <2>2. to[heap[i].m_instance] = heap[i].m_instance BY <1>1, <1>4, <1>6, <1>7
  <2> QED BY <1>5, <1>7, <2>1, <2>2 DEF Follows
<1>8. CASE ~Follows(i) BY <1>5, <1>8 DEF Follows
<1> QED BY <1>7, <1>8
----------------------------------------------------------------------------
\* Variables that can be used, and what they are used for.
LEMMA TargetIs ==
  ASSUME Shaped(heap), NEW v \in Variables, Declared(v)
  PROVE  /\ v \in Ints => Target(v) \in OfType({"int"})
         /\ v \in Lists => Target(v) \in OfType({"list"})
         /\ Target(v) = IF Refers(v) THEN heap[v].m_instance ELSE v
<1>1. Target(v) = IF IsReference(v) THEN heap[v].m_instance ELSE v
  BY DenotedIs DEF Target, Declared
<1>2. IsReference(v) <=> v \in OfType({"int&", "list&"})
  BY Kinds, ShapedFacts DEF Declared, Live, IsReference
<1>3. /\ v \in OfType({"int&"}) => heap[v].m_instance \in OfType({"int"})
      /\ v \in OfType({"list&"}) => heap[v].m_instance \in OfType({"list"})
  BY ShapedFacts DEF Declared, Live, IntRef, ListRef
<1>4. TypeOf[v] \in {"int", "int&", "list", "list&"} BY Kinds
<1> QED BY <1>1, <1>2, <1>3, <1>4 DEF OfType, Ints, Lists, IsList, Refers

LEMMA UsedList ==
  ASSUME Sound(heap), NEW l \in Lists, Usable(l)
  PROVE  /\ Target(l) \in ListsIn(heap) /\ Target(l) \in OfType({"list"})
         /\ ElementsOf(l) = heap[Target(l)].m_list /\ ElementsOf(l) \in Seq(Cells)
         /\ \A i \in DOMAIN ElementsOf(l) :
              ElementsOf(l)[i] \in Live \intersect Cells /\ heap[ElementsOf(l)[i]] \in ElementInstance
<1>1. l \in Variables BY DEF Lists
<1>2. Target(l) \in OfType({"list"}) BY <1>1, TargetIs DEF Usable, Sound
<1>3. Target(l) \in ListsIn(heap) BY <1>2, ShapedFacts DEF Usable, ListsIn, Live, Sound
<1>4. ElementsOf(l) \in Seq(Cells) /\ Owns(heap, Target(l)) \subseteq Cells
  BY <1>3, ListIs DEF ElementsOf, Sound
<1>5. \A i \in DOMAIN ElementsOf(l) : ElementsOf(l)[i] \in Owns(heap, Target(l))
  BY DEF Owns, Range, ElementsOf
<1>6. Owns(heap, Target(l)) \subseteq Live BY <1>3 DEF Sound, Owned, Live
<1>7. \A c \in Live \intersect Cells : heap[c] \in ElementInstance BY DEF Sound, Shaped, Live
<1> QED BY <1>2, <1>3, <1>4, <1>5, <1>6, <1>7 DEF ElementsOf

\* What is read through an int, a reference to one, or a reference to an element.
LEMMA ReadsNumbers ==
  ASSUME Sound(heap)
  PROVE  /\ \A n \in Int : Int_(n) \in IntInstance /\ Reads(Int_(n)) = n
         /\ \A i \in IntInstance : Reads(i) \in Int /\ i.kind # "reference"
         /\ \A i \in Live : heap[i] \in IntInstance =>
              Denoted(i, {}) = i /\ Reads(ReferenceTo(i)) = heap[i].number
         /\ \A i \in Live : heap[i] \in IntRef =>
              /\ Denoted(i, {}) = heap[i].m_instance
              /\ heap[i].m_instance \in Live => heap[heap[i].m_instance].number \in Int
              /\ Reads(ReferenceTo(i)) = heap[heap[i].m_instance].number
<1>1. \A n \in Int : Int_(n) \in IntInstance /\ Reads(Int_(n)) = n
  BY DEF Int_, IntInstance, Reads
<1>2. \A i \in IntInstance : Reads(i) \in Int /\ i.kind # "reference" BY DEF IntInstance, Reads
<1>3. ASSUME NEW i \in Live, heap[i] \in IntInstance
      PROVE  Denoted(i, {}) = i /\ Reads(ReferenceTo(i)) = heap[i].number
  <2>1. i \in Variables \union Cells BY DEF Sound, Shaped, Live
  <2>2. ~IsReference(i) BY <1>2, <1>3 DEF IsReference
  <2>3. Denoted(i, {}) = i BY <2>1, <2>2, DenotedIs DEF Sound
  <2>4. ReferenceTo(i).kind = "reference" /\ ReferenceTo(i).m_instance = i BY DEF ReferenceTo
  <2> QED BY <2>3, <2>4 DEF Reads
<1>4. ASSUME NEW i \in Live, heap[i] \in IntRef
      PROVE  /\ Denoted(i, {}) = heap[i].m_instance
             /\ heap[i].m_instance \in Live => heap[heap[i].m_instance].number \in Int
             /\ Reads(ReferenceTo(i)) = heap[heap[i].m_instance].number
  <2>1. i \in Variables \union Cells BY DEF Sound, Shaped, Live
  <2>2. IsReference(i) /\ heap[i].m_instance \in OfType({"int"}) BY <1>4 DEF IsReference, IntRef
  <2>3. Denoted(i, {}) = heap[i].m_instance BY <2>1, <2>2, DenotedIs DEF Sound
  <2>4. ReferenceTo(i).kind = "reference" /\ ReferenceTo(i).m_instance = i BY DEF ReferenceTo
  <2>5. heap[i].m_instance \in Live => heap[heap[i].m_instance] \in IntInstance
    BY <2>2, ShapedFacts DEF Sound, Live
  <2> QED BY <2>3, <2>4, <2>5 DEF Reads, IntInstance
<1> QED BY <1>1, <1>2, <1>3, <1>4

LEMMA UsedInt ==
  ASSUME Sound(heap), NEW v \in Ints, Usable(v)
  PROVE  /\ Target(v) \in Live \intersect OfType({"int"}) /\ heap[Target(v)] \in IntInstance
         /\ cast_to_value(v) \in IntInstance /\ Reads(heap[v]) = heap[Target(v)].number
         /\ ~Refers(v) => heap[v] \in IntInstance
<1>1. v \in Variables /\ Declared(v) /\ Target(v) \in Live BY DEF Ints, Usable
<1>2. Target(v) \in OfType({"int"}) BY <1>1, TargetIs DEF Sound
<1>3. heap[Target(v)] \in IntInstance BY <1>1, <1>2, ShapedFacts DEF Sound, Live
<1>4. Target(v) = IF Refers(v) THEN heap[v].m_instance ELSE v BY <1>1, TargetIs DEF Sound
<1>5. ~Refers(v) => heap[v] \in IntInstance BY <1>3, <1>4
<1>6. Reads(heap[v]) = heap[Target(v)].number
  <2>1. CASE ~Refers(v) BY <1>4, <1>5, <2>1 DEF Reads, IntInstance
  <2>2. CASE Refers(v)
    <3>1. v \in OfType({"int&", "list&"}) BY <1>1, <2>2 DEF OfType, Refers
    <3>2. heap[v].kind = "reference" BY <1>1, <3>1, Kinds, ShapedFacts DEF Declared, Live, Sound
    <3>3. Denoted(Target(v), {}) = Target(v) BY <1>1, <1>3, ReadsNumbers
    <3> QED BY <1>4, <2>2, <3>2, <3>3 DEF Reads
  <2> QED BY <2>1, <2>2
<1>7. cast_to_value(v) \in IntInstance
  <2>1. heap[Target(v)].number \in Int BY <1>3 DEF IntInstance
  <2> QED BY <1>6, <2>1, ReadsNumbers DEF cast_to_value
<1> QED BY <1>1, <1>2, <1>3, <1>5, <1>6, <1>7

\* What arguments evaluate to is an int; at, front and back answer references, and a
\* reference that is not cast is one.
LEMMA OperandIs ==
  ASSUME NEW e \in Operands
  PROVE  \/ e.form = "literal" /\ e.number \in Numbers
         \/ e.form = "variable" /\ e.name \in Ints
         \/ e.form = "element" /\ e.list \in Lists /\ e.position \in 0 .. MaxSize - 1
BY DEF Operands, Elements

LEMMA EvaluatedInt ==
  ASSUME Sound(heap), NEW e \in Operands, e.form # "element", Known(e)
  PROVE  Evaluated(e) \in IntInstance /\ InBraces(e) \in IntInstance
<1>1. CASE e.form = "literal"
  <2>1. e.number \in Int BY <1>1, OperandIs, NumbersAssumption
  <2>2. Evaluated(e) = Int_(e.number) /\ InBraces(e) = Int_(e.number) BY <1>1 DEF Evaluated, Uncast, InBraces
  <2> QED BY <2>1, <2>2, ReadsNumbers
<1>2. CASE e.form = "variable"
  <2>1. e.name \in Ints /\ Usable(e.name) BY <1>2, OperandIs DEF Known
  <2>2. /\ Evaluated(e) = IF Refers(e.name) THEN cast_to_value(e.name) ELSE heap[e.name]
        /\ InBraces(e) = cast_to_value(e.name)
    BY <1>2 DEF Evaluated, Uncast, InBraces
  <2> QED BY <2>1, <2>2, UsedInt
<1> QED BY <1>1, <1>2, OperandIs

LEMMA EvaluatedArgument ==
  ASSUME Direct, Sound(heap), NEW e \in Arguments, Known(e)
  PROVE  Evaluated(e) \in IntInstance /\ InBraces(e) \in IntInstance
<1>1. e \in Operands /\ e.form # "element" BY DEF Arguments, Direct
<1> QED BY <1>1, EvaluatedInt

LEMMA UncastAddend ==
  ASSUME Direct, Sound(heap), NEW e \in Addends, Known(e)
  PROVE  Uncast(e) \in ElementInstance
<1>1. /\ e \in Operands /\ e.form # "element"
      /\ e.form = "variable" /\ Refers(e.name) => "reference" \in Forms
  BY DEF Addends, Arguments, Direct
<1>2. CASE e.form = "literal"
  <2>1. e.number \in Int BY <1>1, <1>2, OperandIs, NumbersAssumption
  <2>2. Uncast(e) = Int_(e.number) BY <1>2 DEF Uncast
  <2> QED BY <2>1, <2>2, ReadsNumbers, ElementsAre
<1>3. CASE e.form = "variable"
  <2>1. e.name \in Ints /\ Usable(e.name) /\ Uncast(e) = heap[e.name]
    BY <1>1, <1>3, OperandIs DEF Known, Uncast
  <2>2. CASE ~Refers(e.name) BY <2>1, <2>2, UsedInt, ElementsAre
  <2>3. CASE Refers(e.name)
    <3>1. e.name \in OfType({"int&"}) /\ e.name \in Live
      BY <2>1, <2>3, Kinds DEF Ints, IsList, Refers, OfType, Usable, Declared
    <3>2. heap[e.name] \in IntRef BY <3>1, ShapedFacts DEF Sound, Live
    <3> QED BY <1>1, <1>3, <2>1, <2>3, <3>2 DEF ElementInstance
  <2> QED BY <2>2, <2>3
<1> QED BY <1>1, <1>2, <1>3, OperandIs

\* What is read of an operand of an assignment, an element too.
LEMMA EvaluatedReads ==
  ASSUME Sound(heap), NEW e \in Operands, Known(e), ~Dangles(Evaluated(e), {})
  PROVE  Reads(Evaluated(e)) \in Int
<1>1. CASE e.form # "element" BY <1>1, EvaluatedInt, ReadsNumbers
<1>2. CASE e.form = "element"
  <2>1. e.list \in Lists /\ e.position \in Nat BY <1>2, OperandIs, SizesAssumption
  <2>2. Usable(e.list) /\ e.position < Len(ElementsOf(e.list)) BY <1>2 DEF Known
  <2>3. ElementsOf(e.list) \in Seq(Cells) BY <2>1, <2>2, UsedList
  <2>4. e.position + 1 \in DOMAIN ElementsOf(e.list)
    <3>1. DOMAIN ElementsOf(e.list) = 1 .. Len(ElementsOf(e.list)) /\ Len(ElementsOf(e.list)) \in Nat
      BY <2>3, LenProperties
    <3> QED BY <2>1, <2>2, <3>1
  <2> DEFINE c == ElementsOf(e.list)[e.position + 1]
  <2>5. c \in Live /\ (heap[c] \in IntInstance \/ heap[c] \in IntRef)
    BY <2>1, <2>2, <2>4, UsedList, ElementsAre
  <2>6. Evaluated(e) = ReferenceTo(c) BY <1>2 DEF Evaluated, Uncast
  <2> HIDE DEF c
  <2>7. CASE heap[c] \in IntInstance
    <3>1. Reads(Evaluated(e)) = heap[c].number BY <2>5, <2>6, <2>7, ReadsNumbers
    <3> QED BY <2>7, <3>1 DEF IntInstance
  <2>8. CASE heap[c] \in IntRef
    <3>1. Denoted(c, {}) \in Live BY <2>6 DEF Dangles, ReferenceTo
    <3> QED BY <2>5, <2>6, <2>8, <3>1, ReadsNumbers
  <2> QED BY <2>5, <2>7, <2>8
<1> QED BY <1>1, <1>2
----------------------------------------------------------------------------
\* Deques while a method runs: elements in cells that the list held, each once, and new
\* elements.
NewElement == [new : ElementInstance]
Element(held) == [cell : held] \union NewElement
HeldOnce(list) ==
  \A i, j \in DOMAIN list : i # j /\ ~IsNew(list[i]) => list[i] # list[j]
Holds(list, held) == list \in Seq(Element(held)) /\ HeldOnce(list)

LEMMA Elements_ ==
  ASSUME NEW held
  PROVE  /\ \A e \in NewElement : IsNew(e) /\ e.new \in ElementInstance
         /\ \A e \in Element(held) : IsNew(e) <=> e \in NewElement
         /\ \A e \in Element(held) : ~IsNew(e) => e.cell \in held /\ e = [cell |-> e.cell]
<1>1. \A e \in NewElement : IsNew(e) /\ e.new \in ElementInstance BY DEF NewElement, IsNew
<1>2. \A e \in [cell : held] : ~IsNew(e) /\ e.cell \in held /\ e = [cell |-> e.cell]
  BY DEF IsNew
<1> QED BY <1>1, <1>2 DEF Element

LEMMA SequenceOf ==
  ASSUME NEW S, NEW n \in Nat, NEW s, DOMAIN s = 1 .. n, \A i \in 1 .. n : s[i] \in S,
         s = [i \in 1 .. n |-> s[i]]
  PROVE  s \in Seq(S) /\ Len(s) = n
<1>1. s \in [1 .. n -> S] OBVIOUS
<1>2. s \in Seq(S) BY <1>1, SeqDef
<1> QED BY <1>2, LenProperties

\* A rearrangement that takes each element of a list at most once, and adds new ones.
LEMMA Rearranged ==
  ASSUME NEW held, NEW list, Holds(list, held), NEW other, NEW p,
         other \in Seq(Element(held)),
         \A i \in DOMAIN other :
           other[i] \in NewElement \/ (p[i] \in DOMAIN list /\ other[i] = list[p[i]]),
         \A i, j \in DOMAIN other :
           i # j /\ ~IsNew(other[i]) /\ ~IsNew(other[j]) => p[i] # p[j]
  PROVE  Holds(other, held)
<1>1. ASSUME NEW i \in DOMAIN other, NEW j \in DOMAIN other, i # j, ~IsNew(other[i]),
             other[i] = other[j]
      PROVE  FALSE
  <2>1. ~IsNew(other[j]) BY <1>1
  <2>2. other[i] \notin NewElement /\ other[j] \notin NewElement BY <1>1, <2>1, Elements_
  <2>3. /\ p[i] \in DOMAIN list /\ other[i] = list[p[i]]
        /\ p[j] \in DOMAIN list /\ other[j] = list[p[j]]
    BY <2>2
  <2>4. p[i] # p[j] BY <1>1, <2>1
  <2> QED BY <1>1, <2>3, <2>4 DEF Holds, HeldOnce
<1> QED BY <1>1 DEF Holds, HeldOnce

LEMMA PartHolds ==
  ASSUME NEW held, NEW list, Holds(list, held), NEW m \in Nat, NEW n \in Int,
         1 <= m, n <= Len(list)
  PROVE  Holds(SubSeq(list, m, n), held)
<1>1. list \in Seq(Element(held)) BY DEF Holds
<1>2. DOMAIN list = 1 .. Len(list) /\ Len(list) \in Nat /\ \A i \in 1 .. Len(list) : list[i] \in Element(held)
  BY <1>1, LenProperties
<1>3. \A i \in m .. n : list[i] \in Element(held) BY <1>2
<1> DEFINE part == SubSeq(list, m, n)
           p == [i \in 1 .. n - m + 1 |-> m + i - 1]
<1>4. /\ part \in Seq(Element(held)) /\ Len(part) = IF m <= n THEN n - m + 1 ELSE 0
      /\ \A i \in 1 .. n - m + 1 : part[i] = list[m + i - 1]
  BY <1>2, <1>3, SubSeqProperties
<1>5. DOMAIN part = 1 .. Len(part) BY <1>4, LenProperties
<1>6. DOMAIN part \subseteq 1 .. n - m + 1 BY <1>2, <1>4, <1>5
<1>7. \A i \in 1 .. n - m + 1 : p[i] = m + i - 1 /\ p[i] \in DOMAIN list BY <1>2
<1> HIDE DEF part, p
<1>8. \A i \in DOMAIN part : p[i] \in DOMAIN list /\ part[i] = list[p[i]]
  BY <1>4, <1>6, <1>7
<1>9. \A i, j \in DOMAIN part : i # j => p[i] # p[j]
  <2>1. \A i, j \in 1 .. n - m + 1 : i # j => m + i - 1 # m + j - 1 BY <1>2
  <2> QED BY <1>6, <1>7, <2>1
<1>10. Holds(part, held) BY <1>4, <1>8, <1>9, Rearranged
<1> QED BY <1>10 DEF part
\* Concatenations of what has no element in common, and cuts of one list.
Apart(a, b) == \A i \in DOMAIN a, j \in DOMAIN b : IsNew(a[i]) \/ a[i] # b[j]

LEMMA JoinHolds ==
  ASSUME NEW held, NEW a, NEW b, Holds(a, held), Holds(b, held), Apart(a, b)
  PROVE  Holds(a \o b, held)
<1> DEFINE s == a \o b
<1>1. a \in Seq(Element(held)) /\ b \in Seq(Element(held)) BY DEF Holds
<1>2. /\ s \in Seq(Element(held)) /\ Len(s) = Len(a) + Len(b)
      /\ \A i \in 1 .. Len(a) + Len(b) : s[i] = IF i <= Len(a) THEN a[i] ELSE b[i - Len(a)]
  BY <1>1, ConcatProperties
<1>3. /\ DOMAIN a = 1 .. Len(a) /\ DOMAIN b = 1 .. Len(b) /\ Len(a) \in Nat /\ Len(b) \in Nat
      /\ DOMAIN s = 1 .. Len(s)
  BY <1>1, <1>2, LenProperties
<1> HIDE DEF s
<1>4. ASSUME NEW i \in DOMAIN s, NEW j \in DOMAIN s, i # j, ~IsNew(s[i]) PROVE s[i] # s[j]
  <2>1. CASE i <= Len(a) /\ j <= Len(a)
    BY <1>2, <1>3, <1>4, <2>1 DEF Holds, HeldOnce
  <2>2. CASE i <= Len(a) /\ ~(j <= Len(a))
    <3>1. s[i] = a[i] /\ s[j] = b[j - Len(a)] /\ i \in DOMAIN a /\ j - Len(a) \in DOMAIN b
      BY <1>2, <1>3, <2>2
    <3> QED BY <1>4, <3>1 DEF Apart
  <2>3. CASE ~(i <= Len(a)) /\ j <= Len(a)
    <3>1. s[j] = a[j] /\ s[i] = b[i - Len(a)] /\ j \in DOMAIN a /\ i - Len(a) \in DOMAIN b
      BY <1>2, <1>3, <2>3
    <3> QED BY <1>4, <3>1 DEF Apart
  <2>4. CASE ~(i <= Len(a)) /\ ~(j <= Len(a))
    <3>1. /\ s[i] = b[i - Len(a)] /\ s[j] = b[j - Len(a)]
          /\ i - Len(a) \in DOMAIN b /\ j - Len(a) \in DOMAIN b /\ i - Len(a) # j - Len(a)
      BY <1>2, <1>3, <1>4, <2>4
    <3> QED BY <1>4, <3>1 DEF Holds, HeldOnce
  <2> QED BY <2>1, <2>2, <2>3, <2>4
<1>5. Holds(s, held) BY <1>2, <1>4 DEF Holds, HeldOnce
<1> QED BY <1>5 DEF s

LEMMA FreshHolds ==
  ASSUME NEW held, NEW more \in Seq(NewElement)
  PROVE  /\ Holds(more, held)
         /\ \A a : Holds(a, held) =>
              /\ Apart(a, more) /\ Apart(more, a)
              /\ Holds(a \o more, held) /\ Holds(more \o a, held)
<1>1. more \in Seq(Element(held))
  BY SeqMonotonic DEF Element
<1>2. \A i \in DOMAIN more : more[i] \in NewElement /\ IsNew(more[i])
  <2>1. DOMAIN more = 1 .. Len(more) BY LenProperties
  <2>2. \A i \in DOMAIN more : more[i] \in NewElement BY <2>1, ElementOfSeq
  <2> QED BY <2>2, Elements_
<1>3. Holds(more, held) BY <1>1, <1>2 DEF Holds, HeldOnce
<1>4. \A a : Apart(more, a) BY <1>2 DEF Apart
<1>5. ASSUME NEW a, Holds(a, held) PROVE Apart(a, more)
  <2>1. ASSUME NEW i \in DOMAIN a, NEW j \in DOMAIN more, ~IsNew(a[i]) PROVE a[i] # more[j]
    BY <1>2, <2>1
  <2> QED BY <2>1 DEF Apart
<1> QED BY <1>3, <1>4, <1>5, JoinHolds

LEMMA CutHolds ==
  ASSUME NEW held, NEW list, Holds(list, held), NEW m \in Nat, NEW n \in Nat,
         m < n, n <= Len(list) + 1
  PROVE  /\ Holds(SubSeq(list, 1, m), held) /\ Holds(SubSeq(list, n, Len(list)), held)
         /\ Apart(SubSeq(list, 1, m), SubSeq(list, n, Len(list)))
         /\ Holds(SubSeq(list, 1, m) \o SubSeq(list, n, Len(list)), held)
         /\ \A more \in Seq(NewElement) :
              Holds(SubSeq(list, 1, m) \o more \o SubSeq(list, n, Len(list)), held)
<1> DEFINE left == SubSeq(list, 1, m)
           right == SubSeq(list, n, Len(list))
<1>1. list \in Seq(Element(held)) BY DEF Holds
<1>2. /\ DOMAIN list = 1 .. Len(list) /\ Len(list) \in Nat
      /\ \A i \in 1 .. Len(list) : list[i] \in Element(held)
  BY <1>1, LenProperties
<1>3. Holds(left, held) BY <1>2, PartHolds
<1>4. Holds(right, held)
  <2>1. 1 <= n /\ Len(list) <= Len(list) /\ Len(list) \in Int BY <1>2
  <2> QED BY <2>1, PartHolds
<1>5. /\ Len(left) = m /\ \A i \in 1 .. m : left[i] = list[i]
  <2>1. \A i \in 1 .. m : list[i] \in Element(held) BY <1>2
  <2>2. /\ Len(left) = IF 1 <= m THEN m - 1 + 1 ELSE 0
        /\ \A i \in 1 .. m - 1 + 1 : left[i] = list[1 + i - 1]
    BY <2>1, SubSeqProperties
  <2> HIDE DEF left
  <2> QED BY <2>2
<1>6. /\ Len(right) = IF n <= Len(list) THEN Len(list) - n + 1 ELSE 0
      /\ \A i \in 1 .. Len(list) - n + 1 : right[i] = list[n + i - 1]
  <2>1. \A i \in n .. Len(list) : list[i] \in Element(held) BY <1>2
  <2> QED BY <1>2, <2>1, SubSeqProperties
<1>7. DOMAIN left = 1 .. m BY <1>3, <1>5, LenProperties DEF Holds
<1>8. DOMAIN right = 1 .. Len(right) BY <1>4, LenProperties DEF Holds
<1> HIDE DEF left, right
<1>9. ASSUME NEW i \in DOMAIN left, NEW j \in DOMAIN right, ~IsNew(left[i])
      PROVE  left[i] # right[j]
  <2>1. i \in DOMAIN list /\ left[i] = list[i] /\ i < n BY <1>2, <1>5, <1>7
  <2>2. j \in 1 .. Len(list) - n + 1 BY <1>2, <1>6, <1>8
  <2>3. right[j] = list[n + j - 1] /\ n + j - 1 \in DOMAIN list /\ n + j - 1 >= n
    BY <1>2, <1>6, <2>2
  <2>4. i # n + j - 1 BY <2>1, <2>2, <1>7
  <2> QED BY <1>9, <2>1, <2>3, <2>4 DEF Holds, HeldOnce
<1>10. Apart(left, right) BY <1>9 DEF Apart
<1>11. Holds(left \o right, held) BY <1>3, <1>4, <1>10, JoinHolds
<1>12. ASSUME NEW more \in Seq(NewElement) PROVE Holds(left \o more \o right, held)
  <2>1. Holds(left \o more, held) /\ Apart(more, right) BY <1>3, <1>4, FreshHolds
  <2>2. /\ Len(left \o more) = Len(left) + Len(more) /\ Len(more) \in Nat
        /\ DOMAIN (left \o more) = 1 .. Len(left) + Len(more) /\ DOMAIN more = 1 .. Len(more)
        /\ \A i \in 1 .. Len(left) + Len(more) :
             (left \o more)[i] = IF i <= Len(left) THEN left[i] ELSE more[i - Len(left)]
    <3>1. left \in Seq(Element(held)) BY <1>3 DEF Holds
    <3>2. more \in Seq(Element(held)) BY SeqMonotonic DEF Element
    <3> QED BY <3>1, <3>2, ConcatProperties, LenProperties
  <2> DEFINE both == left \o more
  <2> HIDE DEF both
  <2>3. ASSUME NEW i \in DOMAIN both, NEW j \in DOMAIN right
        PROVE  IsNew(both[i]) \/ both[i] # right[j]
    <3>1. CASE i <= Len(left)
      <4>1. both[i] = left[i] /\ i \in DOMAIN left BY <1>5, <1>7, <2>2, <3>1 DEF both
      <4> QED BY <4>1, <1>10 DEF Apart
    <3>2. CASE ~(i <= Len(left))
      <4>1. both[i] = more[i - Len(left)] /\ i - Len(left) \in DOMAIN more
        BY <1>5, <2>2, <3>2 DEF both
      <4> QED BY <4>1, <2>1 DEF Apart
    <3> QED BY <3>1, <3>2
  <2>4. Apart(both, right) BY <2>3 DEF Apart
  <2>5. Holds(both \o right, held) BY <1>4, <2>1, <2>4, JoinHolds DEF both
  <2> QED BY <2>5 DEF both
<1> QED BY <1>3, <1>4, <1>10, <1>11, <1>12 DEF left, right
----------------------------------------------------------------------------
\* What methods leave of a list.
Leaves(o, held) == o.status \in {"running", "undefined", "terminated"} /\ Holds(o.list, held)

LEMMA OutcomeIs ==
  ASSUME NEW held
  PROVE  /\ Holds(<<>>, held)
         /\ \A list : Holds(list, held) => Leaves(Done(list), held)
         /\ \A list, n : Holds(list, held) => Leaves(Result(list, n), held)
         /\ Leaves(Undefined, held) /\ Leaves(Terminated, held)
<1>1. Holds(<<>>, held)
  <2>1. <<>> \in Seq(Element(held)) /\ Len(<<>>) = 0 BY EmptySeq
  <2>2. DOMAIN <<>> = {} BY <2>1, LenProperties
  <2> QED BY <2>1, <2>2 DEF Holds, HeldOnce
<1>2. \A list : Holds(list, held) => Leaves(Done(list), held) BY DEF Leaves, Done
<1>3. \A list, n : Holds(list, held) => Leaves(Result(list, n), held) BY DEF Leaves, Result
<1>4. Leaves(Undefined, held) /\ Leaves(Terminated, held)
  BY <1>1 DEF Leaves, Undefined, Terminated
<1> QED BY <1>1, <1>2, <1>3, <1>4

LEMMA AddingHolds ==
  ASSUME NEW held, NEW list, Holds(list, held), NEW more \in Seq(NewElement)
  PROVE  /\ \A pos \in Int : Leaves(insert(list, pos, more), held)
         /\ Leaves(push_back(list, more), held)
         /\ Leaves(push_front(list, more), held)
<1>1. Len(list) \in Nat BY LenProperties DEF Holds
<1>2. ASSUME NEW pos \in Int PROVE Leaves(insert(list, pos, more), held)
  <2>1. CASE pos \in 0 .. Len(list)
    <3> DEFINE s == SubSeq(list, 1, pos) \o more \o SubSeq(list, pos + 1, Len(list))
    <3>1. Holds(s, held)
      <4>1. pos \in Nat /\ pos + 1 \in Nat /\ pos < pos + 1 /\ pos + 1 <= Len(list) + 1
        BY <1>1, <2>1
      <4> QED BY <4>1, CutHolds
    <3>2. insert(list, pos, more) = Done(s) BY <2>1 DEF insert, InRange
    <3> HIDE DEF s
    <3> QED BY <3>1, <3>2, OutcomeIs
  <2>2. CASE ~(pos \in 0 .. Len(list))
    <3>1. insert(list, pos, more) = Undefined BY <2>2 DEF insert, InRange
    <3> QED BY <3>1, OutcomeIs
  <2> QED BY <2>1, <2>2
<1>3. Holds(list \o more, held) /\ Holds(more \o list, held) BY FreshHolds
<1> QED BY <1>2, <1>3, OutcomeIs DEF push_back, push_front

LEMMA ErasingHolds ==
  ASSUME NEW held, NEW list, Holds(list, held)
  PROVE  /\ \A pos, n \in Int : Leaves(erase(list, pos, n), held)
         /\ Leaves(pop_back(list), held) /\ Leaves(pop_front(list), held)
         /\ Leaves(clear(list), held)
<1>1. list \in Seq(Element(held)) /\ Len(list) \in Nat BY LenProperties DEF Holds
<1>2. ASSUME NEW pos \in Int, NEW n \in Int PROVE Leaves(erase(list, pos, n), held)
  <2> DEFINE count == interpret_special_value(n, 1)
  <2>1. count \in Int BY DEF interpret_special_value
  <2> HIDE DEF count
  <2>2. erase(list, pos, n) =
          IF IsRange(list, pos, pos + count)
          THEN Done(SubSeq(list, 1, pos) \o SubSeq(list, pos + count + 1, Len(list)))
          ELSE Undefined
    BY DEF erase, count
  <2>3. CASE IsRange(list, pos, pos + count)
    <3>1. /\ pos \in Nat /\ pos + count + 1 \in Nat /\ pos < pos + count + 1
          /\ pos + count + 1 <= Len(list) + 1
      BY <1>1, <2>1, <2>3 DEF IsRange, InRange
    <3>2. Holds(SubSeq(list, 1, pos) \o SubSeq(list, pos + count + 1, Len(list)), held)
      BY <3>1, CutHolds
    <3> QED BY <2>2, <2>3, <3>2, OutcomeIs
  <2>4. CASE ~IsRange(list, pos, pos + count) BY <2>2, <2>4, OutcomeIs
  <2> QED BY <2>3, <2>4
<1>3. ASSUME list # <<>>
      PROVE  Holds(SubSeq(list, 1, Len(list) - 1), held) /\ Holds(SubSeq(list, 2, Len(list)), held)
  <2>1. Len(list) - 1 \in Int /\ Len(list) - 1 <= Len(list) BY <1>1
  <2> QED BY <1>1, <2>1, PartHolds
<1>4. Leaves(pop_back(list), held)
  BY <1>3, OutcomeIs DEF pop_back, Front
<1>5. Leaves(pop_front(list), held)
  <2>1. list # <<>> => Tail(list) = SubSeq(list, 2, Len(list)) BY <1>1, TailIsSubSeq
  <2> QED BY <1>3, <2>1, OutcomeIs DEF pop_front
<1>6. Leaves(clear(list), held) BY OutcomeIs DEF clear
<1> QED BY <1>2, <1>4, <1>5, <1>6

LEMMA ArrangingHolds ==
  ASSUME NEW held, NEW list, Holds(list, held)
  PROVE  /\ \A n \in Int : Leaves(resize(list, n), held)
         /\ \A o \in sorts(list) : Leaves(o, held)
         /\ Leaves(reverse(list), held)
<1>1. /\ list \in Seq(Element(held)) /\ Len(list) \in Nat /\ DOMAIN list = 1 .. Len(list)
      /\ \A i \in DOMAIN list : list[i] \in Element(held)
  BY LenProperties, ElementOfSeq DEF Holds
<1>2. ASSUME NEW n \in Int PROVE Leaves(resize(list, n), held)
  <2>1. CASE n < 0 BY <2>1, OutcomeIs DEF resize
  <2>2. CASE ~(n < 0)
    <3> DEFINE fill == [new |-> Int_(0)]
               s == [i \in 1 .. n |-> IF i <= Len(list) THEN list[i] ELSE fill]
               p == [i \in 1 .. n |-> i]
    <3>1. fill \in NewElement
      <4>1. Int_(0) \in ElementInstance BY ElementsAre DEF Int_, IntInstance
      <4> QED BY <4>1 DEF NewElement
    <3>2. resize(list, n) = Done(s) BY <2>2 DEF resize
    <3> HIDE DEF fill
    <3>3. n \in Nat BY <2>2
    <3>4. DOMAIN s = 1 .. n /\ \A i \in 1 .. n : s[i] = IF i <= Len(list) THEN list[i] ELSE fill
      OBVIOUS
    <3>5. \A i \in 1 .. n : s[i] \in Element(held)
      BY <1>1, <3>1, <3>4 DEF Element
    <3>6. s = [i \in 1 .. n |-> s[i]] OBVIOUS
    <3>7. \A i \in 1 .. n : p[i] = i OBVIOUS
    <3> HIDE DEF s, p
    <3>8. s \in Seq(Element(held)) BY <3>3, <3>4, <3>5, <3>6, SequenceOf
    <3>9. \A i \in DOMAIN s : s[i] \in NewElement \/ (p[i] \in DOMAIN list /\ s[i] = list[p[i]])
      BY <1>1, <3>1, <3>4, <3>7
    <3>10. \A i, j \in DOMAIN s : i # j => p[i] # p[j] BY <3>4, <3>7
    <3>11. Holds(s, held) BY <3>8, <3>9, <3>10, Rearranged
    <3> QED BY <3>2, <3>11, OutcomeIs
  <2> QED BY <2>1, <2>2
<1>3. ASSUME NEW p \in [DOMAIN list -> DOMAIN list],
             \A i, j \in DOMAIN list : i # j => p[i] # p[j]
      PROVE  Leaves(Done([i \in DOMAIN list |-> list[p[i]]]), held)
  <2> DEFINE s == [i \in DOMAIN list |-> list[p[i]]]
  <2>1. DOMAIN s = 1 .. Len(list) /\ \A i \in DOMAIN list : s[i] = list[p[i]] /\ p[i] \in DOMAIN list
    BY <1>1
  <2>2. s = [i \in 1 .. Len(list) |-> s[i]] BY <1>1
  <2> HIDE DEF s
  <2>3. \A i \in 1 .. Len(list) : s[i] \in Element(held) BY <1>1, <2>1
  <2>4. s \in Seq(Element(held)) BY <1>1, <2>1, <2>2, <2>3, SequenceOf
  <2>5. \A i \in DOMAIN s : p[i] \in DOMAIN list /\ s[i] = list[p[i]] BY <1>1, <2>1
  <2>6. \A i, j \in DOMAIN s : i # j => p[i] # p[j] BY <1>1, <1>3, <2>1
  <2>7. Holds(s, held) BY <2>4, <2>5, <2>6, Rearranged
  <2> QED BY <2>7, OutcomeIs DEF s
<1>4. \A o \in sorts(list) : Leaves(o, held)
  <2>1. CASE ~Readable(list) BY <2>1, OutcomeIs DEF sorts
  <2>2. CASE Readable(list)
    <3> SUFFICES ASSUME NEW o \in sorts(list) PROVE Leaves(o, held) OBVIOUS
    <3>1. PICK q \in {p \in [DOMAIN list -> DOMAIN list] :
                        \A i, j \in DOMAIN list :
                          i < j => p[i] # p[j] /\ Number(list, p[i]) <= Number(list, p[j])} :
                 o = Done([i \in DOMAIN list |-> list[q[i]]])
      BY <2>2 DEF sorts
    <3>2. \A i, j \in DOMAIN list : i # j => q[i] # q[j]
      <4>1. \A i, j \in DOMAIN list : i < j => q[i] # q[j] BY <3>1
      <4>2. \A i, j \in DOMAIN list : i # j => i < j \/ j < i BY <1>1
      <4> QED BY <4>1, <4>2
    <3> QED BY <1>3, <3>1, <3>2
  <2> QED BY <2>1, <2>2
<1>5. Leaves(reverse(list), held)
  <2> DEFINE p == [i \in DOMAIN list |-> Len(list) - i + 1]
  <2>1. p \in [DOMAIN list -> DOMAIN list] /\ \A i, j \in DOMAIN list : i # j => p[i] # p[j]
    BY <1>1
  <2>2. Reverse(list) = [i \in DOMAIN list |-> list[p[i]]] BY <1>1 DEF Reverse
  <2> HIDE DEF p
  <2> QED BY <1>3, <2>1, <2>2 DEF reverse
<1> QED BY <1>2, <1>4, <1>5
----------------------------------------------------------------------------
\* Induction over the numbers of iterations.
LEMMA LeastOf ==
  ASSUME NEW T, T \subseteq Nat, T # {}
  PROVE  \E n \in T : \A m \in T : n <= m
<1>1. IsWellFoundedOn(OpToRel(<, Nat), Nat) BY NatLessThanWellFounded
<1>2. PICK n \in T : \A m \in T : ~ (<<m, n>> \in OpToRel(<, Nat)) BY <1>1, WFMin
<1>3. ASSUME NEW m \in T, m < n PROVE FALSE
  <2>1. <<m, n>> \in Nat \X Nat /\ <<m, n>>[1] < <<m, n>>[2] BY <1>2, <1>3
  <2>2. <<m, n>> \in {ss \in Nat \X Nat : ss[1] < ss[2]} BY <2>1
  <2> QED BY <1>2, <2>2 DEF OpToRel
<1>4. \A m \in T : n <= m
  <2> TAKE m \in T
  <2>1. n \in Nat /\ m \in Nat /\ ~(m < n) BY <1>3
  <2> QED BY <2>1
<1> QED BY <1>2, <1>4

LEMMA SetInduction ==
  ASSUME NEW S, 0 \in S, \A n \in Nat : n \in S => n + 1 \in S
  PROVE  Nat \subseteq S
<1> SUFFICES ASSUME Nat \ S # {} PROVE FALSE OBVIOUS
<1>1. PICK n \in Nat \ S : \A m \in Nat \ S : n <= m BY LeastOf
<1>2. n # 0 /\ n - 1 \in Nat /\ ~(n <= n - 1) BY <1>1
<1>3. n - 1 \in S BY <1>1, <1>2
<1>4. n - 1 + 1 \in S BY <1>2, <1>3
<1> QED BY <1>1, <1>4

\* The loop of remove_impl: each iteration leaves a part of the list.
LoopStates(held) ==
  {s \in [list : Seq(Element(held)), i : Nat, erased : Nat,
          status : {"running", "undefined"}, count : Int] : HeldOnce(s.list)}

LEMMA IterationHolds ==
  ASSUME NEW held, NEW list, NEW value, NEW last \in BOOLEAN, NEW s \in LoopStates(held)
  PROVE  Iteration(list, value, last, s) \in LoopStates(held)
<1> DEFINE index == (IF last THEN from_end(s.i, Len(s.list)) ELSE from_begin(s.i, Len(s.list))) + 1
           gone == Erased(list, s.list)
           next == Iteration(list, value, last, s)
           Fields == [list : Seq(Element(held)), i : Nat, erased : Nat,
                      status : {"running", "undefined"}, count : Int]
<1>0. \A t : t \in Fields /\ HeldOnce(t.list) => t \in LoopStates(held) BY DEF LoopStates
<1>1. /\ s.list \in Seq(Element(held)) /\ HeldOnce(s.list) /\ s.i \in Nat /\ s.erased \in Nat
      /\ s.count \in Int /\ s.status \in {"running", "undefined"}
      /\ Len(s.list) \in Nat
  BY LenProperties DEF LoopStates
<1>2. \/ next = s
      \/ next = [s EXCEPT !.status = "undefined"]
      \/ next = [s EXCEPT !.i = @ + 1]
      \/ /\ ~(s.i >= Len(s.list))
         /\ next = [s EXCEPT !.list = RemoveAt(@, index), !.count = @ - 1, !.erased = @ + 1]
  BY DEF Iteration
<1> HIDE DEF gone, next
<1>3. CASE next = s \/ next = [s EXCEPT !.status = "undefined"] \/ next = [s EXCEPT !.i = @ + 1]
  <2>1. s \in Fields /\ HeldOnce(s.list) BY DEF LoopStates
  <2>2. next \in Fields /\ next.list = s.list BY <1>1, <1>3, <2>1
  <2> HIDE DEF Fields
  <2>3. HeldOnce(next.list) BY <2>1, <2>2
  <2> QED BY <1>0, <2>2, <2>3 DEF next
<1>4. CASE /\ ~(s.i >= Len(s.list))
           /\ next = [s EXCEPT !.list = RemoveAt(@, index), !.count = @ - 1, !.erased = @ + 1]
  <2>1. index \in 1 .. Len(s.list) BY <1>1, <1>4 DEF from_end, from_begin
  <2> HIDE DEF index
  <2>2. Holds(RemoveAt(s.list, index), held)
    <3>1. index - 1 \in Nat /\ index + 1 \in Nat /\ index - 1 < index + 1 /\ index + 1 <= Len(s.list) + 1
      BY <1>1, <2>1
    <3>2. Holds(s.list, held) BY <1>1 DEF Holds
    <3> QED BY <3>1, <3>2, CutHolds DEF RemoveAt
  <2>3. RemoveAt(s.list, index) \in Seq(Element(held)) /\ HeldOnce(RemoveAt(s.list, index))
    BY <2>2 DEF Holds
  <2> DEFINE rest == RemoveAt(s.list, index)
  <2>4. s \in Fields BY DEF LoopStates
  <2> HIDE DEF rest
  <2>5. next = [s EXCEPT !.list = rest, !.count = @ - 1, !.erased = @ + 1] BY <1>4 DEF rest
  <2>6. rest \in Seq(Element(held)) BY <2>3 DEF rest
  <2>7. s.count - 1 \in Int /\ s.erased + 1 \in Nat BY <1>1
  <2>8. next \in Fields /\ next.list = rest BY <2>4, <2>5, <2>6, <2>7
  <2>9. HeldOnce(rest) BY <2>3 DEF rest
  <2> HIDE DEF Fields
  <2>10. HeldOnce(next.list) BY <2>8, <2>9
  <2> QED BY <1>0, <2>8, <2>10 DEF next
<1> QED BY <1>2, <1>3, <1>4 DEF next

LEMMA RemovingHolds ==
  ASSUME NEW held, NEW list, Holds(list, held), NEW value, NEW n \in Int, NEW last \in BOOLEAN
  PROVE  Leaves(remove_impl(list, value, n, last), held)
<1> DEFINE start == [list |-> list, i |-> 0, erased |-> 0, status |-> "running",
                     count |-> interpret_special_value(n, Len(list))]
           N == Len(list)
           Next_(s) == Iteration(list, value, last, s)
           Is(f) == f = [k \in 0 .. N |-> IF k = 0 THEN start ELSE Next_(f[k - 1])]
           after == CHOOSE f : Is(f)
           States == LoopStates(held)
<1>1. N \in Nat /\ list \in Seq(Element(held)) /\ HeldOnce(list) BY LenProperties DEF Holds
<1>2. start \in States
  <2>1. interpret_special_value(n, Len(list)) \in Int BY <1>1 DEF interpret_special_value
  <2> QED BY <1>1, <2>1 DEF LoopStates
<1>3. \A s \in States : Next_(s) \in States BY IterationHolds
<1>4. remove_impl(list, value, n, last) =
        IF after[N].status = "running" THEN Result(after[N].list, after[N].erased) ELSE Undefined
  BY DEF remove_impl
<1> HIDE DEF start, N, Next_, States
<1>5. \E f : Is(f)
  <2> DEFINE Starts(f, k) == /\ f \in [0 .. k -> States] /\ f[0] = start
                             /\ \A j \in 1 .. k : f[j] = Next_(f[j - 1])
             S == {k \in Nat : \E f : Starts(f, k)}
  <2>1. 0 \in S
    <3>1. Starts([k \in 0 .. 0 |-> start], 0) BY <1>2
    <3> QED BY <3>1
  <2>2. ASSUME NEW k \in Nat, k \in S PROVE k + 1 \in S
    <3>1. PICK f : Starts(f, k) BY <2>2
    <3> DEFINE g == [j \in 0 .. k + 1 |-> IF j = k + 1 THEN Next_(f[k]) ELSE f[j]]
    <3>2. /\ \A j \in 0 .. k : g[j] = f[j] /\ f[j] \in States
          /\ g[k + 1] = Next_(f[k])
      BY <3>1
    <3>3. g \in [0 .. k + 1 -> States] BY <1>3, <3>1
    <3>4. g[0] = start BY <3>1, <3>2
    <3> HIDE DEF g
    <3>5. ASSUME NEW j \in 1 .. k + 1 PROVE g[j] = Next_(g[j - 1])
      <4>1. CASE j = k + 1 BY <3>2, <4>1
      <4>2. CASE j # k + 1
        <5>1. j \in 1 .. k /\ j \in 0 .. k /\ j - 1 \in 0 .. k BY <4>2
        <5> QED BY <3>1, <3>2, <5>1
      <4> QED BY <4>1, <4>2
    <3>6. Starts(g, k + 1) BY <3>3, <3>4, <3>5
    <3> QED BY <3>6
  <2> HIDE DEF S
  <2>3. Nat \subseteq S BY <2>1, <2>2, SetInduction
  <2>4. PICK f : Starts(f, N) BY <1>1, <2>3 DEF S
  <2>5. f = [k \in 0 .. N |-> IF k = 0 THEN start ELSE Next_(f[k - 1])]
    <3>1. \A k \in 0 .. N : f[k] = IF k = 0 THEN start ELSE Next_(f[k - 1])
      <4> TAKE k \in 0 .. N
      <4>1. k # 0 => k \in 1 .. N BY <1>1
      <4> QED BY <2>4, <4>1
    <3> QED BY <2>4, <3>1
  <2> QED BY <2>5
<1>6. Is(after) BY <1>5
<1> HIDE DEF after
<1>7. \A k \in 0 .. N : after[k] = IF k = 0 THEN start ELSE Next_(after[k - 1]) BY <1>6
<1>8. after[N] \in States
  <2> DEFINE S == {k \in Nat : k <= N => after[k] \in States}
  <2>1. 0 \in S BY <1>1, <1>2, <1>7
  <2>2. ASSUME NEW k \in Nat, k \in S PROVE k + 1 \in S
    <3>1. CASE k + 1 <= N
      <4>1. k + 1 \in 0 .. N /\ k + 1 # 0 /\ k + 1 - 1 = k /\ k <= N BY <1>1, <3>1
      <4>2. after[k + 1] = Next_(after[k]) BY <1>7, <4>1
      <4> QED BY <1>3, <2>2, <4>1, <4>2
    <3>2. CASE ~(k + 1 <= N) BY <3>2
    <3> QED BY <3>1, <3>2
  <2>3. Nat \subseteq S BY <2>1, <2>2, SetInduction
  <2> QED BY <1>1, <2>3
<1>9. Holds(after[N].list, held)
  BY <1>8 DEF States, LoopStates, Holds
<1>10. Leaves(Result(after[N].list, after[N].erased), held) BY <1>9, OutcomeIs
<1> QED BY <1>4, <1>10, OutcomeIs
LEMMA KeepingHolds ==
  ASSUME NEW held, NEW list, Holds(list, held)
  PROVE  /\ Leaves(min(list), held) /\ Leaves(max(list), held)
         /\ \A value, n : Leaves(find(list, value, n), held)
         /\ \A pos : Leaves(at(list, pos), held)
         /\ Leaves(front(list), held) /\ Leaves(back(list), held)
<1>1. \A I : Leaves(First(list, I), held) BY OutcomeIs DEF First
<1>2. Leaves(min(list), held) /\ Leaves(max(list), held) BY <1>1, OutcomeIs DEF min, max
<1>3. \A value, n : Leaves(find(list, value, n), held) BY <1>1, OutcomeIs DEF find
<1>4. \A pos : Leaves(at(list, pos), held) BY OutcomeIs DEF at
<1>5. Leaves(front(list), held) /\ Leaves(back(list), held) BY OutcomeIs DEF front, back
<1> QED BY <1>2, <1>3, <1>4, <1>5

\* The elements that are there, and copies of them, which are new.
LEMMA HeldHolds ==
  ASSUME Sound(heap), NEW l \in Lists, Usable(l)
  PROVE  /\ Holds(There(ElementsOf(l)), Owns(heap, Target(l)))
         /\ \A m \in Nat, n \in Int : n <= Len(ElementsOf(l)) /\ 1 <= m =>
              Copied(SubSeq(There(ElementsOf(l)), m, n)) \in Seq(NewElement)
         /\ Copied(There(ElementsOf(l))) \in Seq(NewElement)
         /\ Len(There(ElementsOf(l))) = Len(ElementsOf(l)) /\ Len(ElementsOf(l)) \in Nat
<1> DEFINE cells == ElementsOf(l)
           list == There(cells)
           held == Owns(heap, Target(l))
<1>1. /\ cells \in Seq(Cells) /\ cells = heap[Target(l)].m_list /\ Target(l) \in ListsIn(heap)
      /\ DOMAIN cells = 1 .. Len(cells) /\ Len(cells) \in Nat
  BY UsedList, LenProperties
<1>2. \A i \in DOMAIN cells : cells[i] \in held BY <1>1 DEF Owns, Range
<1>3. IsInjective(cells) BY <1>1 DEF Sound, Owned
<1>4. \A i \in DOMAIN cells : heap[cells[i]] \in ElementInstance BY UsedList
<1> HIDE DEF cells, held
<1>5. DOMAIN list = 1 .. Len(cells) /\ \A i \in DOMAIN cells : list[i] = [cell |-> cells[i]]
  BY <1>1 DEF There
<1>6. list = [i \in 1 .. Len(cells) |-> list[i]] BY <1>1 DEF There
<1> HIDE DEF list
<1>7. \A i \in 1 .. Len(cells) :
        list[i] \in Element(held) /\ ~IsNew(list[i]) /\ list[i].cell = cells[i]
  <2> TAKE i \in 1 .. Len(cells)
  <2>1. i \in DOMAIN cells BY <1>1
  <2>2. list[i] = [cell |-> cells[i]] /\ cells[i] \in held BY <1>2, <1>5, <2>1
  <2>3. [cell |-> cells[i]] \in [cell : held] BY <2>2
  <2> QED BY <2>2, <2>3 DEF Element, IsNew
<1>8. list \in Seq(Element(held)) /\ Len(list) = Len(cells)
  <2>1. \A i \in 1 .. Len(cells) : list[i] \in Element(held) BY <1>7
  <2>2. Len(cells) \in Nat BY <1>1
  <2> QED BY <1>5, <1>6, <2>1, <2>2, SequenceOf
<1>9. HeldOnce(list) BY <1>1, <1>3, <1>5, <1>7 DEF HeldOnce, IsInjective
<1>10. \A i \in 1 .. Len(cells) : Instance(list[i]) \in ElementInstance
  BY <1>1, <1>4, <1>7 DEF Instance
<1>11. ASSUME NEW s, NEW k \in Nat, Len(s) = k, DOMAIN s = 1 .. k,
              \A i \in 1 .. k : Instance(s[i]) \in ElementInstance
       PROVE  Copied(s) \in Seq(NewElement)
  <2> DEFINE c == Copied(s)
  <2>1. c = [i \in 1 .. k |-> [new |-> Instance(s[i])]] BY <1>11 DEF Copied, Created
  <2> HIDE DEF c
  <2>2. DOMAIN c = 1 .. k /\ \A i \in 1 .. k : c[i] = [new |-> Instance(s[i])] BY <2>1
  <2>3. \A i \in 1 .. k : c[i] \in NewElement BY <1>11, <2>2 DEF NewElement
  <2>4. c = [i \in 1 .. k |-> c[i]] BY <2>1, <2>2
  <2>5. c \in Seq(NewElement) BY <2>2, <2>3, <2>4, SequenceOf
  <2> QED BY <2>5 DEF c
<1>12. Copied(list) \in Seq(NewElement) BY <1>1, <1>5, <1>8, <1>10, <1>11
<1>13. ASSUME NEW m \in Nat, NEW n \in Int, n <= Len(cells), 1 <= m
       PROVE  Copied(SubSeq(list, m, n)) \in Seq(NewElement)
  <2> DEFINE s == SubSeq(list, m, n)
             k == IF m <= n THEN n - m + 1 ELSE 0
  <2>1. \A i \in m .. n : list[i] \in Element(held) BY <1>1, <1>7, <1>13
  <2>2. /\ s \in Seq(Element(held)) /\ Len(s) = k
        /\ \A i \in 1 .. n - m + 1 : s[i] = list[m + i - 1]
    BY <2>1, SubSeqProperties
  <2>3. k \in Nat BY <1>13
  <2>4. DOMAIN s = 1 .. k BY <2>2, LenProperties
  <2>5. ASSUME NEW i \in 1 .. k PROVE Instance(s[i]) \in ElementInstance
    <3>1. i \in 1 .. n - m + 1 /\ m + i - 1 \in 1 .. Len(cells) BY <1>1, <1>13, <2>5
    <3>2. s[i] = list[m + i - 1] BY <2>2, <3>1
    <3> QED BY <1>10, <3>1, <3>2
  <2> HIDE DEF s, k
  <2>6. Copied(s) \in Seq(NewElement) BY <1>11, <2>2, <2>3, <2>4, <2>5
  <2> QED BY <2>6 DEF s
<1>14. Holds(list, held) BY <1>8, <1>9 DEF Holds
<1>15. Len(list) = Len(cells) BY <1>8
<1> QED BY <1>1, <1>12, <1>13, <1>14, <1>15 DEF cells, held, list
----------------------------------------------------------------------------
\* Of a finite set of numbers there is one that has so many others below it.
Below(F, c) == {d \in F : d < c}

LEMMA Grows ==
  ASSUME NEW F, F \subseteq Nat, IsFiniteSet(F), NEW c \in F, NEW d \in F, c < d
  PROVE  Cardinality(Below(F, c)) < Cardinality(Below(F, d))
<1>1. IsFiniteSet(Below(F, c)) /\ IsFiniteSet(Below(F, d)) BY FS_Subset DEF Below
<1>2. Below(F, c) \subseteq Below(F, d)
  <2> SUFFICES ASSUME NEW x \in F, x < c PROVE x < d BY DEF Below
  <2>1. x \in Nat /\ c \in Nat /\ d \in Nat OBVIOUS
  <2> QED BY <2>1
<1>3. c \in Below(F, d) /\ c \notin Below(F, c) BY DEF Below
<1>4. Cardinality(Below(F, c)) \in Nat /\ Cardinality(Below(F, d)) \in Nat
  BY <1>1, FS_CardinalityType
<1>5. Cardinality(Below(F, c)) <= Cardinality(Below(F, d)) BY <1>1, <1>2, FS_Subset
<1>6. Cardinality(Below(F, c)) # Cardinality(Below(F, d)) BY <1>1, <1>2, <1>3, FS_Subset
<1> QED BY <1>4, <1>5, <1>6

LEMMA Ranks ==
  ASSUME NEW F, F \subseteq Nat, IsFiniteSet(F), NEW k \in 1 .. Cardinality(F)
  PROVE  \E c \in F : Cardinality(Below(F, c)) = k - 1
<1> DEFINE n == Cardinality(F)
           rank == [c \in F |-> Cardinality(Below(F, c))]
<1>1. n \in Nat BY FS_CardinalityType
<1>2. \A c \in F : Cardinality(Below(F, c)) \in 0 .. n - 1
  <2> TAKE c \in F
  <2>1. Below(F, c) \subseteq F /\ c \notin Below(F, c) BY DEF Below
  <2>2. IsFiniteSet(Below(F, c)) /\ Cardinality(Below(F, c)) <= n BY <2>1, FS_Subset
  <2>3. Cardinality(Below(F, c)) # n BY <2>1, FS_Subset
  <2>4. Cardinality(Below(F, c)) \in Nat BY <2>2, FS_CardinalityType
  <2> QED BY <1>1, <2>2, <2>3, <2>4
<1>3. \A c, d \in F : c # d => rank[c] # rank[d]
  <2> TAKE c, d \in F
  <2>1. c < d \/ d < c \/ c = d OBVIOUS
  <2>2. Cardinality(Below(F, c)) \in Nat /\ Cardinality(Below(F, d)) \in Nat BY <1>1, <1>2
  <2>3. c < d => Cardinality(Below(F, c)) < Cardinality(Below(F, d)) BY Grows
  <2>4. d < c => Cardinality(Below(F, d)) < Cardinality(Below(F, c)) BY Grows
  <2> QED BY <2>1, <2>2, <2>3, <2>4
<1>4. rank \in Injection(F, 0 .. n - 1)
  BY <1>2, <1>3 DEF Injection, IsInjective
<1>5. IsFiniteSet(0 .. n - 1) /\ Cardinality(0 .. n - 1) = n
  <2>1. n - 1 \in Int /\ (IF 0 > n - 1 THEN 0 ELSE n - 1 - 0 + 1) = n BY <1>1
  <2>2. /\ IsFiniteSet(0 .. n - 1)
        /\ Cardinality(0 .. n - 1) = IF 0 > n - 1 THEN 0 ELSE n - 1 - 0 + 1
    <3>1. 0 \in Int /\ n - 1 \in Int BY <1>1
    <3> HIDE DEF n
    <3> QED BY <3>1, FS_Interval, SMTT(60)
  <2> QED BY <2>1, <2>2
<1>6. rank \in Surjection(F, 0 .. n - 1) BY <1>4, <1>5, FS_Injection
<1>7. k - 1 \in 0 .. n - 1 BY <1>1
<1>8. PICK c \in F : rank[c] = k - 1 BY <1>6, <1>7 DEF Surjection
<1> QED BY <1>8

\* New elements come to cells of their own, the others stay where they are.
LEMMA SettledIs ==
  ASSUME NEW held, held \subseteq Live \intersect Cells, NEW list, Holds(list, held), Fits(list)
  PROVE  /\ Settled(list) \in Seq(Cells) /\ DOMAIN Settled(list) = DOMAIN list
         /\ \A i \in DOMAIN list : Settled(list)[i] \in IF IsNew(list[i]) THEN Free ELSE {list[i].cell}
         /\ \A i \in DOMAIN list : Settled(list)[i] \in Free \union held
         /\ \A i, j \in DOMAIN list : i # j => Settled(list)[i] # Settled(list)[j]
<1> DEFINE n == Len(list)
           order(i) == Cardinality({j \in New(list) : j <= i})
           cells == Settled(list)
<1>1. /\ list \in Seq(Element(held)) /\ HeldOnce(list) /\ n \in Nat /\ DOMAIN list = 1 .. n
      /\ \A i \in DOMAIN list : list[i] \in Element(held)
  BY LenProperties, ElementOfSeq DEF Holds
<1>2. Free \subseteq Nat /\ IsFiniteSet(Free) /\ Free \intersect Live = {} /\ Free \subseteq Cells
  BY Kinds, FS_Subset DEF Free
<1>3. New(list) \subseteq Nat /\ IsFiniteSet(New(list))
  <2>1. New(list) \subseteq 1 .. n BY <1>1 DEF New
  <2>2. IsFiniteSet(1 .. n) BY <1>1, FS_Interval
  <2> QED BY <2>1, <2>2, FS_Subset
<1>4. Cardinality(New(list)) <= Cardinality(Free) BY DEF Fits
<1>5. ASSUME NEW i \in New(list) PROVE order(i) \in 1 .. Cardinality(Free)
  <2> DEFINE T == {j \in New(list) : j <= i}
  <2>1. T \subseteq New(list) /\ i \in T BY <1>3
  <2>2. IsFiniteSet(T) /\ Cardinality(T) <= Cardinality(New(list)) BY <1>3, <2>1, FS_Subset
  <2>3. Cardinality(T) \in Nat /\ Cardinality(T) # 0 BY <2>1, <2>2, FS_CardinalityType, FS_EmptySet
  <2>4. Cardinality(Free) \in Nat /\ Cardinality(New(list)) \in Nat
    BY <1>2, <1>3, FS_CardinalityType
  <2> HIDE DEF T
  <2>5. Cardinality(T) \in 1 .. Cardinality(Free) BY <1>4, <2>2, <2>3, <2>4
  <2> QED BY <2>5 DEF T
<1>6. ASSUME NEW k \in 1 .. Cardinality(Free)
      PROVE  NextFree(k) \in Free /\ Cardinality(Below(Free, NextFree(k))) = k - 1
  <2>1. \E c \in Free : Cardinality(Below(Free, c)) = k - 1 BY <1>2, Ranks
  <2> QED BY <2>1 DEF NextFree, Below
<1>7. ASSUME NEW i \in New(list), NEW j \in New(list), i < j PROVE order(i) # order(j)
  <2> DEFINE T == {h \in New(list) : h <= i}
             U == {h \in New(list) : h <= j}
  <2>1. T \subseteq U /\ j \in U /\ j \notin T BY <1>3, <1>7
  <2>2. IsFiniteSet(U) BY <1>3, FS_Subset
  <2>3. Cardinality(U) = Cardinality(T) => U = T BY <2>1, <2>2, FS_Subset
  <2> QED BY <2>1, <2>3
<1> HIDE DEF order
<1>8. /\ DOMAIN cells = DOMAIN list
      /\ \A i \in DOMAIN list :
           cells[i] = IF i \in New(list) THEN NextFree(order(i)) ELSE list[i].cell
  BY DEF Settled, New, order
<1> HIDE DEF cells
<1>9. \A i \in New(list) : cells[i] \in Free /\ Cardinality(Below(Free, cells[i])) = order(i) - 1
  <2> TAKE i \in New(list)
  <2>1. i \in DOMAIN list BY DEF New
  <2> QED BY <1>5, <1>6, <1>8, <2>1
<1>10. \A i \in DOMAIN list : i \notin New(list) =>
         cells[i] = list[i].cell /\ cells[i] \in held /\ ~IsNew(list[i])
               /\ list[i] = [cell |-> cells[i]]
  BY <1>1, <1>8, Elements_ DEF New
<1>11. \A i \in DOMAIN list : cells[i] \in Free \union held BY <1>9, <1>10
<1>12. cells \in Seq(Cells)
  <2>1. \A i \in 1 .. n : cells[i] \in Cells BY <1>1, <1>2, <1>11
  <2>2. cells = [i \in 1 .. n |-> cells[i]] BY <1>1 DEF cells, Settled
  <2> QED BY <1>1, <1>8, <2>1, <2>2, SequenceOf
<1>13. ASSUME NEW i \in DOMAIN list, NEW j \in DOMAIN list, i < j PROVE cells[i] # cells[j]
  <2>1. CASE i \in New(list) /\ j \in New(list)
    <3>1. order(i) \in Nat /\ order(j) \in Nat /\ order(i) # order(j)
      <4>1. Cardinality(Free) \in Nat BY <1>2, FS_CardinalityType
      <4> QED BY <1>5, <1>7, <1>13, <2>1, <4>1
    <3>2. order(i) - 1 # order(j) - 1 BY <3>1
    <3> QED BY <1>9, <2>1, <3>2
  <2>2. CASE i \in New(list) /\ j \notin New(list) BY <1>2, <1>9, <1>10, <2>2
  <2>3. CASE i \notin New(list) /\ j \in New(list) BY <1>2, <1>9, <1>10, <2>3
  <2>4. CASE i \notin New(list) /\ j \notin New(list)
    <3>1. i # j BY <1>1, <1>13
    <3>2. list[i] # list[j] BY <1>1, <1>10, <2>4, <3>1 DEF HeldOnce
    <3> QED BY <1>10, <2>4, <3>2
  <2> QED BY <2>1, <2>2, <2>3, <2>4
<1>14. ASSUME NEW i \in DOMAIN list, NEW j \in DOMAIN list, i # j PROVE cells[i] # cells[j]
  <2>1. i < j \/ j < i BY <1>1, <1>14
  <2> QED BY <1>13, <2>1
<1>15. \A i \in DOMAIN list : cells[i] \in IF IsNew(list[i]) THEN Free ELSE {list[i].cell}
  BY <1>9, <1>10 DEF New
<1> QED BY <1>8, <1>11, <1>12, <1>14, <1>15 DEF cells
----------------------------------------------------------------------------
\* A list takes its new elements, and instances die, so that no list that stays
\* loses an element, and each element that stays is in a list.
Keeps(list, c) == \E i \in DOMAIN list : ~IsNew(list[i]) /\ list[i].cell = c

LEMMA WithListSound ==
  ASSUME Sound(heap), NEW dead, NEW l \in OfType({"list"}),
         NEW held, held \subseteq Live \intersect Cells, NEW list, Holds(list, held), Fits(list),
         \A c \in dead : ~Keeps(list, c),
         \A k \in ListsIn(heap) : k # l /\ k \notin dead =>
           Owns(heap, k) \intersect (dead \union held) = {},
         \A c \in (Live \intersect Cells) \ dead :
           Keeps(list, c) \/ \E k \in ListsIn(heap) : k # l /\ k \notin dead /\ c \in Owns(heap, k)
  PROVE  Sound(WithList(dead, l, list))
<1> DEFINE cells == Settled(list)
           created == [c \in {cells[i] : i \in New(list)} |->
                         list[CHOOSE i \in New(list) : cells[i] = c].new]
           h == WithList(dead, l, list)
<1>1. /\ cells \in Seq(Cells) /\ DOMAIN cells = DOMAIN list
      /\ \A i \in DOMAIN list : cells[i] \in IF IsNew(list[i]) THEN Free ELSE {list[i].cell}
      /\ \A i \in DOMAIN list : cells[i] \in Free \union held
      /\ \A i, j \in DOMAIN list : i # j => cells[i] # cells[j]
  BY SettledIs
<1>2. \A i \in New(list) : i \in DOMAIN list /\ IsNew(list[i]) /\ list[i].new \in ElementInstance
  <2>1. \A i \in DOMAIN list : list[i] \in Element(held) BY LenProperties, ElementOfSeq DEF Holds
  <2> QED BY <2>1, Elements_ DEF New
<1>3. /\ DOMAIN h = (Live \ dead) \union {l} \union DOMAIN created
      /\ h[l] = [kind |-> "list", m_list |-> cells]
      /\ \A i \in DOMAIN h : i # l => h[i] = IF i \in DOMAIN created THEN created[i] ELSE heap[i]
  <2>1. h = [i \in (Live \ dead) \union {l} \union DOMAIN created |->
               CASE i = l -> [kind |-> "list", m_list |-> cells]
                 [] i \in DOMAIN created -> created[i]
                 [] OTHER -> heap[i]]
    BY DEF WithList
  <2> DEFINE domain == (Live \ dead) \union {l} \union DOMAIN created
  <2> HIDE DEF h, created, cells
  <2>2. DOMAIN h = domain BY <2>1
  <2> HIDE DEF domain
  <2>3. \A i \in domain : h[i] = CASE i = l -> [kind |-> "list", m_list |-> cells]
                                 [] i \in DOMAIN created -> created[i]
                                 [] OTHER -> heap[i]
    BY <2>1 DEF domain
  <2>4. l \in domain BY DEF domain
  <2>5. h[l] = [kind |-> "list", m_list |-> cells]
    <3>1. l \notin DOMAIN created
      <4>1. DOMAIN created \subseteq Cells BY <1>1, <1>2 DEF created, Free, cells
      <4> QED BY <4>1, Kinds DEF OfType
    <3> QED BY <2>3, <2>4, <3>1
  <2>6. \A i \in domain : i # l => h[i] = IF i \in DOMAIN created THEN created[i] ELSE heap[i]
    BY <2>3
  <2> QED BY <2>2, <2>5, <2>6 DEF domain
<1>4. \A c \in DOMAIN created : c \in Free /\ created[c] \in ElementInstance
                                /\ \E i \in New(list) : cells[i] = c
  <2> TAKE c \in DOMAIN created
  <2> DEFINE i == CHOOSE j \in New(list) : cells[j] = c
  <2>1. i \in New(list) /\ cells[i] = c OBVIOUS
  <2>2. created[c] = list[i].new OBVIOUS
  <2> HIDE DEF i, cells, created
  <2> QED BY <1>1, <1>2, <2>1, <2>2
<1>5. \A i \in New(list) : cells[i] \in DOMAIN created OBVIOUS
<1> HIDE DEF cells, created, h
<1>6. /\ Free \subseteq Cells /\ Free \intersect Live = {} /\ l \in Variables /\ l \notin Cells
      /\ TypeOf[l] = "list"
  BY Kinds DEF Free, OfType
<1>7. Shaped(h)
  <2>1. DOMAIN h \subseteq Variables \union Cells
    BY <1>3, <1>4, <1>6 DEF Sound, Shaped, Live
  <2>2. ASSUME NEW v \in DOMAIN h \intersect Variables PROVE OfItsType(v, h[v])
    <3>1. CASE v = l
      <4>1. h[l] \in ListInstance BY <1>1, <1>3 DEF ListInstance
      <4> QED BY <1>6, <3>1, <4>1 DEF OfItsType
    <3>2. CASE v # l
      <4>1. v \notin DOMAIN created BY <1>4, <1>6, Kinds
      <4>2. v \in DOMAIN heap /\ h[v] = heap[v] BY <1>3, <3>2, <4>1 DEF Live
      <4> QED BY <4>2 DEF Sound, Shaped
    <3> QED BY <3>1, <3>2
  <2>3. ASSUME NEW c \in DOMAIN h \intersect Cells PROVE h[c] \in ElementInstance
    <3>1. c # l BY <1>6
    <3>2. CASE c \in DOMAIN created BY <1>3, <1>4, <3>1, <3>2
    <3>3. CASE c \notin DOMAIN created
      <4>1. c \in DOMAIN heap /\ h[c] = heap[c] BY <1>3, <3>1, <3>3 DEF Live
      <4> QED BY <4>1 DEF Sound, Shaped
    <3> QED BY <3>2, <3>3
  <2> QED BY <2>1, <2>2, <2>3 DEF Shaped
<1>8. l \in ListsIn(h) /\ \A c : c \in Owns(h, l) <=> \E i \in DOMAIN list : cells[i] = c
  BY <1>1, <1>3 DEF ListsIn, Owns, Range
<1>9. ASSUME NEW k, k # l
      PROVE  /\ k \in ListsIn(h) <=> k \in ListsIn(heap) /\ k \notin dead
             /\ k \in ListsIn(h) => h[k] = heap[k] /\ Owns(h, k) = Owns(heap, k)
  <2>1. ASSUME k \in ListsIn(h)
        PROVE  k \in ListsIn(heap) /\ k \notin dead /\ h[k] = heap[k]
    <3>1. k \in DOMAIN h /\ h[k].kind = "list" BY <2>1 DEF ListsIn
    <3>2. k \notin DOMAIN created
      <4>1. k \in DOMAIN created => h[k].kind # "list" BY <1>3, <1>4, <1>9, <3>1, ElementsAre
      <4> QED BY <3>1, <4>1
    <3> QED BY <1>3, <1>9, <3>1, <3>2 DEF ListsIn, Live
  <2>2. ASSUME k \in ListsIn(heap), k \notin dead PROVE k \in ListsIn(h)
    <3>1. k \in Live /\ heap[k].kind = "list" BY <2>2 DEF ListsIn, Live
    <3>2. k \in DOMAIN h /\ k \notin DOMAIN created BY <1>3, <1>4, <1>6, <2>2, <3>1
    <3> QED BY <1>3, <1>9, <3>1, <3>2 DEF ListsIn
  <2> QED BY <2>1, <2>2 DEF Owns
<1>10. Owns(h, l) \subseteq Free \union held BY <1>1, <1>8
<1>11. ASSUME NEW c \in Owns(h, l) PROVE c \in DOMAIN h
  <2>1. PICK i \in DOMAIN list : cells[i] = c BY <1>8
  <2>2. CASE IsNew(list[i])
    <3>1. i \in New(list) BY <2>2 DEF New
    <3> QED BY <1>3, <1>5, <2>1, <3>1
  <2>3. CASE ~IsNew(list[i])
    <3>1. c = list[i].cell BY <1>1, <2>1, <2>3
    <3>2. c \notin dead BY <2>3, <3>1 DEF Keeps
    <3>3. c \in Live
      <4>1. list[i] \in Element(held) BY LenProperties, ElementOfSeq DEF Holds
      <4> QED BY <2>3, <3>1, <4>1, Elements_
    <3> QED BY <1>3, <3>2, <3>3
  <2> QED BY <2>2, <2>3
<1>12. ASSUME NEW k \in ListsIn(h), k # l
       PROVE  /\ Owns(h, k) \subseteq DOMAIN h /\ IsInjective(h[k].m_list)
              /\ Owns(h, k) \intersect Owns(h, l) = {}
  <2>1. /\ k \in ListsIn(heap) /\ k \notin dead /\ h[k] = heap[k] /\ Owns(h, k) = Owns(heap, k)
    BY <1>9, <1>12
  <2>2. Owns(heap, k) \subseteq Live /\ IsInjective(heap[k].m_list) BY <2>1 DEF Sound, Owned, Live
  <2>3. Owns(heap, k) \intersect (dead \union held) = {} BY <1>12, <2>1
  <2>4. Owns(h, k) \subseteq DOMAIN h BY <1>3, <2>1, <2>2, <2>3
  <2>5. Owns(h, k) \intersect Owns(h, l) = {} BY <1>6, <1>10, <2>1, <2>2, <2>3
  <2> QED BY <2>1, <2>2, <2>4, <2>5
<1>13. IsInjective(h[l].m_list) BY <1>1, <1>3 DEF IsInjective
<1>14. ASSUME NEW k \in ListsIn(h), NEW m \in ListsIn(h), k # m
       PROVE  Owns(h, k) \intersect Owns(h, m) = {}
  <2>1. CASE k = l BY <1>12, <1>14, <2>1
  <2>2. CASE m = l BY <1>12, <1>14, <2>2
  <2>3. CASE k # l /\ m # l
    <3>1. /\ k \in ListsIn(heap) /\ Owns(h, k) = Owns(heap, k)
          /\ m \in ListsIn(heap) /\ Owns(h, m) = Owns(heap, m)
      BY <1>9, <2>3
    <3> QED BY <1>14, <3>1 DEF Sound, Owned
  <2> QED BY <2>1, <2>2, <2>3
<1>15. ASSUME NEW c \in DOMAIN h \intersect Cells PROVE \E k \in ListsIn(h) : c \in Owns(h, k)
  <2>1. CASE c \in DOMAIN created
    <3>1. PICK i \in New(list) : cells[i] = c BY <1>4, <2>1
    <3>2. c \in Owns(h, l) BY <1>2, <1>8, <3>1
    <3> QED BY <1>8, <3>2
  <2>2. CASE c \notin DOMAIN created
    <3>1. c \in (Live \intersect Cells) \ dead BY <1>3, <1>6, <2>2
    <3>2. CASE Keeps(list, c)
      <4>1. PICK i \in DOMAIN list : ~IsNew(list[i]) /\ list[i].cell = c BY <3>2 DEF Keeps
      <4>2. c \in Owns(h, l) BY <1>1, <1>8, <4>1
      <4> QED BY <1>8, <4>2
    <3>3. CASE \E k \in ListsIn(heap) : k # l /\ k \notin dead /\ c \in Owns(heap, k)
      BY <1>9, <3>3
    <3> QED BY <3>1, <3>2, <3>3
  <2> QED BY <2>1, <2>2
<1>16. Owned(h)
  <2>1. \A k \in ListsIn(h) : Owns(h, k) \subseteq DOMAIN h /\ IsInjective(h[k].m_list)
    BY <1>11, <1>12, <1>13
  <2> QED BY <1>14, <1>15, <2>1 DEF Owned
<1> QED BY <1>7, <1>16 DEF Sound, h
\* Instances that die with what owns them.
DieTogether(dead) ==
  /\ \A k \in ListsIn(heap) \ dead : Owns(heap, k) \intersect dead = {}
  /\ \A c \in (Live \intersect Cells) \ dead : \E k \in ListsIn(heap) \ dead : c \in Owns(heap, k)

LEMMA SameListsSound ==
  ASSUME Sound(heap), NEW dead, DieTogether(dead), NEW h, Shaped(h),
         ListsIn(h) = ListsIn(heap) \ dead, \A k \in ListsIn(h) : h[k] = heap[k],
         DOMAIN h \intersect Cells = (Live \intersect Cells) \ dead
  PROVE  Sound(h)
<1>1. \A k \in ListsIn(h) : /\ k \in ListsIn(heap) /\ Owns(h, k) = Owns(heap, k)
                            /\ h[k].m_list = heap[k].m_list
  BY DEF Owns
<1>2. ASSUME NEW k \in ListsIn(h) PROVE Owns(h, k) \subseteq DOMAIN h
  <2>1. Owns(heap, k) \subseteq Live /\ Owns(heap, k) \subseteq Cells
    BY <1>1, ListIs DEF Sound, Owned, Live
  <2>2. Owns(heap, k) \intersect dead = {} BY DEF DieTogether
  <2> QED BY <1>1, <2>1, <2>2
<1>3. \A k \in ListsIn(h) : IsInjective(h[k].m_list) BY <1>1 DEF Sound, Owned
<1>4. \A k, m \in ListsIn(h) : k # m => Owns(h, k) \intersect Owns(h, m) = {}
  BY <1>1 DEF Sound, Owned
<1>5. \A c \in DOMAIN h \intersect Cells : \E k \in ListsIn(h) : c \in Owns(h, k)
  BY <1>1 DEF DieTogether
<1> QED BY <1>2, <1>3, <1>4, <1>5 DEF Sound, Owned

LEMMA WithInstanceSound ==
  ASSUME Sound(heap), NEW dead, DieTogether(dead), NEW v, NEW instance,
         \/ v \in Variables \ OfType({"list"}) /\ OfItsType(v, instance)
         \/ v \in (Live \intersect Cells) \ dead /\ instance \in ElementInstance
  PROVE  Sound(WithInstance(dead, v, instance))
<1> DEFINE h == WithInstance(dead, v, instance)
<1>1. /\ DOMAIN h = (Live \ dead) \union {v} /\ h[v] = instance
      /\ \A i \in DOMAIN h : i # v => h[i] = heap[i] /\ i \in Live \ dead
  BY DEF WithInstance
<1> HIDE DEF h
<1>2. v \in Variables => v \notin Cells BY Kinds
<1>3. Shaped(h)
  <2>1. DOMAIN h \subseteq Variables \union Cells BY <1>1 DEF Sound, Shaped, Live
  <2>2. ASSUME NEW i \in DOMAIN h \intersect Variables PROVE OfItsType(i, h[i])
    <3>1. CASE i = v BY <1>1, <2>2, <3>1, Kinds
    <3>2. CASE i # v BY <1>1, <3>2 DEF Sound, Shaped, Live
    <3> QED BY <3>1, <3>2
  <2>3. ASSUME NEW c \in DOMAIN h \intersect Cells PROVE h[c] \in ElementInstance
    <3>1. CASE c = v BY <1>1, <1>2, <3>1
    <3>2. CASE c # v BY <1>1, <3>2 DEF Sound, Shaped, Live
    <3> QED BY <3>1, <3>2
  <2> QED BY <2>1, <2>2, <2>3 DEF Shaped
<1>4. v \notin ListsIn(heap) /\ v \notin ListsIn(h)
  <2>1. v \notin OfType({"list"}) BY Kinds DEF OfType
  <2> QED BY <1>3, <2>1, ShapedFacts DEF ListsIn, Sound
<1>5. ListsIn(h) = ListsIn(heap) \ dead /\ \A k \in ListsIn(h) : h[k] = heap[k]
  <2>1. \A k \in ListsIn(h) : k \in ListsIn(heap) \ dead /\ h[k] = heap[k]
    BY <1>1, <1>4 DEF ListsIn, Live
  <2>2. \A k \in ListsIn(heap) \ dead : k \in ListsIn(h) BY <1>1, <1>4 DEF ListsIn, Live
  <2> QED BY <2>1, <2>2
<1>6. DOMAIN h \intersect Cells = (Live \intersect Cells) \ dead BY <1>1, <1>2
<1>7. Sound(h) BY <1>3, <1>5, <1>6, SameListsSound
<1> QED BY <1>7 DEF h

LEMMA NothingDies == ASSUME Sound(heap) PROVE DieTogether({})
BY DEF DieTogether, Sound, Owned, Live

\* What dies with the inner scope: its variables, and the elements of its lists.
LEMMA ScopeDies ==
  ASSUME Sound(heap)
  PROVE  /\ DieTogether(OfScope) /\ Inner \subseteq OfScope
         /\ \A v \in Variables : v \in OfScope => v \in Inner
<1>1. \A v \in Inner : v \in Variables /\ v \notin Cells BY Kinds DEF Inner
<1>2. \A v \in Inner : Declared(v) /\ heap[v].kind = "list" => v \in ListsIn(heap)
  BY DEF Declared, Live, ListsIn
<1>3. \A i : i \in OfScope <=> i \in Inner \/ \E v \in Inner : v \in ListsIn(heap) /\ i \in Owns(heap, v)
  <2>1. \A v \in Inner : OwnedBy(v) = {v} \union IF v \in ListsIn(heap) THEN Owns(heap, v) ELSE {}
    BY <1>2 DEF OwnedBy, Owns, Declared, Live, ListsIn
  <2> QED BY <2>1 DEF OfScope
<1>4. \A k \in ListsIn(heap) : Owns(heap, k) \subseteq Cells /\ k \in Variables /\ k \notin Cells
  BY ListIs DEF Sound
<1>5. \A v \in Variables : v \in OfScope => v \in Inner BY <1>3, <1>4, Kinds
<1>6. ASSUME NEW k \in ListsIn(heap) \ OfScope PROVE Owns(heap, k) \intersect OfScope = {}
  <2>1. k \notin Inner BY <1>3
  <2>2. \A v \in Inner : v \in ListsIn(heap) => Owns(heap, k) \intersect Owns(heap, v) = {}
    BY <2>1 DEF Sound, Owned
  <2> QED BY <1>1, <1>3, <1>4, <2>2
<1>7. ASSUME NEW c \in (Live \intersect Cells) \ OfScope
      PROVE  \E k \in ListsIn(heap) \ OfScope : c \in Owns(heap, k)
  <2>1. PICK k \in ListsIn(heap) : c \in Owns(heap, k) BY DEF Sound, Owned, Live
  <2>2. k \notin Inner BY <1>3, <2>1
  <2> QED BY <1>4, <1>5, <2>1, <2>2
<1> QED BY <1>3, <1>5, <1>6, <1>7 DEF DieTogether
----------------------------------------------------------------------------
\* A method that was called, and a variable that is declared.
LEMMA CallSound ==
  ASSUME IInv, NEW l \in Lists, Usable(l), NEW o, Leaves(o, Owns(heap, Target(l))), Call(l, o)
  PROVE  IInv'
<1> DEFINE t == Target(l)
           held == Owns(heap, t)
           list == o.list
           dead == Dropped(l, list)
<1>1. /\ t \in ListsIn(heap) /\ t \in OfType({"list"})
      /\ ElementsOf(l) = heap[t].m_list
  BY UsedList DEF IInv
<1>2. /\ Holds(list, held) /\ Fits(list) /\ status' = o.status
      /\ o.status \in {"running", "undefined", "terminated"}
      /\ heap' = IF o.status = "running" THEN WithList(dead, t, list) ELSE heap
  BY DEF Leaves, Call
<1>3. held \subseteq Live \intersect Cells
  BY <1>1, ListIs DEF IInv, Sound, Owned, Live
<1>4. \A c : c \in dead <=> c \in held /\ ~Keeps(list, c)
  BY <1>1 DEF Dropped, Keeps, New, Owns
<1>5. \A k \in ListsIn(heap) : k # t => Owns(heap, k) \intersect held = {}
  BY <1>1 DEF IInv, Sound, Owned
<1>6. \A k \in ListsIn(heap) : k \notin dead
  BY <1>3, <1>4, ListIs DEF IInv, Sound
<1>7. ASSUME NEW c \in (Live \intersect Cells) \ dead
      PROVE  Keeps(list, c) \/ \E k \in ListsIn(heap) : k # t /\ k \notin dead /\ c \in Owns(heap, k)
  <2>1. PICK k \in ListsIn(heap) : c \in Owns(heap, k) BY DEF IInv, Sound, Owned, Live
  <2>2. CASE k = t BY <1>4, <2>1, <2>2
  <2>3. CASE k # t BY <1>6, <2>1, <2>3
  <2> QED BY <2>2, <2>3
<1> HIDE DEF t, held, list, dead
<1>8. Sound(WithList(dead, t, list))
  <2>1. \A c \in dead : ~Keeps(list, c) BY <1>4
  <2>2. \A k \in ListsIn(heap) : k # t /\ k \notin dead =>
          Owns(heap, k) \intersect (dead \union held) = {}
    BY <1>4, <1>5
  <2>3. Sound(heap) BY DEF IInv
  <2> QED BY <1>1, <1>2, <1>3, <1>7, <2>1, <2>2, <2>3, WithListSound
<1>9. Sound(heap') BY <1>2, <1>8 DEF IInv
<1> QED BY <1>2, <1>9 DEF IInv

LEMMA DeclareListSound ==
  ASSUME IInv, NEW v \in OfType({"list"}), NEW list \in Seq(NewElement), DeclareList(v, list)
  PROVE  IInv'
<1>1. v \notin Live /\ Fits(list) /\ heap' = WithList({}, v, list) /\ status' = status
  BY DEF DeclareList, CanDeclare, Declared, Continues
<1>2. Holds(list, {}) BY FreshHolds
<1>3. ASSUME NEW c \in (Live \intersect Cells) \ {}
      PROVE  Keeps(list, c) \/ \E k \in ListsIn(heap) : k # v /\ k \notin {} /\ c \in Owns(heap, k)
  <2>1. PICK k \in ListsIn(heap) : c \in Owns(heap, k) BY DEF IInv, Sound, Owned, Live
  <2> QED BY <1>1, <2>1 DEF ListsIn, Live
<1>4. Sound(WithList({}, v, list))
  <2>1. Sound(heap) BY DEF IInv
  <2>2. /\ {} \subseteq Live \intersect Cells /\ \A c \in {} : ~Keeps(list, c)
        /\ \A k \in ListsIn(heap) : k # v /\ k \notin {} => Owns(heap, k) \intersect ({} \union {}) = {}
    OBVIOUS
  <2> QED BY <1>1, <1>2, <1>3, <2>1, <2>2, WithListSound
<1> QED BY <1>1, <1>4 DEF IInv

\* A list that is declared, or a method that ended the script instead.
Declares(v) ==
  \/ \E list \in Seq(NewElement) : DeclareList(v, list)
  \/ Ready /\ heap' = heap /\ status' \in {"running", "undefined", "terminated"}

LEMMA DeclareResultIs ==
  ASSUME NEW v, NEW o,
         o.status \in {"running", "undefined", "terminated"}, o.list \in Seq(NewElement),
         DeclareResult(v, o)
  PROVE  Declares(v)
<1>1. CASE o.status = "running" BY <1>1 DEF DeclareResult, Declares
<1>2. CASE o.status # "running" BY <1>2 DEF DeclareResult, CanDeclare, Declares
<1> QED BY <1>1, <1>2

\* One element that a value is put in.
LEMMA ValueElement ==
  ASSUME NEW i \in ElementInstance
  PROVE  Created(<<i>>) \in Seq(NewElement)
<1>1. DOMAIN <<i>> = 1 .. 1 /\ <<i>>[1] = i OBVIOUS
<1> DEFINE s == Created(<<i>>)
<1>2. s = [j \in 1 .. 1 |-> [new |-> <<i>>[j]]] BY <1>1 DEF Created
<1> HIDE DEF s
<1>3. DOMAIN s = 1 .. 1 /\ \A j \in 1 .. 1 : s[j] = [new |-> i] BY <1>1, <1>2
<1>4. [new |-> i] \in NewElement BY DEF NewElement
<1>5. \A j \in 1 .. 1 : s[j] \in NewElement BY <1>3, <1>4
<1>6. s = [j \in 1 .. 1 |-> s[j]] BY <1>2, <1>3
<1>7. 1 \in Nat OBVIOUS
<1>8. s \in Seq(NewElement) BY <1>3, <1>5, <1>6, <1>7, SequenceOf
<1> QED BY <1>8 DEF s

LEMMA PairElements ==
  ASSUME NEW i \in ElementInstance, NEW j \in ElementInstance
  PROVE  Created(<<i, j>>) \in Seq(NewElement)
<1>1. DOMAIN <<i, j>> = 1 .. 2 /\ <<i, j>>[1] = i /\ <<i, j>>[2] = j OBVIOUS
<1> DEFINE s == Created(<<i, j>>)
<1>2. s = [k \in 1 .. 2 |-> [new |-> <<i, j>>[k]]] BY <1>1 DEF Created
<1>3. \A k \in 1 .. 2 : <<i, j>>[k] \in ElementInstance BY <1>1
<1> HIDE DEF s
<1>4. DOMAIN s = 1 .. 2 /\ \A k \in 1 .. 2 : s[k] = [new |-> <<i, j>>[k]] BY <1>2
<1>5. \A k \in 1 .. 2 : s[k] \in NewElement BY <1>3, <1>4 DEF NewElement
<1>6. s = [k \in 1 .. 2 |-> s[k]] BY <1>2, <1>4
<1>7. 2 \in Nat OBVIOUS
<1>8. s \in Seq(NewElement) BY <1>4, <1>5, <1>6, <1>7, SequenceOf
<1> QED BY <1>8 DEF s
----------------------------------------------------------------------------
\* Each statement keeps every element in one list.
LEMMA Whole ==
  /\ Positions \subseteq Int /\ Counts \subseteq Int /\ Special .. MaxSize \subseteq Int
BY SizesAssumption DEF Positions, Counts, Special

LEMMA MethodCalls ==
  ASSUME Direct, IInv, Method
  PROVE  \E l \in Lists : \E o : Usable(l) /\ Leaves(o, Owns(heap, Target(l))) /\ Call(l, o)
<1>1. PICK l \in Lists : \/ \E e \in Arguments : AddValue(l, e) \/ RemoveValue(l, e)
                         \/ \E e \in Addends : AppendValue(l, e)
                         \/ \E m \in Lists : AddList(l, m)
                         \/ Erase(l) \/ Arrange(l) \/ Search(l) \/ Access(l)
  BY DEF Method
<1>2. Usable(l)
  BY <1>1 DEF AddValue, RemoveValue, AppendValue, AddList, Erase, Arrange, Search, Access
<1> DEFINE list == Held(l)
           held == Owns(heap, Target(l))
<1>3. Sound(heap) BY DEF IInv
<1>4. Holds(list, held) BY <1>2, <1>3, HeldHolds DEF Held
<1> DEFINE Calls == \E o : Leaves(o, held) /\ Call(l, o)
<1>5. \A o : Leaves(o, held) /\ Call(l, o) => Calls OBVIOUS
<1> HIDE DEF list, held, Calls
<1>6. ASSUME NEW e \in Arguments, AddValue(l, e) PROVE Calls
  <2> DEFINE element == Created(<<Evaluated(e)>>)
  <2>1. Known(e) BY <1>6 DEF AddValue
  <2>2. element \in Seq(NewElement) BY <1>3, <2>1, EvaluatedArgument, ValueElement, ElementsAre
  <2>3. \/ Call(l, push_back(list, element))
        \/ Call(l, push_front(list, element))
        \/ \E pos \in Positions : Call(l, insert(list, pos, element))
    BY <1>6 DEF AddValue, list
  <2> HIDE DEF element
  <2> QED BY <1>4, <1>5, <2>2, <2>3, AddingHolds, Whole
<1>7. ASSUME NEW e \in Arguments, RemoveValue(l, e) PROVE Calls
  <2>1. PICK count \in Counts : \/ Call(l, remove(list, Evaluated(e), count))
                                \/ Call(l, remove_last(list, Evaluated(e), count))
    BY <1>7 DEF RemoveValue, list
  <2>2. count \in Int BY Whole
  <2>3. /\ Leaves(remove(list, Evaluated(e), count), held)
        /\ Leaves(remove_last(list, Evaluated(e), count), held)
    BY <1>4, <2>2, RemovingHolds DEF remove, remove_last
  <2> QED BY <1>5, <2>1, <2>3
<1>8. ASSUME NEW m \in Lists, AddList(l, m) PROVE Calls
  <2> DEFINE elements == Copied(Held(m))
  <2>1. Usable(m) BY <1>8 DEF AddList
  <2>2. elements \in Seq(NewElement) BY <1>3, <2>1, HeldHolds DEF Held
  <2>3. \/ Call(l, push_back(list, elements))
        \/ Call(l, push_front(list, elements))
        \/ \E pos \in Positions : Call(l, insert(list, pos, elements))
    BY <1>8 DEF AddList, list
  <2> HIDE DEF elements
  <2> QED BY <1>4, <1>5, <2>2, <2>3, AddingHolds, Whole
<1>9. ASSUME Erase(l) PROVE Calls
  <2>1. \/ \E pos \in Positions, count \in Counts : Call(l, erase(list, pos, count))
        \/ Call(l, pop_back(list)) \/ Call(l, pop_front(list)) \/ Call(l, clear(list))
    BY <1>9 DEF Erase, list
  <2> QED BY <1>4, <1>5, <2>1, ErasingHolds, Whole
<1>10. ASSUME Arrange(l) PROVE Calls
  <2>1. \/ \E size \in Special .. MaxSize : Call(l, resize(list, size))
        \/ \E outcome \in sorts(list) : Call(l, outcome)
        \/ Call(l, reverse(list))
    BY <1>10 DEF Arrange, list
  <2> QED BY <1>4, <1>5, <2>1, ArrangingHolds, Whole
<1>11. ASSUME Search(l) PROVE Calls
  <2>1. \/ Call(l, min(list)) \/ Call(l, max(list)) \/ Call(l, Result(list, Len(list)))
        \/ \E e, pos : Call(l, find(list, Evaluated(e), pos))
    BY <1>11 DEF Search, list
  <2> QED BY <1>4, <1>5, <2>1, KeepingHolds, OutcomeIs
<1>12. ASSUME Access(l) PROVE Calls
  <2>1. \/ Call(l, Undefined) \/ \E pos : Call(l, at(list, pos))
        \/ Call(l, front(list)) \/ Call(l, back(list))
    BY <1>12 DEF Access, list
  <2> QED BY <1>4, <1>5, <2>1, KeepingHolds, OutcomeIs
<1>13. ASSUME NEW e \in Addends, AppendValue(l, e) PROVE Calls
  <2> DEFINE element == Created(<<Uncast(e)>>)
  <2>1. Known(e) /\ Call(l, push_back(list, element)) BY <1>13 DEF AppendValue, list
  <2>2. element \in Seq(NewElement) BY <1>3, <2>1, UncastAddend, ValueElement
  <2> HIDE DEF element
  <2> QED BY <1>4, <1>5, <2>1, <2>2, AddingHolds
<1>14. Calls BY <1>1, <1>6, <1>7, <1>8, <1>9, <1>10, <1>11, <1>12, <1>13
<1> QED BY <1>2, <1>14 DEF Calls, held

\* What is assigned to: a variable of type int, be it by way of an element that refers
\* to it, or an element of a list.
LEMMA AssignedIs ==
  ASSUME Sound(heap), NEW t \in Targets, Known(t), AssignedId(t) \in Live
  PROVE  AssignedId(t) \in OfType({"int"}) \/ AssignedId(t) \in Live \intersect Cells
<1> DEFINE i == AssignedId(t)
<1>1. CASE t.form = "variable"
  <2>1. t.name \in Ints BY <1>1 DEF Targets, Elements
  <2>2. Usable(t.name) /\ i = Target(t.name) BY <1>1 DEF Known, AssignedId
  <2> QED BY <2>1, <2>2, UsedInt
<1>2. CASE t.form # "variable"
  <2>1. t \in Elements BY <1>2 DEF Targets
  <2>2. t.form = "element" /\ t.list \in Lists /\ t.position \in Nat BY <2>1, SizesAssumption DEF Elements
  <2>3. Usable(t.list) /\ t.position < Len(ElementsOf(t.list)) BY <2>2 DEF Known
  <2>4. ElementsOf(t.list) \in Seq(Cells) BY <2>2, <2>3, UsedList
  <2>5. t.position + 1 \in DOMAIN ElementsOf(t.list)
    <3>1. /\ DOMAIN ElementsOf(t.list) = 1 .. Len(ElementsOf(t.list))
          /\ Len(ElementsOf(t.list)) \in Nat
      BY <2>4, LenProperties
    <3> QED BY <2>2, <2>3, <3>1
  <2> DEFINE c == ElementsOf(t.list)[t.position + 1]
  <2>6. c \in Live \intersect Cells /\ (heap[c] \in IntInstance \/ heap[c] \in IntRef)
    BY <2>2, <2>3, <2>5, UsedList, ElementsAre
  <2>7. i = Denoted(c, {}) BY <1>2 DEF AssignedId
  <2> HIDE DEF c
  <2>8. CASE heap[c] \in IntInstance
    <3>1. i = c BY <2>6, <2>7, <2>8, ReadsNumbers
    <3> QED BY <2>6, <3>1
  <2>9. CASE heap[c] \in IntRef
    <3>1. i = heap[c].m_instance BY <2>6, <2>7, <2>9, ReadsNumbers
    <3> QED BY <2>9, <3>1 DEF IntRef
  <2> QED BY <2>6, <2>8, <2>9
<1> QED BY <1>1, <1>2

LEMMA AssignSound ==
  ASSUME IInv, NEW t \in Targets, NEW e \in Operands, Assign(t, e)
  PROVE  IInv'
<1> DEFINE i == AssignedId(t)
           n == Reads(Evaluated(e))
<1>1. Sound(heap) BY DEF IInv
<1>2. Known(t) /\ Known(e) BY DEF Assign
<1>3. ~Dangles(Evaluated(e), {}) =>
        n \in Int /\ Int_(n) \in IntInstance /\ Int_(n) \in ElementInstance
  BY <1>1, <1>2, EvaluatedReads, ReadsNumbers, ElementsAre
<1>4. i \in Live => i \in OfType({"int"}) \/ i \in Live \intersect Cells BY <1>1, <1>2, AssignedIs
<1>5. \/ status' = "undefined" /\ heap' = heap
      \/ /\ i \in Live /\ ~Dangles(Evaluated(e), {})
         /\ heap' = WithInstance({}, i, Int_(n)) /\ status' = status
  BY DEF Assign, Continues
<1> HIDE DEF i, n
<1>6. ASSUME i \in Live, ~Dangles(Evaluated(e), {}) PROVE Sound(WithInstance({}, i, Int_(n)))
  <2>1. DieTogether({}) BY <1>1, NothingDies
  <2>2. \/ i \in Variables \ OfType({"list"}) /\ OfItsType(i, Int_(n))
        \/ i \in (Live \intersect Cells) \ {} /\ Int_(n) \in ElementInstance
    <3>1. CASE i \in OfType({"int"}) BY <1>3, <1>6, <3>1 DEF OfType, OfItsType
    <3>2. CASE i \in Live \intersect Cells BY <1>3, <1>6, <3>2
    <3> QED BY <1>4, <1>6, <3>1, <3>2
  <2> QED BY <1>1, <2>1, <2>2, WithInstanceSound
<1> QED BY <1>5, <1>6 DEF IInv
LEMMA JoinedFresh ==
  ASSUME NEW a \in Seq(NewElement), NEW b \in Seq(NewElement)
  PROVE  /\ push_back(a, b).list \in Seq(NewElement)
         /\ push_back(a, b).status \in {"running", "undefined", "terminated"}
BY ConcatProperties DEF push_back, Done

LEMMA DeclareReferenceSound ==
  ASSUME IInv, NEW r, NEW v \in Variables, DeclareReference(r, v),
         \/ r \in OfType({"int&"}) /\ v \in Ints
         \/ r \in OfType({"list&"}) /\ v \in Lists
  PROVE  IInv'
<1> DEFINE instance == IF Refers(v) THEN heap[v] ELSE ReferenceTo(v)
<1>1. /\ v \in DOMAIN heap /\ heap' = WithInstance({}, r, instance) /\ status' = status
  BY DEF DeclareReference, Declared, Live, Continues
<1>2. Sound(heap) /\ Shaped(heap) BY DEF IInv, Sound
<1>3. TypeOf[v] \in {"int", "int&", "list", "list&"} BY Kinds
<1>4. /\ r \in OfType({"int&"}) /\ v \in Ints => instance \in IntRef
      /\ r \in OfType({"list&"}) /\ v \in Lists => instance \in ListRef
  <2>1. ASSUME v \in Ints PROVE instance \in IntRef
    <3>1. CASE Refers(v)
      <4>1. v \in OfType({"int&"}) BY <2>1, <1>3, <3>1 DEF Ints, IsList, OfType, Refers
      <4> QED BY <1>1, <1>2, <3>1, <4>1, ShapedFacts
    <3>2. CASE ~Refers(v)
      <4>1. v \in OfType({"int"}) BY <2>1, <1>3, <3>2 DEF Ints, IsList, OfType, Refers
      <4> QED BY <3>2, <4>1 DEF ReferenceTo, IntRef
    <3> QED BY <3>1, <3>2
  <2>2. ASSUME v \in Lists PROVE instance \in ListRef
    <3>1. CASE Refers(v)
      <4>1. v \in OfType({"list&"}) BY <2>2, <1>3, <3>1 DEF Lists, IsList, OfType, Refers
      <4> QED BY <1>1, <1>2, <3>1, <4>1, ShapedFacts
    <3>2. CASE ~Refers(v)
      <4>1. v \in OfType({"list"}) BY <2>2, <1>3, <3>2 DEF Lists, IsList, OfType, Refers
      <4> QED BY <3>2, <4>1 DEF ReferenceTo, ListRef
    <3> QED BY <3>1, <3>2
  <2> QED BY <2>1, <2>2
<1> HIDE DEF instance
<1>5. r \in Variables \ OfType({"list"}) /\ OfItsType(r, instance)
  BY <1>4 DEF OfType, OfItsType
<1>6. Sound(WithInstance({}, r, instance)) BY <1>2, <1>5, NothingDies, WithInstanceSound
<1> QED BY <1>1, <1>6 DEF IInv

LEMMA DeclaresList ==
  ASSUME Direct, IInv, NEW v \in OfType({"list"})
  PROVE  /\ \A i \in Initializers : DeclareInitialized(v, i) => Declares(v)
         /\ \A l \in Lists : \A pos \in Positions, count \in Counts : Sublist(v, l, pos, count) => Declares(v)
         /\ \A l \in Lists, e \in Addends : PlusValue(v, l, e) => Declares(v)
         /\ \A l, m \in Lists : PlusList(v, l, m) => Declares(v)
<1>1. Sound(heap) BY DEF IInv
<1>2. ASSUME NEW i \in Initializers, DeclareInitialized(v, i) PROVE Declares(v)
  <2>1. CASE DeclareList(v, <<>>)
    <3>1. <<>> \in Seq(NewElement) BY EmptySeq
    <3> QED BY <2>1, <3>1 DEF Declares
  <2>2. CASE i.form = "copy" /\ Usable(i.list) /\ DeclareList(v, Copied(There(ElementsOf(i.list))))
    <3>1. i.list \in Lists BY <2>2 DEF Initializers
    <3>2. Copied(There(ElementsOf(i.list))) \in Seq(NewElement) BY <1>1, <2>2, <3>1, HeldHolds
    <3> QED BY <2>2, <3>2 DEF Declares
  <2>3. CASE /\ i.form = "braces" /\ Known(i.first) /\ Known(i.last)
             /\ DeclareList(v, Created(<<InBraces(i.first), InBraces(i.last)>>))
    <3>1. i.first \in Arguments /\ i.last \in Arguments BY <2>3 DEF Initializers
    <3>2. InBraces(i.first) \in IntInstance /\ InBraces(i.last) \in IntInstance
      BY <1>1, <2>3, <3>1, EvaluatedArgument
    <3> QED BY <2>3, <3>2, PairElements, ElementsAre DEF Declares
  <2> QED BY <1>2, <2>1, <2>2, <2>3 DEF DeclareInitialized
<1>3. ASSUME NEW l \in Lists, NEW pos \in Positions, NEW n \in Counts, Sublist(v, l, pos, n)
      PROVE  Declares(v)
  <2> DEFINE list == There(ElementsOf(l))
             count == interpret_special_value(n, Len(list) - pos)
             o == sublist(list, pos, n)
  <2>1. Usable(l) /\ DeclareResult(v, o) BY <1>3 DEF Sublist
  <2>2. Len(list) = Len(ElementsOf(l)) /\ Len(list) \in Nat BY <1>1, <2>1, HeldHolds
  <2>3. pos \in Int /\ n \in Int BY Whole
  <2>4. count \in Int BY <2>2, <2>3 DEF interpret_special_value
  <2>5. o = IF IsRange(list, pos, pos + count)
            THEN Done(Copied(SubSeq(list, pos + 1, pos + count))) ELSE Undefined
    BY DEF sublist
  <2>6. o.list \in Seq(NewElement) /\ o.status \in {"running", "undefined", "terminated"}
    <3>1. CASE IsRange(list, pos, pos + count)
      <4> HIDE DEF count, o
      <4>1. /\ pos + 1 \in Nat /\ pos + count \in Int
            /\ pos + count <= Len(ElementsOf(l)) /\ 1 <= pos + 1
        BY <2>2, <2>3, <2>4, <3>1 DEF IsRange, InRange
      <4>2. Copied(SubSeq(list, pos + 1, pos + count)) \in Seq(NewElement)
        BY <1>1, <2>1, <4>1, HeldHolds
      <4> QED BY <2>5, <3>1, <4>2 DEF Done
    <3>2. CASE ~IsRange(list, pos, pos + count)
      <4>1. o = Undefined BY <2>5, <3>2
      <4>2. <<>> \in Seq(NewElement) BY EmptySeq
      <4> QED BY <4>1, <4>2 DEF Undefined
    <3> QED BY <3>1, <3>2
  <2> HIDE DEF o
  <2> QED BY <2>1, <2>6, DeclareResultIs
<1>4. ASSUME NEW l \in Lists, NEW e \in Addends, PlusValue(v, l, e) PROVE Declares(v)
  <2>1. Usable(l) /\ Known(e)
        /\ DeclareResult(v, push_back(Copied(There(ElementsOf(l))), Created(<<Uncast(e)>>)))
    BY <1>4 DEF PlusValue
  <2>2. Copied(There(ElementsOf(l))) \in Seq(NewElement) BY <1>1, <2>1, HeldHolds
  <2>3. Created(<<Uncast(e)>>) \in Seq(NewElement)
    BY <1>1, <2>1, UncastAddend, ValueElement
  <2> QED BY <2>1, <2>2, <2>3, JoinedFresh, DeclareResultIs
<1>5. ASSUME NEW l \in Lists, NEW m \in Lists, PlusList(v, l, m) PROVE Declares(v)
  <2>1. Usable(l) /\ Usable(m)
        /\ DeclareResult(v, push_back(Copied(There(ElementsOf(l))), Copied(There(ElementsOf(m)))))
    BY <1>5 DEF PlusList
  <2>2. /\ Copied(There(ElementsOf(l))) \in Seq(NewElement)
        /\ Copied(There(ElementsOf(m))) \in Seq(NewElement)
    BY <1>1, <2>1, HeldHolds
  <2> QED BY <2>1, <2>2, JoinedFresh, DeclareResultIs
<1> QED BY <1>2, <1>3, <1>4, <1>5

LEMMA DeclaresSound ==
  ASSUME IInv, NEW v \in OfType({"list"}), Declares(v)
  PROVE  IInv'
<1>1. CASE \E list \in Seq(NewElement) : DeclareList(v, list) BY <1>1, DeclareListSound
<1>2. CASE heap' = heap /\ status' \in {"running", "undefined", "terminated"} BY <1>2 DEF IInv
<1> QED BY <1>1, <1>2 DEF Declares

LEMMA LeaveScopeSound ==
  ASSUME IInv, LeaveScope
  PROVE  IInv'
<1> DEFINE h == [i \in Live \ OfScope |-> heap[i]]
<1>1. heap' = h /\ status' = status BY DEF LeaveScope, Continues
<1>2. DOMAIN h = Live \ OfScope /\ \A i \in DOMAIN h : h[i] = heap[i] OBVIOUS
<1>3. Sound(heap) /\ DieTogether(OfScope) BY ScopeDies DEF IInv
<1> HIDE DEF h
<1>4. Shaped(h) BY <1>2, <1>3 DEF Sound, Shaped, Live
<1>5. ListsIn(h) = ListsIn(heap) \ OfScope /\ \A k \in ListsIn(h) : h[k] = heap[k]
  BY <1>2 DEF ListsIn, Live
<1>6. DOMAIN h \intersect Cells = (Live \intersect Cells) \ OfScope BY <1>2
<1>7. Sound(h) BY <1>3, <1>4, <1>5, <1>6, SameListsSound
<1> QED BY <1>1, <1>7 DEF IInv

LEMMA ReturnSound ==
  ASSUME IInv
  PROVE  /\ \A v \in Outer \intersect OfType({"int"}), w \in Inner \intersect Ints :
              ReturnInt(v, w) => IInv'
         /\ \A v \in Outer \intersect OfType({"list"}), w \in Inner \intersect Lists :
              ReturnList(v, w) => IInv'
<1>1. Sound(heap) /\ DieTogether(OfScope) BY ScopeDies DEF IInv
<1>2. ASSUME NEW v \in Outer \intersect OfType({"int"}), NEW w \in Inner \intersect Ints,
             ReturnInt(v, w)
      PROVE  IInv'
  <2> DEFINE e == [form |-> "variable", name |-> w]
             instance == Evaluated(e)
  <2>1. Known(e) /\ heap' = WithInstance(OfScope, v, instance) /\ status' = status
    BY <1>2 DEF ReturnInt, Continues
  <2>2. e \in Operands /\ e.form # "element" BY DEF Operands
  <2>3. instance \in IntInstance BY <1>1, <2>1, <2>2, EvaluatedInt
  <2> HIDE DEF instance
  <2>4. v \in Variables \ OfType({"list"}) /\ OfItsType(v, instance)
    BY <2>3 DEF OfType, OfItsType
  <2>5. Sound(WithInstance(OfScope, v, instance)) BY <1>1, <2>4, WithInstanceSound
  <2> QED BY <2>1, <2>5 DEF IInv
<1>3. ASSUME NEW v \in Outer \intersect OfType({"list"}), NEW w \in Inner \intersect Lists,
             ReturnList(v, w)
      PROVE  IInv'
  <2> DEFINE list == Copied(There(ElementsOf(w)))
  <2>1. /\ v \notin Live /\ Usable(w) /\ Fits(list) /\ status' = status
        /\ heap' = WithList(OfScope, v, list)
    BY <1>3 DEF ReturnList, Declared, Continues
  <2>2. list \in Seq(NewElement) BY <1>1, <2>1, HeldHolds
  <2> HIDE DEF list
  <2>3. Holds(list, {}) BY <2>2, FreshHolds
  <2>4. \A c \in OfScope : ~Keeps(list, c)
    <3>1. \A i \in DOMAIN list : IsNew(list[i])
      <4>1. \A i \in DOMAIN list : list[i] \in NewElement BY <2>2, LenProperties, ElementOfSeq
      <4> QED BY <4>1, Elements_
    <3> QED BY <3>1 DEF Keeps
  <2>5. \A k \in ListsIn(heap) : k # v /\ k \notin OfScope =>
          Owns(heap, k) \intersect (OfScope \union {}) = {}
    BY <1>1 DEF DieTogether
  <2>6. ASSUME NEW c \in (Live \intersect Cells) \ OfScope
        PROVE  Keeps(list, c)
               \/ \E k \in ListsIn(heap) : k # v /\ k \notin OfScope /\ c \in Owns(heap, k)
    <3>1. PICK k \in ListsIn(heap) \ OfScope : c \in Owns(heap, k) BY <1>1 DEF DieTogether
    <3> QED BY <2>1, <3>1 DEF ListsIn, Live
  <2>7. {} \subseteq Live \intersect Cells OBVIOUS
  <2>8. Sound(WithList(OfScope, v, list))
    BY <1>1, <2>1, <2>3, <2>4, <2>5, <2>6, <2>7, WithListSound
  <2> QED BY <2>1, <2>8 DEF IInv
<1> QED BY <1>2, <1>3

LEMMA DeclarationSound ==
  ASSUME Direct, IInv, Declaration
  PROVE  IInv'
<1>1. Sound(heap) BY DEF IInv
<1>2. ASSUME NEW v \in OfType({"int"}), NEW e \in Arguments, DeclareInt(v, e) PROVE IInv'
  <2> DEFINE instance == Evaluated(e)
  <2>1. Known(e) /\ heap' = WithInstance({}, v, instance) /\ status' = status
    BY <1>2 DEF DeclareInt, Continues
  <2>2. instance \in IntInstance BY <1>1, <2>1, EvaluatedArgument
  <2> HIDE DEF instance
  <2>3. v \in Variables \ OfType({"list"}) /\ OfItsType(v, instance)
    BY <2>2 DEF OfType, OfItsType
  <2>4. Sound(WithInstance({}, v, instance)) BY <1>1, <2>3, NothingDies, WithInstanceSound
  <2> QED BY <2>1, <2>4 DEF IInv
<1>3. \/ \E v \in OfType({"int"}), e \in Arguments : DeclareInt(v, e)
      \/ \E r \in OfType({"int&"}), v \in Ints : DeclareReference(r, v)
      \/ \E r \in OfType({"list&"}), v \in Lists : DeclareReference(r, v)
      \/ \E v \in OfType({"list"}), i \in Initializers : DeclareInitialized(v, i)
      \/ \E v \in OfType({"list"}), l \in Lists :
           \/ \E pos \in Positions, count \in Counts : Sublist(v, l, pos, count)
           \/ \E e \in Addends : PlusValue(v, l, e)
           \/ \E m \in Lists : PlusList(v, l, m)
      \/ LeaveScope
      \/ \E v \in Outer \intersect OfType({"int"}), w \in Inner \intersect Ints : ReturnInt(v, w)
      \/ \E v \in Outer \intersect OfType({"list"}), w \in Inner \intersect Lists : ReturnList(v, w)
  BY DEF Declaration
<1>4. \A v \in Ints \union Lists : v \in Variables BY DEF Ints, Lists
<1> QED BY <1>2, <1>3, <1>4, DeclareReferenceSound, DeclaresList,
       DeclaresSound, LeaveScopeSound, ReturnSound
----------------------------------------------------------------------------
LEMMA InitSound == Init => IInv
<1> SUFFICES ASSUME Init PROVE IInv OBVIOUS
<1>1. heap = <<>> /\ DOMAIN heap = {} /\ status = "running" BY DEF Init
<1>2. ListsIn(heap) = {} BY <1>1 DEF ListsIn
<1> QED BY <1>1, <1>2 DEF IInv, Sound, Shaped, Owned

LEMMA StepSound ==
  ASSUME Direct, IInv, [Next]_vars
  PROVE  IInv'
<1>1. CASE Declaration BY <1>1, DeclarationSound
<1>2. CASE Method BY <1>2, MethodCalls, CallSound
<1>3. CASE \E t \in Targets, e \in Operands : Assign(t, e) BY <1>3, AssignSound
<1>4. CASE UNCHANGED vars BY <1>4 DEF vars, IInv
<1> QED BY <1>1, <1>2, <1>3, <1>4 DEF Next

\* Whatever statements are executed, variables and cells hold instances of their kinds,
\* references, elements or not, refer to variables of their types, and every element is
\* in one list.
THEOREM InstancesInductive ==
  ASSUME Direct
  PROVE  Spec => []IInv
<1>1. Init => IInv BY InitSound
<1>2. IInv /\ [Next]_vars => IInv' BY StepSound
<1> QED BY <1>1, <1>2, PTL DEF Spec

\* The heap maps variables and cells to ints, lists of cells and references.
THEOREM InstancesTyped ==
  ASSUME Direct
  PROVE  Spec => []TypeOK
<1>1. IInv => TypeOK
  <2> SUFFICES ASSUME IInv PROVE TypeOK OBVIOUS
  <2>1. Shaped(heap) BY DEF IInv, Sound
  <2>2. ASSUME NEW i \in Live PROVE heap[i] \in IntInstance \union ListInstance \union Reference
    <3>1. CASE i \in Cells
      <4>1. heap[i] \in IntInstance \/ heap[i] \in IntRef BY <2>1, <3>1, ShapedFacts DEF Live
      <4>2. IntRef \subseteq Reference BY DEF IntRef, Reference, OfType
      <4> QED BY <4>1, <4>2
    <3>2. CASE i \in Variables
      <4>1. TypeOf[i] \in {"int", "int&", "list", "list&"} BY <3>2, Kinds
      <4>2. \/ heap[i] \in IntInstance \/ heap[i] \in ListInstance
            \/ heap[i] \in IntRef \/ heap[i] \in ListRef
        BY <2>1, <3>2, <4>1 DEF Shaped, OfItsType, Live
      <4>3. IntRef \subseteq Reference /\ ListRef \subseteq Reference
        BY DEF IntRef, ListRef, Reference, OfType
      <4> QED BY <4>2, <4>3
    <3> QED BY <2>1, <3>1, <3>2 DEF Shaped, Live
  <2> QED BY <2>1, <2>2 DEF TypeOK, IInv, Shaped, Live
<1> QED BY <1>1, InstancesInductive, PTL

\* list_value copies, moves or destroys the elements of a list, whichever method is
\* called: none of them is ever in two lists, in one list twice, or in none.
THEOREM ElementsOwnedOnce ==
  ASSUME Direct
  PROVE  Spec => []OwnedOnce
<1>1. IInv => OwnedOnce
  <2> SUFFICES ASSUME IInv PROVE OwnedOnce OBVIOUS
  <2>1. /\ \A l \in ListsIn(heap) : Owns(heap, l) \subseteq Live /\ IsInjective(heap[l].m_list)
        /\ \A l, k \in ListsIn(heap) : l # k => Owns(heap, l) \intersect Owns(heap, k) = {}
        /\ \A c \in Live \intersect Cells : \E l \in ListsIn(heap) : c \in Owns(heap, l)
    BY DEF IInv, Sound, Owned, Live
  <2>2. \A l \in Live : heap[l].kind = "list" <=> l \in ListsIn(heap) BY DEF ListsIn, Live
  <2>3. ASSUME NEW c \in Live \intersect Cells
        PROVE  \E l \in Live : /\ heap[l].kind = "list" /\ c \in Range(heap[l].m_list)
                               /\ \A k \in Live \ {l} : heap[k].kind = "list" => c \notin Range(heap[k].m_list)
    <3>1. PICK l \in ListsIn(heap) : c \in Owns(heap, l) BY <2>1
    <3>2. l \in Live BY DEF ListsIn, Live
    <3>3. \A k \in Live \ {l} : heap[k].kind = "list" => c \notin Owns(heap, k)
      BY <2>1, <2>2, <3>1
    <3> QED BY <2>2, <3>1, <3>2, <3>3 DEF Owns
  <2> QED BY <2>1, <2>2, <2>3 DEF OwnedOnce, Owns
<1> QED BY <1>1, InstancesInductive, PTL

\* What is declared as int or as list, and what a list holds, is never a reference: what
\* is stored was read from references and copied first. Only the two kinds of statements
\* that ByValue excludes store references.
THEOREM ValuesOwned ==
  ASSUME ByValue
  PROVE  Spec => []OwnValues
<1>1. IInv => OwnValues
  <2> SUFFICES ASSUME IInv PROVE OwnValues OBVIOUS
  <2>1. Shaped(heap) BY DEF IInv, Sound
  <2>2. ASSUME NEW i \in Live, IsReference(i) PROVE i \in OfType({"int&", "list&"})
    <3>1. i \notin Cells
      <4>1. i \in Cells => heap[i] \in IntInstance BY <2>1, ShapedFacts DEF Live, ByValue
      <4> QED BY <2>2, <4>1 DEF IsReference, IntInstance
    <3> QED BY <2>1, <2>2, <3>1, ShapedFacts DEF Live, IsReference
  <2> QED BY <2>2 DEF OwnValues, OfType, References, Refers
<1>2. Spec => []IInv BY InstancesInductive DEF ByValue
<1> QED BY <1>1, <1>2, PTL
----------------------------------------------------------------------------
\* What a heap tells of variables: the number of an int, the numbers of a list, the
\* variable that a reference refers to.
Tells(h, v) == IF Refers(v) THEN h[v].m_instance
               ELSE IF TypeOf[v] = "int" THEN h[v].number
               ELSE [i \in DOMAIN h[v].m_list |-> h[h[v].m_list[i]].number]
ValuesIn(h) == [v \in DOMAIN h \intersect Variables |-> Tells(h, v)]

LEMMA ValuesAre ==
  ASSUME ByValue
  PROVE  IInv => [v \in Live \intersect Variables |-> Value(v)] = ValuesIn(heap)
<1> SUFFICES ASSUME IInv, NEW v \in Live \intersect Variables PROVE Value(v) = Tells(heap, v)
  BY DEF ValuesIn, Live
<1>1. Sound(heap) /\ Shaped(heap) BY DEF IInv, Sound
<1>2. Declared(v) /\ v \in DOMAIN heap BY DEF Declared, Live
<1>3. TypeOf[v] \in {"int", "int&", "list", "list&"} BY Kinds
<1>4. Target(v) = IF Refers(v) THEN heap[v].m_instance ELSE v BY <1>1, <1>2, TargetIs
<1>5. CASE Refers(v)
  <2>1. TypeOf[v] # "int" /\ TypeOf[v] # "list" BY <1>5 DEF Refers
  <2> QED BY <1>4, <1>5, <2>1 DEF Value, Tells
<1>6. CASE TypeOf[v] = "int"
  <2>1. ~Refers(v) /\ v \in OfType({"int"}) BY <1>6 DEF Refers, OfType
  <2>2. heap[v] \in IntInstance BY <1>1, <1>2, <2>1, ShapedFacts
  <2>3. Reads(heap[v]) = heap[v].number BY <2>2 DEF Reads, IntInstance
  <2> QED BY <1>6, <2>1, <2>3 DEF Value, Tells
<1>7. CASE TypeOf[v] = "list"
  <2>1. ~Refers(v) /\ v \in Lists /\ TypeOf[v] # "int" BY <1>7 DEF Refers, Lists, IsList
  <2>2. Usable(v) /\ Target(v) = v BY <1>2, <1>4, <2>1 DEF Usable, Declared
  <2>3. ElementsOf(v) = heap[v].m_list BY <2>2 DEF ElementsOf
  <2>4. \A i \in DOMAIN ElementsOf(v) :
          Reads(heap[ElementsOf(v)[i]]) = heap[heap[v].m_list[i]].number
    <3> TAKE i \in DOMAIN ElementsOf(v)
    <3>1. heap[ElementsOf(v)[i]] \in ElementInstance BY <1>1, <2>1, <2>2, UsedList
    <3>2. heap[ElementsOf(v)[i]] \in IntInstance BY <3>1, ElementsAre DEF ByValue
    <3> QED BY <2>3, <3>2 DEF Reads, IntInstance
  <2>5. Numbers_(v) = [i \in DOMAIN heap[v].m_list |-> heap[heap[v].m_list[i]].number]
    BY <2>3, <2>4 DEF Numbers_
  <2> QED BY <1>7, <2>1, <2>5 DEF Value, Tells
<1> QED BY <1>3, <1>5, <1>6, <1>7 DEF Refers

\* A variable tells the same as long as it and the elements that it owns are the same.
LEMMA TellsTheSame ==
  ASSUME NEW h, NEW g, Sound(h), NEW v \in DOMAIN h \intersect Variables, g[v] = h[v],
         v \in ListsIn(h) => \A c \in Owns(h, v) : g[c] = h[c]
  PROVE  Tells(g, v) = Tells(h, v)
<1>1. TypeOf[v] \in {"int", "int&", "list", "list&"} BY Kinds
<1>2. CASE TypeOf[v] = "list"
  <2>1. v \in OfType({"list"}) /\ TypeOf[v] # "int" /\ ~Refers(v) BY <1>2 DEF OfType, Refers
  <2>2. v \in ListsIn(h) BY <2>1, ShapedFacts DEF Sound, ListsIn
  <2>3. \A i \in DOMAIN h[v].m_list : g[h[v].m_list[i]] = h[h[v].m_list[i]]
    BY <2>2 DEF Owns, Range
  <2>4. [i \in DOMAIN h[v].m_list |-> g[h[v].m_list[i]].number]
        = [i \in DOMAIN h[v].m_list |-> h[h[v].m_list[i]].number]
    BY <2>3
  <2> QED BY <2>1, <2>4 DEF Tells
<1>3. CASE TypeOf[v] # "list" BY <1>1, <1>3 DEF Tells, Refers
<1> QED BY <1>2, <1>3

\* A step that changes one variable, or declares it, and leaves the others.
Others(h, g, v, kept) ==
  /\ DOMAIN g \intersect Variables = kept \union {v}
  /\ \A k \in kept : k # v => /\ k \in DOMAIN h \intersect Variables /\ g[k] = h[k]
                              /\ k \in ListsIn(h) => \A c \in Owns(h, k) : g[c] = h[c]

LEMMA OneChanges ==
  ASSUME NEW h, NEW g, Sound(h), NEW v \in Variables, NEW kept, Others(h, g, v, kept)
  PROVE  ValuesIn(g) = Values!Holding(kept, ValuesIn(h), v, Tells(g, v))
<1>1. DOMAIN g \intersect Variables = kept \union {v} BY DEF Others
<1>2. ASSUME NEW k \in kept \union {v}
      PROVE  Tells(g, k) = IF k = v THEN Tells(g, v) ELSE ValuesIn(h)[k]
  <2>1. CASE k = v BY <2>1
  <2>2. CASE k # v
    <3>1. /\ k \in DOMAIN h \intersect Variables /\ g[k] = h[k]
          /\ k \in ListsIn(h) => \A c \in Owns(h, k) : g[c] = h[c]
      BY <2>2 DEF Others
    <3>2. Tells(g, k) = Tells(h, k) BY <3>1, TellsTheSame
    <3> QED BY <2>2, <3>1, <3>2 DEF ValuesIn
  <2> QED BY <2>1, <2>2
<1> QED BY <1>1, <1>2 DEF ValuesIn, Values!Holding

LEMMA SetStep ==
  ASSUME NEW h, NEW g, Sound(h), NEW v \in Variables, ~Refers(v),
         Others(h, g, v, DOMAIN h \intersect Variables)
  PROVE  Values!Step(ValuesIn(h), ValuesIn(g))
<1>1. DOMAIN ValuesIn(h) = DOMAIN h \intersect Variables BY DEF ValuesIn
<1>2. v \in DOMAIN ValuesIn(g) /\ ValuesIn(g)[v] = Tells(g, v) BY DEF ValuesIn, Others
<1>3. ValuesIn(g) = Values!Holding(DOMAIN h \intersect Variables, ValuesIn(h), v, Tells(g, v))
  BY OneChanges
<1>4. ~Values!Refers(v) BY DEF Values!Refers, Refers
<1>5. Values!Set(v, ValuesIn(h), ValuesIn(g)) BY <1>1, <1>2, <1>3, <1>4 DEF Values!Set
<1> QED BY <1>5 DEF Values!Step
\* The heap with a list, as told: the new elements are what they were made of.
HasList(h, dead, l, list) ==
  /\ DOMAIN h \intersect Variables = ((Live \ dead) \intersect Variables) \union {l}
  /\ \A i \in Live \ dead : i # l => i \in DOMAIN h /\ h[i] = heap[i]
  /\ l \in DOMAIN h /\ h[l].m_list = Settled(list)
  /\ \A i \in New(list) : h[Settled(list)[i]] = list[i].new

LEMMA WithListIs ==
  ASSUME Sound(heap), NEW dead, NEW l \in OfType({"list"}),
         NEW held, held \subseteq Live \intersect Cells, NEW list, Holds(list, held), Fits(list)
  PROVE  HasList(WithList(dead, l, list), dead, l, list)
<1> DEFINE cells == Settled(list)
           created == [c \in {cells[i] : i \in New(list)} |->
                         list[CHOOSE i \in New(list) : cells[i] = c].new]
           domain == (Live \ dead) \union {l} \union DOMAIN created
           h == WithList(dead, l, list)
<1>1. /\ \A i \in DOMAIN list : cells[i] \in IF IsNew(list[i]) THEN Free ELSE {list[i].cell}
      /\ \A i, j \in DOMAIN list : i # j => cells[i] # cells[j]
  BY SettledIs
<1>2. /\ Free \subseteq Cells /\ Free \intersect Live = {} /\ l \in Variables /\ l \notin Cells
      /\ Variables \intersect Cells = {}
  BY Kinds DEF Free, OfType
<1>3. \A i \in New(list) : i \in DOMAIN list /\ cells[i] \in Free BY <1>1 DEF New
<1>4. \A i \in New(list) : cells[i] \in DOMAIN created /\ created[cells[i]] = list[i].new
  <2> TAKE i \in New(list)
  <2>1. cells[i] \in DOMAIN created OBVIOUS
  <2> DEFINE j == CHOOSE k \in New(list) : cells[k] = cells[i]
  <2>2. j \in New(list) /\ cells[j] = cells[i] OBVIOUS
  <2>3. created[cells[i]] = list[j].new BY <2>1
  <2> HIDE DEF j, cells, created
  <2>4. i = j BY <1>1, <1>3, <2>2
  <2> QED BY <2>1, <2>3, <2>4
<1>5. \A c \in DOMAIN created : c \in Free
  <2>1. \A c \in DOMAIN created : \E i \in New(list) : cells[i] = c OBVIOUS
  <2> HIDE DEF cells, created
  <2> QED BY <1>3, <2>1
<1>6. h = [i \in domain |-> CASE i = l -> [kind |-> "list", m_list |-> cells]
                              [] i \in DOMAIN created -> created[i]
                              [] OTHER -> heap[i]]
  BY DEF WithList
<1> HIDE DEF h, created, cells
<1>7. DOMAIN h = domain BY <1>6
<1> HIDE DEF domain
<1>8. \A i \in domain : h[i] = CASE i = l -> [kind |-> "list", m_list |-> cells]
                                 [] i \in DOMAIN created -> created[i]
                                 [] OTHER -> heap[i]
  BY <1>6 DEF domain
<1>9. l \in domain /\ l \notin DOMAIN created BY <1>2, <1>5 DEF domain
<1>10. h[l] = [kind |-> "list", m_list |-> cells] BY <1>8, <1>9
<1>11. \A i \in Live \ dead : i # l => i \in domain /\ h[i] = heap[i]
  <2> TAKE i \in Live \ dead
  <2>1. i \in domain /\ i \notin DOMAIN created BY <1>2, <1>5 DEF domain
  <2> QED BY <1>8, <2>1
<1>12. \A i \in New(list) : h[cells[i]] = list[i].new
  <2> TAKE i \in New(list)
  <2>1. cells[i] \in domain /\ cells[i] \in DOMAIN created /\ cells[i] # l
    BY <1>4, <1>9 DEF domain
  <2> QED BY <1>4, <1>8, <2>1
<1>13. DOMAIN h \intersect Variables = ((Live \ dead) \intersect Variables) \union {l}
  <2>1. DOMAIN created \intersect Variables = {} BY <1>2, <1>5
  <2> QED BY <1>2, <1>7, <2>1 DEF domain
<1>14. h[l].m_list = cells BY <1>10
<1> QED BY <1>7, <1>9, <1>11, <1>12, <1>13, <1>14 DEF HasList, h, cells
----------------------------------------------------------------------------
\* Each statement is a step of the values that variables hold.
Means == /\ Ready /\ Values!Step(ValuesIn(heap), ValuesIn(heap'))
         /\ status' # "running" => heap' = heap

LEMMA Stays == heap' = heap => Values!Step(ValuesIn(heap), ValuesIn(heap'))
BY DEF Values!Step

LEMMA CallMeans ==
  ASSUME IInv, NEW l \in Lists, Usable(l), NEW o, Leaves(o, Owns(heap, Target(l))), Call(l, o)
  PROVE  Means
<1> DEFINE t == Target(l)
           held == Owns(heap, t)
           list == o.list
           dead == Dropped(l, list)
<1>1. /\ t \in ListsIn(heap) /\ t \in OfType({"list"}) /\ ElementsOf(l) = heap[t].m_list
  BY UsedList DEF IInv
<1>2. /\ Ready /\ Holds(list, held) /\ Fits(list) /\ status' = o.status
      /\ heap' = IF o.status = "running" THEN WithList(dead, t, list) ELSE heap
  BY DEF Leaves, Call
<1>3. held \subseteq Live \intersect Cells
  BY <1>1, ListIs DEF IInv, Sound, Owned, Live
<1>4. dead \subseteq held BY <1>1 DEF Dropped, Owns
<1>5. \A k \in ListsIn(heap) : k # t => Owns(heap, k) \intersect held = {}
  BY <1>1 DEF IInv, Sound, Owned
<1>6. Sound(heap) BY DEF IInv
<1>7. t \in Live \intersect Variables /\ ~Refers(t) BY <1>1 DEF ListsIn, Live, OfType, Refers
<1> DEFINE h == WithList(dead, t, list)
<1> HIDE DEF t, held, list, dead
<1>8. HasList(h, dead, t, list) BY <1>1, <1>2, <1>3, <1>6, WithListIs
<1> HIDE DEF h
<1>9. Others(heap, h, t, DOMAIN heap \intersect Variables)
  <2>1. DOMAIN h \intersect Variables = (DOMAIN heap \intersect Variables) \union {t}
    BY <1>3, <1>4, <1>7, <1>8, Kinds DEF Live, HasList
  <2>2. ASSUME NEW k \in DOMAIN heap \intersect Variables, k # t
        PROVE  h[k] = heap[k] /\ (k \in ListsIn(heap) => \A c \in Owns(heap, k) : h[c] = heap[c])
    <3>1. k \in Live \ dead BY <1>3, <1>4, Kinds DEF Live
    <3>2. h[k] = heap[k] BY <1>8, <2>2, <3>1 DEF HasList
    <3>3. ASSUME k \in ListsIn(heap), NEW c \in Owns(heap, k) PROVE h[c] = heap[c]
      <4>1. c \in Live /\ c \in Cells BY <1>6, <3>3, ListIs DEF Sound, Owned, Live
      <4>2. c \notin dead BY <1>4, <1>5, <2>2, <3>3
      <4>3. c # t BY <1>7, <4>1, Kinds
      <4> QED BY <1>8, <4>1, <4>2, <4>3 DEF HasList
    <3> QED BY <3>2, <3>3
  <2> QED BY <2>1, <2>2 DEF Others
<1>10. Values!Step(ValuesIn(heap), ValuesIn(h)) BY <1>6, <1>7, <1>9, SetStep
<1>11. CASE o.status = "running" BY <1>2, <1>10, <1>11 DEF Means, h
<1>12. CASE o.status # "running" BY <1>2, <1>12, Stays DEF Means
<1> QED BY <1>11, <1>12

LEMMA DeclaresMeans ==
  ASSUME IInv, NEW v \in OfType({"list"}), Declares(v)
  PROVE  Means
<1>1. CASE Ready /\ heap' = heap BY <1>1, Stays DEF Means
<1>2. CASE \E list \in Seq(NewElement) : DeclareList(v, list)
  <2>1. PICK list \in Seq(NewElement) : DeclareList(v, list) BY <1>2
  <2>2. Ready /\ v \notin Live /\ Fits(list) /\ heap' = WithList({}, v, list) /\ status' = status
    BY <2>1 DEF DeclareList, CanDeclare, Declared, Continues
  <2>3. Holds(list, {}) /\ {} \subseteq Live \intersect Cells BY FreshHolds
  <2>4. Sound(heap) BY DEF IInv
  <2> DEFINE h == WithList({}, v, list)
  <2>5. HasList(h, {}, v, list) BY <2>2, <2>3, <2>4, WithListIs
  <2> HIDE DEF h
  <2>6. Others(heap, h, v, DOMAIN heap \intersect Variables)
    <3>1. \A k \in ListsIn(heap) : Owns(heap, k) \subseteq Live BY <2>4 DEF Sound, Owned, Live
    <3>2. \A k \in Live : h[k] = heap[k] BY <2>2, <2>5 DEF HasList
    <3> QED BY <2>5, <3>1, <3>2 DEF Others, Live, HasList
  <2>7. v \in Variables /\ ~Refers(v) BY DEF OfType, Refers
  <2>8. Values!Step(ValuesIn(heap), ValuesIn(h)) BY <2>4, <2>6, <2>7, SetStep
  <2> QED BY <2>2, <2>8 DEF Means, h, Ready
<1> QED BY <1>1, <1>2 DEF Declares

LEMMA DeclareIntMeans ==
  ASSUME IInv, NEW v \in OfType({"int"}), NEW instance, Ready,
         heap' = WithInstance({}, v, instance), status' = status
  PROVE  Means
<1>1. /\ DOMAIN heap' = Live \union {v}
      /\ \A i \in Live : i # v => heap'[i] = heap[i]
  BY DEF WithInstance
<1>2. Sound(heap) BY DEF IInv
<1>3. \A k \in ListsIn(heap) : Owns(heap, k) \subseteq Live \intersect Cells
  BY <1>2, ListIs DEF Sound, Owned, Live
<1>4. v \in Variables /\ ~Refers(v) /\ v \notin Cells BY Kinds DEF OfType, Refers
<1>5. Others(heap, heap', v, DOMAIN heap \intersect Variables)
  BY <1>1, <1>3, <1>4 DEF Others, Live
<1>6. Values!Step(ValuesIn(heap), ValuesIn(heap')) BY <1>2, <1>4, <1>5, SetStep
<1> QED BY <1>6 DEF Means, Ready

LEMMA AssignMeans ==
  ASSUME IInv, NEW t \in Targets, NEW e \in Operands, Assign(t, e)
  PROVE  Means
<1> DEFINE i == AssignedId(t)
           instance == Int_(Reads(Evaluated(e)))
<1>1. Sound(heap) /\ Known(t) /\ Ready BY DEF IInv, Assign
<1>2. \/ heap' = heap
      \/ i \in Live /\ heap' = WithInstance({}, i, instance) /\ status' = status
  BY DEF Assign, Continues
<1>3. i \in Live => i \in OfType({"int"}) \/ i \in Live \intersect Cells BY <1>1, AssignedIs
<1> HIDE DEF i, instance
<1>4. CASE heap' = heap BY <1>1, <1>4, Stays DEF Means
<1>5. CASE i \in Live /\ heap' = WithInstance({}, i, instance) /\ status' = status
  <2>1. DOMAIN heap' = Live /\ \A k \in Live : k # i => heap'[k] = heap[k]
    BY <1>5 DEF WithInstance
  <2>2. /\ \A k \in ListsIn(heap) : Owns(heap, k) \subseteq Live \intersect Cells /\ k \in Variables
        /\ \A k, l \in ListsIn(heap) : k # l => Owns(heap, k) \intersect Owns(heap, l) = {}
    BY <1>1, ListIs DEF Sound, Owned, Live
  <2>3. CASE i \in OfType({"int"})
    <3>1. i \in Variables /\ ~Refers(i) /\ i \notin Cells BY <2>3, Kinds DEF OfType, Refers
    <3>2. Others(heap, heap', i, DOMAIN heap \intersect Variables)
      BY <1>5, <2>1, <2>2, <3>1 DEF Others, Live
    <3>3. Values!Step(ValuesIn(heap), ValuesIn(heap')) BY <1>1, <3>1, <3>2, SetStep
    <3> QED BY <1>1, <1>5, <3>3 DEF Means, Ready
  <2>4. CASE i \in Live \intersect Cells
    <3>1. PICK l \in ListsIn(heap) : i \in Owns(heap, l) BY <1>1, <2>4 DEF Sound, Owned, Live
    <3>2. l \in Live \intersect Variables /\ ~Refers(l)
      <4>1. l \in OfType({"list"}) BY <1>1, ListIs DEF Sound
      <4> QED BY <4>1 DEF OfType, Refers, ListsIn, Live
    <3>3. Others(heap, heap', l, DOMAIN heap \intersect Variables)
      <4>1. \A k \in Live \intersect Variables : k # i BY <2>4, Kinds
      <4>2. \A k \in ListsIn(heap) : k # l => \A c \in Owns(heap, k) : heap'[c] = heap[c]
        BY <2>1, <2>2, <3>1
      <4> QED BY <2>1, <3>2, <4>1, <4>2 DEF Others, Live
    <3>4. Values!Step(ValuesIn(heap), ValuesIn(heap')) BY <1>1, <3>2, <3>3, SetStep
    <3> QED BY <1>1, <1>5, <3>4 DEF Means, Ready
  <2> QED BY <1>3, <1>5, <2>3, <2>4
<1> QED BY <1>2, <1>4, <1>5

LEMMA DeclareReferenceMeans ==
  ASSUME IInv, NEW r \in Variables, Refers(r), NEW v \in Variables, DeclareReference(r, v)
  PROVE  Means
<1> DEFINE instance == IF Refers(v) THEN heap[v] ELSE ReferenceTo(v)
           old == ValuesIn(heap)
           new == ValuesIn(heap')
<1>1. /\ Ready /\ r \notin DOMAIN heap /\ v \in DOMAIN heap
      /\ heap' = WithInstance({}, r, instance) /\ status' = status
  BY DEF DeclareReference, CanDeclare, Declared, Live, Continues
<1>2. Sound(heap) BY DEF IInv
<1> HIDE DEF instance
<1>3. /\ DOMAIN heap' = Live \union {r} /\ heap'[r] = instance
      /\ \A i \in Live : i # r => heap'[i] = heap[i]
  BY <1>1 DEF WithInstance
<1>4. Others(heap, heap', r, DOMAIN heap \intersect Variables)
  <2>1. \A k \in ListsIn(heap) : Owns(heap, k) \subseteq Live BY <1>2 DEF Sound, Owned, Live
  <2> QED BY <1>1, <1>3, <2>1 DEF Others, Live
<1>5. DOMAIN old = DOMAIN heap \intersect Variables /\ old[v] = Tells(heap, v)
  BY <1>1 DEF ValuesIn
<1>6. new = Values!Holding(DOMAIN heap \intersect Variables, old, r, Tells(heap', r))
  BY <1>2, <1>4, OneChanges
<1>7. Tells(heap', r) = Values!Named(old, v)
  <2>1. Tells(heap', r) = instance.m_instance BY <1>3 DEF Tells
  <2>2. CASE Refers(v)
    <3>1. old[v] = heap[v].m_instance BY <1>5, <2>2 DEF Tells
    <3>2. instance = heap[v] BY <2>2 DEF instance
    <3> QED BY <2>1, <2>2, <3>1, <3>2 DEF Values!Named, Values!Refers, Refers
  <2>3. CASE ~Refers(v)
    <3>1. instance.m_instance = v BY <2>3 DEF instance, ReferenceTo
    <3> QED BY <2>1, <2>3, <3>1 DEF Values!Named, Values!Refers, Refers
  <2> QED BY <2>2, <2>3
<1>8. r \notin DOMAIN old /\ v \in DOMAIN old /\ Values!Refers(r)
  BY <1>1, <1>5 DEF Values!Refers, Refers
<1> HIDE DEF old, new
<1>9. Values!Bind(r, v, old, new) BY <1>5, <1>6, <1>7, <1>8 DEF Values!Bind
<1>10. Values!Step(old, new) BY <1>9 DEF Values!Step
<1> QED BY <1>1, <1>10 DEF Means, Ready, old, new

LEMMA LeaveScopeMeans ==
  ASSUME IInv, LeaveScope
  PROVE  Means
<1> DEFINE old == ValuesIn(heap)
           new == ValuesIn(heap')
<1>1. /\ Ready /\ status' = status /\ DOMAIN heap' = Live \ OfScope
      /\ \A i \in Live \ OfScope : heap'[i] = heap[i]
  BY DEF LeaveScope, Continues
<1>2. Sound(heap) /\ DieTogether(OfScope) BY ScopeDies DEF IInv
<1>3. DOMAIN heap' \intersect Variables = (DOMAIN heap \intersect Variables) \intersect Outer
  BY <1>1, <1>2, ScopeDies, ScopesAssumption DEF Inner, Live
<1>4. ASSUME NEW v \in DOMAIN heap' \intersect Variables PROVE Tells(heap', v) = Tells(heap, v)
  <2>1. v \in (Live \ OfScope) \intersect Variables /\ heap'[v] = heap[v] BY <1>1
  <2>2. v \in ListsIn(heap) => \A c \in Owns(heap, v) : heap'[c] = heap[c]
    BY <1>1, <1>2, <2>1 DEF DieTogether, Sound, Owned, Live
  <2> QED BY <1>2, <2>1, <2>2, TellsTheSame DEF Live
<1>5. DOMAIN old = DOMAIN heap \intersect Variables BY DEF ValuesIn
<1>6. Values!Kept(old) = DOMAIN heap' \intersect Variables BY <1>3, <1>5 DEF Values!Kept
<1>7. \A v \in DOMAIN heap' \intersect Variables : old[v] = Tells(heap, v)
  BY <1>3 DEF ValuesIn
<1>8. new = [v \in DOMAIN heap' \intersect Variables |-> old[v]]
  BY <1>4, <1>7 DEF ValuesIn
<1> HIDE DEF old, new
<1>9. Values!LeaveBlock(old, new) BY <1>6, <1>8 DEF Values!LeaveBlock
<1>10. Values!Step(old, new) BY <1>9 DEF Values!Step
<1> QED BY <1>1, <1>10 DEF Means, Ready, old, new
\* What a function returns is what its variable tells, though the variable dies.
LEMMA ReturnStep ==
  ASSUME IInv, NEW v \in Outer, ~Refers(v), v \notin Live, NEW w \in Inner, Usable(w),
         IsList(v) <=> IsList(w),
         DOMAIN heap' \intersect Variables = ((Live \ OfScope) \intersect Variables) \union {v},
         \A i \in Live \ OfScope : i # v => heap'[i] = heap[i],
         Tells(heap', v) = Tells(heap, Target(w))
  PROVE  Values!Step(ValuesIn(heap), ValuesIn(heap'))
<1> DEFINE old == ValuesIn(heap)
           new == ValuesIn(heap')
           kept == (Live \ OfScope) \intersect Variables
<1>1. Sound(heap) /\ DieTogether(OfScope) BY ScopeDies DEF IInv
<1>2. v \in Variables /\ w \in Variables /\ w \in DOMAIN heap /\ Declared(w) /\ w \notin Outer
  BY ScopesAssumption DEF Inner, Usable, Declared, Live
<1>3. kept = (DOMAIN heap \intersect Variables) \intersect Outer
  BY <1>1, ScopeDies, ScopesAssumption DEF Inner, Live
<1>4. Others(heap, heap', v, kept)
  BY <1>1 DEF Others, DieTogether, Sound, Owned, Live
<1>5. new = Values!Holding(kept, old, v, Tells(heap', v)) BY <1>1, <1>2, <1>4, OneChanges
<1>6. DOMAIN old = DOMAIN heap \intersect Variables /\ \A k \in DOMAIN old : old[k] = Tells(heap, k)
  BY DEF ValuesIn
<1>7. Values!Kept(old) = kept BY <1>3, <1>6 DEF Values!Kept
<1>8. Values!Named(old, w) = Target(w)
  <2>1. Target(w) = IF Refers(w) THEN heap[w].m_instance ELSE w BY <1>1, <1>2, TargetIs DEF Sound
  <2>2. Refers(w) => old[w] = heap[w].m_instance BY <1>2, <1>6 DEF Tells
  <2> QED BY <2>1, <2>2 DEF Values!Named, Values!Refers, Refers
<1>9. old[Target(w)] = Tells(heap, Target(w))
  <2>1. Target(w) \in Variables
    <3>1. w \in Ints \/ w \in Lists BY <1>2 DEF Ints, Lists
    <3> QED BY <1>1, <1>2, <3>1, TargetIs DEF Sound, OfType
  <2> QED BY <1>6, <2>1 DEF Usable, Live
<1>10. v \notin DOMAIN old /\ w \in DOMAIN old BY <1>2, <1>6 DEF Live
<1>11. Values!IsList(v) <=> Values!IsList(w) BY DEF Values!IsList, IsList
<1>12. ~Values!Refers(v) BY DEF Values!Refers, Refers
<1> HIDE DEF old, new, kept
<1>13. Values!Return(v, w, old, new)
  BY <1>5, <1>7, <1>8, <1>9, <1>10, <1>11, <1>12 DEF Values!Return
<1>14. Values!Step(old, new) BY <1>2, <1>10, <1>13 DEF Values!Step
<1> QED BY <1>14 DEF old, new

LEMMA ReturnIntMeans ==
  ASSUME IInv, NEW v \in Outer \intersect OfType({"int"}), NEW w \in Inner \intersect Ints,
         ReturnInt(v, w)
  PROVE  Means
<1> DEFINE e == [form |-> "variable", name |-> w]
           instance == Evaluated(e)
<1>1. /\ Ready /\ v \notin Live /\ Usable(w) /\ status' = status
      /\ heap' = WithInstance(OfScope, v, instance)
  BY DEF ReturnInt, Declared, Known, Continues
<1>2. Sound(heap) BY DEF IInv
<1>3. instance = IF Refers(w) THEN cast_to_value(w) ELSE heap[w] BY DEF Evaluated, Uncast
<1>4. instance.number = heap[Target(w)].number
  <2>1. Reads(heap[w]) = heap[Target(w)].number /\ (~Refers(w) => heap[w] \in IntInstance)
    BY <1>1, <1>2, UsedInt
  <2>2. CASE Refers(w)
    <3>1. instance = Int_(Reads(heap[w])) BY <1>3, <2>2 DEF cast_to_value
    <3> QED BY <2>1, <3>1 DEF Int_
  <2>3. CASE ~Refers(w)
    <3>1. instance = heap[w] /\ instance.kind = "int" BY <1>3, <2>1, <2>3 DEF IntInstance
    <3> QED BY <2>1, <3>1 DEF Reads
  <2> QED BY <2>2, <2>3
<1> HIDE DEF instance
<1>5. /\ DOMAIN heap' = (Live \ OfScope) \union {v} /\ heap'[v] = instance
      /\ \A i \in Live \ OfScope : i # v => heap'[i] = heap[i]
  BY <1>1 DEF WithInstance
<1>6. ~Refers(v) /\ v \in Variables /\ ~IsList(v) /\ ~IsList(w) /\ TypeOf[v] = "int"
  BY DEF OfType, Refers, IsList, Ints
<1>7. Tells(heap', v) = Tells(heap, Target(w))
  <2>1. Target(w) \in OfType({"int"}) BY <1>1, <1>2, UsedInt
  <2>2. Tells(heap, Target(w)) = heap[Target(w)].number BY <2>1 DEF OfType, Refers, Tells
  <2>3. Tells(heap', v) = instance.number BY <1>5, <1>6 DEF Tells
  <2> QED BY <1>4, <2>2, <2>3
<1>8. DOMAIN heap' \intersect Variables = ((Live \ OfScope) \intersect Variables) \union {v}
  BY <1>5, <1>6
<1>9. Values!Step(ValuesIn(heap), ValuesIn(heap'))
  BY <1>1, <1>5, <1>6, <1>7, <1>8, ReturnStep
<1> QED BY <1>1, <1>9 DEF Means, Ready

LEMMA ReturnListMeans ==
  ASSUME IInv, NEW v \in Outer \intersect OfType({"list"}), NEW w \in Inner \intersect Lists,
         ReturnList(v, w)
  PROVE  Means
<1> DEFINE cells == ElementsOf(w)
           list == Copied(There(cells))
<1>1. /\ Ready /\ v \notin Live /\ Usable(w) /\ Fits(list) /\ status' = status
      /\ heap' = WithList(OfScope, v, list)
  BY DEF ReturnList, Declared, Continues
<1>2. Sound(heap) BY DEF IInv
<1>3. list \in Seq(NewElement) BY <1>1, <1>2, HeldHolds
<1>4. /\ DOMAIN list = DOMAIN cells
      /\ \A i \in DOMAIN cells : list[i] = [new |-> heap[cells[i]]]
  <2>1. DOMAIN There(cells) = DOMAIN cells /\ \A i \in DOMAIN cells : There(cells)[i] = [cell |-> cells[i]]
    BY DEF There
  <2>2. \A i \in DOMAIN cells : Instance(There(cells)[i]) = heap[cells[i]]
    BY <2>1 DEF Instance, IsNew
  <2>3. list = [i \in DOMAIN cells |-> [new |-> Instance(There(cells)[i])]]
    BY <2>1 DEF Copied, Created
  <2> HIDE DEF list, cells
  <2> QED BY <2>2, <2>3
<1>5. Target(w) \in OfType({"list"}) /\ cells = heap[Target(w)].m_list BY <1>1, <1>2, UsedList
<1>6. ~Refers(v) /\ v \in Variables /\ IsList(v) /\ IsList(w) /\ TypeOf[v] # "int"
  BY DEF OfType, Refers, IsList, Lists
<1> HIDE DEF cells, list
<1>7. Holds(list, {}) /\ {} \subseteq Live \intersect Cells BY <1>3, FreshHolds
<1>8. HasList(WithList(OfScope, v, list), OfScope, v, list) BY <1>1, <1>2, <1>7, WithListIs
<1>9. HasList(heap', OfScope, v, list) BY <1>1, <1>8
<1>10. DOMAIN Settled(list) = DOMAIN list BY <1>1, <1>7, SettledIs
<1>11. \A i \in DOMAIN cells : heap'[Settled(list)[i]] = heap[cells[i]]
  <2> TAKE i \in DOMAIN cells
  <2>1. i \in New(list) BY <1>4 DEF New, IsNew
  <2>2. heap'[Settled(list)[i]] = list[i].new BY <1>9, <2>1 DEF HasList
  <2> QED BY <1>4, <2>2
<1>12. Tells(heap', v) = Tells(heap, Target(w))
  <2>1. Tells(heap', v) = [i \in DOMAIN Settled(list) |-> heap'[Settled(list)[i]].number]
    BY <1>6, <1>9 DEF Tells, HasList
  <2>2. Tells(heap, Target(w)) = [i \in DOMAIN cells |-> heap[cells[i]].number]
    BY <1>5 DEF OfType, Refers, Tells
  <2> QED BY <1>4, <1>10, <1>11, <2>1, <2>2
<1>13. /\ DOMAIN heap' \intersect Variables = ((Live \ OfScope) \intersect Variables) \union {v}
       /\ \A i \in Live \ OfScope : i # v => heap'[i] = heap[i]
  BY <1>9 DEF HasList
<1>14. Values!Step(ValuesIn(heap), ValuesIn(heap'))
  BY <1>1, <1>6, <1>12, <1>13, ReturnStep
<1> QED BY <1>1, <1>14 DEF Means, Ready

LEMMA StepMeans ==
  ASSUME Direct, IInv, Next
  PROVE  Means
<1>1. ASSUME Declaration PROVE Means
  <2>1. \A v \in OfType({"int"}), e \in Arguments : DeclareInt(v, e) => Means
    BY DeclareIntMeans DEF DeclareInt, CanDeclare, Continues
  <2>2. ASSUME NEW r \in OfType({"int&", "list&"}), NEW v \in Variables, DeclareReference(r, v)
        PROVE  Means
    <3>1. r \in Variables /\ Refers(r) BY DEF OfType, Refers
    <3> QED BY <2>2, <3>1, DeclareReferenceMeans
  <2>3. /\ \A r \in OfType({"int&"}), v \in Ints : DeclareReference(r, v) => Means
        /\ \A r \in OfType({"list&"}), v \in Lists : DeclareReference(r, v) => Means
    BY <2>2 DEF OfType, Ints, Lists
  <2>4. /\ \A v \in OfType({"list"}), i \in Initializers : DeclareInitialized(v, i) => Means
        /\ \A v \in OfType({"list"}), l \in Lists :
             /\ \A pos \in Positions, count \in Counts : Sublist(v, l, pos, count) => Means
             /\ \A e \in Addends : PlusValue(v, l, e) => Means
             /\ \A m \in Lists : PlusList(v, l, m) => Means
    BY DeclaresList, DeclaresMeans
  <2>5. \/ \E v \in OfType({"int"}), e \in Arguments : DeclareInt(v, e)
        \/ \E r \in OfType({"int&"}), v \in Ints : DeclareReference(r, v)
        \/ \E r \in OfType({"list&"}), v \in Lists : DeclareReference(r, v)
        \/ \E v \in OfType({"list"}), i \in Initializers : DeclareInitialized(v, i)
        \/ \E v \in OfType({"list"}), l \in Lists :
             \/ \E pos \in Positions, count \in Counts : Sublist(v, l, pos, count)
             \/ \E e \in Addends : PlusValue(v, l, e)
             \/ \E m \in Lists : PlusList(v, l, m)
        \/ LeaveScope
        \/ \E v \in Outer \intersect OfType({"int"}), w \in Inner \intersect Ints : ReturnInt(v, w)
        \/ \E v \in Outer \intersect OfType({"list"}), w \in Inner \intersect Lists : ReturnList(v, w)
    BY <1>1 DEF Declaration
  <2> QED BY <2>1, <2>3, <2>4, <2>5, LeaveScopeMeans, ReturnIntMeans, ReturnListMeans
<1>2. ASSUME Method PROVE Means BY <1>2, MethodCalls, CallMeans
<1>3. ASSUME NEW t \in Targets, NEW e \in Operands, Assign(t, e) PROVE Means BY <1>3, AssignMeans
<1> QED BY <1>1, <1>2, <1>3 DEF Next

\* Value semantics: whatever instances are copied, spliced, sorted or destroyed, a statement
\* declares or changes one int or list, binds one reference, leaves a block or returns a
\* value, and no other variable tells anything else after it. This needs ByValue: an
\* element that refers to a variable changes with it.
THEOREM StatementsImplementValues ==
  ASSUME ByValue
  PROVE  Spec => ImplementsVariableValues
<1>1. Init => Values!Init
  <2> SUFFICES ASSUME Init PROVE Values!Init OBVIOUS
  <2>1. Live \intersect Variables = {} /\ status = "running" BY DEF Init, Live
  <2>2. [v \in Live \intersect Variables |-> Value(v)] = <<>> BY <2>1
  <2> QED BY <2>1, <2>2 DEF Values!Init
<1>2. (IInv => [v \in Live \intersect Variables |-> Value(v)] = ValuesIn(heap))'
  <2>1. IInv => [v \in Live \intersect Variables |-> Value(v)] = ValuesIn(heap) BY ValuesAre
  <2> QED BY <2>1, PTL
<1>3. IInv /\ IInv' /\ [Next]_vars => [Values!Next]_(Values!vars)
  <2> SUFFICES ASSUME IInv, IInv', [Next]_vars PROVE [Values!Next]_(Values!vars) OBVIOUS
  <2>1. [v \in Live \intersect Variables |-> Value(v)] = ValuesIn(heap) BY ValuesAre
  <2>2. [v \in Live \intersect Variables |-> Value(v)]' = ValuesIn(heap)' BY <1>2
  <2>3. CASE UNCHANGED vars
    <3>1. heap' = heap /\ status' = status BY <2>3 DEF vars
    <3>2. ValuesIn(heap)' = ValuesIn(heap) BY <3>1
    <3> QED BY <2>1, <2>2, <3>1, <3>2 DEF Values!vars
  <2>4. CASE Next
    <3>1. Means BY <2>4, StepMeans DEF ByValue
    <3> QED BY <2>1, <2>2, <3>1 DEF Means, Ready, Values!Next
  <2> QED BY <2>3, <2>4
<1>4. Spec => []IInv BY InstancesInductive DEF ByValue
<1>5. Spec => Values!Spec BY <1>1, <1>3, <1>4, PTL DEF Spec, Values!Spec
<1> QED BY <1>5 DEF ImplementsVariableValues
====
