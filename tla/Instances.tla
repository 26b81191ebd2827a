---- MODULE Instances ----
(***************************************************************************)
(* Instances of int and list<int> and their owners: what variables, list   *)
(* elements and references are at run time, and what each statement about  *)
(* lists does to them.  A statement is one step, with all the instances    *)
(* that it stores in an instances_holder and that die with it.             *)
(*                                                                         *)
(* An instance that a variable owns is called after the variable, an       *)
(* element of a list by a cell.  What is not in the domain of heap does    *)
(* not exist, and to use it is undefined behaviour.                        *)
(***************************************************************************)
EXTENDS ListScript, FiniteSets, SequencesExt

CONSTANT Cells      \* where elements of lists can be, a bound
ASSUME CellsAssumption ==
  Cells \subseteq Nat /\ IsFiniteSet(Cells) /\ Cells \intersect Variables = {}

VARIABLES heap, status

vars == <<heap, status>>

IntInstance == [kind : {"int"}, number : Int]
ListInstance == [kind : {"list"}, m_list : Seq(Cells)]
Reference == [kind : {"reference"}, m_instance : Variables \union Cells]

Live == DOMAIN heap
IsReference(i) == heap[i].kind = "reference"

\* What references refer to, there or not.
Referenced == {heap[i].m_instance : i \in {j \in Live : IsReference(j)}}
\* The instance that is denoted by id i, through any references in between,
\* if the instances in gone are destroyed.
Denoted(i, gone) ==
  LET to[j \in Variables \union Cells] ==
        IF j \in Live \ gone /\ IsReference(j) THEN to[heap[j].m_instance] ELSE j
  IN IF i \in Live \ gone /\ IsReference(i) THEN to[i] ELSE i
Dangles(instance, gone) ==
  instance.kind = "reference" /\ Denoted(instance.m_instance, gone) \notin Live \ gone
\* value_cref: the number of an instance, its own or that of the denoted one.
Reads(instance) ==
  IF instance.kind = "reference" THEN heap[Denoted(instance.m_instance, {})].number
  ELSE instance.number

Declared(v) == v \in Live
\* A statement that uses a variable whose instance denotes nothing is not followed.
Target(v) == Denoted(v, {})
Usable(v) == Declared(v) /\ Target(v) \in Live
ElementsOf(l) == heap[Target(l)].m_list
----------------------------------------------------------------------------
(* Expressions.  copy() of an int is an int and copy() of a reference is    *)
(* another reference to the same instance, so that the copy of an evaluated *)
(* expression, which is what variables and lists store, is written the same.*)
(* Arguments of calls, initializers and results are cast to the type that   *)
(* is expected; the operands of an operator are not.                        *)
Int_(n) == [kind |-> "int", number |-> n]
ReferenceTo(i) == [kind |-> "reference", m_instance |-> i]

Known(e) == CASE e.form = "literal" -> TRUE
              [] e.form = "variable" -> Usable(e.name)
              [] e.form = "element" -> Usable(e.list) /\ e.position < Len(ElementsOf(e.list))
\* The type of l.at(i) is int, but what it returns is a reference.
Uncast(e) == CASE e.form = "literal" -> Int_(e.number)
               [] e.form = "variable" -> heap[e.name]
               [] e.form = "element" -> ReferenceTo(ElementsOf(e.list)[e.position + 1])
\* convert_to_cast_node_if_need has a cast_to_value_node made of an int& where an
\* int is expected.
cast_to_value(i) == Int_(Reads(heap[i]))
Evaluated(e) == IF e.form = "variable" /\ Refers(e.name) THEN cast_to_value(e.name) ELSE Uncast(e)
\* In braces: what does not produce a temporary value is cast, to be owned.
InBraces(e) == IF e.form = "variable" THEN cast_to_value(e.name) ELSE Evaluated(e)
----------------------------------------------------------------------------
(* list_value.  Its deque holds elements that are there, and new ones.       *)
There(cells) == [i \in DOMAIN cells |-> [cell |-> cells[i]]]
Created(instances) == [i \in DOMAIN instances |-> [new |-> instances[i]]]
IsNew(element) == "new" \in DOMAIN element
Instance(element) == IF IsNew(element) THEN element.new ELSE heap[element.cell]

CopiedShared(elements) == elements  \* mutant
\* append_with_copy_to
Copied(elements) == Created([i \in DOMAIN elements |-> Instance(elements[i])])

Done(list) == [status |-> "running", list |-> list, answer |-> <<>>]
Result(list, n) == [status |-> "running", list |-> list, answer |-> <<n>>]
Undefined == [status |-> "undefined", list |-> <<>>, answer |-> <<>>]
Terminated == [status |-> "terminated", list |-> <<>>, answer |-> <<>>]

interpret_special_value(n, special) == IF n = Special THEN special ELSE n
\* An iterator made by place, or moved past the ends, is undefined behaviour.
InRange(list, pos) == pos \in 0 .. Len(list)
IsRange(list, pos, to) == InRange(list, pos) /\ InRange(list, to) /\ pos <= to

insert(list, pos, more) ==
  IF InRange(list, pos)
  THEN Done(SubSeq(list, 1, pos) \o more \o SubSeq(list, pos + 1, Len(list)))
  ELSE Undefined
push_back(list, more) == Done(list \o more)
push_front(list, more) == Done(more \o list)

erase(list, pos, n) ==
  LET count == interpret_special_value(n, 1) IN
  IF IsRange(list, pos, pos + count)
  THEN Done(SubSeq(list, 1, pos) \o SubSeq(list, pos + count + 1, Len(list)))
  ELSE Undefined
pop_back(list) == IF list = <<>> THEN Undefined ELSE Done(Front(list))
pop_front(list) == IF list = <<>> THEN Undefined ELSE Done(Tail(list))
clear(list) == Done(<<>>)

resizeWithoutFill(list, n) ==  \* mutant
  Done([i \in 1 .. n |-> IF i <= Len(list) THEN list[i] ELSE [new |-> [kind |-> "null"]]])
\* The size is cast to an unsigned.
resize(list, n) ==
  IF n < 0 THEN Terminated
  ELSE Done([i \in 1 .. n |-> IF i <= Len(list) THEN list[i] ELSE [new |-> Int_(0)]])

sublistFromPlus(list, pos, n) ==  \* mutant
  LET count == interpret_special_value(n, Len(list)) IN
  IF IsRange(list, pos, pos + count)
  THEN Done(Copied(SubSeq(list, pos + 1, pos + count))) ELSE Undefined
sublist(list, pos, n) ==
  LET count == interpret_special_value(n, Len(list) - pos) IN
  IF IsRange(list, pos, pos + count)
  THEN Done(Copied(SubSeq(list, pos + 1, pos + count))) ELSE Undefined

\* The loop of remove_impl, which looks at check_index and erases there or goes on.
\* A value that refers to an erased element is compared although it is gone.
from_begin(i, size) == i
from_endAsBegin(i, size) == i  \* mutant
from_end(i, size) == size - 1 - i
Erased(before, list) == {before[k].cell : k \in DOMAIN before} \ {list[k].cell : k \in DOMAIN list}
Iteration(list, value, last, s) ==
  LET check_index == (IF last THEN from_end(s.i, Len(s.list)) ELSE from_begin(s.i, Len(s.list))) + 1
      gone == Erased(list, s.list)
  IN IF s.status # "running" \/ s.i >= Len(s.list) \/ s.count = 0 THEN s
     ELSE IF Dangles(value, gone) \/ Dangles(Instance(s.list[check_index]), gone)
     THEN [s EXCEPT !.status = "undefined"]
     ELSE IF Reads(Instance(s.list[check_index])) # Reads(value) THEN [s EXCEPT !.i = @ + 1]
     ELSE [s EXCEPT !.list = RemoveAt(@, check_index), !.count = @ - 1, !.erased = @ + 1]
remove_impl(list, value, n, last) ==
  LET after[k \in 0 .. Len(list)] ==
        IF k = 0
        THEN [list |-> list, i |-> 0, erased |-> 0, status |-> "running",
              count |-> interpret_special_value(n, Len(list))]
        ELSE Iteration(list, value, last, after[k - 1])
      end == after[Len(list)]
  IN IF end.status = "running" THEN Result(end.list, end.erased) ELSE Undefined
remove(list, value, n) == remove_impl(list, value, n, FALSE)
remove_last(list, value, n) == remove_impl(list, value, n, TRUE)

Readable(list) == \A i \in DOMAIN list : ~Dangles(Instance(list[i]), {})
Number(list, i) == Reads(Instance(list[i]))
\* std::sort puts equal elements in any order.
sorts(list) ==
  IF ~Readable(list) THEN {Undefined}
  ELSE {Done([i \in DOMAIN list |-> list[p[i]]]) :
        p \in {q \in [DOMAIN list -> DOMAIN list] :
               \A i, j \in DOMAIN list :
                 i < j => q[i] # q[j] /\ Number(list, q[i]) <= Number(list, q[j])}}
reverse(list) == Done(Reverse(list))

First(list, I) == Result(list, IF I = {} THEN -1 ELSE (CHOOSE i \in I : \A j \in I : i <= j) - 1)
\* std::min_element and std::max_element keep the first of equal elements.
min(list) ==
  IF ~Readable(list) THEN Undefined
  ELSE First(list, {i \in DOMAIN list : \A j \in DOMAIN list : Number(list, j) >= Number(list, i)})
max(list) ==
  IF ~Readable(list) THEN Undefined
  ELSE First(list, {i \in DOMAIN list : \A j \in DOMAIN list : Number(list, j) <= Number(list, i)})
findFromStart(list, value, n) ==  \* mutant
  LET pos == interpret_special_value(n, 0) IN
  IF ~InRange(list, pos) THEN Undefined
  ELSE First(SubSeq(list, pos + 1, Len(list)),
             {i \in 1 .. Len(list) - pos : Number(list, pos + i) = Reads(value)})
find(list, value, n) ==
  LET pos == interpret_special_value(n, 0) IN
  IF ~InRange(list, pos) \/ ~Readable(list) \/ Dangles(value, {}) THEN Undefined
  ELSE First(list, {i \in pos + 1 .. Len(list) : Number(list, i) = Reads(value)})
----------------------------------------------------------------------------
(* Statements.                                                              *)
Ready == status = "running"

\* Cells that are free, and that no reference could take for what was there.
Free == Cells \ (Live \union Referenced)
NextFree(k) == CHOOSE c \in Free : Cardinality({d \in Free : d < c}) = k - 1
\* Elements in cells: each new one in a cell of its own.
New(list) == {i \in DOMAIN list : IsNew(list[i])}
Settled(list) ==
  [i \in DOMAIN list |-> IF IsNew(list[i])
                         THEN NextFree(Cardinality({j \in New(list) : j <= i})) ELSE list[i].cell]
Fits(list) == Len(list) <= MaxSize /\ Cardinality(New(list)) <= Cardinality(Free)

\* The heap without the instances in dead, in which the instance of id l is a
\* list of these elements.
WithList(dead, l, list) ==
  LET cells == Settled(list)
      created == [c \in {cells[i] : i \in New(list)} |-> list[CHOOSE i \in New(list) : cells[i] = c].new]
  IN [i \in (Live \ dead) \union {l} \union DOMAIN created |->
        CASE i = l -> [kind |-> "list", m_list |-> cells]
          [] i \in DOMAIN created -> created[i]
          [] OTHER -> heap[i]]
WithInstance(dead, v, instance) ==
  [i \in (Live \ dead) \union {v} |-> IF i = v THEN instance ELSE heap[i]]
Continues == UNCHANGED status

\* Outer variables are declared before the inner block is entered, and a name is taken
\* again when no reference could take its instance for the one that was there.
CanDeclare(v) == /\ Ready /\ ~Declared(v) /\ v \notin Referenced
                 /\ v \in Outer => Live \intersect Inner = {}

(* execute_variable_declaration: the variable owns a copy of what its        *)
(* initializer evaluates to.                                                *)
DeclareInt(v, e) ==
  /\ CanDeclare(v) /\ Known(e)
  /\ heap' = WithInstance({}, v, Evaluated(e)) /\ Continues
DeclareReference(r, v) ==
  /\ CanDeclare(r) /\ Declared(v)
  /\ heap' = WithInstance({}, r, IF Refers(v) THEN heap[v] ELSE ReferenceTo(v))
  /\ Continues
DeclareList(v, list) ==
  /\ CanDeclare(v) /\ Fits(list)
  /\ heap' = WithList({}, v, list) /\ Continues
DeclareInitialized(v, i) ==
  \/ i.form = "default" /\ DeclareList(v, <<>>)
  \/ /\ i.form = "copy" /\ Usable(i.list)
     /\ DeclareList(v, Copied(There(ElementsOf(i.list))))
  \/ /\ i.form = "braces" /\ Known(i.first) /\ Known(i.last)
     /\ DeclareList(v, Created(<<InBraces(i.first), InBraces(i.last)>>))

\* A list initialized with the list that a method returned.
DeclareResult(v, outcome) ==
  /\ CanDeclare(v)
  /\ IF outcome.status = "running" THEN DeclareList(v, outcome.list)
     ELSE status' = outcome.status /\ UNCHANGED heap
Sublist(v, l, pos, count) ==
  Usable(l) /\ DeclareResult(v, sublist(There(ElementsOf(l)), pos, count))
\* An operand is copied as it is: the copy of a reference is an element that refers.
PlusValue(v, l, e) ==
  /\ Usable(l) /\ Known(e)
  /\ DeclareResult(v, push_back(Copied(There(ElementsOf(l))), Created(<<Uncast(e)>>)))
PlusList(v, l, m) ==
  /\ Usable(l) /\ Usable(m)
  /\ DeclareResult(v, push_back(Copied(There(ElementsOf(l))), Copied(There(ElementsOf(m)))))

\* The variables of the inner scope are destroyed, with the elements of its lists.
OwnedByReference(v) == IF Declared(v) THEN {v, Target(v)} ELSE {v}  \* mutant
OwnedBy(v) == {v} \union (IF Declared(v) /\ heap[v].kind = "list" THEN Range(heap[v].m_list) ELSE {})
OfScope == UNION {OwnedBy(v) : v \in Inner}
LeaveScope == /\ Ready /\ Live \intersect Inner # {}
              /\ heap' = [i \in Live \ OfScope |-> heap[i]] /\ Continues
\* return w; in a function that returns an int or a list, called to initialize v.
ReturnInt(v, w) ==
  /\ Ready /\ ~Declared(v) /\ Known([form |-> "variable", name |-> w])
  /\ heap' = WithInstance(OfScope, v, Evaluated([form |-> "variable", name |-> w]))
  /\ Continues
ReturnList(v, w) ==
  LET list == Copied(There(ElementsOf(w))) IN
  /\ Ready /\ ~Declared(v) /\ Usable(w) /\ Fits(list)
  /\ heap' = WithList(OfScope, v, list) /\ Continues

\* int_operator_equal: the right-hand side is read, whatever it is.
AssignedId(t) == IF t.form = "variable" THEN Target(t.name)
                 ELSE Denoted(ElementsOf(t.list)[t.position + 1], {})
Assign(t, e) ==
  /\ Ready /\ Known(t) /\ Known(e)
  /\ IF AssignedId(t) \notin Live \/ Dangles(Evaluated(e), {})
     THEN status' = "undefined" /\ UNCHANGED heap
     ELSE heap' = WithInstance({}, AssignedId(t), Int_(Reads(Evaluated(e)))) /\ Continues

\* A method that was called on l; the elements that it dropped are destroyed,
\* and its answer, if nothing is initialized with it, when the statement ends.
Dropped(l, list) == Range(ElementsOf(l)) \ {list[i].cell : i \in DOMAIN list \ New(list)}
Call(l, outcome) ==
  /\ Ready
  /\ Fits(outcome.list)
  /\ status' = outcome.status
  /\ heap' = IF outcome.status = "running"
             THEN WithList(Dropped(l, outcome.list), Target(l), outcome.list) ELSE heap
Held(l) == There(ElementsOf(l))

AddValue(l, e) ==
  LET element == Created(<<Evaluated(e)>>) IN
  /\ Usable(l) /\ Known(e)
  /\ \/ Call(l, push_back(Held(l), element))
     \/ Call(l, push_front(Held(l), element))
     \/ \E pos \in Positions : Call(l, insert(Held(l), pos, element))
\* l += e
AppendValue(l, e) ==
  Usable(l) /\ Known(e) /\ Call(l, push_back(Held(l), Created(<<Uncast(e)>>)))
\* l += m is a push_back of the elements of m.
AddList(l, m) ==
  LET elements == Copied(Held(m)) IN
  /\ Usable(l) /\ Usable(m)
  /\ \/ Call(l, push_back(Held(l), elements))
     \/ Call(l, push_front(Held(l), elements))
     \/ \E pos \in Positions : Call(l, insert(Held(l), pos, elements))
Erase(l) ==
  /\ Usable(l)
  /\ \/ \E pos \in Positions, count \in Counts : Call(l, erase(Held(l), pos, count))
     \/ Call(l, pop_back(Held(l)))
     \/ Call(l, pop_front(Held(l)))
     \/ Call(l, clear(Held(l)))
RemoveValue(l, e) ==
  /\ Usable(l) /\ Known(e)
  /\ \E count \in Counts : \/ Call(l, remove(Held(l), Evaluated(e), count))
                           \/ Call(l, remove_last(Held(l), Evaluated(e), count))
Arrange(l) ==
  /\ Usable(l)
  /\ \/ \E size \in Special .. MaxSize : Call(l, resize(Held(l), size))
     \/ \E outcome \in sorts(Held(l)) : Call(l, outcome)
     \/ Call(l, reverse(Held(l)))
Search(l) ==
  /\ Usable(l)
  /\ \/ Call(l, min(Held(l)))
     \/ Call(l, max(Held(l)))
     \/ Call(l, Result(Held(l), Len(Held(l))))                        \* size, empty
     \/ \E e \in Arguments, pos \in Positions :
          Known(e) /\ Call(l, find(Held(l), Evaluated(e), pos))

\* Reading an element: at is checked, front and back are not.
at(list, pos) == IF pos \in 0 .. Len(list) - 1 THEN Result(list, Number(list, pos + 1)) ELSE Terminated
front(list) == IF list = <<>> THEN Undefined ELSE Result(list, Number(list, 1))
back(list) == IF list = <<>> THEN Undefined ELSE Result(list, Number(list, Len(list)))
Access(l) ==
  /\ Usable(l)
  /\ IF ~Readable(Held(l)) THEN Call(l, Undefined)
     ELSE \/ \E pos \in Positions : Call(l, at(Held(l), pos))
          \/ Call(l, front(Held(l)))
          \/ Call(l, back(Held(l)))
----------------------------------------------------------------------------
Init == heap = <<>> /\ status = "running"

Declaration ==
  \/ \E v \in OfType({"int"}), e \in Arguments : DeclareInt(v, e)
  \/ \E r \in OfType({"int&"}), v \in Ints : DeclareReference(r, v)
  \/ \E r \in OfType({"list&"}), v \in Lists : DeclareReference(r, v)
  \/ \E v \in OfType({"list"}), i \in Initializers : DeclareInitialized(v, i)
  \/ \E v \in OfType({"list"}), l \in Lists :
       \/ \E pos \in Positions, count \in Counts : Sublist(v, l, pos, count)
       \/ \E e \in Addends : PlusValue(v, l, e)
       \/ \E m \in Lists : PlusList(v, l, m)
  \/ LeaveScope
  \/ \E v \in Outer \intersect OfType({"int"}), w \in Inner \intersect Ints : ReturnInt(v, w)
  \/ \E v \in Outer \intersect OfType({"list"}), w \in Inner \intersect Lists : ReturnList(v, w)

Method ==
  \E l \in Lists :
    \/ \E e \in Arguments : AddValue(l, e) \/ RemoveValue(l, e)
    \/ \E e \in Addends : AppendValue(l, e)
    \/ \E m \in Lists : AddList(l, m)
    \/ Erase(l) \/ Arrange(l) \/ Search(l) \/ Access(l)

Targets == [form : {"variable"}, name : Ints] \union Elements

Next == \/ Declaration
        \/ Method
        \/ \E t \in Targets, e \in Operands : Assign(t, e)

Spec == Init /\ [][Next]_vars
----------------------------------------------------------------------------
TypeOK ==
  /\ Live \subseteq Variables \union Cells
  /\ \A i \in Live : heap[i] \in IntInstance \union ListInstance \union Reference
  /\ status \in {"running", "undefined", "terminated"}

(* Each element that exists is in one list, once, and each element of a     *)
(* list exists: list_value copies elements, moves them or destroys them, and *)
(* never leaves one instance in two deques or in none.                      *)
OwnedOnce ==
  /\ \A l \in Live : heap[l].kind = "list" =>
       Range(heap[l].m_list) \subseteq Live /\ IsInjective(heap[l].m_list)
  /\ \A c \in Live \intersect Cells :
       \E l \in Live : /\ heap[l].kind = "list" /\ c \in Range(heap[l].m_list)
                       /\ \A k \in Live \ {l} : heap[k].kind = "list" => c \notin Range(heap[k].m_list)

(* What is declared as int or list, and what a list holds, is a value of    *)
(* its own and no reference to something else: "a copy of the value held".  *)
(* So it is without the forms "element" and "reference": a result of front  *)
(* and a reference next to + or += are copied as references.                *)
OwnValues == \A i \in Live : IsReference(i) => i \in References

(* A variable is changed only by a statement about it or about a reference  *)
(* to it, whatever is copied, spliced, sorted or destroyed to do so.        *)
Numbers_(l) == [i \in DOMAIN ElementsOf(l) |-> Reads(heap[ElementsOf(l)[i]])]
Value(v) == CASE Refers(v) -> Target(v)
              [] TypeOf[v] = "int" -> Reads(heap[v])
              [] TypeOf[v] = "list" -> Numbers_(v)
Values == INSTANCE VariableValues
            WITH value <- [v \in Live \intersect Variables |-> Value(v)],
                 ended <- status # "running"
ImplementsVariableValues == Values!Spec

(* The methods, called in any state on any list, do what list.cmsl says     *)
(* where it says something; below, what has no count is called with -1.     *)
Contract == INSTANCE ListContract
InNumbers(outcome) ==
  [outcome EXCEPT !.list = [i \in DOMAIN outcome.list |-> Number(outcome.list, i)]]
Meets(outcome, documented) ==
  documented # Contract!Broken => InNumbers(outcome) = documented

(* Insertions, erasures, sublists and rearrangements, at every position.    *)
ChangesAsDocumented ==
  \A l \in OfType({"list"}) \intersect Live : LET s == Numbers_(l) IN
    /\ \A pos \in Positions, m \in OfType({"list"}) \intersect Live :
         Meets(insert(Held(l), pos, Copied(Held(m))), Contract!Inserted(s, pos, Numbers_(m)))
    /\ \A m \in OfType({"list"}) \intersect Live :
         /\ Meets(push_back(Held(l), Copied(Held(m))), Contract!Holds(s \o Numbers_(m)))
         /\ Meets(push_front(Held(l), Copied(Held(m))), Contract!Holds(Numbers_(m) \o s))
    /\ \A pos \in Positions :
         /\ Meets(erase(Held(l), pos, Special), Contract!Erased(s, pos, 1))
         /\ Meets(sublist(Held(l), pos, Special), Contract!Part(s, pos, Len(s) - pos))
         /\ \A count \in Counts \ {Special} :
              /\ Meets(erase(Held(l), pos, count), Contract!Erased(s, pos, count))
              /\ Meets(sublist(Held(l), pos, count), Contract!Part(s, pos, count))
    /\ \A size \in 0 .. MaxSize : Meets(resize(Held(l), size), Contract!Resized(s, size))
    /\ \A outcome \in sorts(Held(l)) : Meets(outcome, Contract!Sorted(s))
    /\ Meets(reverse(Held(l)), Contract!Backwards(s))

(* The loop that erases while it counts removes as many elements as it is   *)
(* asked to, from the end that it is asked to, and says how many.           *)
RemovesAsDocumented ==
  \A l \in OfType({"list"}) \intersect Live, n \in Numbers : LET s == Numbers_(l) IN
    /\ Meets(remove(Held(l), Int_(n), Special), Contract!RemovedFirst(s, n, Len(s)))
    /\ \A count \in Counts \ {Special} :
         /\ Meets(remove(Held(l), Int_(n), count), Contract!RemovedFirst(s, n, count))
         /\ Meets(remove_last(Held(l), Int_(n), count), Contract!RemovedLast(s, n, count))

(* find, min and max answer a position in the list, the first if several do.*)
SearchesAsDocumented ==
  \A l \in OfType({"list"}) \intersect Live : LET s == Numbers_(l) IN
    /\ Meets(min(Held(l)), Contract!Least(s))
    /\ Meets(max(Held(l)), Contract!Greatest(s))
    /\ \A n \in Numbers :
         /\ Meets(find(Held(l), Int_(n), Special), Contract!Found(s, n, 0))
         /\ \A pos \in Positions \ {Special} :
              Meets(find(Held(l), Int_(n), pos), Contract!Found(s, n, pos))

(* What list.cmsl says of its methods, taken together.                      *)
AsDocumented == ChangesAsDocumented /\ RemovesAsDocumented /\ SearchesAsDocumented
====
