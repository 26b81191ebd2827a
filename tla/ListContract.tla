---- MODULE ListContract ----
(***************************************************************************)
(* What doc/builtin/list.cmsl says of the methods of list, for a list of   *)
(* numbers s: the list afterwards and the answer, if there is one.         *)
(* Positions start at 0.  What the document leaves open (a position        *)
(* outside the list, a negative count) is Broken.                          *)
(***************************************************************************)
EXTENDS Integers, FiniteSets, SequencesExt

Holds(s) == [status |-> "running", list |-> s, answer |-> <<>>]
Answers(s, n) == [status |-> "running", list |-> s, answer |-> <<n>>]
Broken == [status |-> "undefined", list |-> <<>>, answer |-> <<>>]

Upto(s, pos) == SubSeq(s, 1, pos)
From(s, pos) == SubSeq(s, pos + 1, Len(s))
IsPlace(s, pos) == pos \in 0 .. Len(s)
IsPart(s, pos, count) == IsPlace(s, pos) /\ count >= 0 /\ IsPlace(s, pos + count)

Inserted(s, pos, t) == IF IsPlace(s, pos) THEN Holds(Upto(s, pos) \o t \o From(s, pos)) ELSE Broken
Erased(s, pos, count) ==
  IF IsPart(s, pos, count) THEN Holds(Upto(s, pos) \o From(s, pos + count)) ELSE Broken
Part(s, pos, count) ==
  IF IsPart(s, pos, count) THEN Holds(SubSeq(s, pos + 1, pos + count)) ELSE Broken
Resized(s, n) == Holds([i \in 1 .. n |-> IF i <= Len(s) THEN s[i] ELSE 0])
Sorted(s) == Holds(SortSeq(s, <))
Backwards(s) == Holds([i \in DOMAIN s |-> s[Len(s) + 1 - i]])

\* Count elements equal to n, from either end; every one of them if there are fewer.
Equal(s, n) == {i \in DOMAIN s : s[i] = n}
Without(s, I) == LET kept == SetToSortSeq(DOMAIN s \ I, <) IN [i \in DOMAIN kept |-> s[kept[i]]]
RemovedAt(s, I) == Answers(Without(s, I), Cardinality(I))
RemovedFirst(s, n, count) ==
  RemovedAt(s, {i \in Equal(s, n) : Cardinality({j \in Equal(s, n) : j < i}) < count})
RemovedLast(s, n, count) ==
  RemovedAt(s, {i \in Equal(s, n) : Cardinality({j \in Equal(s, n) : j > i}) < count})

Position(I) == IF I = {} THEN -1 ELSE (CHOOSE i \in I : \A j \in I : i <= j) - 1
Found(s, n, pos) ==
  IF IsPlace(s, pos) THEN Answers(s, Position({i \in Equal(s, n) : i > pos})) ELSE Broken
Least(s) == Answers(s, Position({i \in DOMAIN s : \A j \in DOMAIN s : s[i] <= s[j]}))
Greatest(s) == Answers(s, Position({i \in DOMAIN s : \A j \in DOMAIN s : s[i] >= s[j]}))
====
