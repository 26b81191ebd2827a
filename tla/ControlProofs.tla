---- MODULE ControlProofs ----
(***************************************************************************)
(* The interpreter with its flags implements the control statements of the *)
(* language: each of its steps is one of StructuredControl, or is hidden.  *)
(***************************************************************************)
EXTENDS ExecutionProofs

\* What is left to do, when activations come and go.
LEMMA LeftSeq ==
  ASSUME NEW S, NEW c \in Seq(S)
  PROVE  /\ Left(c) \in Seq({Remaining(x) : x \in S})
         /\ Len(Left(c)) = Len(c) /\ Len(c) \in Nat
         /\ \A i \in 1 .. Len(c) : Left(c)[i] = Remaining(c[i])
         /\ Left(c) = <<>> <=> c = <<>>
<1> DEFINE T == {Remaining(x) : x \in S}
<1>1. Len(c) \in Nat /\ \A i \in 1 .. Len(c) : c[i] \in S BY NonEmpty, ElementOfSeq
<1>2. Left(c) \in [1 .. Len(c) -> T] BY <1>1 DEF Left
<1>3. Left(c) \in Seq(T) BY <1>1, <1>2, SeqDef
<1>4. Len(Left(c)) = Len(c)
  <2>1. DOMAIN Left(c) = 1 .. Len(c) /\ DOMAIN Left(c) = 1 .. Len(Left(c))
    BY <1>2, <1>3, LenProperties
  <2>2. Len(Left(c)) \in Nat BY <1>3, LenProperties
  <2> QED BY <1>1, <2>1, <2>2
<1>5. \A i \in 1 .. Len(c) : Left(c)[i] = Remaining(c[i]) BY DEF Left
<1>6. Left(c) = <<>> <=> c = <<>> BY <1>3, <1>4, NonEmpty
<1> QED BY <1>1, <1>3, <1>4, <1>5, <1>6

LEMMA LeftPush ==
  ASSUME NEW S, NEW c \in Seq(S), NEW l
  PROVE  Left(Append(c, l)) = Append(Left(c), Remaining(l))
<1> DEFINE U == S \union {l}
           T == {Remaining(x) : x \in U}
           n == Len(c)
           a == Left(Append(c, l))
           b == Append(Left(c), Remaining(l))
<1>1. c \in Seq(U) /\ l \in U /\ Remaining(l) \in T BY SeqMonotonic
<1>2. /\ Append(c, l) \in Seq(U) /\ Len(Append(c, l)) = n + 1 /\ n \in Nat
      /\ \A i \in 1 .. n : Append(c, l)[i] = c[i]
      /\ Append(c, l)[n + 1] = l
  BY <1>1, AppendProperties, NonEmpty
<1>3. /\ a \in Seq(T) /\ Len(a) = n + 1
      /\ \A i \in 1 .. n + 1 : a[i] = Remaining(Append(c, l)[i])
  BY <1>2, LeftSeq
<1>4. /\ Left(c) \in Seq(T) /\ Len(Left(c)) = n
      /\ \A i \in 1 .. n : Left(c)[i] = Remaining(c[i])
  BY <1>1, LeftSeq
<1>5. /\ b \in Seq(T) /\ Len(b) = n + 1
      /\ \A i \in 1 .. n : b[i] = Left(c)[i]
      /\ b[n + 1] = Remaining(l)
  BY <1>1, <1>4, AppendProperties
<1> HIDE DEF T, a, b
<1>6. \A i \in 1 .. n + 1 : i \in 1 .. n \/ i = n + 1 BY <1>2
<1>7. \A i \in 1 .. n + 1 : a[i] = b[i] BY <1>2, <1>3, <1>4, <1>5, <1>6
<1>8. a = b BY <1>3, <1>5, <1>7, SeqEqual
<1> QED BY <1>8 DEF a, b

LEMMA LeftLast ==
  ASSUME NEW S, NEW c \in Seq(S), c # <<>>, NEW l
  PROVE  Left(LastIs(c, l)) = LastIs(Left(c), Remaining(l))
<1> DEFINE U == S \union {l}
           T == {Remaining(x) : x \in U}
           n == Len(c)
           a == Left(LastIs(c, l))
           b == LastIs(Left(c), Remaining(l))
<1>1. c \in Seq(U) /\ l \in U /\ Remaining(l) \in T BY SeqMonotonic
<1>2. n \in Nat /\ n \in 1 .. n BY NonEmpty, Positions
<1>3. /\ LastIs(c, l) \in Seq(U) /\ Len(LastIs(c, l)) = n
      /\ \A i \in 1 .. n : LastIs(c, l)[i] = IF i = n THEN l ELSE c[i]
  BY <1>1, <1>2, ExceptSeq DEF LastIs
<1>4. /\ a \in Seq(T) /\ Len(a) = n
      /\ \A i \in 1 .. n : a[i] = Remaining(LastIs(c, l)[i])
  BY <1>3, LeftSeq
<1>5. /\ Left(c) \in Seq(T) /\ Len(Left(c)) = n
      /\ \A i \in 1 .. n : Left(c)[i] = Remaining(c[i])
  BY <1>1, LeftSeq
<1>6. /\ b \in Seq(T) /\ Len(b) = n
      /\ \A i \in 1 .. n : b[i] = IF i = n THEN Remaining(l) ELSE Left(c)[i]
  BY <1>1, <1>2, <1>5, ExceptSeq DEF LastIs
<1> HIDE DEF T, a, b
<1>7. \A i \in 1 .. n : a[i] = b[i] BY <1>3, <1>4, <1>5, <1>6
<1>8. a = b BY <1>4, <1>6, <1>7, SeqEqual
<1> QED BY <1>8 DEF a, b

LEMMA LeftPop ==
  ASSUME NEW S, NEW c \in Seq(S), c # <<>>
  PROVE  Left(ButLast(c)) = ButLast(Left(c))
<1> DEFINE T == {Remaining(x) : x \in S}
           n == Len(c)
           a == Left(ButLast(c))
           b == ButLast(Left(c))
<1>1. /\ ButLast(c) \in Seq(S) /\ Len(ButLast(c)) = n - 1 /\ n \in Nat
      /\ \A i \in 1 .. n - 1 : ButLast(c)[i] = c[i]
  BY ButLastOf
<1>2. /\ Left(c) \in Seq(T) /\ Len(Left(c)) = n /\ Left(c) # <<>>
      /\ \A i \in 1 .. n : Left(c)[i] = Remaining(c[i])
  <2>1. Left(c) \in Seq(T) /\ Len(Left(c)) = n BY LeftSeq
  <2>2. Left(c) # <<>> BY LeftSeq
  <2>3. \A i \in 1 .. n : Left(c)[i] = Remaining(c[i]) BY LeftSeq
  <2> QED BY <2>1, <2>2, <2>3
<1>3. /\ a \in Seq(T) /\ Len(a) = n - 1
      /\ \A i \in 1 .. n - 1 : a[i] = Remaining(ButLast(c)[i])
  BY <1>1, LeftSeq
<1> HIDE DEF T, a
<1>4. /\ b \in Seq(T) /\ Len(b) = n - 1
      /\ \A i \in 1 .. n - 1 : b[i] = Left(c)[i]
  BY <1>2, ButLastOf
<1> HIDE DEF b
<1>5. \A i \in 1 .. n - 1 : i \in 1 .. n BY <1>1
<1>6. \A i \in 1 .. n - 1 : a[i] = b[i] BY <1>1, <1>2, <1>3, <1>4, <1>5
<1>7. a = b BY <1>3, <1>4, <1>6, SeqEqual
<1> QED BY <1>7 DEF a, b
----------------------------------------------------------------------------
\* The innermost of its kinds is the one that none of them follows.
LEMMA InnermostIs ==
  ASSUME NEW S, NEW s \in Seq(S), NEW kinds, NEW k \in 1 .. Len(s),
         s[k].kind \in kinds, \A j \in k + 1 .. Len(s) : s[j].kind \notin kinds
  PROVE  Innermost(s, kinds) = k
<1> DEFINE P(i) == s[i].kind \in kinds /\ \A j \in i + 1 .. Len(s) : s[j].kind \notin kinds
           n == Len(s)
<1>1. n \in Nat /\ DOMAIN s = 1 .. n BY LenProperties
<1>2. ASSUME NEW i \in 1 .. n, P(i) PROVE i = k
  <2>1. CASE i < k
    <3>1. k \in i + 1 .. n BY <2>1, <1>1
    <3> QED BY <3>1, <1>2
  <2>2. CASE k < i
    <3>1. i \in k + 1 .. n BY <2>2, <1>1
    <3> QED BY <3>1, <1>2
  <2> QED BY <2>1, <2>2, <1>1
<1>3. P(k) OBVIOUS
<1> HIDE DEF P
<1>4. (CHOOSE i \in 1 .. n : P(i)) = k BY <1>2, <1>3
<1>5. Innermost(s, kinds) = CHOOSE i \in 1 .. n : P(i) BY <1>1 DEF Innermost, P
<1> QED BY <1>4, <1>5

\* What is left of an activation is of its kind.
LEMMA RemainingKind ==
  ASSUME NEW l \in Level
  PROVE  Remaining(l).kind = l.kind
BY LevelKinds DEF Remaining, Loops, CallOps

\* The target of a jump, in what is left to do.
LEMMA Target ==
  ASSUME NEW c \in Seq(Level), NEW kinds, NEW k \in 1 .. Len(c),
         c[k].kind \in kinds, \A j \in k + 1 .. Len(c) : c[j].kind \notin kinds
  PROVE  Innermost(Left(c), kinds) = k
<1> DEFINE s == Left(c)
           n == Len(c)
           S == {Remaining(x) : x \in Level}
<1>1. /\ s \in Seq(S) /\ Len(s) = n /\ n \in Nat
      /\ \A i \in 1 .. n : s[i] = Remaining(c[i])
  BY LeftSeq
<1>2. \A i \in 1 .. n : s[i].kind = c[i].kind BY <1>1, RemainingKind, ElementOfSeq
<1>3. k \in 1 .. n /\ \A j \in k + 1 .. n : j \in 1 .. n BY <1>1
<1> HIDE DEF s, S
<1>4. s[k].kind \in kinds /\ \A j \in k + 1 .. Len(s) : s[j].kind \notin kinds
  BY <1>1, <1>2, <1>3
<1>5. Innermost(s, kinds) = k BY <1>1, <1>4, InnermostIs
<1> QED BY <1>5 DEF s

\* An activation that is left on the way is not the target.
LEMMA TargetBelow ==
  ASSUME NEW c \in Seq(Level), c # <<>>, NEW kinds, c[Len(c)].kind \notin kinds,
         NEW k \in 1 .. Len(c),
         c[k].kind \in kinds, \A j \in k + 1 .. Len(c) : c[j].kind \notin kinds
  PROVE  /\ Innermost(Left(c), kinds) = k
         /\ Innermost(Left(ButLast(c)), kinds) = k
         /\ SubSeq(Left(c), 1, k) = SubSeq(Left(ButLast(c)), 1, k)
         /\ SubSeq(Left(c), 1, k - 1) = SubSeq(Left(ButLast(c)), 1, k - 1)
<1> DEFINE n == Len(c)
           b == ButLast(c)
           S == {Remaining(x) : x \in Level}
<1>1. /\ b \in Seq(Level) /\ Len(b) = n - 1 /\ n \in Nat
      /\ \A i \in 1 .. n - 1 : b[i] = c[i]
  BY ButLastOf
<1>2. k # n OBVIOUS
<1>3. k \in 1 .. n - 1 /\ \A j \in k + 1 .. n - 1 : j \in k + 1 .. n /\ j \in 1 .. n - 1
  BY <1>1, <1>2
<1> HIDE DEF b
<1>4. Innermost(Left(b), kinds) = k BY <1>1, <1>3, Target
<1>5. /\ Left(c) \in Seq(S) /\ Left(b) \in Seq(S) /\ Len(Left(b)) = n - 1 /\ Len(Left(c)) = n
      /\ \A i \in 1 .. n - 1 : Left(c)[i] = Left(b)[i]
  <2>1. \A i \in 1 .. n - 1 : i \in 1 .. n BY <1>1
  <2>2. /\ Left(c) \in Seq(S) /\ Len(Left(c)) = n
        /\ \A i \in 1 .. n : Left(c)[i] = Remaining(c[i])
    BY LeftSeq
  <2>3. /\ Left(b) \in Seq(S) /\ Len(Left(b)) = Len(b)
        /\ \A i \in 1 .. Len(b) : Left(b)[i] = Remaining(b[i])
    BY <1>1, LeftSeq
  <2> QED BY <1>1, <2>1, <2>2, <2>3
<1> HIDE DEF S
<1>6. ASSUME NEW m \in Int, m <= k PROVE SubSeq(Left(c), 1, m) = SubSeq(Left(b), 1, m)
  <2>1. \A i \in 1 .. m : i \in 1 .. n /\ i \in 1 .. n - 1 BY <1>1, <1>3, <1>6
  <2>2. \A i \in 1 .. m : Left(c)[i] \in S /\ Left(b)[i] \in S /\ Left(c)[i] = Left(b)[i]
    BY <2>1, <1>5, ElementOfSeq
  <2>3. /\ SubSeq(Left(c), 1, m) \in Seq(S)
        /\ Len(SubSeq(Left(c), 1, m)) = IF 1 <= m THEN m - 1 + 1 ELSE 0
        /\ \A i \in 1 .. m - 1 + 1 : SubSeq(Left(c), 1, m)[i] = Left(c)[1 + i - 1]
    BY <2>2, SubSeqProperties
  <2>4. /\ SubSeq(Left(b), 1, m) \in Seq(S)
        /\ Len(SubSeq(Left(b), 1, m)) = IF 1 <= m THEN m - 1 + 1 ELSE 0
        /\ \A i \in 1 .. m - 1 + 1 : SubSeq(Left(b), 1, m)[i] = Left(b)[1 + i - 1]
    BY <2>2, SubSeqProperties
  <2>5. \A i \in 1 .. Len(SubSeq(Left(c), 1, m)) :
          i \in 1 .. m /\ i \in 1 .. m - 1 + 1 /\ 1 + i - 1 = i
    BY <2>3
  <2>6. \A i \in 1 .. Len(SubSeq(Left(c), 1, m)) :
          SubSeq(Left(c), 1, m)[i] = SubSeq(Left(b), 1, m)[i]
    BY <2>2, <2>3, <2>4, <2>5
  <2> QED BY <2>3, <2>4, <2>6, SeqEqual
<1>7. k \in Int /\ k - 1 \in Int /\ k <= k /\ k - 1 <= k BY <1>1
<1>8. Innermost(Left(c), kinds) = k BY Target
<1> QED BY <1>4, <1>6, <1>7, <1>8 DEF b

\* A return goes through what is not a call, and a break through what is no loop.
LEMMA ReturnLeaves ==
  ASSUME NEW c \in Seq(Level), c # <<>>, Nested(c), c[Len(c)].kind \notin CallOps
  PROVE  EndOfCall(Left(ButLast(c))) = EndOfCall(Left(c))
<1>1. Len(c) \in 1 .. Len(c) BY NonEmpty, Positions
<1>2. InCall(c, Len(c)) BY <1>1 DEF Nested
<1>3. PICK k \in 1 .. Len(c) : /\ c[k].kind \in CallOps
                               /\ \A j \in k + 1 .. Len(c) : c[j].kind \notin CallOps
  BY <1>2 DEF InCall
<1>4. /\ Innermost(Left(c), CallOps) = k /\ Innermost(Left(ButLast(c)), CallOps) = k
      /\ SubSeq(Left(c), 1, k) = SubSeq(Left(ButLast(c)), 1, k)
  BY <1>3, TargetBelow
<1> QED BY <1>4 DEF EndOfCall

LEMMA BreakLeaves ==
  ASSUME NEW c \in Seq(Level), c # <<>>, InLoop(c, Len(c)), c[Len(c)].kind \notin Loops
  PROVE  OutOfLoop(Left(ButLast(c))) = OutOfLoop(Left(c))
<1>1. PICK k \in 1 .. Len(c) : /\ c[k].kind \in Loops
                               /\ \A j \in k + 1 .. Len(c) : c[j].kind \notin Loops
  <2>1. {"block", "if"} \cap Loops = {} BY DEF Loops
  <2> QED BY <2>1 DEF InLoop
<1>2. /\ Innermost(Left(c), Loops) = k /\ Innermost(Left(ButLast(c)), Loops) = k
      /\ SubSeq(Left(c), 1, k - 1) = SubSeq(Left(ButLast(c)), 1, k - 1)
  BY <1>1, TargetBelow
<1> QED BY <1>2 DEF OutOfLoop

\* A return arrives at the end of a call, and a break at the end of a loop.
LEMMA JumpArrives ==
  ASSUME NEW c \in Seq(Level), c # <<>>
  PROVE  /\ c[Len(c)].kind \in CallOps => EndOfCall(Left(c)) = Left(c)
         /\ c[Len(c)].kind \in Loops => OutOfLoop(Left(c)) = Left(ButLast(c))
<1>1. Len(c) \in Nat /\ Len(c) \in 1 .. Len(c) /\ \A j \in Len(c) + 1 .. Len(c) : FALSE
  BY NonEmpty, Positions
<1>2. \A kinds : c[Len(c)].kind \in kinds => Innermost(Left(c), kinds) = Len(c)
  BY <1>1, Target
<1>3. Left(c) \in Seq({Remaining(x) : x \in Level}) /\ Len(Left(c)) = Len(c) BY LeftSeq
<1>4. SubSeq(Left(c), 1, Len(c)) = Left(c) BY <1>3, SubSeqFull
<1>5. SubSeq(Left(c), 1, Len(c) - 1) = Left(ButLast(c)) BY <1>3, LeftPop DEF ButLast
<1> QED BY <1>2, <1>4, <1>5 DEF EndOfCall, OutOfLoop

\* What is left of a sequence of which pc elements are done.
LEMMA RestOf ==
  ASSUME NEW S, NEW s \in Seq(S), NEW pc \in Nat
  PROVE  LET rest == SubSeq(s, pc + 1, Len(s))
         IN /\ pc < Len(s) => /\ rest # <<>> /\ Head(rest) = s[pc + 1]
                              /\ Tail(rest) = SubSeq(s, pc + 1 + 1, Len(s))
            /\ ~(pc < Len(s)) => rest = <<>>
<1> DEFINE rest == SubSeq(s, pc + 1, Len(s))
<1>1. Len(s) \in Nat BY LenProperties
<1>2. ASSUME pc < Len(s)
      PROVE  /\ rest # <<>> /\ Head(rest) = s[pc + 1]
             /\ Tail(rest) = SubSeq(s, pc + 1 + 1, Len(s))
  <2>1. pc + 1 \in 1 .. Len(s) /\ Len(s) \in pc + 1 .. Len(s) BY <1>1, <1>2
  <2>2. Head(rest) = s[pc + 1] /\ Tail(rest) = SubSeq(s, pc + 1 + 1, Len(s))
    BY <2>1, HeadTailOfSubSeq
  <2>3. rest # <<>>
    <3>1. \A i \in pc + 1 .. Len(s) : i \in 1 .. Len(s) BY <1>1
    <3>2. \A i \in pc + 1 .. Len(s) : s[i] \in S BY <3>1, ElementOfSeq
    <3>3. rest \in Seq(S) /\ Len(rest) = Len(s) - (pc + 1) + 1
      BY <2>1, <1>1, <3>2, SubSeqProperties
    <3>4. Len(rest) # 0
      <4> HIDE DEF rest
      <4> QED BY <3>3, <1>1, <1>2
    <3> QED BY <3>3, <3>4, NonEmpty
  <2> QED BY <2>2, <2>3
<1>3. ASSUME ~(pc < Len(s)) PROVE rest = <<>>
  <2>1. pc + 1 \in Int /\ Len(s) \in Int /\ Len(s) < pc + 1 BY <1>1, <1>3
  <2> QED BY <2>1, SubSeqEmpty
<1> QED BY <1>2, <1>3

\* A single appended element, and two.
LEMMA AppendTwo ==
  ASSUME NEW S, NEW s \in Seq(S), NEW x, NEW y
  PROVE  s \o <<x, y>> = Append(Append(s, x), y)
<1> DEFINE U == S \union {x, y}
<1>1. s \in Seq(U) /\ x \in U /\ y \in U BY SeqMonotonic
<1>2. Append(s, x) = s \o <<x>> /\ Append(s, x) \in Seq(U) BY <1>1, AppendIsConcat, AppendProperties
<1>3. Append(Append(s, x), y) = (s \o <<x>>) \o <<y>> BY <1>1, <1>2, AppendIsConcat
<1>4. <<x>> \in Seq(U) /\ <<y>> \in Seq(U) BY <1>1
<1>5. (s \o <<x>>) \o <<y>> = s \o (<<x>> \o <<y>>) BY <1>1, <1>4, ConcatAssociative
<1>6. <<x>> \o <<y>> = <<x, y>>
  <2>1. Append(<<x>>, y) = <<x>> \o <<y>> BY <1>1, <1>4, AppendIsConcat
  <2>2. Append(<<x>>, y) = <<x, y>>
    <3>1. /\ Append(<<x>>, y) \in Seq(U) /\ Len(Append(<<x>>, y)) = Len(<<x>>) + 1
          /\ \A i \in 1 .. Len(<<x>>) : Append(<<x>>, y)[i] = <<x>>[i]
          /\ Append(<<x>>, y)[Len(<<x>>) + 1] = y
      BY <1>1, <1>4, AppendProperties
    <3>2. Len(<<x>>) = 1 /\ <<x>>[1] = x /\ \A i \in 1 .. 1 + 1 : i = 1 \/ i = 2 OBVIOUS
    <3>3. /\ Append(<<x>>, y) \in Seq(U) /\ Len(Append(<<x>>, y)) = 2
          /\ Append(<<x>>, y)[1] = x /\ Append(<<x>>, y)[2] = y
      BY <3>1, <3>2
    <3>4. <<x, y>> \in Seq(U) /\ Len(<<x, y>>) = 2 /\ <<x, y>>[1] = x /\ <<x, y>>[2] = y
      BY <1>1
    <3>5. \A i \in 1 .. 2 : i = 1 \/ i = 2 OBVIOUS
    <3> HIDE DEF U
    <3>6. \A i \in 1 .. 2 : Append(<<x>>, y)[i] = <<x, y>>[i] BY <3>3, <3>4, <3>5
    <3> QED BY <3>3, <3>4, <3>6, SeqEqual
  <2> QED BY <2>1, <2>2
<1> QED BY <1>3, <1>5, <1>6
----------------------------------------------------------------------------
\* The mapping, state by state.
LEMMA Mapping ==
  /\ fatal => MeantStack = <<>> /\ MeantOutcome = "fatal"
  /\ ~fatal => MeantOutcome = IF ctrl = <<>> THEN "value" ELSE "none"
  /\ ~fatal /\ returning => MeantStack = EndOfCall(Left(ctrl))
  /\ ~fatal /\ ~returning /\ brk => MeantStack = OutOfLoop(Left(ctrl))
  /\ ~fatal /\ ~returning /\ ~brk => MeantStack = Left(ctrl)
BY DEF MeantStack, MeantOutcome

LEMMA MappingAfter ==
  /\ fatal' => MeantStack' = <<>> /\ MeantOutcome' = "fatal"
  /\ ~fatal' => MeantOutcome' = IF ctrl' = <<>> THEN "value" ELSE "none"
  /\ ~fatal' /\ returning' => MeantStack' = EndOfCall(Left(ctrl'))
  /\ ~fatal' /\ ~returning' /\ brk' => MeantStack' = OutOfLoop(Left(ctrl'))
  /\ ~fatal' /\ ~returning' /\ ~brk' => MeantStack' = Left(ctrl')
BY DEF MeantStack, MeantOutcome

\* With no jump pending, the innermost activation is what the language runs.
LEMMA Plainly ==
  ASSUME IInv, status = "running", ~fatal, ~returning, ~brk
  PROVE  /\ MeantStack = Left(ctrl) /\ MeantStack # <<>> /\ MeantOutcome = "none"
         /\ Meant!Last = Remaining(Top) /\ Meant!Rest = Left(Below)
         /\ \A l : Meant!Continue(Remaining(l)) = Left(Replaced(l))
<1>1. ctrl # <<>> /\ Top \in Level BY Standpoint
<1>2. ctrl \in Seq(Level) BY DEF IInv, Good
<1>3. Len(ctrl) \in Nat /\ Len(ctrl) \in 1 .. Len(ctrl) BY <1>1, <1>2, NonEmpty, Positions
<1>4. MeantStack = Left(ctrl) /\ MeantOutcome = "none" BY <1>1, Mapping
<1>5. /\ Left(ctrl) # <<>> /\ Len(Left(ctrl)) = Len(ctrl)
  <2>1. Left(ctrl) # <<>> BY <1>1, <1>2, LeftSeq
  <2>2. Len(Left(ctrl)) = Len(ctrl) BY <1>2, LeftSeq
  <2> QED BY <2>1, <2>2
<1>6. Left(ctrl)[Len(ctrl)] = Remaining(Top) BY <1>3 DEF Left, Top
<1>7. Meant!Last = Remaining(Top) BY <1>4, <1>5, <1>6 DEF Meant!Last
<1>8. Meant!Rest = Left(Below)
  <2>1. Meant!Rest = ButLast(Left(ctrl)) BY <1>4 DEF Meant!Rest, ButLast
  <2>2. Below = ButLast(ctrl) BY DEF Below, ButLast
  <2> QED BY <2>1, <2>2, <1>1, <1>2, LeftPop
<1>9. ASSUME NEW l PROVE Meant!Continue(Remaining(l)) = Left(Replaced(l))
  <2>1. Meant!Continue(Remaining(l)) = LastIs(Left(ctrl), Remaining(l))
    BY <1>4 DEF Meant!Continue, LastIs
  <2>2. Replaced(l) = LastIs(ctrl, l) BY DEF Replaced, LastIs
  <2> QED BY <2>1, <2>2, <1>1, <1>2, LeftLast
<1> QED BY <1>4, <1>5, <1>7, <1>8, <1>9

\* What is left of each kind of activation.
LEMMA RemainingOf ==
  ASSUME NEW l \in Level
  PROVE  /\ l.kind = "block" =>
              Remaining(l) = [kind |-> "block", rest |-> SubSeq(l.nodes, l.pc + 1, Len(l.nodes))]
         /\ l.kind = "eval" =>
              Remaining(l) = [kind |-> "eval", node |-> l.node, goal |-> l.goal,
                              rest |-> SubSeq(l.expr, l.pc + 1, Len(l.expr))]
         /\ l.kind = "if" =>
              Remaining(l) = [kind |-> "if", node |-> l.node, pc |-> l.pc, stage |-> l.stage]
         /\ l.kind \in Loops =>
              Remaining(l) = [kind |-> l.kind, node |-> l.node, stage |-> l.stage]
         /\ l.kind \in CallOps => Remaining(l) = [kind |-> l.kind]
<1>1. CASE l.kind = "block" BY <1>1 DEF Remaining, Loops, CallOps
<1>2. CASE l.kind = "eval" BY <1>2 DEF Remaining, Loops, CallOps
<1>3. CASE l.kind = "if" BY <1>3 DEF Remaining, Loops, CallOps
<1>4. CASE l.kind \in Loops BY <1>4 DEF Remaining, Loops, CallOps
<1>5. CASE l.kind \in CallOps BY <1>5 DEF Remaining, Loops, CallOps
<1> QED BY <1>1, <1>2, <1>3, <1>4, <1>5, LevelKinds

\* A node is started as the language starts it.
LEMMA NodeMeant ==
  ASSUME IInv, JumpInv, ~fatal, NEW kinds, AtNode(kinds),
         ctrl' # <<>>, UNCHANGED <<prog, fatal>>,
         Meant!Act(TheNode.kind = "old_script"),
         MeantStack' = Meant!Start(TheNode, Left(Stepped))
  PROVE  Meant!Next
<1>1. status = "running" /\ Top.kind = "block" /\ NodeReady BY DEF AtNode, Running
<1>2. ~returning /\ ~brk BY NodeNested
<1>3. Top \in BlockLevel /\ Top \in Level BY <1>1, Straight, LevelKinds
<1> DEFINE l == [Top EXCEPT !.pc = @ + 1]
<1>4. /\ l \in Level /\ l.kind = "block" /\ l.pc = Top.pc + 1 /\ l.nodes = Top.nodes
      /\ Top.pc \in Nat /\ Top.nodes \in Seq(Node) /\ Top.pc < Len(Top.nodes)
  BY <1>1, <1>3 DEF Level, BlockLevel, NodeReady
<1>5. Stepped = Replaced(l) BY DEF Stepped
<1> HIDE DEF l
<1> DEFINE now == SubSeq(Top.nodes, Top.pc + 1, Len(Top.nodes))
           next == SubSeq(Top.nodes, Top.pc + 1 + 1, Len(Top.nodes))
<1>6. Remaining(Top) = [kind |-> "block", rest |-> now]
  BY <1>1, <1>3, RemainingOf
<1>7. Remaining(l) = [kind |-> "block", rest |-> next]
  BY <1>4, RemainingOf
<1>8. now # <<>> /\ Head(now) = TheNode /\ Tail(now) = next
  BY <1>4, RestOf DEF TheNode
<1> HIDE DEF now, next
<1>9. /\ Meant!Last.kind = "block" /\ Meant!Last.rest = now
      /\ [Meant!Last EXCEPT !.rest = Tail(@)] = Remaining(l)
  <2>1. Meant!Last = Remaining(Top) BY <1>1, <1>2, Plainly
  <2> QED BY <2>1, <1>6, <1>7, <1>8
<1>10. /\ MeantStack # <<>> /\ MeantOutcome = "none"
       /\ Meant!Continue(Remaining(l)) = Left(Stepped)
  BY <1>1, <1>2, <1>5, Plainly
<1>11. MeantOutcome' = "none" BY MappingAfter
<1>12. Meant!RunNode
  BY <1>8, <1>9, <1>10, <1>11 DEF Meant!RunNode, Meant!Ready
<1> QED BY <1>12 DEF Meant!Next, Meant!Step

\* An operation is carried out as the language does it.
LEMMA OperationMeant ==
  ASSUME IInv, JumpInv, ~fatal, NEW ops, AtOperation(ops), ctrl' # <<>>, UNCHANGED prog,
         Meant!Act(Operand.op \in {"builtin", "component"}),
         \/ /\ Operand.op = "fatal" /\ fatal'
         \/ /\ Operand.op # "fatal" /\ ~fatal'
            /\ MeantStack' = IF Operand.op \in CallOps
                             THEN Left(Advanced) \o << Meant!Called(Operand.op),
                                                       Meant!Nodes(prog[Operand.fun]) >>
                             ELSE Left(Advanced)
  PROVE  Meant!Next
<1>1. status = "running" /\ Top.kind = "eval" /\ Pending BY DEF AtOperation, Running
<1>2. ~returning /\ ~brk BY OperationNested
<1>3. Top \in EvalLevel /\ Top \in Level BY <1>1, Straight, LevelKinds
<1> DEFINE l == [Top EXCEPT !.pc = @ + 1]
<1>4. /\ l \in Level /\ l.kind = "eval" /\ l.pc = Top.pc + 1 /\ l.expr = Top.expr
      /\ l.node = Top.node /\ l.goal = Top.goal
      /\ Top.pc \in Nat /\ Top.expr \in Seq(Operation) /\ Top.pc < Len(Top.expr)
  BY SMTT(30), <1>1, <1>3 DEF Level, EvalLevel, Pending, Expression
<1>5. Advanced = Replaced(l) BY DEF Advanced
<1> HIDE DEF l
<1> DEFINE now == SubSeq(Top.expr, Top.pc + 1, Len(Top.expr))
           next == SubSeq(Top.expr, Top.pc + 1 + 1, Len(Top.expr))
<1>6. Remaining(Top) = [kind |-> "eval", node |-> Top.node, goal |-> Top.goal, rest |-> now]
  BY <1>1, <1>3, RemainingOf
<1>7. Remaining(l) = [kind |-> "eval", node |-> Top.node, goal |-> Top.goal, rest |-> next]
  BY <1>4, RemainingOf
<1>8. now # <<>> /\ Head(now) = Operand /\ Tail(now) = next
  BY <1>4, RestOf DEF Operand, Visited
<1> HIDE DEF now, next
<1>9. /\ Meant!Last.kind = "eval" /\ Meant!Last.rest = now
      /\ [Meant!Last EXCEPT !.rest = Tail(@)] = Remaining(l)
  <2> DEFINE node == Top.node
             goal == Top.goal
  <2>1. Meant!Last = [kind |-> "eval", node |-> node, goal |-> goal, rest |-> now]
    BY <1>1, <1>2, <1>6, Plainly
  <2>2. Remaining(l) = [kind |-> "eval", node |-> node, goal |-> goal, rest |-> next]
    BY <1>7
  <2> HIDE DEF node, goal
  <2>3. /\ Meant!Last.kind = "eval" /\ Meant!Last.rest = now
        /\ [Meant!Last EXCEPT !.rest = next] = Remaining(l)
    BY <2>1, <2>2
  <2> QED BY <2>3, <1>8
<1>10. /\ MeantStack # <<>> /\ MeantOutcome = "none"
       /\ Meant!Continue(Remaining(l)) = Left(Advanced)
  BY <1>1, <1>2, <1>5, Plainly
<1>11. /\ fatal' => MeantStack' = <<>> /\ MeantOutcome' = "fatal"
       /\ ~fatal' => MeantOutcome' = "none"
  BY MappingAfter
<1>12. Meant!Operate
  <2>1. Meant!Ready({"eval"}) /\ Meant!Last.rest # <<>> BY <1>8, <1>9, <1>10 DEF Meant!Ready
  <2>2. Head(Meant!Last.rest) = Operand BY <1>8, <1>9
  <2>3. Meant!Continue([Meant!Last EXCEPT !.rest = Tail(@)]) = Left(Advanced) BY <1>9, <1>10
  <2>4. Meant!Act(Operand.op \in {"builtin", "component"}) OBVIOUS
  <2>5. CASE Operand.op = "fatal" /\ fatal'
    BY <2>1, <2>2, <2>3, <2>4, <2>5, <1>11 DEF Meant!Operate
  <2>6. CASE Operand.op # "fatal" /\ ~fatal'
    <3>1. MeantOutcome' = MeantOutcome BY <2>6, <1>10, <1>11
    <3>2. MeantStack' = IF Operand.op \in CallOps
                        THEN Left(Advanced) \o << Meant!Called(Operand.op),
                                                  Meant!Nodes(prog[Operand.fun]) >>
                        ELSE Left(Advanced)
      BY <2>6
    <3> QED BY <2>1, <2>2, <2>3, <2>4, <2>6, <3>1, <3>2
         DEF Meant!Operate, Meant!CallOps, CallOps
  <2> QED BY <2>5, <2>6
<1> QED BY <1>12 DEF Meant!Next, Meant!Step

\* What activations are started with.
LEMMA EvalMeant ==
  ASSUME NEW n, NEW e \in Expression, NEW goal, NEW at
  PROVE  Remaining(Eval(n, e, goal, at)) = Meant!Expr(n, e, goal)
<1> DEFINE l == Eval(n, e, goal, at)
<1>1. /\ l.kind = "eval" /\ l.node = n /\ l.goal = goal /\ l.expr = e /\ l.pc = 0 BY DEF Eval
<1> HIDE DEF l
<1>2. SubSeq(e, 0 + 1, Len(e)) = e
  <2>1. e \in Seq(Operation) BY DEF Expression
  <2>2. SubSeq(e, 1, Len(e)) = e BY <2>1, SubSeqFull
  <2>3. 0 + 1 = 1 OBVIOUS
  <2> QED BY <2>2, <2>3
<1>3. Remaining(l) = [kind |-> "eval", node |-> n, goal |-> goal, rest |-> e]
  BY <1>1, <1>2 DEF Remaining, Loops, CallOps
<1>4. Meant!Expr(n, e, goal) = [kind |-> "eval", node |-> n, goal |-> goal, rest |-> e]
  BY DEF Meant!Expr
<1> QED BY <1>3, <1>4 DEF l

LEMMA BlockMeant ==
  ASSUME NEW body \in Seq(Node), NEW at
  PROVE  Remaining(Block(body, at)) = Meant!Nodes(body)
<1> DEFINE l == Block(body, at)
<1>1. l.kind = "block" /\ l.nodes = body /\ l.pc = 0 BY DEF Block
<1> HIDE DEF l
<1>2. SubSeq(body, 0 + 1, Len(body)) = body
  <2>1. SubSeq(body, 1, Len(body)) = body BY SubSeqFull
  <2>2. 0 + 1 = 1 OBVIOUS
  <2> QED BY <2>1, <2>2
<1>3. Remaining(l) = [kind |-> "block", rest |-> body]
  BY <1>1, <1>2 DEF Remaining, Loops, CallOps
<1> QED BY <1>3 DEF l, Meant!Nodes

LEMMA CalledMeant ==
  ASSUME NEW op \in CallOps, NEW frame
  PROVE  Remaining(Called(op, frame)) = Meant!Called(op)
<1> DEFINE l == Called(op, frame)
<1>1. l.kind = op BY DEF Called
<1> HIDE DEF l
<1>2. Remaining(l) = [kind |-> op] BY <1>1 DEF Remaining, Loops, CallOps
<1> QED BY <1>2 DEF l, Meant!Called

LEMMA BranchMeant ==
  ASSUME NEW l, l.kind = "if"
  PROVE  Remaining(l) = Meant!Branch(l.node, l.pc, l.stage)
BY DEF Remaining, Meant!Branch, Loops, CallOps

LEMMA LoopMeant ==
  ASSUME NEW l, l.kind \in Loops, l.node.kind = l.kind
  PROVE  Remaining(l) = Meant!Loop(l.node, l.stage)
BY DEF Remaining, Meant!Loop, Loops, CallOps

\* The kinds of nodes that the language starts.
LEMMA Starting ==
  ASSUME NEW n, NEW s
  PROVE  /\ n.kind \in {"infix", "return"} =>
              Meant!Start(n, s) = Append(s, Meant!Expr(n, n.expr, n.kind))
         /\ n.kind = "decl" =>
              Meant!Start(n, s) = IF n.hasExpr THEN Append(s, Meant!Expr(n, n.expr, "decl")) ELSE s
         /\ n.kind = "block" => Meant!Start(n, s) = Append(s, Meant!Nodes(n.body))
         /\ n.kind = "if" =>
              Meant!Start(n, s) = s \o << Meant!Branch(n, 1, "cond"),
                                          Meant!Expr(n, n.ifs[1].cond, "cond") >>
         /\ n.kind = "while" =>
              Meant!Start(n, s) = s \o << Meant!Loop(n, "cond"), Meant!Expr(n, n.expr, "cond") >>
         /\ n.kind = "for" => Meant!Start(n, s) = Append(s, Meant!Loop(n, "init"))
         /\ n.kind = "break" => Meant!Start(n, s) = OutOfLoop(s)
         /\ n.kind = "implicit_return" => Meant!Start(n, s) = EndOfCall(s)
         /\ n.kind = "old_script" => Meant!Start(n, s) = s
BY DEF Meant!Start, Meant!OutOfLoop, Meant!EndOfCall, Meant!Innermost, Meant!Loops, Meant!CallOps,
       OutOfLoop, EndOfCall, Innermost, Loops, CallOps

\* A step of the interpreter, seen from the language.
Shown == [Meant!Next]_<<prog, MeantStack, acts, MeantOutcome>>

\* An activation that a jump goes through ends unseen.
LEMMA ExitHidden ==
  ASSUME IInv, JumpInv, status = "running", ~fatal, Top.kind \in {"block", "if"},
         returning \/ brk, ctrl' = ButLast(ctrl), ctrl' # <<>>,
         UNCHANGED <<prog, returning, brk, fatal, acts>>
  PROVE  Shown
<1>1. ctrl \in Seq(Level) /\ ctrl # <<>> BY Straight
<1>2. ctrl[Len(ctrl)].kind \notin CallOps /\ ctrl[Len(ctrl)].kind \notin Loops
  BY DEF Top, CallOps, Loops
<1>3. CASE returning
  <2>1. EndOfCall(Left(ctrl')) = EndOfCall(Left(ctrl)) BY <1>1, <1>2, ReturnLeaves DEF JumpInv
  <2>2. MeantStack' = MeantStack BY <1>3, <2>1, Mapping, MappingAfter
  <2>3. MeantOutcome' = MeantOutcome BY <1>1, Mapping, MappingAfter
  <2> QED BY <2>2, <2>3 DEF Shown
<1>4. CASE ~returning /\ brk
  <2>1. InLoop(ctrl, Len(ctrl)) BY <1>4 DEF JumpInv, Unwinding
  <2>2. OutOfLoop(Left(ctrl')) = OutOfLoop(Left(ctrl)) BY <1>1, <1>2, <2>1, BreakLeaves
  <2>3. MeantStack' = MeantStack BY <1>4, <2>2, Mapping, MappingAfter
  <2>4. MeantOutcome' = MeantOutcome BY <1>1, Mapping, MappingAfter
  <2> QED BY <2>3, <2>4 DEF Shown
<1> QED BY <1>3, <1>4 DEF IInv, Flags

LEMMA BlockShown ==
  ASSUME IInv, JumpInv, IInv', ~fatal, BlockStep
  PROVE  Shown
<1> SUFFICES Meant!Next \/ UNCHANGED <<prog, MeantStack, acts, MeantOutcome>> BY DEF Shown
<1> DEFINE Quiet == /\ ~returning' /\ ~brk' /\ ~fatal' /\ UNCHANGED <<prog, fatal>>
                    /\ Meant!Act(TheNode.kind = "old_script") /\ ctrl' # <<>>
<1>1. CASE ExecuteExpression
  <2>1. AtNode({"infix", "return", "decl"}) BY <1>1 DEF ExecuteExpression
  <2>2. /\ TheNode.kind \in {"infix", "return", "decl"} /\ (TheNode.kind = "decl" => TheNode.hasExpr)
        /\ ctrl' = Append(Stepped, Eval(TheNode, TheNode.expr, TheNode.kind, Here))
    BY <1>1, <2>1 DEF ExecuteExpression, AtNode
  <2>3. Quiet
    BY <1>1, <2>1, <2>2, NodeNested DEF ExecuteExpression, Meant!Act, IInv, Flags, AtNode, Running
  <2>4. TheNode.expr \in Expression BY <2>1, NodeStep, NodeAssumption
  <2>5. Left(ctrl') = Append(Left(Stepped), Meant!Expr(TheNode, TheNode.expr, TheNode.kind))
    BY <2>1, <2>2, <2>4, NodeNested, LeftPush, EvalMeant
  <2>6. Meant!Start(TheNode, Left(Stepped)) = Left(ctrl') BY <2>2, <2>5, Starting
  <2>7. Meant!Next BY <2>1, <2>3, <2>6, MappingAfter, NodeMeant
  <2> QED BY <2>7
<1>2. CASE ExecuteDefaultDeclaration
  <2>1. AtNode({"decl"}) /\ TheNode.kind = "decl" /\ ~TheNode.hasExpr /\ ctrl' = Stepped
    BY <1>2 DEF ExecuteDefaultDeclaration, AtNode
  <2>2. Quiet
    BY <1>2, <2>1, NodeNested DEF ExecuteDefaultDeclaration, Meant!Act, IInv, Flags, AtNode, Running
  <2>3. Meant!Start(TheNode, Left(Stepped)) = Left(ctrl') BY <2>1, Starting
  <2>4. Meant!Next BY <2>1, <2>2, <2>3, MappingAfter, NodeMeant
  <2> QED BY <2>4
<1>3. CASE ExecuteImplicitReturn
  <2>1. /\ AtNode({"implicit_return"}) /\ TheNode.kind = "implicit_return" /\ ctrl' = Stepped
        /\ returning' /\ ~fatal' /\ UNCHANGED <<prog, fatal>>
    BY <1>3 DEF ExecuteImplicitReturn, AtNode
  <2>2. Meant!Act(TheNode.kind = "old_script") /\ ctrl' # <<>>
    BY <1>3, <2>1, NodeNested DEF ExecuteImplicitReturn, Meant!Act
  <2>3. Meant!Start(TheNode, Left(Stepped)) = EndOfCall(Left(ctrl')) BY <2>1, Starting
  <2>4. Meant!Next BY <2>1, <2>2, <2>3, MappingAfter, NodeMeant
  <2> QED BY <2>4
<1>4. CASE ExecuteBreak
  <2>1. /\ AtNode({"break"}) /\ TheNode.kind = "break" /\ ctrl' = Stepped
        /\ brk' /\ ~fatal' /\ UNCHANGED <<prog, fatal>>
    BY <1>4 DEF ExecuteBreak, AtNode
  <2>2. Meant!Act(TheNode.kind = "old_script") /\ ctrl' # <<>> /\ ~returning'
    BY <1>4, <2>1, NodeNested DEF ExecuteBreak, Meant!Act
  <2>3. Meant!Start(TheNode, Left(Stepped)) = OutOfLoop(Left(ctrl')) BY <2>1, Starting
  <2>4. Meant!Next BY <2>1, <2>2, <2>3, MappingAfter, NodeMeant
  <2> QED BY <2>4
<1>5. CASE ExecuteBlock
  <2>1. /\ AtNode({"block"}) /\ TheNode.kind = "block"
        /\ ctrl' = Append(Stepped, Block(TheNode.body, Inner))
    BY <1>5 DEF ExecuteBlock, AtNode
  <2>2. Quiet
    BY <1>5, <2>1, NodeNested DEF ExecuteBlock, Meant!Act, IInv, Flags, AtNode, Running
  <2>3. TheNode.body \in Seq(Node) BY <2>1, NodeStep, NodeAssumption
  <2>4. Left(ctrl') = Append(Left(Stepped), Meant!Nodes(TheNode.body))
    BY <2>1, <2>3, NodeNested, LeftPush, BlockMeant
  <2>5. Meant!Start(TheNode, Left(Stepped)) = Left(ctrl') BY <2>1, <2>4, Starting
  <2>6. Meant!Next BY <2>1, <2>2, <2>5, MappingAfter, NodeMeant
  <2> QED BY <2>6
<1>6. CASE ExecuteOldScript
  <2>1. /\ AtNode({"old_script"}) /\ TheNode.kind = "old_script" /\ ctrl' = Stepped
    BY <1>6 DEF ExecuteOldScript, AtNode
  <2>2. Quiet
    BY <1>6, <2>1, NodeNested DEF ExecuteOldScript, ActOnFacade, Meant!Act
  <2>3. Meant!Start(TheNode, Left(Stepped)) = Left(ctrl') BY <2>1, Starting
  <2>4. Meant!Next BY <2>1, <2>2, <2>3, MappingAfter, NodeMeant
  <2> QED BY <2>4
<1>7. CASE ExecuteIf
  <2> DEFINE branch == [kind |-> "if", node |-> TheNode, pc |-> 1, stage |-> "cond", at |-> Here]
             e == TheNode.ifs[1].cond
             c == Append(Stepped, branch)
  <2>1. AtNode({"if"}) /\ TheNode.kind = "if" /\ ctrl' = Append(c, Eval(TheNode, e, "cond", Here))
    BY <1>7 DEF ExecuteIf, AtNode
  <2>2. Quiet
    BY <1>7, <2>1, NodeNested DEF ExecuteIf, Meant!Act, IInv, Flags, AtNode, Running
  <2>3. e \in Expression
    <3>1. TheNode.ifs \in Seq(ConditionalNodes) /\ TheNode.ifs # <<>>
      BY <2>1, NodeStep, NodeAssumption
    <3>2. 1 \in 1 .. Len(TheNode.ifs) BY <3>1, NonEmpty, Positions
    <3>3. TheNode.ifs[1] \in ConditionalNodes BY <3>1, <3>2, ElementOfSeq
    <3> QED BY <3>3 DEF ConditionalNodes
  <2>4. Remaining(branch) = Meant!Branch(TheNode, 1, "cond") BY BranchMeant
  <2>5. Meant!Start(TheNode, Left(Stepped))
          = Left(Stepped) \o << Meant!Branch(TheNode, 1, "cond"), Meant!Expr(TheNode, e, "cond") >>
    BY <2>1, Starting
  <2> HIDE DEF branch, e
  <2>6. Left(c) = Append(Left(Stepped), Meant!Branch(TheNode, 1, "cond"))
    BY <2>1, <2>4, NodeNested, LeftPush
  <2>7. c \in Seq(Level \union {branch})
    BY <2>1, NodeNested, SeqMonotonic, AppendProperties
  <2> HIDE DEF c
  <2>8. Left(ctrl') = Append(Left(c), Meant!Expr(TheNode, e, "cond"))
    BY <2>1, <2>3, <2>7, LeftPush, EvalMeant
  <2>9. Left(Stepped) \in Seq({Remaining(x) : x \in Level}) BY <2>1, NodeNested, LeftSeq
  <2>10. Meant!Start(TheNode, Left(Stepped)) = Left(ctrl')
    BY <2>5, <2>6, <2>8, <2>9, AppendTwo
  <2>11. Meant!Next BY <2>1, <2>2, <2>10, MappingAfter, NodeMeant
  <2> QED BY <2>11
<1>8. CASE ExecuteWhile
  <2> DEFINE loop == [kind |-> "while", node |-> TheNode, stage |-> "cond", at |-> Here]
             e == TheNode.expr
             c == Append(Stepped, loop)
  <2>1. AtNode({"while"}) /\ TheNode.kind = "while" /\ ctrl' = Append(c, Eval(TheNode, e, "cond", Here))
    BY <1>8 DEF ExecuteWhile, AtNode
  <2>2. Quiet
    BY <1>8, <2>1, NodeNested DEF ExecuteWhile, Meant!Act, IInv, Flags, AtNode, Running
  <2>3. e \in Expression BY <2>1, NodeStep, NodeAssumption
  <2>4. Remaining(loop) = Meant!Loop(TheNode, "cond") BY <2>1, LoopMeant DEF Loops
  <2>5. Meant!Start(TheNode, Left(Stepped))
          = Left(Stepped) \o << Meant!Loop(TheNode, "cond"), Meant!Expr(TheNode, e, "cond") >>
    BY <2>1, Starting
  <2> HIDE DEF loop, e
  <2>6. Left(c) = Append(Left(Stepped), Meant!Loop(TheNode, "cond"))
    BY <2>1, <2>4, NodeNested, LeftPush
  <2>7. c \in Seq(Level \union {loop})
    BY <2>1, NodeNested, SeqMonotonic, AppendProperties
  <2> HIDE DEF c
  <2>8. Left(ctrl') = Append(Left(c), Meant!Expr(TheNode, e, "cond"))
    BY <2>1, <2>3, <2>7, LeftPush, EvalMeant
  <2>9. Left(Stepped) \in Seq({Remaining(x) : x \in Level}) BY <2>1, NodeNested, LeftSeq
  <2>10. Meant!Start(TheNode, Left(Stepped)) = Left(ctrl')
    BY <2>5, <2>6, <2>8, <2>9, AppendTwo
  <2>11. Meant!Next BY <2>1, <2>2, <2>10, MappingAfter, NodeMeant
  <2> QED BY <2>11
<1>9. CASE ExecuteFor
  <2> DEFINE loop == [kind |-> "for", node |-> TheNode, stage |-> "init", at |-> Inner]
  <2>1. AtNode({"for"}) /\ TheNode.kind = "for" /\ ctrl' = Append(Stepped, loop)
    BY <1>9 DEF ExecuteFor, AtNode
  <2>2. Quiet
    BY <1>9, <2>1, NodeNested DEF ExecuteFor, Meant!Act, IInv, Flags, AtNode, Running
  <2>3. Remaining(loop) = Meant!Loop(TheNode, "init") BY <2>1, LoopMeant DEF Loops
  <2> HIDE DEF loop
  <2>4. Left(ctrl') = Append(Left(Stepped), Meant!Loop(TheNode, "init"))
    BY <2>1, <2>3, NodeNested, LeftPush
  <2>5. Meant!Start(TheNode, Left(Stepped)) = Left(ctrl') BY <2>1, <2>4, Starting
  <2>6. Meant!Next BY <2>1, <2>2, <2>5, MappingAfter, NodeMeant
  <2> QED BY <2>6
<1>10. CASE LeaveBlock
  <2>1. /\ status = "running" /\ Top.kind = "block" /\ ~NodeReady
        /\ ctrl' = ButLast(ctrl) /\ ctrl' = Below /\ status' = "running"
        /\ UNCHANGED <<prog, returning, brk, fatal, acts>>
    BY <1>10 DEF LeaveBlock, Running, Below, ButLast
  <2>2. ctrl' # <<>> BY <2>1 DEF IInv, Flags
  <2>3. CASE returning \/ brk BY <2>1, <2>2, <2>3, ExitHidden DEF Shown
  <2>4. CASE ~returning /\ ~brk
    <3>1. Top \in Level /\ Top \in BlockLevel BY <2>1, Straight, LevelKinds
    <3>2. Top.nodes \in Seq(Node) /\ Top.pc \in Nat BY <3>1 DEF BlockLevel
    <3>3. ~(Top.pc < Len(Top.nodes)) BY <2>1, <2>4 DEF NodeReady, Abrupt
    <3> DEFINE rest == SubSeq(Top.nodes, Top.pc + 1, Len(Top.nodes))
    <3>4. rest = <<>> BY <3>2, <3>3, RestOf
    <3>5. Remaining(Top) = [kind |-> "block", rest |-> rest] BY <2>1, <3>1, RemainingOf
    <3> HIDE DEF rest
    <3>6. /\ MeantStack # <<>> /\ MeantOutcome = "none"
          /\ Meant!Last = Remaining(Top) /\ Meant!Rest = Left(Below)
      BY <2>1, <2>4, Plainly
    <3>7. MeantStack' = Left(Below) /\ MeantOutcome' = "none"
      BY <2>1, <2>2, <2>4, MappingAfter
    <3>8. Meant!Last.kind = "block" /\ Meant!Last.rest = <<>> BY <3>4, <3>5, <3>6
    <3>9. Meant!EndBlock BY <2>1, <3>6, <3>7, <3>8 DEF Meant!EndBlock, Meant!Ready
    <3> QED BY <2>1, <3>9 DEF Meant!Next, Meant!Step
  <2> QED BY <2>3, <2>4
<1> QED BY <1>1, <1>2, <1>3, <1>4, <1>5, <1>6, <1>7, <1>8, <1>9, <1>10 DEF BlockStep

\* Nothing the language can see changes.
LEMMA Unseen ==
  ASSUME UNCHANGED <<prog, ctrl, returning, brk, fatal, acts>>
  PROVE  Shown
<1>1. MeantStack' = MeantStack BY DEF MeantStack, Left
<1>2. MeantOutcome' = MeantOutcome BY DEF MeantOutcome
<1> QED BY <1>1, <1>2 DEF Shown

\* An expression ends where the language ends it, if nothing has failed.
LEMMA ExpressionEnds ==
  ASSUME IInv, JumpInv, ~fatal, Running({"eval"}), Evaluated
  PROVE  /\ Meant!Ready({"eval"}) /\ Meant!Last.rest = <<>> /\ Meant!Last.goal = Top.goal
         /\ Meant!Rest = Left(Below) /\ MeantOutcome = "none"
         /\ Below \in Seq(Level) /\ Below # <<>> /\ ~returning /\ ~brk
<1>1. status = "running" /\ Top.kind = "eval" BY DEF Running
<1>2. ~returning /\ ~brk /\ Below \in Seq(Level) /\ Below # <<>> BY EvalNested
<1>3. Top \in Level /\ Top \in EvalLevel BY <1>1, Straight, LevelKinds
<1>4. Top.expr \in Seq(Operation) /\ Top.pc \in Nat BY <1>3 DEF EvalLevel, Expression
<1>5. ~(Top.pc < Len(Top.expr)) BY DEF Evaluated, Pending
<1> DEFINE rest == SubSeq(Top.expr, Top.pc + 1, Len(Top.expr))
           goal == Top.goal
           node == Top.node
<1>6. rest = <<>> BY <1>4, <1>5, RestOf
<1>7. Remaining(Top) = [kind |-> "eval", node |-> node, goal |-> goal, rest |-> rest]
  BY <1>1, <1>3, RemainingOf
<1>8. /\ MeantStack # <<>> /\ MeantOutcome = "none"
      /\ Meant!Last = Remaining(Top) /\ Meant!Rest = Left(Below)
  BY <1>1, <1>2, Plainly
<1>9. goal = Top.goal OBVIOUS
<1> HIDE DEF rest, goal, node
<1>10. Meant!Last.kind = "eval" /\ Meant!Last.rest = <<>> /\ Meant!Last.goal = goal
  BY <1>6, <1>7, <1>8
<1> QED BY <1>2, <1>8, <1>9, <1>10 DEF Meant!Ready

LEMMA EvalShown ==
  ASSUME IInv, JumpInv, IInv', ~fatal, EvalStep
  PROVE  Shown
<1> SUFFICES Meant!Next \/ UNCHANGED <<prog, MeantStack, acts, MeantOutcome>> BY DEF Shown
<1> DEFINE Quiet == ~returning' /\ ~brk' /\ ~fatal' /\ UNCHANGED prog /\ ctrl' # <<>>
           Acts == Meant!Act(Operand.op \in {"builtin", "component"})
<1>1. CASE EvaluateUse
  <2>1. AtOperation({"use"}) /\ Operand.op = "use" /\ ctrl' = Advanced
    BY <1>1 DEF EvaluateUse, AtOperation
  <2>2. Quiet /\ Acts BY <1>1, <2>1, OperationNested DEF EvaluateUse, Meant!Act
  <2>3. MeantStack' = Left(Advanced) BY <2>1, <2>2, MappingAfter
  <2>4. Operand.op # "fatal" /\ Operand.op \notin CallOps BY <2>1 DEF CallOps
  <2>5. Meant!Next BY <2>1, <2>2, <2>3, <2>4, OperationMeant
  <2> QED BY <2>5
<1>2. CASE EvaluateBuiltin
  <2>1. AtOperation({"builtin"}) /\ Operand.op = "builtin" /\ ctrl' = Advanced
    BY <1>2 DEF EvaluateBuiltin, AtOperation
  <2>2. Quiet /\ Acts BY <1>2, <2>1, OperationNested DEF EvaluateBuiltin, ActOnFacade, Meant!Act
  <2>3. MeantStack' = Left(Advanced) BY <2>1, <2>2, MappingAfter
  <2>4. Operand.op # "fatal" /\ Operand.op \notin CallOps BY <2>1 DEF CallOps
  <2>5. Meant!Next BY <2>1, <2>2, <2>3, <2>4, OperationMeant
  <2> QED BY <2>5
<1>3. CASE EvaluateFatal
  <2>1. AtOperation({"fatal"}) /\ Operand.op = "fatal" /\ ctrl' = Advanced /\ fatal' /\ UNCHANGED prog
    BY <1>3 DEF EvaluateFatal, AtOperation
  <2>2. Acts /\ ctrl' # <<>> BY <1>3, <2>1, OperationNested DEF EvaluateFatal, Meant!Act
  <2>3. Meant!Next BY <2>1, <2>2, OperationMeant
  <2> QED BY <2>3
<1>4. CASE EvaluateComponent
  <2>1. AtOperation({"component"}) /\ Operand.op = "component" /\ ctrl' = Advanced
    BY <1>4 DEF EvaluateComponent, AtOperation
  <2>2. Quiet /\ Acts BY <1>4, <2>1, OperationNested DEF EvaluateComponent, ActOnFacade, Meant!Act
  <2>3. MeantStack' = Left(Advanced) BY <2>1, <2>2, MappingAfter
  <2>4. Operand.op # "fatal" /\ Operand.op \notin CallOps BY <2>1 DEF CallOps
  <2>5. Meant!Next BY <2>1, <2>2, <2>3, <2>4, OperationMeant
  <2> QED BY <2>5
<1>5. CASE EvaluateCall
  <2> DEFINE a == Called(Operand.op, Len(frames) + 1)
             b == Body(Operand.fun, Len(frames) + 1)
             c == Append(Advanced, a)
  <2>1. AtOperation(CallOps) /\ Operand.op \in CallOps
        /\ UNCHANGED <<prog, returning, brk, fatal, acts>>
    BY <1>5 DEF EvaluateCall, AtOperation
  <2>2. CASE ctrl' = ctrl BY <2>1, <2>2, Unseen DEF Shown
  <2>3. CASE ctrl' = Append(c, b)
    <3>1. /\ Advanced \in Seq(Level) /\ ~returning /\ ~brk
          /\ Left(Advanced) \in Seq({Remaining(x) : x \in Level})
      BY <2>1, OperationNested, LeftSeq
    <3>2. prog[Operand.fun] \in Seq(Node)
      <4>1. Operand.fun \in Fun BY <2>1, OperationStep DEF Operation, CallOps
      <4>2. prog \in [Fun -> Seq(Node)] BY ProgramAssumption DEF IInv, Flags
      <4> QED BY <4>1, <4>2
    <3>3. Remaining(a) = Meant!Called(Operand.op) BY <2>1, CalledMeant
    <3>4. Remaining(b) = Meant!Nodes(prog[Operand.fun]) BY <3>2, BlockMeant DEF Body
    <3> HIDE DEF a, b
    <3>5. c \in Seq(Level \union {a}) BY <3>1, SeqMonotonic, AppendProperties
    <3>6. Left(c) = Append(Left(Advanced), Meant!Called(Operand.op)) BY <3>1, <3>3, LeftPush
    <3> HIDE DEF c
    <3>7. Left(ctrl') = Append(Left(c), Meant!Nodes(prog[Operand.fun]))
      BY <2>3, <3>4, <3>5, LeftPush
    <3>8. Left(ctrl') = Left(Advanced) \o << Meant!Called(Operand.op),
                                            Meant!Nodes(prog[Operand.fun]) >>
      BY <3>1, <3>6, <3>7, AppendTwo
    <3>9. ctrl' # <<>>
      <4>1. b \in {b} /\ c \in Seq(Level \union {a} \union {b}) BY <3>5, SeqMonotonic
      <4> QED BY <4>1, <2>3, AppendProperties
    <3>10. Operand.op # "fatal" /\ Acts
      BY <2>1 DEF CallOps, Meant!Act
    <3>11. MeantStack' = Left(ctrl') BY <2>1, <3>1, MappingAfter
    <3>12. Meant!Next BY <2>1, <3>8, <3>9, <3>10, <3>11, OperationMeant
    <3> QED BY <3>12
  <2> QED BY <1>5, <2>2, <2>3 DEF EvaluateCall
<1>6. CASE SkipCall BY <1>6 DEF SkipCall, CallAllowed
<1>7. CASE EvaluateUnary
  <2>1. AtOperation({"unary"}) /\ Operand.op = "unary" /\ ctrl' = Advanced
    BY <1>7 DEF EvaluateUnary, AtOperation
  <2>2. Quiet /\ Acts BY <1>7, <2>1, OperationNested DEF EvaluateUnary, Meant!Act
  <2>3. MeantStack' = Left(Advanced) BY <2>1, <2>2, MappingAfter
  <2>4. Operand.op # "fatal" /\ Operand.op \notin CallOps BY <2>1 DEF CallOps
  <2>5. Meant!Next BY <2>1, <2>2, <2>3, <2>4, OperationMeant
  <2> QED BY <2>5
<1>8. CASE EndInfix \/ EndDeclaration
  <2>1. /\ Running({"eval"}) /\ Evaluated /\ Top.goal \in {"infix", "decl"} /\ ctrl' = Below
        /\ UNCHANGED <<prog, returning, brk, fatal, acts>>
    BY <1>8 DEF EndInfix, EndDeclaration
  <2>2. MeantStack' = Meant!Rest /\ MeantOutcome' = MeantOutcome
    BY <2>1, ExpressionEnds, MappingAfter
  <2>3. Meant!EndExpression BY <2>1, <2>2, ExpressionEnds DEF Meant!EndExpression
  <2> QED BY <2>1, <2>3 DEF Meant!Next, Meant!Step
<1>9. CASE EndReturn
  <2>1. /\ Running({"eval"}) /\ Evaluated /\ Top.goal = "return" /\ ctrl' = Below
        /\ returning' /\ UNCHANGED <<prog, fatal, acts>>
    BY <1>9 DEF EndReturn
  <2>2. MeantStack' = EndOfCall(Meant!Rest) /\ MeantOutcome' = MeantOutcome
    BY <2>1, ExpressionEnds, MappingAfter
  <2>3. EndOfCall(Meant!Rest) = Meant!EndOfCall(Meant!Rest)
    BY DEF EndOfCall, Meant!EndOfCall, Innermost, Meant!Innermost, CallOps, Meant!CallOps
  <2>4. Meant!EndExpression BY <2>1, <2>2, <2>3, ExpressionEnds DEF Meant!EndExpression
  <2> QED BY <2>1, <2>4 DEF Meant!Next, Meant!Step
<1>10. CASE EndCondition
  <2>1. /\ Running({"eval"}) /\ Evaluated /\ Top.goal = "cond"
        /\ UNCHANGED <<prog, returning, brk, fatal, acts>>
    BY <1>10 DEF EndCondition
  <2>2. PICK value \in {"true", "false"} :
          ctrl' = [Below EXCEPT ![Len(Below)] = [@ EXCEPT !.stage = value]]
    BY <1>10 DEF EndCondition
  <2> DEFINE m == Below[Len(Below)]
             l == [m EXCEPT !.stage = value]
             r == Meant!Rest
  <2>3. /\ Meant!Ready({"eval"}) /\ Meant!Last.rest = <<>> /\ Meant!Last.goal = "cond"
        /\ r = Left(Below) /\ MeantOutcome = "none"
        /\ Below \in Seq(Level) /\ Below # <<>> /\ ~returning /\ ~brk
    BY <2>1, ExpressionEnds
  <2>4. m \in IfLevel \union LoopLevel /\ m \in Level
    BY <2>1, EvalEnds, LevelKinds
  <2>5. ctrl' = LastIs(Below, l) BY <2>2 DEF LastIs
  <2>6. /\ Len(r) = Len(Below) /\ r[Len(Below)] = Remaining(m)
    <3>1. Len(Below) \in 1 .. Len(Below) BY <2>3, NonEmpty, Positions
    <3>2. Len(r) = Len(Below) BY <2>3, LeftSeq
    <3> QED BY <2>3, <3>1, <3>2 DEF Left
  <2>7. Remaining(l) = [Remaining(m) EXCEPT !.stage = value]
    <3>1. CASE m \in IfLevel
      <4>1. l.kind = "if" /\ l.node = m.node /\ l.pc = m.pc /\ l.stage = value BY <3>1 DEF IfLevel
      <4>2. m.kind = "if" BY <3>1 DEF IfLevel
      <4> HIDE DEF l, m
      <4>3. Remaining(m) = [kind |-> "if", node |-> m.node, pc |-> m.pc, stage |-> m.stage]
        BY <4>2 DEF Remaining, Loops, CallOps
      <4>4. Remaining(l) = [kind |-> "if", node |-> m.node, pc |-> m.pc, stage |-> value]
        BY <4>1 DEF Remaining, Loops, CallOps
      <4> QED BY <4>3, <4>4
    <3>2. CASE m \in LoopLevel
      <4>1. l.kind = m.kind /\ l.node = m.node /\ l.stage = value BY <3>2 DEF LoopLevel
      <4>2. m.kind \in Loops BY <3>2 DEF LoopLevel, Loops
      <4> HIDE DEF l, m
      <4>3. Remaining(m) = [kind |-> m.kind, node |-> m.node, stage |-> m.stage]
        BY <4>2 DEF Remaining, Loops, CallOps
      <4>4. Remaining(l) = [kind |-> m.kind, node |-> m.node, stage |-> value]
        BY <4>1, <4>2 DEF Remaining, Loops, CallOps
      <4> QED BY <4>3, <4>4
    <3> QED BY <2>4, <3>1, <3>2
  <2> HIDE DEF l, m
  <2>8. Left(ctrl') = LastIs(r, Remaining(l)) BY <2>3, <2>5, LeftLast
  <2>9. ctrl' # <<>> BY <2>1, <1>10 DEF EndCondition, IInv, Flags, Running
  <2>10. MeantStack' = Left(ctrl') /\ MeantOutcome' = MeantOutcome
    BY <2>1, <2>3, <2>9, MappingAfter
  <2>11. MeantStack' = [r EXCEPT ![Len(r)] = [@ EXCEPT !.stage = value]]
    BY <2>6, <2>7, <2>8, <2>10 DEF LastIs
  <2>12. Meant!EndExpression BY <2>1, <2>3, <2>10, <2>11 DEF Meant!EndExpression
  <2> QED BY <2>1, <2>12 DEF Meant!Next, Meant!Step
<1> QED BY <1>1, <1>2, <1>3, <1>4, <1>5, <1>6, <1>7, <1>8, <1>9, <1>10 DEF EvalStep

LEMMA BranchShown ==
  ASSUME IInv, JumpInv, IInv', ~fatal, BranchStep
  PROVE  Shown
<1> SUFFICES Meant!Next \/ UNCHANGED <<prog, MeantStack, acts, MeantOutcome>> BY DEF Shown
<1> DEFINE node == Top.node
           pc == Top.pc
           stage == Top.stage
           Open == /\ Meant!Ready({"if"}) /\ Meant!Last = Meant!Branch(node, pc, stage)
                   /\ Meant!Rest = Left(Below) /\ MeantOutcome = "none"
                   /\ \A l : Meant!Continue(Remaining(l)) = Left(Replaced(l))
                   /\ node \in Node /\ node.ifs \in Seq(ConditionalNodes) /\ Top \in IfLevel
<1>1. ASSUME Running({"if"}), ~returning, ~brk PROVE Open
  <2>1. status = "running" /\ Top.kind = "if" BY <1>1 DEF Running
  <2>2. Top \in IfLevel BY <2>1, Straight, LevelKinds
  <2>3. Remaining(Top) = Meant!Branch(node, pc, stage) BY <2>1, BranchMeant
  <2>4. /\ MeantStack # <<>> /\ MeantOutcome = "none"
        /\ Meant!Last = Remaining(Top) /\ Meant!Rest = Left(Below)
        /\ \A l : Meant!Continue(Remaining(l)) = Left(Replaced(l))
    BY <1>1, <2>1, Plainly
  <2>5. node \in Node /\ node.ifs \in Seq(ConditionalNodes) BY <2>2, NodeAssumption DEF IfLevel
  <2> HIDE DEF node, pc, stage
  <2>6. Meant!Ready({"if"}) BY <2>3, <2>4 DEF Meant!Ready, Meant!Branch
  <2> QED BY <2>2, <2>3, <2>4, <2>5, <2>6
<1>2. CASE NullCondition BY <1>2, Unseen DEF NullCondition, Shown
<1>3. CASE IfBody
  <2> DEFINE body == IF Top.stage = "true" THEN Top.node.ifs[Top.pc].body ELSE Top.node.body
             c == Stage("body")
             l == [Top EXCEPT !.stage = "body"]
  <2>1. /\ Running({"if"}) /\ Running(Loops \union {"if"}) /\ stage # "body"
        /\ \/ stage = "true"
           \/ stage = "false" /\ pc = Len(node.ifs)
        /\ ctrl' = Append(c, Block(body, Inner))
        /\ UNCHANGED <<prog, returning, brk, fatal, acts>>
    BY <1>3 DEF IfBody, AtStage, Running
  <2>2. "body" \in Stages BY DEF Stages
  <2>3. ~returning /\ ~brk /\ c \in Seq(Level) /\ c # <<>> BY <2>1, <2>2, StageNested
  <2>4. Open BY <2>1, <2>3, <1>1
  <2>5. body \in Seq(Node)
    <3>1. pc \in 1 .. Len(node.ifs) BY <2>4 DEF IfLevel
    <3>2. node.ifs[pc] \in ConditionalNodes BY <3>1, <2>4, ElementOfSeq
    <3> QED BY <3>2, <2>4, NodeAssumption DEF ConditionalNodes
  <2>6. l.kind = "if" /\ l.node = node /\ l.pc = pc /\ l.stage = "body" BY <2>4 DEF IfLevel
  <2>7. c = Replaced(l) BY DEF Stage
  <2>8. body = IF stage = "true" THEN node.ifs[pc].body ELSE node.body OBVIOUS
  <2> HIDE DEF body, c, l
  <2>9. Left(c) = Meant!Continue(Meant!Branch(node, pc, "body")) BY <2>4, <2>6, <2>7, BranchMeant
  <2>10. Left(ctrl') = Append(Left(c), Meant!Nodes(body))
    BY <2>1, <2>3, <2>5, LeftPush, BlockMeant
  <2>11. ctrl' # <<>> BY <2>1, <1>3 DEF IfBody, IInv, Flags, Running
  <2>12. MeantStack' = Append(Meant!Continue(Meant!Branch(node, pc, "body")), Meant!Nodes(body))
         /\ MeantOutcome' = MeantOutcome
    BY <2>1, <2>3, <2>4, <2>9, <2>10, <2>11, MappingAfter
  <2> HIDE DEF node, pc, stage
  <2>13. Meant!Last.stage = stage /\ Meant!Last.node = node /\ Meant!Last.pc = pc
    BY <2>4 DEF Meant!Branch
  <2>14. Meant!ChooseBranch
    BY <2>1, <2>4, <2>8, <2>12, <2>13 DEF Meant!ChooseBranch
  <2> QED BY <2>1, <2>14 DEF Meant!Next, Meant!Step
<1>4. CASE ElseIf
  <2> DEFINE l == [Top EXCEPT !.stage = "cond", !.pc = @ + 1]
             c == Replaced(l)
             e == Top.node.ifs[Top.pc + 1].cond
  <2>1. /\ Running({"if"}) /\ status = "running" /\ Top.kind = "if"
        /\ stage = "false" /\ pc < Len(node.ifs)
        /\ ctrl' = Append(c, Eval(Top.node, e, "cond", Here))
        /\ UNCHANGED <<prog, returning, brk, fatal, acts>>
    BY <1>4 DEF ElseIf, AtStage, Running
  <2>2. ~returning /\ ~brk /\ ctrl \in Seq(Level) /\ ctrl # <<>>
    BY <2>1, Straight DEF Underway
  <2>3. Open BY <2>1, <2>2, <1>1
  <2>4. e \in Expression /\ pc \in Nat
    <3>1. pc \in Nat /\ Len(node.ifs) \in Nat BY <2>3, LenProperties DEF IfLevel
    <3>2. pc + 1 \in 1 .. Len(node.ifs) BY <3>1, <2>1
    <3>3. node.ifs[pc + 1] \in ConditionalNodes BY <3>2, <2>3, ElementOfSeq
    <3> QED BY <3>1, <3>3 DEF ConditionalNodes
  <2>5. l.kind = "if" /\ l.node = node /\ l.pc = pc + 1 /\ l.stage = "cond" BY <2>3 DEF IfLevel
  <2>6. c \in Seq(Level \union {l})
    <3>1. ctrl \in Seq(Level \union {l}) BY <2>2, SeqMonotonic
    <3>2. Len(ctrl) \in 1 .. Len(ctrl) BY <2>2, NonEmpty, Positions
    <3> QED BY <3>1, <3>2, ExceptSeq DEF Replaced
  <2>7. e = node.ifs[pc + 1].cond OBVIOUS
  <2>8. Left(c) = Meant!Continue(Meant!Branch(node, pc + 1, "cond"))
    <3>1. Remaining(l) = Meant!Branch(l.node, l.pc, l.stage) BY <2>5, BranchMeant
    <3>2. Remaining(l) = Meant!Branch(node, pc + 1, "cond") BY <3>1, <2>5
    <3> QED BY <3>2, <2>3
  <2> HIDE DEF e, c, l
  <2>9. Left(ctrl') = Append(Left(c), Meant!Expr(node, e, "cond"))
    BY <2>1, <2>4, <2>6, LeftPush, EvalMeant
  <2>10. ctrl' # <<>> BY <2>1, <1>4 DEF ElseIf, IInv, Flags
  <2>11. /\ MeantStack' = Append(Meant!Continue(Meant!Branch(node, pc + 1, "cond")),
                                 Meant!Expr(node, e, "cond"))
         /\ MeantOutcome' = MeantOutcome
    BY <2>1, <2>2, <2>3, <2>8, <2>9, <2>10, MappingAfter
  <2> HIDE DEF node, pc, stage
  <2>12. Meant!Last.stage = stage /\ Meant!Last.node = node /\ Meant!Last.pc = pc
    BY <2>3 DEF Meant!Branch
  <2>13. pc # Len(node.ifs) BY <2>1, <2>3, <2>4, LenProperties
  <2>14. Meant!ChooseBranch
    BY <2>1, <2>3, <2>7, <2>11, <2>12, <2>13 DEF Meant!ChooseBranch
  <2> QED BY <2>1, <2>14 DEF Meant!Next, Meant!Step
<1>5. CASE LeaveIf
  <2>1. /\ Running({"if"}) /\ status = "running" /\ Top.kind = "if" /\ stage = "body"
        /\ ctrl' = ButLast(ctrl) /\ ctrl' = Below
        /\ UNCHANGED <<prog, returning, brk, fatal, acts>>
    BY <1>5 DEF LeaveIf, AtStage, Running, Below, ButLast
  <2>2. ctrl' # <<>> BY <2>1, <1>5 DEF LeaveIf, IInv, Flags
  <2>3. CASE returning \/ brk BY <2>1, <2>2, <2>3, ExitHidden DEF Shown
  <2>4. CASE ~returning /\ ~brk
    <3>1. Open BY <2>1, <2>4, <1>1
    <3>2. MeantStack' = Meant!Rest /\ MeantOutcome' = MeantOutcome
      BY <2>1, <2>2, <2>4, <3>1, MappingAfter
    <3> HIDE DEF node, pc, stage
    <3>3. Meant!Last.stage = "body" BY <2>1, <3>1 DEF Meant!Branch
    <3>4. Meant!ChooseBranch BY <2>1, <3>1, <3>2, <3>3 DEF Meant!ChooseBranch
    <3> QED BY <2>1, <3>4 DEF Meant!Next, Meant!Step
  <2> QED BY <2>3, <2>4
<1> QED BY <1>2, <1>3, <1>4, <1>5 DEF BranchStep

\* A loop that goes on, as the language sees it.
LEMMA LoopOpen ==
  ASSUME IInv, JumpInv, ~fatal, Running(Loops), ~returning, ~brk
  PROVE  /\ Meant!Ready(Meant!Loops) /\ Meant!Last.node = Top.node /\ Meant!Last.stage = Top.stage
         /\ Meant!Rest = Left(Below) /\ MeantOutcome = "none"
         /\ Top.node \in Node /\ Top.node.kind = Top.kind
         /\ \A stage \in Stages : Left(Stage(stage)) = Meant!Continue(Meant!Loop(Top.node, stage))
<1> DEFINE node == Top.node
           now == Top.stage
<1>1. status = "running" /\ Top.kind \in Loops BY DEF Running
<1>2. /\ ctrl # <<>> /\ Len(ctrl) \in 1 .. Len(ctrl)
      /\ Top \in LoopLevel /\ node \in Node
  BY <1>1, Straight, LevelKinds DEF LoopLevel
<1>3. node.kind = Top.kind BY <1>1, <1>2 DEF JumpInv, Nested, Proper, Top
<1>4. Remaining(Top) = Meant!Loop(node, now) BY <1>1, <1>3, LoopMeant
<1>5. /\ MeantStack # <<>> /\ MeantOutcome = "none"
      /\ Meant!Last = Remaining(Top) /\ Meant!Rest = Left(Below)
      /\ \A l : Meant!Continue(Remaining(l)) = Left(Replaced(l))
  BY <1>1, Plainly
<1>6. ASSUME NEW stage \in Stages
      PROVE  Left(Stage(stage)) = Meant!Continue(Meant!Loop(node, stage))
  <2> DEFINE l == [Top EXCEPT !.stage = stage]
  <2>1. l.kind = Top.kind /\ l.node = node /\ l.stage = stage BY <1>2 DEF LoopLevel
  <2>2. Stage(stage) = Replaced(l) BY DEF Stage
  <2> HIDE DEF l
  <2>3. Remaining(l) = Meant!Loop(l.node, l.stage) BY <1>1, <1>3, <2>1, LoopMeant
  <2>4. Remaining(l) = Meant!Loop(node, stage) BY <2>1, <2>3
  <2> QED BY <1>5, <2>2, <2>4
<1>7. node = Top.node /\ now = Top.stage OBVIOUS
<1> HIDE DEF node, now
<1>8. /\ Meant!Last.kind = node.kind /\ Meant!Last.node = node /\ Meant!Last.stage = now
  BY <1>4, <1>5 DEF Meant!Loop
<1>9. Meant!Ready(Meant!Loops) BY <1>1, <1>3, <1>5, <1>8 DEF Meant!Ready, Meant!Loops, Loops
<1> QED BY <1>2, <1>3, <1>5, <1>6, <1>7, <1>8, <1>9

LEMMA ConditionMeant ==
  ASSUME IInv, JumpInv, ~fatal, Running(Loops), ~returning, ~brk, CheckCondition
  PROVE  Left(ctrl') = Meant!Test(Top.node)
<1> DEFINE node == Top.node
<1>1. /\ node \in Node /\ node.kind = Top.kind
      /\ \A stage \in Stages : Left(Stage(stage)) = Meant!Continue(Meant!Loop(node, stage))
  BY LoopOpen
<1>2. "true" \in Stages /\ "cond" \in Stages /\ Running(Loops \union {"if"})
  BY DEF Stages, Running
<1>3. CASE node.kind = "for" /\ ~node.hasExpr
  <2>1. ctrl' = Stage("true") BY <1>1, <1>3 DEF CheckCondition
  <2> QED BY <1>1, <1>2, <1>3, <2>1 DEF Meant!Test
<1>4. CASE ~(node.kind = "for" /\ ~node.hasExpr)
  <2> DEFINE c == Stage("cond")
             e == node.expr
  <2>1. ctrl' = Append(c, Eval(node, e, "cond", Here)) BY <1>1, <1>4 DEF CheckCondition
  <2>2. c \in Seq(Level) BY <1>2, StageNested
  <2>3. e \in Expression BY <1>1, NodeAssumption
  <2>4. Left(c) = Meant!Continue(Meant!Loop(node, "cond")) BY <1>1, <1>2
  <2>5. Meant!Test(node) = Append(Meant!Continue(Meant!Loop(node, "cond")), Meant!Expr(node, e, "cond"))
    BY <1>4 DEF Meant!Test
  <2> HIDE DEF c, e, node
  <2>6. Left(ctrl') = Append(Left(c), Meant!Expr(node, e, "cond"))
    BY <2>1, <2>2, <2>3, LeftPush, EvalMeant
  <2> QED BY <2>4, <2>5, <2>6 DEF node
<1> QED BY <1>3, <1>4

\* A loop of the language goes on.
LEMMA LoopGoesOn ==
  ASSUME IInv, JumpInv, ~fatal, Running(Loops), ~returning, ~brk,
         ctrl' # <<>>, UNCHANGED <<prog, returning, brk, fatal, acts>>,
         LET n == Top.node
             went == Left(ctrl')
         IN \/ Top.stage = "true" /\ went = Append(Meant!Continue(Meant!Loop(n, "body")),
                                                   Meant!Nodes(n.body))
            \/ Top.stage = "false" /\ went = Left(Below)
            \/ Top.stage = "iteration" /\ went = Meant!Test(n)
            \/ /\ Top.stage = "init"
               /\ went = IF n.init = <<>> THEN Meant!Test(n)
                         ELSE Meant!Start(n.init[1], Meant!Continue(Meant!Loop(n, "iteration")))
            \/ /\ Top.stage = "body"
               /\ went = IF n.kind = "for" /\ n.iteration # <<>>
                         THEN Append(Meant!Continue(Meant!Loop(n, "iteration")),
                                     Meant!Expr(n, n.iteration, "infix"))
                         ELSE Meant!Test(n)
  PROVE  Shown
<1> DEFINE n == Top.node
           stage == Top.stage
<1>1. /\ Meant!Ready(Meant!Loops) /\ Meant!Last.node = n /\ Meant!Last.stage = stage
      /\ Meant!Rest = Left(Below) /\ MeantOutcome = "none"
  BY LoopOpen
<1>2. MeantStack' = Left(ctrl') /\ MeantOutcome' = "none" BY MappingAfter
<1>3. Meant!Iterate
  <2>1. CASE stage = "true" BY <1>1, <1>2, <2>1 DEF Meant!Iterate
  <2>2. CASE stage = "false" BY <1>1, <1>2, <2>2 DEF Meant!Iterate
  <2>3. CASE stage = "iteration" BY <1>1, <1>2, <2>3 DEF Meant!Iterate
  <2>4. CASE stage = "init" BY <1>1, <1>2, <2>4 DEF Meant!Iterate
  <2>5. CASE stage = "body" BY <1>1, <1>2, <2>5 DEF Meant!Iterate
  <2> QED BY <2>1, <2>2, <2>3, <2>4, <2>5
<1> QED BY <1>3 DEF Shown, Meant!Next, Meant!Step

LEMMA LoopShown ==
  ASSUME IInv, JumpInv, IInv', ~fatal, LoopStep
  PROVE  Shown
<1> DEFINE n == Top.node
<1>1. /\ Running(Loops) /\ Running(Loops \union {"if"}) /\ status = "running" /\ Top.kind \in Loops
      /\ UNCHANGED <<prog, returning, fatal, acts>> /\ status' = "running"
  BY DEF LoopStep, ForInit, ForCondition, LoopBody, LoopFalse, LeaveLoop, LoopAgain,
         AtStage, Running, Loops
<1>2. ctrl' # <<>> BY <1>1 DEF IInv, Flags
<1>3. ctrl \in Seq(Level) /\ ctrl # <<>> BY <1>1, Straight
<1>4. ASSUME ~returning, ~brk
      PROVE  /\ n \in Node /\ n.kind = Top.kind
             /\ \A stage \in Stages : Left(Stage(stage)) = Meant!Continue(Meant!Loop(n, stage))
  BY <1>1, <1>4, LoopOpen
<1>5. CASE ForInit
  <2> DEFINE c == Stage("iteration")
             i == n.init[1]
  <2>1. /\ Top.stage = "init" /\ Top.stage # "body" /\ n.init # <<>>
        /\ UNCHANGED brk
        /\ IF i.kind = "decl" /\ ~i.hasExpr
           THEN ctrl' = c
           ELSE ctrl' = Append(c, Eval(i, i.expr, i.kind, Here))
    BY <1>5 DEF ForInit, AtStage
  <2>2. "iteration" \in Stages BY DEF Stages
  <2>3. ~returning /\ ~brk /\ c \in Seq(Level) BY <1>1, <2>1, <2>2, StageNested
  <2>4. Left(c) = Meant!Continue(Meant!Loop(n, "iteration")) BY <1>4, <2>2, <2>3
  <2>5. i \in Node /\ i.kind \in {"infix", "decl"} /\ i.expr \in Expression
    <3>1. n.init \in Seq(Node) BY <1>4, <2>3, NodeAssumption
    <3>2. 1 \in 1 .. Len(n.init) BY <2>1, <3>1, NonEmpty, Positions
    <3>3. i \in Node BY <3>1, <3>2, ElementOfSeq
    <3>4. i.kind \in {"infix", "decl"} BY <1>4, <2>3, <3>2, NodeAssumption
    <3> QED BY <3>3, <3>4, NodeAssumption
  <2>6. Left(ctrl') = Meant!Start(i, Meant!Continue(Meant!Loop(n, "iteration")))
    <3> HIDE DEF c, i, n
    <3>1. CASE i.kind = "decl" /\ ~i.hasExpr BY <2>1, <2>4, <3>1, Starting
    <3>2. CASE ~(i.kind = "decl" /\ ~i.hasExpr)
      <4>1. ctrl' = Append(c, Eval(i, i.expr, i.kind, Here)) BY <2>1, <3>2
      <4>2. Left(ctrl') = Append(Left(c), Remaining(Eval(i, i.expr, i.kind, Here)))
        BY <2>3, <4>1, LeftPush
      <4>3. Remaining(Eval(i, i.expr, i.kind, Here)) = Meant!Expr(i, i.expr, i.kind)
        <5> DEFINE e == i.expr
                   k == i.kind
        <5>1. e \in Expression BY <2>5
        <5> HIDE DEF e, k
        <5>2. Remaining(Eval(i, e, k, Here)) = Meant!Expr(i, e, k) BY <5>1, EvalMeant
        <5> QED BY <5>2 DEF e, k
      <4>4. Left(ctrl') = Append(Left(c), Meant!Expr(i, i.expr, i.kind)) BY <4>2, <4>3
      <4> QED BY <2>4, <2>5, <3>2, <4>4, Starting
    <3> QED BY <3>1, <3>2
  <2> QED BY <1>1, <1>2, <2>1, <2>3, <2>6, LoopGoesOn
<1>6. CASE ForCondition
  <2>1. /\ CheckCondition /\ UNCHANGED brk /\ Top.stage # "body"
        /\ \/ Top.stage = "iteration"
           \/ Top.stage = "init" /\ n.init = <<>>
    <3>1. CheckCondition /\ UNCHANGED brk BY <1>6 DEF ForCondition
    <3>2. \/ Top.stage = "iteration"
          \/ Top.stage = "init" /\ n.init = <<>>
      BY <1>6 DEF ForCondition, AtStage
    <3> QED BY <3>1, <3>2
  <2>2. "true" \in Stages BY DEF Stages
  <2>3. ~returning /\ ~brk BY <1>1, <2>1, <2>2, StageNested
  <2>4. Left(ctrl') = Meant!Test(n) BY <1>1, <2>1, <2>3, ConditionMeant
  <2> QED BY <1>1, <1>2, <2>1, <2>3, <2>4, LoopGoesOn
<1>7. CASE LoopBody
  <2> DEFINE c == Stage("body")
             body == n.body
  <2>1. /\ Top.stage = "true" /\ Top.stage # "body" /\ UNCHANGED brk
        /\ ctrl' = Append(c, Block(body, Inner))
    BY <1>7 DEF LoopBody, AtStage
  <2>2. "body" \in Stages BY DEF Stages
  <2>3. ~returning /\ ~brk /\ c \in Seq(Level) BY <1>1, <2>1, <2>2, StageNested
  <2>4. Left(c) = Meant!Continue(Meant!Loop(n, "body")) BY <1>4, <2>2, <2>3
  <2>5. body \in Seq(Node) BY <1>4, <2>3, NodeAssumption
  <2>6. Left(ctrl') = Append(Left(c), Meant!Nodes(body))
    <3> HIDE DEF c, body
    <3> QED BY <2>1, <2>3, <2>5, LeftPush, BlockMeant
  <2>7. Left(ctrl') = Append(Meant!Continue(Meant!Loop(n, "body")), Meant!Nodes(n.body))
    BY <2>4, <2>6
  <2> QED BY <1>1, <1>2, <2>1, <2>3, <2>7, LoopGoesOn
<1>8. CASE LoopFalse
  <2>1. Top.stage = "false" /\ Top.stage # "body" /\ UNCHANGED brk /\ ctrl' = Below
    BY <1>8 DEF LoopFalse, AtStage, EndLoop
  <2>2. "true" \in Stages BY DEF Stages
  <2>3. ~returning /\ ~brk BY <1>1, <2>1, <2>2, StageNested
  <2> QED BY <1>1, <1>2, <2>1, <2>3, LoopGoesOn
<1>9. CASE LeaveLoop
  <2>1. /\ ctrl' = ButLast(ctrl) /\ (returning \/ brk) /\ brk' = BreakAfterLoop
    BY <1>9 DEF LeaveLoop, EndLoop, LoopLeft, Below, ButLast
  <2>2. ~brk' BY <2>1 DEF BreakAfterLoop, JumpInv, Unwinding
  <2>3. ctrl[Len(ctrl)].kind \in Loops /\ ctrl[Len(ctrl)].kind \notin CallOps
    BY <1>1 DEF Top, Loops, CallOps
  <2>4. MeantStack' = MeantStack
    <3>1. CASE returning
      <4>1. EndOfCall(Left(ctrl')) = EndOfCall(Left(ctrl))
        BY <1>3, <2>1, <2>3, ReturnLeaves DEF JumpInv
      <4> QED BY <1>1, <3>1, <4>1, Mapping, MappingAfter
    <3>2. CASE ~returning
      <4>1. OutOfLoop(Left(ctrl)) = Left(ctrl') BY <1>3, <2>1, <2>3, JumpArrives
      <4>2. MeantStack = OutOfLoop(Left(ctrl)) BY <2>1, <3>2, Mapping
      <4>3. MeantStack' = Left(ctrl') BY <1>1, <2>2, <3>2, MappingAfter
      <4> QED BY <4>1, <4>2, <4>3
    <3> QED BY <3>1, <3>2
  <2>5. MeantOutcome' = MeantOutcome BY <1>1, <1>2, <1>3, Mapping, MappingAfter
  <2> QED BY <1>1, <2>4, <2>5 DEF Shown
<1>10. CASE LoopAgain
  <2>1. Top.stage = "body" /\ ~returning /\ ~brk /\ UNCHANGED brk
    BY <1>10 DEF LoopAgain, AtStage, LoopLeft
  <2>2. n \in Node /\ n.kind = Top.kind BY <1>4, <2>1
  <2>3. CASE n.kind = "for" /\ n.iteration # <<>>
    <3> DEFINE c == Stage("iteration")
               e == n.iteration
    <3>1. ctrl' = Append(c, Eval(n, e, "infix", Here)) BY <1>10, <2>2, <2>3 DEF LoopAgain
    <3>2. "iteration" \in Stages BY DEF Stages
    <3>3. c \in Seq(Level) BY <1>1, <3>2, StageNested
    <3>4. Left(c) = Meant!Continue(Meant!Loop(n, "iteration")) BY <1>4, <2>1, <3>2
    <3>5. e \in Expression BY <2>2, NodeAssumption
    <3>6. Left(ctrl') = Append(Left(c), Meant!Expr(n, e, "infix"))
      <4> HIDE DEF c, e, n
      <4> QED BY <3>1, <3>3, <3>5, LeftPush, EvalMeant
    <3>7. Left(ctrl') = Append(Meant!Continue(Meant!Loop(n, "iteration")),
                               Meant!Expr(n, n.iteration, "infix"))
      BY <3>4, <3>6
    <3> QED BY <1>1, <1>2, <2>1, <2>3, <3>7, LoopGoesOn
  <2>4. CASE ~(n.kind = "for" /\ n.iteration # <<>>)
    <3>1. CheckCondition BY <1>10, <2>2, <2>4 DEF LoopAgain
    <3>2. Left(ctrl') = Meant!Test(n) BY <1>1, <2>1, <3>1, ConditionMeant
    <3> QED BY <1>1, <1>2, <2>1, <2>4, <3>2, LoopGoesOn
  <2> QED BY <2>3, <2>4
<1> QED BY <1>5, <1>6, <1>7, <1>8, <1>9, <1>10 DEF LoopStep

\* The end of a call takes the returned value away and goes on below.
LEMMA FunctionShown ==
  ASSUME IInv, JumpInv, IInv', ~fatal, LeaveFunction
  PROVE  Shown
<1>1. /\ status = "running" /\ Top.kind \in CallOps /\ ctrl' = ButLast(ctrl)
      /\ ~returning' /\ ~fatal' /\ UNCHANGED <<prog, brk, acts>>
  BY DEF LeaveFunction, Running, Below, ButLast
<1>2. ctrl \in Seq(Level) /\ ctrl # <<>> /\ Top \in Level BY <1>1, Straight
<1>3. Len(ctrl) \in 1 .. Len(ctrl) BY <1>2, NonEmpty, Positions
<1>4. ~brk
  <2> SUFFICES ASSUME brk PROVE FALSE OBVIOUS
  <2>1. PICK k \in 1 .. Len(ctrl) :
          /\ ctrl[k].kind \in Loops
          /\ \A j \in k + 1 .. Len(ctrl) : ctrl[j].kind \in {"block", "if"}
    BY DEF JumpInv, Unwinding, InLoop
  <2>2. k = Len(ctrl) \/ Len(ctrl) \in k + 1 .. Len(ctrl) BY <1>3
  <2> QED BY <1>1, <2>1, <2>2 DEF Top, Loops, CallOps
<1>5. MeantStack = Left(ctrl)
  <2>1. ctrl[Len(ctrl)].kind \in CallOps BY <1>1 DEF Top
  <2>2. EndOfCall(Left(ctrl)) = Left(ctrl) BY <1>2, <2>1, JumpArrives
  <2> QED BY <1>4, <2>2, Mapping
<1>6. MeantStack # <<>> /\ Len(MeantStack) = Len(ctrl)
  <2>1. Left(ctrl) # <<>> BY <1>2, LeftSeq
  <2>2. Len(Left(ctrl)) = Len(ctrl) BY <1>2, LeftSeq
  <2> QED BY <1>5, <2>1, <2>2
<1>7. Meant!Last.kind \in CallOps
  <2>1. Left(ctrl)[Len(ctrl)] = Remaining(Top) BY <1>3 DEF Left, Top
  <2>2. Meant!Last = Remaining(Top) BY <1>5, <1>6, <2>1 DEF Meant!Last
  <2> QED BY <1>1, <1>2, <2>2, RemainingKind
<1>8. Meant!Rest = Left(ctrl')
  <2>1. Meant!Rest = ButLast(Left(ctrl)) BY <1>5 DEF Meant!Rest, ButLast
  <2> QED BY <1>1, <1>2, <2>1, LeftPop
<1>9. MeantOutcome = "none" /\ MeantStack' = Left(ctrl')
      /\ MeantOutcome' = IF ctrl' = <<>> THEN "value" ELSE "none"
  BY <1>1, <1>2, <1>4, Mapping, MappingAfter
<1>10. Left(ctrl') = <<>> <=> ctrl' = <<>>
  <2>1. ctrl' \in Seq(Level) BY <1>1, <1>2, ButLastOf
  <2> QED BY <2>1, LeftSeq
<1>11. Meant!Return
  <2>1. Meant!Ready(Meant!CallOps) BY <1>6, <1>7 DEF Meant!Ready, Meant!CallOps, CallOps
  <2> QED BY <1>1, <1>8, <1>9, <1>10, <2>1 DEF Meant!Return
<1> QED BY <1>1, <1>11 DEF Shown, Meant!Next, Meant!Step

\* After a fatal error nothing that the interpreter still does is part of the program.
LEMMA FatalHidden ==
  ASSUME fatal, Step
  PROVE  Shown
<1>1. fatal' /\ UNCHANGED <<prog, acts>>
  <2>1. CASE BlockStep
    BY <2>1 DEF BlockStep, ExecuteExpression, ExecuteDefaultDeclaration, ExecuteImplicitReturn,
                ExecuteBreak, ExecuteBlock, ExecuteOldScript, ExecuteIf, ExecuteWhile,
                ExecuteFor, LeaveBlock, ActOnFacade
  <2>2. CASE EvalStep
    BY <2>2 DEF EvalStep, EvaluateUse, EvaluateBuiltin, EvaluateFatal, EvaluateComponent,
                EvaluateCall, SkipCall, EvaluateUnary, EndInfix, EndReturn, EndDeclaration,
                EndCondition, ActOnFacade
  <2>3. CASE BranchStep BY <2>3 DEF BranchStep, NullCondition, IfBody, ElseIf, LeaveIf
  <2>4. CASE LoopStep
    BY <2>4 DEF LoopStep, ForInit, ForCondition, LoopBody, LoopFalse, LeaveLoop, LoopAgain
  <2>5. CASE LeaveFunction BY <2>5 DEF LeaveFunction
  <2> QED BY <2>1, <2>2, <2>3, <2>4, <2>5 DEF Step
<1> QED BY <1>1, Mapping, MappingAfter DEF Shown

\* The interpreter starts where the language starts.
LEMMA StartMeant ==
  ASSUME Init
  PROVE  Meant!Init
<1>1. /\ prog \in Programs /\ ~returning /\ ~brk /\ ~fatal /\ acts = FALSE
      /\ ctrl = << Called("call", 1), Body(Main, 1) >>
  BY DEF Init
<1> DEFINE a == Called("call", 1)
           b == Block(prog[Main], [frame |-> 1, height |-> 2])
<1>2. Remaining(a) = Meant!Called("call")
  <2>1. "call" \in CallOps BY DEF CallOps
  <2> QED BY <2>1, CalledMeant
<1>3. Remaining(b) = Meant!Nodes(prog[Main])
  <2>1. prog[Main] \in Seq(Node) BY <1>1, ProgramAssumption
  <2> QED BY <2>1, BlockMeant
<1>4. ctrl = <<a, b>> BY <1>1 DEF Body
<1> HIDE DEF a, b
<1>5. Len(ctrl) = 2 /\ ctrl[1] = a /\ ctrl[2] = b /\ ctrl # <<>> BY <1>4
<1>6. Left(ctrl) = << Remaining(a), Remaining(b) >>
  <2> DEFINE S == {Remaining(x) : x \in {a, b}}
             l == Left(ctrl)
             m == << Remaining(a), Remaining(b) >>
  <2>1. ctrl \in Seq({a, b}) BY <1>4
  <2>2. l \in Seq(S) /\ Len(l) = 2 BY <1>5, <2>1, LeftSeq
  <2>3. 1 \in 1 .. 2 /\ 2 \in 1 .. 2 /\ \A i \in 1 .. 2 : i = 1 \/ i = 2 OBVIOUS
  <2>4. \A i \in 1 .. 2 : l[i] = Remaining(ctrl[i]) BY <1>5, <2>1, LeftSeq
  <2>5. l[1] = Remaining(a) /\ l[2] = Remaining(b) BY <1>5, <2>3, <2>4
  <2>6. Remaining(a) \in S /\ Remaining(b) \in S OBVIOUS
  <2> HIDE DEF S, l
  <2>7. m \in Seq(S) /\ Len(m) = 2 /\ m[1] = Remaining(a) /\ m[2] = Remaining(b) BY <2>6
  <2> HIDE DEF m
  <2>8. \A i \in 1 .. 2 : l[i] = m[i] BY <2>3, <2>5, <2>7
  <2>9. l = m BY <2>2, <2>7, <2>8, SeqEqual
  <2> QED BY <2>9 DEF l, m
<1>7. MeantStack = << Meant!Called("call"), Meant!Nodes(prog[Main]) >>
  BY <1>1, <1>2, <1>3, <1>6, Mapping
<1>8. MeantOutcome = "none" BY <1>1, <1>5, Mapping
<1> QED BY <1>1, <1>7, <1>8 DEF Meant!Init
----------------------------------------------------------------------------
\* Three flags looked at by every activation on its way out are as good as
\* jumps: whatever the program, a run of the interpreter is a run of the
\* structured semantics, act by act on CMake, with the same outcome.
THEOREM FlagsAreJumps == Spec => ImplementsStructuredControl
<1>1. Init => Meant!Init BY StartMeant
<1>2. IInv /\ JumpInv /\ IInv' /\ [Next]_vars => Shown
  <2> SUFFICES ASSUME IInv, JumpInv, IInv', [Next]_vars PROVE Shown OBVIOUS
  <2>1. CASE UNCHANGED vars BY <2>1, Unseen DEF vars
  <2>2. CASE Step /\ fatal BY <2>2, FatalHidden
  <2>3. CASE Step /\ ~fatal
    BY <2>3, BlockShown, EvalShown, BranchShown, LoopShown, FunctionShown DEF Step
  <2> QED BY <2>1, <2>2, <2>3 DEF Next, Stopped
<1>3. IInv /\ JumpInv /\ IInv' /\ [Next]_vars
        => [Meant!Next]_<<prog, MeantStack, acts, MeantOutcome>>
  BY <1>2 DEF Shown
<1> QED BY <1>1, <1>3, JumpsInductive, PTL DEF Spec, ImplementsStructuredControl, Meant!Spec
====
