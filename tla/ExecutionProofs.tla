---- MODULE ExecutionProofs ----
(***************************************************************************)
(* Execution keeps m_callstack in step with the activations of the         *)
(* interpreter, for every program and every depth of recursion, and        *)
(* m_function_return_value and m_breaking_from_loop unwind the activations *)
(* as far as the jump goes and no further.                                 *)
(***************************************************************************)
EXTENDS Execution, SequenceTheorems, FiniteSetTheorems, TLAPS

\* How an activation stands on the one that started it.
Fits(outer, inner) ==
  \/ /\ inner.kind = "block"
     /\ outer.kind \in CallOps \union Loops \union {"block", "if"}
     /\ inner.at = [frame |-> outer.at.frame, height |-> outer.at.height + 1]
  \/ /\ inner.kind = "for" /\ outer.kind = "block"
     /\ inner.at = [frame |-> outer.at.frame, height |-> outer.at.height + 1]
  \/ inner.kind \in {"if", "while"} /\ outer.kind = "block" /\ inner.at = outer.at
  \/ /\ inner.kind = "eval" /\ outer.kind \in Loops \union {"block", "if"}
     /\ inner.at = outer.at
     /\ inner.goal = "cond" => outer.kind # "block"
  \/ /\ inner.kind \in CallOps /\ outer.kind = "eval"
     /\ inner.at = [frame |-> outer.at.frame + 1, height |-> 1]

\* A call leaves the frame of its caller as it found it.
Suspended(c, fs) ==
  \A i \in 1 .. Len(c) - 1 :
    c[i + 1].kind \in CallOps => Len(fs[c[i].at.frame]) = c[i].at.height

Stacked(c) ==
  /\ c # <<>> => c[1].kind \in CallOps /\ c[1].at = [frame |-> 1, height |-> 1]
  /\ \A i \in 1 .. Len(c) - 1 : Fits(c[i], c[i + 1])
  /\ \A i, j \in 1 .. Len(c) : i <= j => c[i].at.frame <= c[j].at.frame

OnTop(c, fs) ==
  /\ (c = <<>>) <=> (fs = <<>>)
  /\ c # <<>> => c[Len(c)].at = [frame |-> Len(fs), height |-> Len(fs[Len(fs)])]

\* The part of the state the invariant is about: the activations c, the frames
\* fs and the number d of directories entered.
Good(c, fs, d) ==
  /\ c \in Seq(Level)
  /\ fs \in Seq(Seq(SUBSET Var))
  /\ d \in Nat
  /\ Stacked(c) /\ Suspended(c, fs) /\ OnTop(c, fs)
  /\ d = Cardinality(Subdirectories(c))

Flags ==
  /\ prog \in Programs
  /\ returning \in BOOLEAN /\ brk \in BOOLEAN /\ fatal \in BOOLEAN
  /\ acts \in BOOLEAN /\ late \in BOOLEAN
  /\ status \in {"running", "done", "crashed", "overflow"}
  /\ status = "running" => ctrl # <<>>

IInv == Flags /\ Good(ctrl, frames, dirs)
----------------------------------------------------------------------------
\* What is known of a level from its kind.
LEMMA LevelKinds ==
  ASSUME NEW l \in Level
  PROVE  /\ l.at \in Where
         /\ l.kind \in {"block", "eval", "if"} \union Loops \union CallOps
         /\ l.kind = "block" => l \in BlockLevel
         /\ l.kind = "eval" => l \in EvalLevel
         /\ l.kind = "if" => l \in IfLevel
         /\ l.kind \in Loops => l \in LoopLevel
         /\ l.kind \in CallOps => l \in CallLevel
BY DEF Level, BlockLevel, EvalLevel, IfLevel, LoopLevel, CallLevel, Loops, CallOps, Where

\* The directories entered, when activations come and go.
LEMMA SubdirectoriesFinite ==
  ASSUME NEW c \in Seq(Level)
  PROVE  IsFiniteSet(Subdirectories(c)) /\ Cardinality(Subdirectories(c)) \in Nat
<1>1. Len(c) \in Nat OBVIOUS
<1>2. IsFiniteSet(1 .. Len(c)) BY <1>1, FS_Interval
<1>3. Subdirectories(c) \in SUBSET (1 .. Len(c)) BY DEF Subdirectories
<1>4. IsFiniteSet(Subdirectories(c)) BY <1>2, <1>3, FS_Subset
<1> QED BY <1>4, FS_CardinalityType

LastIs(s, x) == [s EXCEPT ![Len(s)] = x]

\* The innermost activation goes on: what it stands on and where it runs stay.
LEMMA Replace ==
  ASSUME NEW c, NEW fs, NEW d, Good(c, fs, d), c # <<>>,
         NEW l \in Level, l.kind = c[Len(c)].kind, l.at = c[Len(c)].at,
         l.kind = "eval" => l.goal = c[Len(c)].goal
  PROVE  /\ Good(LastIs(c, l), fs, d) /\ LastIs(c, l) # <<>>
         /\ LastIs(c, l)[Len(LastIs(c, l))] = l
<1> DEFINE e == LastIs(c, l)
<1>1. c \in Seq(Level) /\ Len(c) \in 1 .. Len(c) BY EmptySeq, LenProperties DEF Good
<1>2. /\ e \in Seq(Level) /\ Len(e) = Len(c)
      /\ \A i \in 1 .. Len(c) : e[i] = IF i = Len(c) THEN l ELSE c[i]
  BY <1>1, ExceptSeq DEF LastIs
<1> HIDE DEF e
<1>3. e # <<>> BY <1>1, <1>2
<1>4. \A i \in 1 .. Len(c) : /\ e[i].kind = c[i].kind /\ e[i].at = c[i].at
                             /\ e[i].kind = "eval" => e[i].goal = c[i].goal
  BY <1>2
<1>5. Stacked(e)
  <2>1. e[1].kind \in CallOps /\ e[1].at = [frame |-> 1, height |-> 1]
    BY <1>1, <1>2, <1>4 DEF Good, Stacked
  <2>2. \A i \in 1 .. Len(e) - 1 : Fits(e[i], e[i + 1])
    <3> SUFFICES ASSUME NEW i \in 1 .. Len(e) - 1 PROVE Fits(e[i], e[i + 1]) OBVIOUS
    <3>1. i \in 1 .. Len(c) /\ i + 1 \in 1 .. Len(c) /\ i \in 1 .. Len(c) - 1 BY <1>1, <1>2
    <3>2. Fits(c[i], c[i + 1]) BY <3>1 DEF Good, Stacked
    <3>3. /\ e[i].kind = c[i].kind /\ e[i].at = c[i].at
          /\ e[i + 1].kind = c[i + 1].kind /\ e[i + 1].at = c[i + 1].at
          /\ e[i + 1].kind = "eval" => e[i + 1].goal = c[i + 1].goal
      BY <1>4, <3>1
    <3> QED BY <3>2, <3>3 DEF Fits
  <2>3. \A i, j \in 1 .. Len(e) : i <= j => e[i].at.frame <= e[j].at.frame
    BY <1>2, <1>4 DEF Good, Stacked
  <2> QED BY <2>1, <2>2, <2>3 DEF Stacked
<1>6. Suspended(e, fs)
  <2> SUFFICES ASSUME NEW i \in 1 .. Len(e) - 1, e[i + 1].kind \in CallOps
               PROVE  Len(fs[e[i].at.frame]) = e[i].at.height
    BY DEF Suspended
  <2>1. i \in 1 .. Len(c) /\ i + 1 \in 1 .. Len(c) /\ i \in 1 .. Len(c) - 1 BY <1>1, <1>2
  <2>2. c[i + 1].kind \in CallOps BY <1>4, <2>1
  <2>3. e[i].at = c[i].at BY <1>4, <2>1
  <2> QED BY <2>1, <2>2, <2>3 DEF Good, Suspended
<1>7. OnTop(e, fs) BY <1>1, <1>2, <1>3 DEF Good, OnTop
<1>8. Subdirectories(e) = Subdirectories(c) BY <1>2, <1>4 DEF Subdirectories
<1>9. Good(e, fs, d) BY <1>2, <1>5, <1>6, <1>7, <1>8 DEF Good
<1> QED BY <1>1, <1>2, <1>3, <1>9 DEF e

\* A change of the innermost scopes of the innermost frame disturbs nothing
\* that is suspended.
LEMMA SuspendedElsewhere ==
  ASSUME NEW c, NEW fs, NEW d, Good(c, fs, d),
         NEW gs, Len(gs) >= Len(fs),
         \A f \in 1 .. Len(fs) - 1 : gs[f] = fs[f]
  PROVE  Suspended(c, gs)
<1> SUFFICES ASSUME NEW i \in 1 .. Len(c) - 1, c[i + 1].kind \in CallOps
             PROVE  Len(gs[c[i].at.frame]) = c[i].at.height
  BY DEF Suspended
<1>1. c \in Seq(Level) /\ Len(c) \in Nat /\ fs \in Seq(Seq(SUBSET Var)) /\ Len(fs) \in Nat
  BY LenProperties DEF Good
<1>2. i \in 1 .. Len(c) /\ i + 1 \in 1 .. Len(c) /\ Len(c) \in 1 .. Len(c) BY <1>1
<1>3. c[i] \in Level /\ c[i + 1] \in Level /\ c[Len(c)] \in Level BY <1>1, <1>2, ElementOfSeq
<1>4. c[i].at \in Where BY <1>3, LevelKinds
<1>5. c[i + 1].at.frame = c[i].at.frame + 1
  <2>1. Fits(c[i], c[i + 1]) BY DEF Good, Stacked
  <2>2. c[i + 1].kind \notin {"block", "for", "if", "while", "eval"} BY DEF CallOps
  <2>3. c[i + 1].at = [frame |-> c[i].at.frame + 1, height |-> 1] BY <2>1, <2>2 DEF Fits
  <2> QED BY <2>3
<1>6. c[i + 1].at.frame <= Len(fs)
  BY <1>2 DEF Good, Stacked, OnTop
<1>7. c[i].at.frame >= 1 BY <1>2 DEF Good, Stacked
<1>8. c[i].at.frame \in 1 .. Len(fs) - 1 BY <1>1, <1>4, <1>5, <1>6, <1>7 DEF Where
<1>9. Len(fs[c[i].at.frame]) = c[i].at.height BY DEF Good, Suspended
<1> QED BY <1>8, <1>9

\* A new activation is started by the innermost one.
LEMMA Push ==
  ASSUME NEW c, NEW fs, NEW d, Good(c, fs, d), c # <<>>,
         NEW l \in Level, Fits(c[Len(c)], l),
         NEW gs \in Seq(Seq(SUBSET Var)), gs # <<>>, Len(gs) >= Len(fs),
         \A f \in 1 .. Len(fs) - 1 : gs[f] = fs[f],
         l.kind \in CallOps => Len(gs[c[Len(c)].at.frame]) = c[Len(c)].at.height,
         l.at = [frame |-> Len(gs), height |-> Len(gs[Len(gs)])]
  PROVE  /\ Good(Append(c, l), gs, IF l.kind = "subdir" THEN d + 1 ELSE d)
         /\ Append(c, l) # <<>>
         /\ Len(Append(c, l)) = Len(c) + 1
         /\ Append(c, l)[Len(c) + 1] = l
<1> DEFINE e == Append(c, l)
           n == Len(c)
<1>1. c \in Seq(Level) /\ n \in Nat /\ n \in 1 .. n /\ fs \in Seq(Seq(SUBSET Var))
  BY EmptySeq, LenProperties DEF Good
<1>2. /\ e \in Seq(Level) /\ Len(e) = n + 1 /\ e # <<>>
      /\ \A i \in 1 .. n : e[i] = c[i]
      /\ e[n + 1] = l
  <2>1. e \in Seq(Level) /\ Len(e) = n + 1 /\ e # <<>>
    <3>1. e \in Seq(Level) BY <1>1, AppendProperties
    <3>2. Len(e) = n + 1 BY <1>1, AppendProperties
    <3>3. e # <<>> BY ZenonT(30), <1>1, AppendProperties
    <3> QED BY <3>1, <3>2, <3>3
  <2>2. \A i \in 1 .. n : e[i] = c[i] BY <1>1, AppendProperties
  <2>3. e[n + 1] = l BY <1>1, AppendProperties
  <2> QED BY <2>1, <2>2, <2>3
<1> HIDE DEF e
<1>3. \A i \in 1 .. n : c[i] \in Level /\ c[i].at \in Where
  BY <1>1, LevelKinds, ElementOfSeq
<1>4. l.at \in Where BY LevelKinds
<1>5. c[n].at.frame <= l.at.frame
  <2>1. c[n].at.frame \in Nat BY <1>1, <1>3 DEF Where
  <2>2. l.at = c[n].at \/ l.at.frame = c[n].at.frame \/ l.at.frame = c[n].at.frame + 1
    BY DEF Fits
  <2> QED BY <2>1, <2>2
<1>6. Stacked(e)
  <2>1. e[1].kind \in CallOps /\ e[1].at = [frame |-> 1, height |-> 1]
    BY <1>1, <1>2 DEF Good, Stacked
  <2>2. ASSUME NEW i \in 1 .. Len(e) - 1 PROVE Fits(e[i], e[i + 1])
    <3>1. i \in 1 .. n BY <1>1, <1>2
    <3>2. CASE i = n BY <3>2, <1>1, <1>2
    <3>3. CASE i # n
      <4>1. i \in 1 .. n - 1 /\ i + 1 \in 1 .. n BY <1>1, <3>1, <3>3
      <4> QED BY <4>1, <3>1, <1>2 DEF Good, Stacked
    <3> QED BY <3>2, <3>3
  <2>3. ASSUME NEW i \in 1 .. Len(e), NEW j \in 1 .. Len(e), i <= j
        PROVE  e[i].at.frame <= e[j].at.frame
    <3>1. CASE j # n + 1
      <4>1. i \in 1 .. n /\ j \in 1 .. n BY <1>1, <1>2, <2>3, <3>1
      <4> QED BY <4>1, <1>2, <2>3 DEF Good, Stacked
    <3>2. CASE j = n + 1 /\ i # n + 1
      <4>1. i \in 1 .. n /\ i <= n BY <1>1, <1>2, <3>2
      <4>2. c[i].at.frame <= c[n].at.frame BY <4>1, <1>1 DEF Good, Stacked
      <4>3. e[i] = c[i] /\ e[j] = l BY <4>1, <3>2, <1>2
      <4>4. /\ c[i].at.frame \in Nat /\ c[n].at.frame \in Nat /\ l.at.frame \in Nat
        BY <4>1, <1>1, <1>3, <1>4 DEF Where
      <4> QED BY SMTT(30), <4>2, <4>3, <4>4, <1>5
    <3>3. CASE j = n + 1 /\ i = n + 1
      <4>1. l.at.frame \in Nat BY <1>4 DEF Where
      <4>2. e[i] = l /\ e[j] = l BY <3>3, <1>2
      <4> QED BY <4>1, <4>2
    <3> QED BY <3>1, <3>2, <3>3
  <2> QED BY <2>1, <2>2, <2>3 DEF Stacked
<1>7. Suspended(e, gs)
  <2>1. Suspended(c, gs) BY SuspendedElsewhere
  <2> SUFFICES ASSUME NEW i \in 1 .. Len(e) - 1, e[i + 1].kind \in CallOps
               PROVE  Len(gs[e[i].at.frame]) = e[i].at.height
    BY DEF Suspended
  <2>2. i \in 1 .. n BY <1>1, <1>2
  <2>3. CASE i = n BY <2>2, <2>3, <1>1, <1>2
  <2>4. CASE i # n
    <3>1. i \in 1 .. n - 1 /\ i + 1 \in 1 .. n BY <1>1, <2>2, <2>4
    <3> QED BY <3>1, <2>1, <2>2, <1>2 DEF Suspended
  <2> QED BY <2>3, <2>4
<1>8. OnTop(e, gs) BY <1>2 DEF OnTop
<1>9. IF l.kind = "subdir"
      THEN Subdirectories(e) = Subdirectories(c) \union {n + 1}
      ELSE Subdirectories(e) = Subdirectories(c)
  BY <1>1, <1>2 DEF Subdirectories
<1>10. n + 1 \notin Subdirectories(c) BY <1>1 DEF Subdirectories
<1>11. IsFiniteSet(Subdirectories(c)) /\ d = Cardinality(Subdirectories(c)) /\ d \in Nat
  BY <1>1, SubdirectoriesFinite DEF Good
<1>12. Cardinality(Subdirectories(e)) = IF l.kind = "subdir" THEN d + 1 ELSE d
  BY <1>9, <1>10, <1>11, FS_AddElement
<1>13. Good(e, gs, IF l.kind = "subdir" THEN d + 1 ELSE d)
  BY <1>2, <1>6, <1>7, <1>8, <1>11, <1>12 DEF Good
<1> QED BY <1>2, <1>13 DEF e

ButLast(s) == SubSeq(s, 1, Len(s) - 1)

\* The innermost activation ends: what is common to the ways of ending.
LEMMA PopStack ==
  ASSUME NEW c, NEW fs, NEW d, Good(c, fs, d), c # <<>>,
         NEW b, b = ButLast(c)
  PROVE  /\ b \in Seq(Level) /\ Len(b) = Len(c) - 1
         /\ \A i \in 1 .. Len(c) - 1 : b[i] = c[i]
         /\ Stacked(b) /\ Suspended(b, fs)
         /\ Cardinality(Subdirectories(b)) = IF c[Len(c)].kind = "subdir" THEN d - 1 ELSE d
         /\ Cardinality(Subdirectories(b)) \in Nat
<1> DEFINE n == Len(c)
<1>1. c \in Seq(Level) /\ n \in Nat /\ n \in 1 .. n BY EmptySeq, LenProperties DEF Good
<1>2. \A i \in 1 .. n - 1 : c[i] \in Level BY <1>1, ElementOfSeq
<1>3. b \in Seq(Level) /\ Len(b) = n - 1 /\ \A i \in 1 .. n - 1 : b[i] = c[i]
  <2>1. b \in Seq(Level) /\ Len(b) = IF 1 <= n - 1 THEN (n - 1) - 1 + 1 ELSE 0
    BY <1>1, <1>2, SubSeqProperties DEF ButLast
  <2>2. \A i \in 1 .. (n - 1) - 1 + 1 : b[i] = c[1 + i - 1]
    BY <1>1, <1>2, SubSeqProperties DEF ButLast
  <2>3. Len(b) = n - 1
    <3> HIDE DEF n
    <3>1. n >= 1 /\ n \in Nat BY <1>1
    <3>2. 1 <= n - 1 => Len(b) = n - 1 BY <2>1, <3>1
    <3>3. ~(1 <= n - 1) => n - 1 = 0 BY <3>1
    <3> QED BY <2>1, <3>2, <3>3
  <2>4. \A i \in 1 .. n - 1 : i \in 1 .. (n - 1) - 1 + 1 /\ 1 + i - 1 = i BY <1>1
  <2>5. \A i \in 1 .. n - 1 : b[i] = c[i] BY <2>2, <2>4
  <2> QED BY <2>1, <2>3, <2>5
<1>4. Stacked(b)
  <2>1. b # <<>> => b[1] = c[1]
    <3> SUFFICES ASSUME b # <<>> PROVE b[1] = c[1] OBVIOUS
    <3>1. Len(b) # 0 BY <1>3, EmptySeq
    <3>2. 1 \in 1 .. n - 1 BY <3>1, <1>1, <1>3
    <3> QED BY <3>2, <1>3
  <2>2. \A i \in 1 .. Len(b) - 1 : Fits(b[i], b[i + 1])
    <3> SUFFICES ASSUME NEW i \in 1 .. Len(b) - 1 PROVE Fits(b[i], b[i + 1]) OBVIOUS
    <3>1. i \in 1 .. n - 1 /\ i + 1 \in 1 .. n - 1 BY <1>1, <1>3
    <3> QED BY <3>1, <1>3 DEF Good, Stacked
  <2>3. \A i, j \in 1 .. Len(b) : i <= j => b[i].at.frame <= b[j].at.frame
    <3>1. \A i \in 1 .. Len(b) : i \in 1 .. n /\ b[i] = c[i] BY <1>1, <1>3
    <3> QED BY <3>1 DEF Good, Stacked
  <2> QED BY <2>1, <2>2, <2>3 DEF Good, Stacked
<1>5. Suspended(b, fs)
  <2> SUFFICES ASSUME NEW i \in 1 .. Len(b) - 1, b[i + 1].kind \in CallOps
               PROVE  Len(fs[b[i].at.frame]) = b[i].at.height
    BY DEF Suspended
  <2>1. i \in 1 .. n - 1 /\ i + 1 \in 1 .. n - 1 BY <1>1, <1>3
  <2> QED BY <2>1, <1>3 DEF Good, Suspended
<1>6. IF c[n].kind = "subdir"
      THEN Subdirectories(b) = Subdirectories(c) \ {n} /\ n \in Subdirectories(c)
      ELSE Subdirectories(b) = Subdirectories(c)
  BY <1>1, <1>3 DEF Subdirectories
<1>7. IsFiniteSet(Subdirectories(c)) /\ d = Cardinality(Subdirectories(c))
  BY <1>1, SubdirectoriesFinite DEF Good
<1>8. Cardinality(Subdirectories(b)) = IF c[n].kind = "subdir" THEN d - 1 ELSE d
  BY <1>6, <1>7, FS_RemoveElement
<1>9. Cardinality(Subdirectories(b)) \in Nat BY <1>3, SubdirectoriesFinite
<1> QED BY <1>3, <1>4, <1>5, <1>8, <1>9

\* Arithmetic of positions in a sequence.
LEMMA Between ==
  ASSUME NEW m \in Nat, NEW f \in Nat, NEW g \in Nat, 1 <= g, g <= f, f + 1 = m
  PROVE  m - 1 \in 1 .. m - 1 /\ m - 1 = f /\ m - 1 # 0 /\ g <= m - 1
OBVIOUS

LEMMA Positions ==
  ASSUME NEW n \in Nat, n # 0
  PROVE  /\ n \in 1 .. n /\ 1 \in 1 .. n
         /\ n # 1 => n - 1 \in 1 .. n - 1 /\ n - 1 \in 1 .. n /\ n - 1 + 1 = n /\ n - 1 # 0
         /\ IF 1 <= n - 1 THEN n - 1 - 1 + 1 = n - 1 ELSE n - 1 = 0
         /\ \A i \in 1 .. n - 1 : i \in 1 .. n /\ i + 1 \in 1 .. n /\ i \in 1 .. n - 1 - 1 + 1 /\ 1 + i - 1 = i
OBVIOUS

\* A sequence has no element only if it is the empty one.
LEMMA NonEmpty ==
  ASSUME NEW S, NEW s \in Seq(S)
  PROVE  Len(s) \in Nat /\ (s = <<>> <=> Len(s) = 0)
BY EmptySeq, LenProperties

\* There is an activation below every one that is not a call.
LEMMA Standing ==
  ASSUME NEW c, NEW fs, NEW d, Good(c, fs, d), c # <<>>, c[Len(c)].kind \notin CallOps
  PROVE  /\ Len(c) - 1 \in 1 .. Len(c) - 1 /\ Len(c) - 1 # 0
         /\ c[Len(c) - 1] \in Level
         /\ Fits(c[Len(c) - 1], c[Len(c)])
<1>1. c \in Seq(Level) /\ Len(c) \in Nat /\ Len(c) # 0 BY EmptySeq, LenProperties DEF Good
<1>2. c[1].kind \in CallOps BY DEF Good, Stacked
<1>3. Len(c) # 1 BY <1>2
<1>4. /\ Len(c) - 1 \in 1 .. Len(c) - 1 /\ Len(c) - 1 # 0
      /\ Len(c) - 1 \in 1 .. Len(c)
  BY <1>1, <1>3, Positions
<1>5. Fits(c[Len(c) - 1], c[Len(c) - 1 + 1]) BY <1>4 DEF Good, Stacked
<1>6. Len(c) - 1 + 1 = Len(c) BY <1>1
<1> QED BY <1>1, <1>4, <1>5, <1>6, ElementOfSeq

\* The innermost frame keeps its scopes; what they hold may change.
LEMMA Declare ==
  ASSUME NEW c, NEW fs, NEW d, Good(c, fs, d), c # <<>>,
         NEW gs \in Seq(Seq(SUBSET Var)), Len(gs) = Len(fs),
         \A f \in 1 .. Len(fs) - 1 : gs[f] = fs[f],
         Len(gs[Len(fs)]) = Len(fs[Len(fs)])
  PROVE  Good(c, gs, d)
<1>1. Len(fs) \in Nat /\ Len(gs) \in Nat BY LenProperties DEF Good
<1>2. Suspended(c, gs)
  <2>1. Len(gs) >= Len(fs) BY <1>1
  <2> QED BY <2>1, SuspendedElsewhere
<1>3. fs # <<>> /\ fs \in Seq(Seq(SUBSET Var)) BY DEF Good, OnTop
<1>4. Len(fs) # 0 BY <1>3, EmptySeq
<1>5. gs # <<>> BY <1>4, EmptySeq
<1>6. OnTop(c, gs) BY <1>5 DEF Good, OnTop
<1> QED BY <1>2, <1>6 DEF Good

\* The end of a block or of a for: its scope goes with it.
ScopeLeft(fs, at) == [fs EXCEPT ![at.frame] = SubSeq(@, 1, Len(@) - 1)]
LEMMA PopScope ==
  ASSUME NEW c, NEW fs, NEW d, Good(c, fs, d), c # <<>>,
         c[Len(c)].kind \in {"block", "for"},
         NEW b, b = ButLast(c),
         NEW gs, gs = ScopeLeft(fs, c[Len(c)].at)
  PROVE  Good(b, gs, d) /\ b # <<>>
<1> DEFINE n == Len(c)
           m == Len(fs)
           top == SubSeq(fs[m], 1, Len(fs[m]) - 1)
<1>1. c \in Seq(Level) /\ n \in Nat /\ fs \in Seq(Seq(SUBSET Var)) /\ m \in Nat
  BY LenProperties DEF Good
<1>2. /\ n - 1 \in 1 .. n - 1 /\ n - 1 # 0 /\ c[n - 1] \in Level /\ Fits(c[n - 1], c[n])
  BY Standing DEF CallOps
<1>3. c[n - 1].at \in Where BY <1>2, LevelKinds
<1>4. c[n].at = [frame |-> c[n - 1].at.frame, height |-> c[n - 1].at.height + 1]
  BY <1>2 DEF Fits, CallOps
<1>5. c[n].at = [frame |-> m, height |-> Len(fs[m])] /\ m # 0
  BY <1>1, EmptySeq DEF Good, OnTop
<1>6. c[n - 1].at.frame = m /\ c[n - 1].at.height + 1 = Len(fs[m])
  BY <1>4, <1>5
<1>7. m \in 1 .. m /\ fs[m] \in Seq(SUBSET Var) BY <1>1, <1>5, ElementOfSeq
<1>8. Len(fs[m]) \in Nat BY <1>7, LenProperties
<1>9. top \in Seq(SUBSET Var) /\ Len(top) = c[n - 1].at.height
  <2>1. c[n - 1].at.height \in Nat BY <1>3 DEF Where
  <2>2. Len(fs[m]) - 1 = c[n - 1].at.height BY <2>1, <1>6, <1>8
  <2>3. \A i \in 1 .. Len(fs[m]) - 1 : fs[m][i] \in SUBSET Var BY <1>7, <1>8, ElementOfSeq
  <2>4. top \in Seq(SUBSET Var) BY <2>3, <1>8, SubSeqProperties
  <2>5. Len(top) = IF 1 <= Len(fs[m]) - 1 THEN Len(fs[m]) - 1 - 1 + 1 ELSE 0
    BY <2>3, <1>8, SubSeqProperties
  <2> QED BY <2>1, <2>2, <2>4, <2>5
<1> HIDE DEF top
<1>10. gs = [fs EXCEPT ![m] = top]
  <2>1. c[n].at.frame = m BY <1>5
  <2> QED BY <2>1 DEF top, ScopeLeft
<1>11. /\ gs \in Seq(Seq(SUBSET Var)) /\ Len(gs) = m
       /\ \A i \in 1 .. m : gs[i] = IF i = m THEN top ELSE fs[i]
  <2>1. gs \in Seq(Seq(SUBSET Var)) /\ Len(gs) = m
    BY <1>1, <1>7, <1>9, <1>10, ExceptSeq
  <2>2. \A i \in 1 .. m : gs[i] = IF i = m THEN top ELSE fs[i]
    BY <1>1, <1>7, <1>9, <1>10, ExceptSeq
  <2> QED BY <2>1, <2>2
<1>12. gs # <<>> BY <1>5, <1>11, EmptySeq
<1>13. /\ b \in Seq(Level) /\ Len(b) = n - 1
       /\ \A i \in 1 .. n - 1 : b[i] = c[i]
       /\ Stacked(b)
       /\ Cardinality(Subdirectories(b)) = d
  BY PopStack
<1>14. b # <<>> BY <1>1, <1>2, <1>13, NonEmpty
<1>15. Suspended(c, gs)
  <2>1. Len(gs) >= Len(fs) BY <1>1, <1>11
  <2>2. \A f \in 1 .. m - 1 : f \in 1 .. m /\ f # m BY <1>1
  <2>3. \A f \in 1 .. Len(fs) - 1 : gs[f] = fs[f] BY <2>2, <1>11
  <2> QED BY <2>1, <2>3, <1>11, SuspendedElsewhere
<1>16. Suspended(b, gs)
  <2> SUFFICES ASSUME NEW i \in 1 .. Len(b) - 1, b[i + 1].kind \in CallOps
               PROVE  Len(gs[b[i].at.frame]) = b[i].at.height
    BY DEF Suspended
  <2>1. i \in 1 .. n - 1 /\ i + 1 \in 1 .. n - 1 BY <1>1, <1>13
  <2> QED BY <2>1, <1>13, <1>15 DEF Suspended
<1>17. OnTop(b, gs)
  <2>1. b[Len(b)] = c[n - 1] BY <1>2, <1>13
  <2>2. gs[Len(gs)] = top BY <1>7, <1>11
  <2>3. c[n - 1].at = [frame |-> m, height |-> c[n - 1].at.height]
    BY <1>3, <1>6 DEF Where
  <2> QED BY <2>1, <2>2, <2>3, <1>9, <1>11, <1>12, <1>14 DEF OnTop
<1> QED BY <1>11, <1>13, <1>14, <1>16, <1>17 DEF Good

\* The end of an activation with no scope of its own.
LEMMA PopPlain ==
  ASSUME NEW c, NEW fs, NEW d, Good(c, fs, d), c # <<>>,
         c[Len(c)].kind \in {"if", "while", "eval"},
         NEW b, b = ButLast(c)
  PROVE  Good(b, fs, d) /\ b # <<>> /\ Len(b) \in 1 .. Len(b) /\ Fits(b[Len(b)], c[Len(c)])
<1> DEFINE n == Len(c)
<1>1. c \in Seq(Level) /\ n \in Nat BY LenProperties DEF Good
<1>2. n - 1 \in 1 .. n - 1 /\ n - 1 # 0 /\ Fits(c[n - 1], c[n]) BY Standing DEF CallOps
<1>3. c[n].at = c[n - 1].at BY <1>2 DEF Fits, CallOps
<1>4. /\ b \in Seq(Level) /\ Len(b) = n - 1
      /\ \A i \in 1 .. n - 1 : b[i] = c[i]
      /\ Stacked(b) /\ Suspended(b, fs)
      /\ Cardinality(Subdirectories(b)) = d
  BY PopStack
<1>5. b # <<>> BY <1>1, <1>2, <1>4, NonEmpty
<1>6. b[Len(b)] = c[n - 1] BY <1>2, <1>4
<1>7. OnTop(b, fs) BY <1>3, <1>5, <1>6 DEF Good, OnTop
<1>8. Good(b, fs, d) BY <1>4, <1>7 DEF Good
<1> QED BY <1>2, <1>4, <1>5, <1>6, <1>8

\* The end of a call: its frame goes, and the frame of the caller is as it was.
LEMMA PopCall ==
  ASSUME NEW c, NEW fs, NEW d, Good(c, fs, d), c # <<>>, c[Len(c)].kind \in CallOps,
         NEW b, b = ButLast(c),
         NEW gs, gs = ButLast(fs)
  PROVE  Good(b, gs, IF c[Len(c)].kind = "subdir" THEN d - 1 ELSE d)
<1> DEFINE n == Len(c)
           m == Len(fs)
           e == IF c[n].kind = "subdir" THEN d - 1 ELSE d
<1>1. c \in Seq(Level) /\ n \in Nat /\ n # 0 /\ fs \in Seq(Seq(SUBSET Var)) /\ m \in Nat
  BY EmptySeq, LenProperties DEF Good
<1>2. m # 0 BY <1>1, EmptySeq DEF Good, OnTop
<1>3. /\ gs \in Seq(Seq(SUBSET Var)) /\ Len(gs) = m - 1
      /\ \A i \in 1 .. m - 1 : gs[i] = fs[i]
  <2>1. \A i \in 1 .. m - 1 : fs[i] \in Seq(SUBSET Var) BY <1>1, ElementOfSeq
  <2>2. gs \in Seq(Seq(SUBSET Var)) BY <2>1, <1>1, SubSeqProperties DEF ButLast
  <2>3. Len(gs) = IF 1 <= m - 1 THEN m - 1 - 1 + 1 ELSE 0
    BY <2>1, <1>1, SubSeqProperties DEF ButLast
  <2>4. \A i \in 1 .. m - 1 - 1 + 1 : gs[i] = fs[1 + i - 1]
    BY <2>1, <1>1, SubSeqProperties DEF ButLast
  <2>5. \A i \in 1 .. m - 1 : i \in 1 .. m - 1 - 1 + 1 /\ 1 + i - 1 = i
    BY <1>1, <1>2, Positions
  <2>6. Len(gs) = m - 1 BY <2>3, <1>1, <1>2, Positions
  <2>7. \A i \in 1 .. m - 1 : gs[i] = fs[i] BY <2>4, <2>5
  <2> QED BY <2>2, <2>6, <2>7
<1>4. /\ b \in Seq(Level) /\ Len(b) = n - 1
      /\ \A i \in 1 .. n - 1 : b[i] = c[i]
      /\ Stacked(b) /\ Suspended(b, fs)
      /\ Cardinality(Subdirectories(b)) = e /\ e \in Nat
  <2>1. /\ b \in Seq(Level) /\ Len(b) = n - 1
        /\ \A i \in 1 .. n - 1 : b[i] = c[i]
        /\ Stacked(b) /\ Suspended(b, fs)
    BY PopStack
  <2>2. Cardinality(Subdirectories(b)) = e /\ Cardinality(Subdirectories(b)) \in Nat
    BY PopStack
  <2> QED BY <2>1, <2>2
<1>5. c[n].at = [frame |-> m, height |-> Len(fs[m])] BY DEF Good, OnTop
<1>6. CASE n = 1
  <2>1. b = <<>> BY <1>4, <1>6, EmptySeq
  <2>2. m = 1 BY <1>5, <1>6 DEF Good, Stacked
  <2>3. gs = <<>> BY <1>3, <2>2, EmptySeq
  <2>4. Suspended(b, gs) BY <1>4, <1>6 DEF Suspended
  <2>5. OnTop(b, gs) BY <2>1, <2>3 DEF OnTop
  <2> QED BY <1>3, <1>4, <2>4, <2>5 DEF Good
<1>7. CASE n # 1
  <2>1. n - 1 \in 1 .. n - 1 /\ n - 1 \in 1 .. n /\ n - 1 + 1 = n /\ n - 1 # 0
    BY <1>1, <1>7, Positions
  <2>2. Fits(c[n - 1], c[n]) /\ Len(fs[c[n - 1].at.frame]) = c[n - 1].at.height
    BY <2>1 DEF Good, Stacked, Suspended
  <2>3. c[n].at = [frame |-> c[n - 1].at.frame + 1, height |-> 1]
    <3>1. c[n].kind \notin {"block", "for", "if", "while", "eval"} BY DEF CallOps
    <3> QED BY <2>2, <3>1 DEF Fits
  <2>4. c[n - 1] \in Level /\ c[n - 1].at \in Where BY <1>1, <2>1, ElementOfSeq, LevelKinds
  <2>5. c[n - 1].at.frame \in Nat /\ c[n - 1].at.frame + 1 = m
    BY <1>5, <2>3, <2>4 DEF Where
  <2>6. \A i \in 1 .. n - 1 : /\ c[i].at.frame \in Nat
                              /\ 1 <= c[i].at.frame /\ c[i].at.frame <= m - 1
    <3> SUFFICES ASSUME NEW i \in 1 .. n - 1
                 PROVE  /\ c[i].at.frame \in Nat
                        /\ 1 <= c[i].at.frame /\ c[i].at.frame <= m - 1
      OBVIOUS
    <3>1. i \in 1 .. n /\ 1 \in 1 .. n /\ 1 <= i /\ i <= n - 1 BY <1>1
    <3>2. c[i].at.frame \in Nat BY <1>1, <3>1, ElementOfSeq, LevelKinds DEF Where
    <3>3. c[i].at.frame <= c[n - 1].at.frame BY <2>1, <3>1 DEF Good, Stacked
    <3>4. c[1].at.frame <= c[i].at.frame /\ c[1].at.frame = 1
      BY <3>1 DEF Good, Stacked
    <3> QED BY SMTT(30), <3>2, <3>3, <3>4, <2>5, <1>1, Between
  <2>7. Suspended(b, gs)
    <3> SUFFICES ASSUME NEW i \in 1 .. Len(b) - 1, b[i + 1].kind \in CallOps
                 PROVE  Len(gs[b[i].at.frame]) = b[i].at.height
      BY DEF Suspended
    <3>1. i \in 1 .. n - 1 /\ b[i] = c[i] BY <1>1, <1>4
    <3>2. c[i].at.frame \in 1 .. m - 1 BY <3>1, <2>6, <1>1
    <3>3. Len(fs[b[i].at.frame]) = b[i].at.height BY <1>4 DEF Suspended
    <3> QED BY <3>1, <3>2, <3>3, <1>3
  <2>8. OnTop(b, gs)
    <3>1. b[Len(b)] = c[n - 1] BY <1>4, <2>1
    <3>2. b # <<>> BY <1>4, <2>1, NonEmpty
    <3>3. m - 1 \in 1 .. m - 1 /\ m - 1 = c[n - 1].at.frame /\ m - 1 # 0
      <4>1. 1 <= c[n - 1].at.frame BY <2>1, <2>6
      <4>2. m - 1 = c[n - 1].at.frame /\ m \in Nat BY <2>5, <1>1
      <4>3. m - 1 # 0
        <5>1. c[n - 1].at.frame # 0 BY <4>1
        <5> QED BY <5>1, <4>2
      <4> QED BY <4>1, <4>2, <4>3
    <3>4. gs # <<>> BY <1>3, <3>3, NonEmpty
    <3>5. gs[Len(gs)] = fs[c[n - 1].at.frame] BY <1>3, <3>3
    <3>6. c[n - 1].at = [frame |-> Len(gs), height |-> Len(gs[Len(gs)])]
      BY <3>3, <3>5, <2>2, <2>4, <1>3 DEF Where
    <3> QED BY <3>1, <3>2, <3>4, <3>6 DEF OnTop
  <2> QED BY <1>3, <1>4, <2>7, <2>8 DEF Good
<1> QED BY <1>6, <1>7
----------------------------------------------------------------------------
\* Where a running execution stands.
LEMMA Standpoint ==
  ASSUME IInv, status = "running"
  PROVE  /\ ctrl # <<>> /\ Top \in Level /\ Top.at = Here /\ Here \in Where
         /\ frames \in Seq(Seq(SUBSET Var)) /\ frames # <<>>
         /\ Len(frames) \in Nat /\ Len(frames) \in 1 .. Len(frames)
         /\ frames[Len(frames)] \in Seq(SUBSET Var)
         /\ Here = [frame |-> Len(frames), height |-> Len(frames[Len(frames)])]
<1>1. ctrl # <<>> /\ Good(ctrl, frames, dirs) BY DEF IInv, Flags
<1>2. ctrl \in Seq(Level) /\ frames \in Seq(Seq(SUBSET Var)) /\ frames # <<>>
  BY <1>1 DEF Good, OnTop
<1>3. /\ Len(ctrl) \in Nat /\ Len(ctrl) # 0 /\ Len(frames) \in Nat /\ Len(frames) # 0
  BY <1>1, <1>2, NonEmpty
<1>4. Len(ctrl) \in 1 .. Len(ctrl) /\ Len(frames) \in 1 .. Len(frames) BY <1>3, Positions
<1>5. Top \in Level /\ frames[Len(frames)] \in Seq(SUBSET Var)
  BY <1>2, <1>4, ElementOfSeq DEF Top
<1>6. Top.at = Here BY <1>1 DEF Good, OnTop, Top, Here
<1>7. Here \in Where BY <1>5, <1>6, LevelKinds
<1> QED BY <1>1, <1>2, <1>3, <1>4, <1>5, <1>6, <1>7 DEF Here

\* A node is started: the block has moved on, and the node is a proper one.
LEMMA NodeStep ==
  ASSUME IInv, NEW kinds, AtNode(kinds)
  PROVE  /\ status = "running" /\ TheNode \in Node /\ TheNode.kind \in kinds
         /\ Good(Stepped, frames, dirs) /\ Stepped # <<>>
         /\ Stepped[Len(Stepped)].kind = "block" /\ Stepped[Len(Stepped)].at = Here
<1>1. status = "running" /\ Top.kind = "block" /\ NodeReady /\ TheNode.kind \in kinds
  BY DEF AtNode, Running
<1>2. ctrl # <<>> /\ Top \in Level /\ Top.at = Here /\ Good(ctrl, frames, dirs)
  BY <1>1, Standpoint DEF IInv
<1>3. Top \in BlockLevel BY <1>1, <1>2, LevelKinds
<1>4. TheNode \in Node
  <2>1. Top.nodes \in Seq(Node) /\ Top.pc \in Nat /\ Top.pc < Len(Top.nodes)
    BY <1>1, <1>3 DEF BlockLevel, NodeReady
  <2>2. Len(Top.nodes) \in Nat BY <2>1, LenProperties
  <2>3. Top.pc + 1 \in 1 .. Len(Top.nodes) BY <2>1, <2>2
  <2> QED BY <2>1, <2>3, ElementOfSeq DEF TheNode
<1> DEFINE l == [Top EXCEPT !.pc = @ + 1]
<1>5. l \in BlockLevel /\ l.kind = Top.kind /\ l.at = Top.at BY <1>3 DEF BlockLevel
<1>6. l \in Level /\ l.kind # "eval" BY <1>1, <1>5 DEF Level
<1>7. Stepped = LastIs(ctrl, l) BY DEF Stepped, Replaced, LastIs
<1> HIDE DEF l
<1>8. /\ Good(Stepped, frames, dirs) /\ Stepped # <<>>
      /\ Stepped[Len(Stepped)] = l
  BY <1>2, <1>5, <1>6, <1>7, Replace DEF Top
<1> QED BY <1>1, <1>2, <1>4, <1>5, <1>8

\* An operation of an expression is done with.
LEMMA OperationStep ==
  ASSUME IInv, NEW ops, AtOperation(ops)
  PROVE  /\ status = "running" /\ Operand \in Operation /\ Operand.op \in ops
         /\ Good(Advanced, frames, dirs) /\ Advanced # <<>>
         /\ Advanced[Len(Advanced)].kind = "eval" /\ Advanced[Len(Advanced)].at = Here
<1>1. status = "running" /\ Top.kind = "eval" /\ Pending /\ Operand.op \in ops
  BY DEF AtOperation, Running
<1>2. ctrl # <<>> /\ Top \in Level /\ Top.at = Here /\ Good(ctrl, frames, dirs)
  BY <1>1, Standpoint DEF IInv
<1>3. Top \in EvalLevel BY <1>1, <1>2, LevelKinds
<1>4. Operand \in Operation
  <2>1. Top.expr \in Seq(Operation) /\ Top.pc \in Nat /\ Top.pc < Len(Top.expr)
    BY <1>1, <1>3 DEF EvalLevel, Expression, Pending
  <2>2. Len(Top.expr) \in Nat BY <2>1, LenProperties
  <2>3. Top.pc + 1 \in 1 .. Len(Top.expr) BY <2>1, <2>2
  <2> QED BY <2>1, <2>3, ElementOfSeq DEF Operand, Visited
<1> DEFINE l == [Top EXCEPT !.pc = @ + 1]
<1>5. l \in EvalLevel /\ l.kind = Top.kind /\ l.at = Top.at /\ l.goal = Top.goal
  BY <1>3 DEF EvalLevel
<1>6. l \in Level BY <1>5 DEF Level
<1>7. Advanced = LastIs(ctrl, l) BY DEF Advanced, Replaced, LastIs
<1> HIDE DEF l
<1>8. /\ Good(Advanced, frames, dirs) /\ Advanced # <<>>
      /\ Advanced[Len(Advanced)] = l
  BY <1>2, <1>5, <1>6, <1>7, Replace DEF Top
<1> QED BY <1>1, <1>2, <1>4, <1>5, <1>8

\* A branch or a loop moves to another stage.
LEMMA StageStep ==
  ASSUME IInv, Running(Loops \union {"if"}), NEW stage \in Stages
  PROVE  /\ Top \in IfLevel \union LoopLevel /\ Top.node \in Node
         /\ Good(Stage(stage), frames, dirs) /\ Stage(stage) # <<>>
         /\ Stage(stage)[Len(Stage(stage))].kind = Top.kind
         /\ Stage(stage)[Len(Stage(stage))].at = Here
<1>1. status = "running" /\ Top.kind \in Loops \union {"if"} BY DEF Running
<1>2. ctrl # <<>> /\ Top \in Level /\ Top.at = Here /\ Good(ctrl, frames, dirs)
  BY <1>1, Standpoint DEF IInv
<1>3. Top \in IfLevel \union LoopLevel BY <1>1, <1>2, LevelKinds
<1> DEFINE l == [Top EXCEPT !.stage = stage]
<1>4. l \in IfLevel \union LoopLevel /\ l.kind = Top.kind /\ l.at = Top.at /\ Top.node \in Node
  BY <1>3 DEF IfLevel, LoopLevel
<1>5. l \in Level /\ l.kind # "eval" BY <1>1, <1>4 DEF Level, Loops
<1>6. Stage(stage) = LastIs(ctrl, l) BY DEF Stage, Replaced, LastIs
<1> HIDE DEF l
<1>7. /\ Good(Stage(stage), frames, dirs) /\ Stage(stage) # <<>>
      /\ Stage(stage)[Len(Stage(stage))] = l
  BY <1>2, <1>4, <1>5, <1>6, Replace DEF Top
<1> QED BY <1>2, <1>3, <1>4, <1>7

\* An expression is evaluated on behalf of the innermost activation.
LEMMA PushEval ==
  ASSUME IInv, status = "running", NEW c, Good(c, frames, dirs), c # <<>>,
         c[Len(c)].kind \in Loops \union {"block", "if"}, c[Len(c)].at = Here,
         NEW n \in Node, NEW e \in Expression, NEW goal \in Goals,
         goal = "cond" => c[Len(c)].kind # "block"
  PROVE  Good(Append(c, Eval(n, e, goal, Here)), frames, dirs) /\ Append(c, Eval(n, e, goal, Here)) # <<>>
<1> DEFINE l == Eval(n, e, goal, Here)
<1>1. /\ frames \in Seq(Seq(SUBSET Var)) /\ frames # <<>> /\ Here \in Where /\ Len(frames) \in Nat
      /\ Here = [frame |-> Len(frames), height |-> Len(frames[Len(frames)])]
  BY Standpoint
<1>2. l \in EvalLevel /\ l.kind = "eval" /\ l.at = Here /\ l.goal = goal
  BY <1>1 DEF Eval, EvalLevel
<1> HIDE DEF l
<1>3. l \in Level BY <1>2 DEF Level
<1>4. Fits(c[Len(c)], l) BY <1>2 DEF Fits
<1>5. Len(frames) >= Len(frames) BY <1>1
<1>6. l.kind \notin CallOps /\ l.kind # "subdir" BY <1>2 DEF CallOps
<1>7. Good(Append(c, l), frames, dirs) /\ Append(c, l) # <<>>
  BY <1>1, <1>2, <1>3, <1>4, <1>5, <1>6, Push
<1> QED BY <1>7 DEF l

\* A scope opened in the innermost frame, and the activation that holds it.
LEMMA PushScope ==
  ASSUME IInv, status = "running", NEW c, Good(c, frames, dirs), c # <<>>, c[Len(c)].at = Here,
         NEW l \in Level, l.at = Inner,
         \/ l.kind = "block" /\ c[Len(c)].kind \in Loops \union {"block", "if"}
         \/ l.kind = "for" /\ c[Len(c)].kind = "block"
  PROVE  Good(Append(c, l), EnterScope, dirs) /\ Append(c, l) # <<>>
<1> DEFINE m == Len(frames)
           top == Append(frames[m], {})
<1>1. /\ frames \in Seq(Seq(SUBSET Var)) /\ m \in Nat /\ m \in 1 .. m
      /\ frames[m] \in Seq(SUBSET Var)
      /\ Here = [frame |-> m, height |-> Len(frames[m])]
  BY Standpoint
<1>2. top \in Seq(SUBSET Var) /\ Len(top) = Len(frames[m]) + 1
  <2>1. {} \in SUBSET Var OBVIOUS
  <2> QED BY <1>1, <2>1, AppendProperties
<1> HIDE DEF top
<1>3. EnterScope = LastIs(frames, top) BY DEF EnterScope, LastIs, top
<1>4. /\ EnterScope \in Seq(Seq(SUBSET Var)) /\ Len(EnterScope) = m
      /\ \A f \in 1 .. m : EnterScope[f] = IF f = m THEN top ELSE frames[f]
  BY <1>1, <1>2, <1>3, ExceptSeq DEF LastIs
<1>5. EnterScope # <<>> BY <1>1, <1>4, NonEmpty, Positions
<1>6. Inner = [frame |-> m, height |-> Len(frames[m]) + 1] BY <1>1 DEF Inner
<1>7. l.at = [frame |-> Len(EnterScope), height |-> Len(EnterScope[Len(EnterScope)])]
  BY <1>1, <1>2, <1>4, <1>6
<1>8. Len(EnterScope) >= Len(frames) BY <1>1, <1>4
<1>9. \A f \in 1 .. Len(frames) - 1 : EnterScope[f] = frames[f]
  <2>1. \A f \in 1 .. m - 1 : f \in 1 .. m /\ f # m BY <1>1
  <2> QED BY <2>1, <1>4
<1>10. l.kind \notin CallOps /\ l.kind # "subdir" BY DEF CallOps
<1>11. Fits(c[Len(c)], l) BY <1>1, <1>6 DEF Fits
<1> QED BY <1>4, <1>5, <1>7, <1>8, <1>9, <1>10, <1>11, Push

LEMMA InnerTyped ==
  ASSUME IInv, status = "running"
  PROVE  Inner \in Where
BY Standpoint DEF Inner, Where

LEMMA BlockTyped ==
  ASSUME IInv, status = "running", NEW body \in Seq(Node)
  PROVE  /\ Block(body, Inner) \in Level
         /\ Block(body, Inner).kind = "block" /\ Block(body, Inner).at = Inner
BY InnerTyped DEF Block, Level, BlockLevel

\* An activation that opens no scope.
LEMMA PushPlain ==
  ASSUME IInv, status = "running", NEW c, Good(c, frames, dirs), c # <<>>, c[Len(c)].at = Here,
         NEW l \in Level, l.at = Here, l.kind \in {"if", "while"}, c[Len(c)].kind = "block"
  PROVE  /\ Good(Append(c, l), frames, dirs) /\ Append(c, l) # <<>>
         /\ Append(c, l)[Len(Append(c, l))] = l
<1>1. /\ frames \in Seq(Seq(SUBSET Var)) /\ frames # <<>> /\ Len(frames) \in Nat
      /\ Here = [frame |-> Len(frames), height |-> Len(frames[Len(frames)])]
  BY Standpoint
<1>2. Fits(c[Len(c)], l) BY DEF Fits
<1>3. l.kind \notin CallOps /\ l.kind # "subdir" BY DEF CallOps
<1>4. Len(frames) >= Len(frames) BY <1>1
<1>5. l.at = [frame |-> Len(frames), height |-> Len(frames[Len(frames)])] BY <1>1
<1>6. Good(Append(c, l), frames, dirs) /\ Append(c, l) # <<>>
  BY <1>1, <1>2, <1>3, <1>4, <1>5, Push
<1>7. Append(c, l)[Len(Append(c, l))] = l BY AppendProperties DEF Good
<1> QED BY <1>6, <1>7

\* A variable declared in the innermost scope.
LEMMA DeclareStep ==
  ASSUME IInv, status = "running", NEW c, Good(c, frames, dirs), c # <<>>, NEW v \in Var
  PROVE  Good(c, AddVariable(v), dirs)
<1> DEFINE m == Len(frames)
           fm == frames[m]
           top == [fm EXCEPT ![Len(fm)] = @ \union {v}]
<1>1. /\ frames \in Seq(Seq(SUBSET Var)) /\ m \in Nat /\ m \in 1 .. m
      /\ fm \in Seq(SUBSET Var) /\ Len(fm) \in Nat
  BY Standpoint, LenProperties
<1>2. top \in Seq(SUBSET Var) /\ Len(top) = Len(fm)
  <2>1. CASE Len(fm) = 0
    <3>1. fm = <<>> BY <1>1, <2>1, NonEmpty
    <3>2. DOMAIN fm = 1 .. 0 /\ fm \in [1 .. 0 -> SUBSET Var] BY <1>1, <2>1, LenProperties
    <3>3. top = fm BY <3>2, <2>1
    <3> QED BY <3>3, <1>1
  <2>2. CASE Len(fm) # 0
    <3>1. Len(fm) \in 1 .. Len(fm) BY <1>1, <2>2, Positions
    <3>2. fm[Len(fm)] \union {v} \in SUBSET Var BY <1>1, <3>1, ElementOfSeq
    <3> HIDE DEF fm
    <3> QED BY <1>1, <3>1, <3>2, ExceptSeq
  <2> QED BY <2>1, <2>2
<1>3. AddVariable(v) = LastIs(frames, top) BY DEF AddVariable, LastIs
<1> HIDE DEF top
<1>4. /\ AddVariable(v) \in Seq(Seq(SUBSET Var)) /\ Len(AddVariable(v)) = m
      /\ \A f \in 1 .. m : AddVariable(v)[f] = IF f = m THEN top ELSE frames[f]
  BY <1>1, <1>2, <1>3, ExceptSeq DEF LastIs
<1>5. \A f \in 1 .. m - 1 : AddVariable(v)[f] = frames[f]
  <2>1. \A f \in 1 .. m - 1 : f \in 1 .. m /\ f # m BY <1>1
  <2> QED BY <2>1, <1>4
<1>6. Len(AddVariable(v)[m]) = Len(frames[m]) BY <1>1, <1>2, <1>4
<1> QED BY <1>4, <1>5, <1>6, Declare

\* An activation of a call, then the one of the body on top of it.
Directories(a, d) == IF a.kind = "subdir" THEN d + 1 ELSE d
LEMMA PushTwo ==
  ASSUME NEW c, NEW fs, NEW d, Good(c, fs, d), c # <<>>,
         NEW a \in Level, a.kind \in CallOps, Fits(c[Len(c)], a),
         NEW gs \in Seq(Seq(SUBSET Var)), gs # <<>>, Len(gs) >= Len(fs),
         \A f \in 1 .. Len(fs) - 1 : gs[f] = fs[f],
         Len(gs[c[Len(c)].at.frame]) = c[Len(c)].at.height,
         a.at = [frame |-> Len(gs), height |-> Len(gs[Len(gs)])],
         NEW b \in Level, b.kind = "block", Fits(a, b),
         NEW hs \in Seq(Seq(SUBSET Var)), hs # <<>>, Len(hs) >= Len(gs),
         \A f \in 1 .. Len(gs) - 1 : hs[f] = gs[f],
         b.at = [frame |-> Len(hs), height |-> Len(hs[Len(hs)])]
  PROVE  /\ Good(Append(Append(c, a), b), hs, Directories(a, d))
         /\ Append(Append(c, a), b) # <<>>
<1>1. Good(Append(c, a), gs, IF a.kind = "subdir" THEN d + 1 ELSE d) /\ Append(c, a) # <<>>
  BY Push
<1> DEFINE ca == Append(c, a)
           e == Directories(a, d)
<1>2. Good(ca, gs, e) /\ ca # <<>> BY <1>1 DEF Directories
<1>3. ca[Len(ca)] = a BY AppendProperties DEF Good
<1>4. b.kind \notin CallOps /\ b.kind # "subdir" BY DEF CallOps
<1> HIDE DEF ca, e
<1>5. Fits(ca[Len(ca)], b) BY <1>3
<1>6. Good(Append(ca, b), hs, IF b.kind = "subdir" THEN e + 1 ELSE e) /\ Append(ca, b) # <<>>
  BY <1>2, <1>4, <1>5, Push
<1>7. Good(Append(ca, b), hs, e) BY <1>4, <1>6
<1> QED BY <1>6, <1>7 DEF ca, e

\* A call of a user function: a frame, its activation and the body on top of it.
LEMMA PushFrame ==
  ASSUME IInv, AtOperation(CallOps)
  PROVE  LET a == Called(Operand.op, Len(frames) + 1)
             b == Body(Operand.fun, Len(frames) + 1)
         IN /\ Good(Append(Append(Advanced, a), b), Append(frames, << {}, {} >>), Directories(a, dirs))
            /\ Append(Append(Advanced, a), b) # <<>>
<1> DEFINE m == Len(frames) + 1
           gs == Append(frames, << {} >>)
           hs == Append(frames, << {}, {} >>)
           a == Called(Operand.op, m)
           b == Body(Operand.fun, m)
           c == Advanced
<1>1. /\ status = "running" /\ Operand \in Operation /\ Operand.op \in CallOps
      /\ Good(c, frames, dirs) /\ c # <<>>
      /\ c[Len(c)].kind = "eval" /\ c[Len(c)].at = Here
  BY OperationStep
<1>2. /\ frames \in Seq(Seq(SUBSET Var)) /\ Len(frames) \in Nat
      /\ Len(frames) \in 1 .. Len(frames)
      /\ Here = [frame |-> Len(frames), height |-> Len(frames[Len(frames)])]
  BY <1>1, Standpoint
<1>3. << {} >> \in Seq(SUBSET Var) /\ << {}, {} >> \in Seq(SUBSET Var)
      /\ Len(<< {} >>) = 1 /\ Len(<< {}, {} >>) = 2
  OBVIOUS
<1>4. /\ gs \in Seq(Seq(SUBSET Var)) /\ gs # <<>> /\ Len(gs) = m
      /\ \A f \in 1 .. Len(frames) : gs[f] = frames[f]
      /\ gs[m] = << {} >>
  BY <1>2, <1>3, AppendProperties
<1>5. /\ hs \in Seq(Seq(SUBSET Var)) /\ hs # <<>> /\ Len(hs) = m
      /\ \A f \in 1 .. Len(frames) : hs[f] = frames[f]
      /\ hs[m] = << {}, {} >>
  BY <1>2, <1>3, AppendProperties
<1>6. m \in Nat /\ \A f \in 1 .. Len(frames) - 1 : f \in 1 .. Len(frames) BY <1>2
<1>7. a \in Level /\ a.kind = Operand.op /\ a.at = [frame |-> m, height |-> 1]
  BY <1>1, <1>6 DEF Called, Level, CallLevel, Where
<1>8. b \in Level /\ b.kind = "block" /\ b.at = [frame |-> m, height |-> 2]
  <2>1. Operand.fun \in Fun BY <1>1 DEF Operation, CallOps
  <2>2. prog[Operand.fun] \in Seq(Node) BY <2>1, ProgramAssumption DEF IInv, Flags
  <2> QED BY <2>2, <1>6 DEF Body, Block, Level, BlockLevel, Where
<1> HIDE DEF a, b, c, gs, hs
<1>9. Fits(c[Len(c)], a) BY <1>1, <1>2, <1>7 DEF Fits
<1>10. Len(gs[c[Len(c)].at.frame]) = c[Len(c)].at.height BY <1>1, <1>2, <1>4
<1>11. a.at = [frame |-> Len(gs), height |-> Len(gs[Len(gs)])] BY <1>3, <1>4, <1>7
<1>12. b.at = [frame |-> Len(hs), height |-> Len(hs[Len(hs)])] BY <1>3, <1>5, <1>8
<1>13. Fits(a, b) BY <1>1, <1>7, <1>8 DEF Fits
<1>14. Len(gs) >= Len(frames) /\ Len(hs) >= Len(gs) BY <1>2, <1>4, <1>5
<1>15. \A f \in 1 .. Len(frames) - 1 : gs[f] = frames[f] BY <1>4, <1>6
<1>16. \A f \in 1 .. Len(gs) - 1 : hs[f] = gs[f] BY <1>2, <1>4, <1>5
<1>17. a.kind \in CallOps BY <1>1, <1>7
<1> HIDE DEF m
<1>18. /\ Good(Append(Append(c, a), b), hs, Directories(a, dirs))
       /\ Append(Append(c, a), b) # <<>>
  BY ZenonT(30), <1>1, <1>4, <1>5, <1>7, <1>8, <1>9, <1>10, <1>11, <1>12, <1>13, <1>14, <1>15,
     <1>16, <1>17, PushTwo
<1> QED BY <1>18 DEF a, b, c, hs, m

\* An expression is evaluated: the activation that asked for it goes on.
LEMMA EvalEnds ==
  ASSUME IInv, Running({"eval"})
  PROVE  /\ Top \in EvalLevel
         /\ Good(Below, frames, dirs) /\ Below # <<>>
         /\ Below[Len(Below)] \in Level /\ Below[Len(Below)].kind \in Loops \union {"block", "if"}
         /\ Top.goal = "cond" => Below[Len(Below)].kind \in Loops \union {"if"}
<1>1. status = "running" /\ Top.kind = "eval" BY DEF Running
<1>2. ctrl # <<>> /\ Top \in Level /\ Good(ctrl, frames, dirs) BY <1>1, Standpoint DEF IInv
<1>3. Below = ButLast(ctrl) BY DEF Below, ButLast
<1>4. /\ Good(Below, frames, dirs) /\ Below # <<>> /\ Len(Below) \in 1 .. Len(Below)
      /\ Fits(Below[Len(Below)], Top)
  BY <1>1, <1>2, <1>3, PopPlain DEF Top
<1>5. Below[Len(Below)] \in Level BY <1>4, ElementOfSeq DEF Good
<1>6. /\ Below[Len(Below)].kind \in Loops \union {"block", "if"}
      /\ Top.goal = "cond" => Below[Len(Below)].kind # "block"
  BY <1>1, <1>4 DEF Fits, CallOps
<1> QED BY <1>1, <1>2, <1>4, <1>5, <1>6, LevelKinds
----------------------------------------------------------------------------
\* The first frame holds the parameters of main, and its block a scope on top.
LEMMA Initially == Init => IInv
<1> SUFFICES ASSUME Init PROVE IInv OBVIOUS
<1> DEFINE c == << Called("call", 1) >>
           fs == << << {} >> >>
           b == Body(Main, 1)
<1>1. /\ prog \in Programs /\ Main \in Fun /\ prog[Main] \in Seq(Node)
      /\ ctrl = Append(c, b) /\ frames = << << {}, {} >> >> /\ dirs = 0
  BY ProgramAssumption DEF Init
<1>2. c \in Seq(Level) /\ Len(c) = 1 /\ c[1] = [kind |-> "call", at |-> [frame |-> 1, height |-> 1]]
  BY DEF Called, Level, CallLevel, CallOps, Where
<1>3. fs \in Seq(Seq(SUBSET Var)) /\ Len(fs) = 1 /\ fs[1] = << {} >> /\ Len(fs[1]) = 1
  OBVIOUS
<1>4. /\ frames \in Seq(Seq(SUBSET Var)) /\ Len(frames) = 1
      /\ frames[1] = << {}, {} >> /\ Len(frames[1]) = 2
  BY <1>1
<1>5. b \in BlockLevel /\ b.kind = "block" /\ b.at = [frame |-> 1, height |-> 2]
  BY <1>1 DEF Body, Block, BlockLevel, Where
<1> HIDE DEF c, b, fs
<1>6. Good(c, fs, 0)
  <2>1. Stacked(c) BY <1>2 DEF Stacked, CallOps
  <2>2. Suspended(c, fs) BY <1>2 DEF Suspended
  <2>3. c # <<>> /\ fs # <<>> BY <1>2, <1>3, NonEmpty
  <2>4. OnTop(c, fs) BY <1>2, <1>3, <2>3 DEF OnTop
  <2>5. Subdirectories(c) = {} BY <1>2 DEF Subdirectories
  <2>6. Cardinality(Subdirectories(c)) = 0 BY <2>5, FS_EmptySet
  <2> QED BY <1>2, <1>3, <2>1, <2>2, <2>4, <2>6 DEF Good
<1>7. c # <<>> /\ frames # <<>>
  <2>1. c # <<>> BY <1>2, NonEmpty
  <2>2. frames # <<>> BY <1>4, NonEmpty
  <2> QED BY <2>1, <2>2
<1>8. b \in Level BY <1>5 DEF Level
<1>9. Fits(c[Len(c)], b) BY <1>2, <1>5 DEF Fits, CallOps
<1>10. Len(frames) >= Len(fs) /\ b.kind \notin CallOps /\ b.kind # "subdir"
  BY <1>3, <1>4, <1>5 DEF CallOps
<1>11. \A f \in 1 .. Len(fs) - 1 : frames[f] = fs[f] BY <1>3
<1>12. b.at = [frame |-> Len(frames), height |-> Len(frames[Len(frames)])]
  BY <1>4, <1>5
<1>13. Good(Append(c, b), frames, 0) /\ Append(c, b) # <<>>
  BY <1>4, <1>6, <1>7, <1>8, <1>9, <1>10, <1>11, <1>12, Push
<1> QED BY <1>1, <1>13 DEF Init, IInv, Flags
----------------------------------------------------------------------------
\* What each kind of step does to the part of the state in Good.
LEMMA BlockSteps ==
  ASSUME IInv, BlockStep
  PROVE  IInv'
<1> USE DEF IInv
<1>1. CASE ExecuteExpression
  <2>1. AtNode({"infix", "return", "decl"}) BY <1>1 DEF ExecuteExpression
  <2>2. /\ status = "running" /\ TheNode \in Node /\ TheNode.kind \in {"infix", "return", "decl"}
        /\ Good(Stepped, frames, dirs) /\ Stepped # <<>>
        /\ Stepped[Len(Stepped)].kind = "block" /\ Stepped[Len(Stepped)].at = Here
    BY <2>1, NodeStep
  <2>3. TheNode.expr \in Expression BY <2>2, NodeAssumption
  <2>4. TheNode.kind \in Goals /\ TheNode.kind # "cond" BY <2>2 DEF Goals
  <2>5. Good(ctrl', frames', dirs') /\ ctrl' # <<>>
    BY <1>1, <2>2, <2>3, <2>4, PushEval DEF ExecuteExpression
  <2> QED BY <1>1, <2>5 DEF ExecuteExpression, Flags
<1>2. CASE ExecuteDefaultDeclaration
  <2>1. AtNode({"decl"}) BY <1>2 DEF ExecuteDefaultDeclaration
  <2>2. /\ status = "running" /\ TheNode \in Node
        /\ Good(Stepped, frames, dirs) /\ Stepped # <<>>
    BY <2>1, NodeStep
  <2>3. TheNode.var \in Var BY <2>2, NodeAssumption
  <2>4. Good(Stepped, AddVariable(TheNode.var), dirs) BY <2>2, <2>3, DeclareStep
  <2> QED BY <1>2, <2>2, <2>4 DEF ExecuteDefaultDeclaration, Flags
<1>3. CASE ExecuteImplicitReturn
  <2>1. AtNode({"implicit_return"}) BY <1>3 DEF ExecuteImplicitReturn
  <2>2. Good(Stepped, frames, dirs) /\ Stepped # <<>> BY <2>1, NodeStep
  <2> QED BY <1>3, <2>2 DEF ExecuteImplicitReturn, Flags
<1>4. CASE ExecuteBreak
  <2>1. AtNode({"break"}) BY <1>4 DEF ExecuteBreak
  <2>2. Good(Stepped, frames, dirs) /\ Stepped # <<>> BY <2>1, NodeStep
  <2> QED BY <1>4, <2>2 DEF ExecuteBreak, Flags
<1>5. CASE ExecuteBlock
  <2>1. AtNode({"block"}) BY <1>5 DEF ExecuteBlock
  <2>2. /\ status = "running" /\ TheNode \in Node
        /\ Good(Stepped, frames, dirs) /\ Stepped # <<>>
        /\ Stepped[Len(Stepped)].kind = "block" /\ Stepped[Len(Stepped)].at = Here
    BY <2>1, NodeStep
  <2>3. TheNode.body \in Seq(Node) BY <2>2, NodeAssumption
  <2>4. /\ Block(TheNode.body, Inner) \in Level
        /\ Block(TheNode.body, Inner).kind = "block" /\ Block(TheNode.body, Inner).at = Inner
    BY <2>2, <2>3, BlockTyped
  <2>5. Good(ctrl', frames', dirs') /\ ctrl' # <<>>
    BY <1>5, <2>2, <2>4, PushScope DEF ExecuteBlock
  <2> QED BY <1>5, <2>5 DEF ExecuteBlock, Flags
<1>6. CASE ExecuteOldScript
  <2>1. AtNode({"old_script"}) BY <1>6 DEF ExecuteOldScript
  <2>2. Good(Stepped, frames, dirs) /\ Stepped # <<>> BY <2>1, NodeStep
  <2> QED BY <1>6, <2>2 DEF ExecuteOldScript, ActOnFacade, Flags
<1>7. CASE ExecuteIf
  <2> DEFINE branch == [kind |-> "if", node |-> TheNode, pc |-> 1, stage |-> "cond", at |-> Here]
             part == TheNode.ifs[1]
  <2>1. AtNode({"if"}) BY <1>7 DEF ExecuteIf
  <2>2. /\ status = "running" /\ TheNode \in Node /\ TheNode.kind = "if"
        /\ Good(Stepped, frames, dirs) /\ Stepped # <<>>
        /\ Stepped[Len(Stepped)].kind = "block" /\ Stepped[Len(Stepped)].at = Here
    BY <2>1, NodeStep
  <2>3. part.cond \in Expression /\ 1 \in 1 .. Len(TheNode.ifs)
    <3>1. TheNode.ifs \in Seq(ConditionalNodes) /\ TheNode.ifs # <<>> BY <2>2, NodeAssumption
    <3>2. Len(TheNode.ifs) \in Nat /\ Len(TheNode.ifs) # 0 BY <3>1, NonEmpty
    <3>3. 1 \in 1 .. Len(TheNode.ifs) BY <3>2, Positions
    <3>4. part \in ConditionalNodes BY <3>1, <3>3, ElementOfSeq
    <3> QED BY <3>3, <3>4 DEF ConditionalNodes
  <2>4. branch \in Level /\ branch.kind = "if" /\ branch.at = Here
    BY <2>2, <2>3, Standpoint DEF Level, IfLevel, Stages
  <2> HIDE DEF branch, part
  <2>5. /\ Good(Append(Stepped, branch), frames, dirs) /\ Append(Stepped, branch) # <<>>
        /\ Append(Stepped, branch)[Len(Append(Stepped, branch))] = branch
    BY <2>2, <2>4, PushPlain
  <2>6. "cond" \in Goals BY DEF Goals
  <2>7. ctrl' = Append(Append(Stepped, branch), Eval(TheNode, part.cond, "cond", Here))
    BY <1>7 DEF ExecuteIf, branch, part
  <2>8. Good(ctrl', frames, dirs) /\ ctrl' # <<>>
    BY <2>2, <2>3, <2>4, <2>5, <2>6, <2>7, PushEval
  <2> QED BY <1>7, <2>8 DEF ExecuteIf, Flags
<1>8. CASE ExecuteWhile
  <2> DEFINE loop == [kind |-> "while", node |-> TheNode, stage |-> "cond", at |-> Here]
  <2>1. AtNode({"while"}) BY <1>8 DEF ExecuteWhile
  <2>2. /\ status = "running" /\ TheNode \in Node
        /\ Good(Stepped, frames, dirs) /\ Stepped # <<>>
        /\ Stepped[Len(Stepped)].kind = "block" /\ Stepped[Len(Stepped)].at = Here
    BY <2>1, NodeStep
  <2>3. TheNode.expr \in Expression BY <2>2, NodeAssumption
  <2>4. loop \in Level /\ loop.kind = "while" /\ loop.at = Here
    BY <2>2, Standpoint DEF Level, LoopLevel, Stages
  <2> HIDE DEF loop
  <2>5. /\ Good(Append(Stepped, loop), frames, dirs) /\ Append(Stepped, loop) # <<>>
        /\ Append(Stepped, loop)[Len(Append(Stepped, loop))] = loop
    BY <2>2, <2>4, PushPlain
  <2>6. "cond" \in Goals /\ loop.kind \in Loops BY <2>4 DEF Goals, Loops
  <2>7. ctrl' = Append(Append(Stepped, loop), Eval(TheNode, TheNode.expr, "cond", Here))
    BY <1>8 DEF ExecuteWhile, loop
  <2>8. Good(ctrl', frames, dirs) /\ ctrl' # <<>>
    BY <2>2, <2>3, <2>4, <2>5, <2>6, <2>7, PushEval
  <2> QED BY <1>8, <2>8 DEF ExecuteWhile, Flags
<1>9. CASE ExecuteFor
  <2> DEFINE loop == [kind |-> "for", node |-> TheNode, stage |-> "init", at |-> Inner]
  <2>1. AtNode({"for"}) BY <1>9 DEF ExecuteFor
  <2>2. /\ status = "running" /\ TheNode \in Node
        /\ Good(Stepped, frames, dirs) /\ Stepped # <<>>
        /\ Stepped[Len(Stepped)].kind = "block" /\ Stepped[Len(Stepped)].at = Here
    BY <2>1, NodeStep
  <2>3. loop \in Level /\ loop.kind = "for" /\ loop.at = Inner
    BY <2>2, InnerTyped DEF Level, LoopLevel, Stages
  <2> HIDE DEF loop
  <2>4. ctrl' = Append(Stepped, loop) /\ frames' = EnterScope
    BY <1>9 DEF ExecuteFor, loop
  <2>5. Good(ctrl', frames', dirs) /\ ctrl' # <<>> BY <2>2, <2>3, <2>4, PushScope
  <2> QED BY <1>9, <2>5 DEF ExecuteFor, Flags
<1>10. CASE LeaveBlock
  <2>1. status = "running" /\ Top.kind = "block" BY <1>10 DEF LeaveBlock, Running
  <2>2. ctrl # <<>> /\ Good(ctrl, frames, dirs) BY <2>1, Standpoint
  <2>3. ctrl' = ButLast(ctrl) /\ frames' = ScopeLeft(frames, ctrl[Len(ctrl)].at)
    BY <1>10 DEF LeaveBlock, Below, ButLast, LeaveScope, ScopeLeft, Top
  <2>4. Good(ctrl', frames', dirs) /\ ctrl' # <<>> BY <2>1, <2>2, <2>3, PopScope DEF Top
  <2> QED BY <1>10, <2>4 DEF LeaveBlock, Flags
<1> QED BY <1>1, <1>2, <1>3, <1>4, <1>5, <1>6, <1>7, <1>8, <1>9, <1>10 DEF BlockStep

LEMMA EvalSteps ==
  ASSUME IInv, EvalStep
  PROVE  IInv'
<1> USE DEF IInv
<1>1. CASE EvaluateUse
  <2>1. AtOperation({"use"}) BY <1>1 DEF EvaluateUse
  <2>2. Good(Advanced, frames, dirs) /\ Advanced # <<>> BY <2>1, OperationStep
  <2> QED BY <1>1, <2>2 DEF EvaluateUse, Flags
<1>2. CASE EvaluateBuiltin
  <2>1. AtOperation({"builtin"}) BY <1>2 DEF EvaluateBuiltin
  <2>2. Good(Advanced, frames, dirs) /\ Advanced # <<>> BY <2>1, OperationStep
  <2> QED BY <1>2, <2>2 DEF EvaluateBuiltin, ActOnFacade, Flags
<1>3. CASE EvaluateFatal
  <2>1. AtOperation({"fatal"}) BY <1>3 DEF EvaluateFatal
  <2>2. Good(Advanced, frames, dirs) /\ Advanced # <<>> BY <2>1, OperationStep
  <2> QED BY <1>3, <2>2 DEF EvaluateFatal, Flags
<1>4. CASE EvaluateComponent
  <2>1. AtOperation({"component"}) BY <1>4 DEF EvaluateComponent
  <2>2. Good(Advanced, frames, dirs) /\ Advanced # <<>> BY <2>1, OperationStep
  <2> QED BY <1>4, <2>2 DEF EvaluateComponent, ActOnFacade, Flags
<1>5. CASE EvaluateCall
  <2>1. AtOperation(CallOps) BY <1>5 DEF EvaluateCall
  <2>2. CASE ~(Len(frames) < MaxFrames)
    <3>1. UNCHANGED <<prog, returning, brk, fatal, acts, late, frames, ctrl, dirs>>
            /\ status' = "overflow"
      BY <1>5, <2>2 DEF EvaluateCall
    <3> QED BY <3>1 DEF Flags
  <2>3. CASE Len(frames) < MaxFrames
    <3>1. /\ frames' = Append(frames, << {}, {} >>)
          /\ ctrl' = Append(Append(Advanced, Called(Operand.op, Len(frames) + 1)),
                            Body(Operand.fun, Len(frames) + 1))
          /\ dirs' = IF Operand.op = "subdir" THEN dirs + 1 ELSE dirs
          /\ UNCHANGED <<prog, returning, brk, fatal, acts, late, status>>
      BY <1>5, <2>3 DEF EvaluateCall
    <3>2. Operand.op = Called(Operand.op, Len(frames) + 1).kind BY DEF Called
    <3>3. dirs' = Directories(Called(Operand.op, Len(frames) + 1), dirs)
      BY <3>1, <3>2 DEF Directories
    <3>4. Good(ctrl', frames', dirs') /\ ctrl' # <<>> BY <2>1, <3>1, <3>3, PushFrame
    <3> QED BY <3>1, <3>4 DEF Flags
  <2> QED BY <2>2, <2>3
<1>6. CASE SkipCall
  <2>1. AtOperation(CallOps \union {"builtin", "fatal"}) BY <1>6 DEF SkipCall
  <2>2. Good(Advanced, frames, dirs) /\ Advanced # <<>> BY <2>1, OperationStep
  <2> QED BY <1>6, <2>2 DEF SkipCall, Flags
<1>7. CASE EvaluateUnary
  <2>1. AtOperation({"unary"}) BY <1>7 DEF EvaluateUnary
  <2>2. Good(Advanced, frames, dirs) /\ Advanced # <<>> BY <2>1, OperationStep
  <2> QED BY <1>7, <2>2 DEF EvaluateUnary, Flags
<1>8. CASE EndInfix
  <2>1. Running({"eval"}) BY <1>8 DEF EndInfix
  <2>2. Good(Below, frames, dirs) /\ Below # <<>> BY <2>1, EvalEnds
  <2> QED BY <1>8, <2>2 DEF EndInfix, Flags
<1>9. CASE EndReturn
  <2>1. Running({"eval"}) BY <1>9 DEF EndReturn
  <2>2. Good(Below, frames, dirs) /\ Below # <<>> BY <2>1, EvalEnds
  <2> QED BY <1>9, <2>2 DEF EndReturn, Flags
<1>10. CASE EndDeclaration
  <2>1. Running({"eval"}) BY <1>10 DEF EndDeclaration
  <2>2. /\ status = "running" /\ Top \in EvalLevel
        /\ Good(Below, frames, dirs) /\ Below # <<>>
    BY <2>1, EvalEnds DEF Running
  <2>3. Top.node.var \in Var BY <2>2, NodeAssumption DEF EvalLevel
  <2>4. Good(Below, AddVariable(Top.node.var), dirs) BY <2>2, <2>3, DeclareStep
  <2> QED BY <1>10, <2>2, <2>4 DEF EndDeclaration, Flags
<1>11. CASE EndCondition
  <2>1. Running({"eval"}) /\ Top.goal = "cond" BY <1>11 DEF EndCondition
  <2>2. /\ Good(Below, frames, dirs) /\ Below # <<>>
        /\ Below[Len(Below)] \in Level /\ Below[Len(Below)].kind \in Loops \union {"if"}
    BY <2>1, EvalEnds
  <2>3. PICK value \in Stages :
          ctrl' = [Below EXCEPT ![Len(Below)] = [@ EXCEPT !.stage = value]]
    BY <1>11 DEF EndCondition, Stages
  <2> DEFINE l == [Below[Len(Below)] EXCEPT !.stage = value]
  <2>4. Below[Len(Below)] \in IfLevel \union LoopLevel BY <2>2, LevelKinds
  <2>5. /\ l \in Level /\ l.kind = Below[Len(Below)].kind /\ l.at = Below[Len(Below)].at
        /\ l.kind # "eval"
    BY <2>2, <2>4 DEF Level, IfLevel, LoopLevel, Loops
  <2>6. ctrl' = LastIs(Below, l) BY <2>3 DEF LastIs
  <2> HIDE DEF l
  <2>7. Good(ctrl', frames, dirs) /\ ctrl' # <<>> BY <2>2, <2>5, <2>6, Replace
  <2> QED BY <1>11, <2>7 DEF EndCondition, Flags
<1> QED BY <1>1, <1>2, <1>3, <1>4, <1>5, <1>6, <1>7, <1>8, <1>9, <1>10, <1>11 DEF EvalStep

\* An if that goes on to its next condition is still a proper one.
LEMMA NextBranch ==
  ASSUME NEW t \in IfLevel, t.pc + 1 \in 1 .. Len(t.node.ifs),
         NEW l, l = [t EXCEPT !.stage = "cond", !.pc = @ + 1]
  PROVE  l \in IfLevel /\ l.kind = t.kind /\ l.at = t.at
<1> DEFINE n == t.pc + 1
           Any == [kind : {"if"}, node : Node, pc : Nat, stage : Stages, at : Where]
<1>1. t \in Any BY DEF IfLevel
<1>2. n \in Nat /\ "cond" \in Stages BY <1>1 DEF Stages
<1> HIDE DEF n
<1>3. l = [t EXCEPT !.stage = "cond", !.pc = n] BY DEF n
<1>4. l.pc = n /\ l.node = t.node /\ l.kind = t.kind /\ l.at = t.at BY <1>1, <1>3
<1>5. l \in Any BY <1>1, <1>2, <1>3
<1>6. l.pc \in 1 .. Len(l.node.ifs) BY <1>4 DEF n
<1> QED BY <1>4, <1>5, <1>6 DEF IfLevel

LEMMA BranchSteps ==
  ASSUME IInv, BranchStep
  PROVE  IInv'
<1> USE DEF IInv
<1>1. CASE NullCondition
  <2>1. status = "running" BY <1>1 DEF NullCondition, AtStage, Running
  <2> QED BY <1>1, <2>1 DEF NullCondition, Flags
<1>2. CASE IfBody
  <2> DEFINE body == IF Top.stage = "true" THEN Top.node.ifs[Top.pc].body ELSE Top.node.body
             c == Stage("body")
  <2>1. status = "running" /\ Top.kind = "if" /\ Running(Loops \union {"if"})
    BY <1>2 DEF IfBody, AtStage, Running
  <2>2. /\ Top \in IfLevel \union LoopLevel /\ Top.node \in Node
        /\ Good(c, frames, dirs) /\ c # <<>>
        /\ c[Len(c)].kind = "if" /\ c[Len(c)].at = Here
    <3>1. "body" \in Stages BY DEF Stages
    <3> QED BY <2>1, <3>1, StageStep
  <2>3. body \in Seq(Node)
    <3>1. Top \in IfLevel BY <2>1, <2>2 DEF LoopLevel
    <3>2. Top.pc \in 1 .. Len(Top.node.ifs) BY <3>1 DEF IfLevel
    <3>3. Top.node.ifs \in Seq(ConditionalNodes) /\ Top.node.body \in Seq(Node)
      BY <2>2, NodeAssumption
    <3>4. Top.node.ifs[Top.pc] \in ConditionalNodes BY <3>2, <3>3, ElementOfSeq
    <3> QED BY <3>3, <3>4 DEF ConditionalNodes
  <2>4. ctrl' = Append(c, Block(body, Inner)) /\ frames' = EnterScope
    BY <1>2 DEF IfBody
  <2> HIDE DEF body, c
  <2>5. /\ Block(body, Inner) \in Level
        /\ Block(body, Inner).kind = "block" /\ Block(body, Inner).at = Inner
    BY <2>1, <2>3, BlockTyped
  <2>6. Good(ctrl', frames', dirs) /\ ctrl' # <<>>
    BY <2>1, <2>2, <2>4, <2>5, PushScope
  <2> QED BY <1>2, <2>6 DEF IfBody, Flags
<1>3. CASE ElseIf
  <2> DEFINE l == [Top EXCEPT !.stage = "cond", !.pc = @ + 1]
             c == Replaced(l)
             part == Top.node.ifs[Top.pc + 1]
  <2>1. status = "running" /\ Top.kind = "if" /\ Top.pc < Len(Top.node.ifs)
    BY <1>3 DEF ElseIf, AtStage, Running
  <2>2. ctrl # <<>> /\ Top \in Level /\ Top.at = Here /\ Good(ctrl, frames, dirs)
    BY <2>1, Standpoint
  <2>3. Top \in IfLevel BY <2>1, <2>2, LevelKinds
  <2>4. Top.node \in Node /\ Top.pc \in Nat BY <2>3 DEF IfLevel
  <2>5. Top.node.ifs \in Seq(ConditionalNodes) BY <2>4, NodeAssumption
  <2>6. Top.pc + 1 \in 1 .. Len(Top.node.ifs) BY <2>1, <2>4, <2>5, LenProperties
  <2>7. part.cond \in Expression
    <3>1. part \in ConditionalNodes BY <2>5, <2>6, ElementOfSeq
    <3> QED BY <3>1 DEF ConditionalNodes
  <2>8. l \in IfLevel /\ l.kind = "if" /\ l.at = Here
    <3>1. l = [Top EXCEPT !.stage = "cond", !.pc = @ + 1] OBVIOUS
    <3> HIDE DEF l
    <3> QED BY <3>1, <2>1, <2>2, <2>3, <2>6, NextBranch
  <2>9. l \in Level BY <2>8 DEF Level
  <2>10. c = LastIs(ctrl, l) BY DEF Replaced, LastIs
  <2>11. ctrl' = Append(c, Eval(Top.node, part.cond, "cond", Here)) BY <1>3 DEF ElseIf
  <2> HIDE DEF l, c, part
  <2>12. Good(c, frames, dirs) /\ c # <<>> /\ c[Len(c)] = l
    BY <2>1, <2>2, <2>8, <2>9, <2>10, Replace DEF Top
  <2>13. "cond" \in Goals BY DEF Goals
  <2>14. Good(ctrl', frames, dirs) /\ ctrl' # <<>>
    BY <2>1, <2>4, <2>7, <2>8, <2>11, <2>12, <2>13, PushEval
  <2> QED BY <1>3, <2>14 DEF ElseIf, Flags
<1>4. CASE LeaveIf
  <2>1. status = "running" /\ Top.kind = "if" BY <1>4 DEF LeaveIf, AtStage, Running
  <2>2. ctrl # <<>> /\ Good(ctrl, frames, dirs) BY <2>1, Standpoint
  <2>3. ctrl' = ButLast(ctrl) BY <1>4 DEF LeaveIf, Below, ButLast
  <2>4. Good(ctrl', frames, dirs) /\ ctrl' # <<>> BY <2>1, <2>2, <2>3, PopPlain DEF Top
  <2> QED BY <1>4, <2>4 DEF LeaveIf, Flags
<1> QED BY <1>1, <1>2, <1>3, <1>4 DEF BranchStep

\* The condition of a loop is asked for.
LEMMA ConditionChecked ==
  ASSUME IInv, Running(Loops), CheckCondition
  PROVE  Good(ctrl', frames, dirs) /\ ctrl' # <<>>
<1>1. status = "running" /\ Running(Loops \union {"if"}) /\ Top.kind \in Loops BY DEF Running
<1>2. CASE Top.kind = "for" /\ ~Top.node.hasExpr
  <2>1. ctrl' = Stage("true") BY <1>2 DEF CheckCondition
  <2>2. "true" \in Stages BY DEF Stages
  <2> QED BY <1>1, <2>1, <2>2, StageStep
<1>3. CASE ~(Top.kind = "for" /\ ~Top.node.hasExpr)
  <2> DEFINE c == Stage("cond")
  <2>1. ctrl' = Append(c, Eval(Top.node, Top.node.expr, "cond", Here))
    BY <1>3 DEF CheckCondition
  <2>2. "cond" \in Stages /\ "cond" \in Goals BY DEF Stages, Goals
  <2>3. /\ Top.node \in Node /\ Good(c, frames, dirs) /\ c # <<>>
        /\ c[Len(c)].kind \in Loops /\ c[Len(c)].at = Here
    BY <1>1, <2>2, StageStep
  <2>4. Top.node.expr \in Expression BY <2>3, NodeAssumption
  <2> HIDE DEF c
  <2>5. c[Len(c)].kind # "block" BY <2>3 DEF Loops
  <2> QED BY <1>1, <2>1, <2>2, <2>3, <2>4, <2>5, PushEval
<1> QED BY <1>2, <1>3

\* A loop is over; a for takes its scope along.
LEMMA LoopEnds ==
  ASSUME IInv, Running(Loops), EndLoop
  PROVE  Good(ctrl', frames', dirs) /\ ctrl' # <<>>
<1>1. status = "running" /\ Top.kind \in {"while", "for"} BY DEF Running, Loops
<1>2. ctrl # <<>> /\ Good(ctrl, frames, dirs) BY <1>1, Standpoint DEF IInv
<1>3. ctrl' = ButLast(ctrl) BY DEF EndLoop, Below, ButLast
<1>4. CASE Top.kind = "while"
  <2>1. frames' = frames BY <1>4 DEF EndLoop
  <2> QED BY <1>2, <1>3, <1>4, <2>1, PopPlain DEF Top
<1>5. CASE Top.kind = "for"
  <2>1. frames' = ScopeLeft(frames, ctrl[Len(ctrl)].at)
    BY <1>5 DEF EndLoop, LeaveScope, ScopeLeft, Top
  <2> QED BY <1>2, <1>3, <1>5, <2>1, PopScope DEF Top
<1> QED BY <1>1, <1>4, <1>5

LEMMA LoopSteps ==
  ASSUME IInv, LoopStep
  PROVE  IInv'
<1> USE DEF IInv
<1>1. CASE ForInit
  <2> DEFINE c == Stage("iteration")
             n == Top.node.init[1]
  <2>1. status = "running" /\ Top.kind = "for" /\ Running(Loops \union {"if"}) /\ Top.node.init # <<>>
    BY <1>1 DEF ForInit, AtStage, Running, Loops
  <2>2. /\ Top.node \in Node /\ Good(c, frames, dirs) /\ c # <<>>
        /\ c[Len(c)].kind = "for" /\ c[Len(c)].at = Here
    <3>1. "iteration" \in Stages BY DEF Stages
    <3> QED BY <2>1, <3>1, StageStep
  <2>3. n \in Node /\ n.kind \in {"infix", "decl"}
    <3>1. Top.node.init \in Seq(Node) BY <2>2, NodeAssumption
    <3>2. Len(Top.node.init) \in Nat /\ Len(Top.node.init) # 0 BY <2>1, <3>1, NonEmpty
    <3>3. 1 \in 1 .. Len(Top.node.init) BY <3>2, Positions
    <3> QED BY <2>2, <3>1, <3>3, ElementOfSeq, NodeAssumption
  <2>4. n.var \in Var /\ n.expr \in Expression BY <2>3, NodeAssumption
  <2>5. CASE n.kind = "decl" /\ ~n.hasExpr
    <3>1. ctrl' = c /\ frames' = AddVariable(n.var) BY <1>1, <2>5 DEF ForInit
    <3> HIDE DEF c, n
    <3>2. Good(ctrl', frames', dirs) /\ ctrl' # <<>> BY <2>1, <2>2, <2>4, <3>1, DeclareStep
    <3> QED BY <1>1, <3>2 DEF ForInit, Flags
  <2>6. CASE ~(n.kind = "decl" /\ ~n.hasExpr)
    <3>1. ctrl' = Append(c, Eval(n, n.expr, n.kind, Here)) /\ frames' = frames
      BY <1>1, <2>6 DEF ForInit
    <3> HIDE DEF c, n
    <3>2. n.kind \in Goals /\ n.kind # "cond" BY <2>3 DEF Goals
    <3>3. c[Len(c)].kind \in Loops BY <2>2 DEF Loops
    <3>4. Good(ctrl', frames, dirs) /\ ctrl' # <<>>
      BY <2>1, <2>2, <2>3, <2>4, <3>1, <3>2, <3>3, PushEval
    <3> QED BY <1>1, <3>1, <3>4 DEF ForInit, Flags
  <2> QED BY <2>5, <2>6
<1>2. CASE ForCondition
  <2>1. Running(Loops) /\ CheckCondition BY <1>2 DEF ForCondition, AtStage, Running, Loops
  <2>2. Good(ctrl', frames, dirs) /\ ctrl' # <<>> BY <2>1, ConditionChecked
  <2> QED BY <1>2, <2>2 DEF ForCondition, Flags
<1>3. CASE LoopBody
  <2> DEFINE c == Stage("body")
  <2>1. status = "running" /\ Running(Loops \union {"if"}) /\ Top.kind \in Loops
    BY <1>3 DEF LoopBody, AtStage, Running
  <2>2. /\ Top.node \in Node /\ Good(c, frames, dirs) /\ c # <<>>
        /\ c[Len(c)].kind \in Loops /\ c[Len(c)].at = Here
    <3>1. "body" \in Stages BY DEF Stages
    <3> QED BY <2>1, <3>1, StageStep
  <2>3. Top.node.body \in Seq(Node) BY <2>2, NodeAssumption
  <2>4. /\ Block(Top.node.body, Inner) \in Level
        /\ Block(Top.node.body, Inner).kind = "block" /\ Block(Top.node.body, Inner).at = Inner
    BY <2>1, <2>3, BlockTyped
  <2>5. ctrl' = Append(c, Block(Top.node.body, Inner)) /\ frames' = EnterScope
    BY <1>3 DEF LoopBody
  <2> HIDE DEF c
  <2>6. Good(ctrl', frames', dirs) /\ ctrl' # <<>>
    BY <2>1, <2>2, <2>4, <2>5, PushScope
  <2> QED BY <1>3, <2>6 DEF LoopBody, Flags
<1>4. CASE LoopFalse
  <2>1. Running(Loops) /\ EndLoop BY <1>4 DEF LoopFalse, AtStage
  <2>2. Good(ctrl', frames', dirs) /\ ctrl' # <<>> BY <2>1, LoopEnds
  <2> QED BY <1>4, <2>2 DEF LoopFalse, Flags
<1>5. CASE LeaveLoop
  <2>1. Running(Loops) /\ EndLoop BY <1>5 DEF LeaveLoop, AtStage
  <2>2. Good(ctrl', frames', dirs) /\ ctrl' # <<>> BY <2>1, LoopEnds
  <2>3. brk' \in BOOLEAN BY <1>5 DEF LeaveLoop, BreakAfterLoop
  <2> QED BY <1>5, <2>2, <2>3 DEF LeaveLoop, Flags
<1>6. CASE LoopAgain
  <2>1. Running(Loops) /\ Running(Loops \union {"if"}) /\ status = "running" /\ Top.kind \in Loops
    BY <1>6 DEF LoopAgain, AtStage, Running
  <2>2. CASE Top.kind = "for" /\ Top.node.iteration # <<>>
    <3> DEFINE c == Stage("iteration")
    <3>1. ctrl' = Append(c, Eval(Top.node, Top.node.iteration, "infix", Here))
      BY <1>6, <2>2 DEF LoopAgain
    <3>2. "iteration" \in Stages /\ "infix" \in Goals BY DEF Stages, Goals
    <3>3. /\ Top.node \in Node /\ Good(c, frames, dirs) /\ c # <<>>
          /\ c[Len(c)].kind \in Loops /\ c[Len(c)].at = Here
      BY <2>1, <3>2, StageStep
    <3>4. Top.node.iteration \in Expression BY <3>3, NodeAssumption
    <3> HIDE DEF c
    <3>5. Good(ctrl', frames, dirs) /\ ctrl' # <<>>
      BY <2>1, <3>1, <3>2, <3>3, <3>4, PushEval
    <3> QED BY <1>6, <3>5 DEF LoopAgain, Flags
  <2>3. CASE ~(Top.kind = "for" /\ Top.node.iteration # <<>>)
    <3>1. CheckCondition BY <1>6, <2>3 DEF LoopAgain
    <3>2. Good(ctrl', frames, dirs) /\ ctrl' # <<>> BY <2>1, <3>1, ConditionChecked
    <3> QED BY <1>6, <3>2 DEF LoopAgain, Flags
  <2> QED BY <2>2, <2>3
<1> QED BY <1>1, <1>2, <1>3, <1>4, <1>5, <1>6 DEF LoopStep

LEMMA LeaveFunctionStep ==
  ASSUME IInv, LeaveFunction
  PROVE  IInv'
<1> USE DEF IInv
<1> DEFINE d == IF ctrl[Len(ctrl)].kind = "subdir" THEN dirs - 1 ELSE dirs
<1>1. status = "running" /\ Top.kind \in CallOps BY DEF LeaveFunction, Running
<1>2. ctrl # <<>> /\ Good(ctrl, frames, dirs) BY <1>1, Standpoint
<1>3. ctrl' = ButLast(ctrl) /\ frames' = ButLast(frames)
  BY DEF LeaveFunction, Below, ButLast
<1>4. dirs' = d BY DEF LeaveFunction, LeavesDirectory, Top
<1>5. Good(ButLast(ctrl), ButLast(frames), d)
  BY <1>1, <1>2, PopCall DEF Top
<1> HIDE DEF d
<1>6. Good(ctrl', frames', dirs') BY <1>3, <1>4, <1>5
<1>7. status' \in {"running", "done", "crashed"} /\ (status' = "running" => ctrl' # <<>>)
  BY DEF LeaveFunction
<1> QED BY <1>6, <1>7 DEF LeaveFunction, Flags
----------------------------------------------------------------------------
\* The invariant holds in every state of every execution of every program.
THEOREM Inductive == Spec => []IInv
<1>1. Init => IInv BY Initially
<1>2. IInv /\ [Next]_vars => IInv'
  <2> SUFFICES ASSUME IInv, [Next]_vars PROVE IInv' OBVIOUS
  <2>1. CASE UNCHANGED vars BY <2>1 DEF vars, IInv, Flags
  <2>2. CASE Step
    BY <2>2, BlockSteps, EvalSteps, BranchSteps, LoopSteps, LeaveFunctionStep DEF Step
  <2> QED BY <2>1, <2>2 DEF Next, Stopped
<1> QED BY <1>1, <1>2, PTL DEF Spec

\* Every variable of the interpreter keeps to its type, whatever the program.
THEOREM TypeCorrect == Spec => []TypeOK
<1>1. IInv => TypeOK BY DEF IInv, Flags, Good, TypeOK
<1> QED BY <1>1, Inductive, PTL

\* However a body ends, the activation that goes on finds m_callstack as it left
\* it: scope_leaving_guard and leave_function_scope undo exactly what the ways
\* in have done, across returns, breaks, fatal errors and recursion of any depth.
THEOREM ScopesBalanced == Spec => []ScopesAsLeft
<1>1. ASSUME IInv PROVE ScopesAsLeft
  <2>1. Good(ctrl, frames, dirs) BY <1>1 DEF IInv
  <2>2. (ctrl = <<>>) <=> (frames = <<>>) BY <2>1 DEF Good, OnTop
  <2>3. ctrl # <<>> => Top.at = Here BY <2>1 DEF Good, OnTop, Top, Here
  <2>4. ASSUME NEW i \in 1 .. Len(ctrl) - 1
        PROVE  LET outer == ctrl[i].at
                   inner == ctrl[i + 1].at
               IN \/ inner.frame = outer.frame /\ inner.height \in {outer.height, outer.height + 1}
                  \/ /\ inner = [frame |-> outer.frame + 1, height |-> 1]
                     /\ Len(frames[outer.frame]) = outer.height
    <3>1. Fits(ctrl[i], ctrl[i + 1]) BY <2>1 DEF Good, Stacked
    <3>2. ctrl[i + 1].kind \in CallOps => Len(frames[ctrl[i].at.frame]) = ctrl[i].at.height
      BY <2>1 DEF Good, Suspended
    <3> QED BY <3>1, <3>2 DEF Fits
  <2> QED BY <2>2, <2>3, <2>4 DEF ScopesAsLeft
<1> QED BY <1>1, Inductive, PTL

\* add_subdirectory tells the facade to leave each directory it entered, also
\* when the main function of the directory fails.
THEOREM DirectoriesBalanced == Spec => []DirectoriesMatchCalls
<1>1. IInv => DirectoriesMatchCalls BY DEF IInv, Good, DirectoriesMatchCalls
<1> QED BY <1>1, Inductive, PTL

(* ----- jumps ----------------------------------------------------------- *)
\* An activation that waits for a body of its own to end, or for a call's.
Underway(l) ==
  /\ l.kind # "eval"
  /\ l.kind = "block" => l.pc > 0
  /\ l.kind \in Loops \union {"if"} => l.stage = "body"

\* What a jump out of an activation finds below it.
Leads(outer, inner) ==
  \/ inner.kind \in Loops \union {"block", "if"}
  \/ inner.kind = "eval" /\ inner.goal = "return"
  => Underway(outer)

\* An activation that may meet a break, and the loop that break belongs to.
MayBreak(l) ==
  \/ l.kind = "block" /\ Contains(l.nodes, Breaking)
  \/ l.kind = "if" /\ l.node \in Breaking
InLoop(c, i) ==
  \E k \in 1 .. i : /\ c[k].kind \in Loops /\ c[k].stage = "body"
                    /\ \A j \in k + 1 .. i : c[j].kind \in {"block", "if"}
InCall(c, i) ==
  \E k \in 1 .. i : /\ c[k].kind \in CallOps
                    /\ \A j \in k + 1 .. i : c[j].kind \notin CallOps

\* The activation of a node is one for a node of its kind.
Proper(l) == l.kind \in Loops \union {"if"} => l.node.kind = l.kind

\* How activations are nested, whatever the flags say.
Nested(c) ==
  /\ \A i \in 1 .. Len(c) : Proper(c[i])
  /\ \A i \in 1 .. Len(c) - 1 : Leads(c[i], c[i + 1])
  /\ \A i \in 1 .. Len(c) : MayBreak(c[i]) => InLoop(c, i)
  /\ \A i \in 1 .. Len(c) : InCall(c, i)

\* What a pending return or break says of the activations.
Unwinding(c, return, break) ==
  /\ ~(return /\ break)
  /\ (return \/ break) /\ c # <<>> => Underway(c[Len(c)])
  /\ break => InLoop(c, Len(c))

JumpInv == Nested(ctrl) /\ Unwinding(ctrl, returning, brk)
----------------------------------------------------------------------------
\* Nesting, when activations come and go.
LEMMA NestedReplace ==
  ASSUME NEW S, NEW c \in Seq(S), c # <<>>, Nested(c),
         NEW l, l.kind = c[Len(c)].kind,
         l.kind = "eval" => l.goal = c[Len(c)].goal,
         Proper(l), MayBreak(l) => MayBreak(c[Len(c)])
  PROVE  /\ Nested(LastIs(c, l)) /\ LastIs(c, l) \in Seq(S \union {l}) /\ LastIs(c, l) # <<>>
         /\ Len(LastIs(c, l)) = Len(c) /\ LastIs(c, l)[Len(LastIs(c, l))] = l
<1> DEFINE e == LastIs(c, l)
           n == Len(c)
<1>1. n \in Nat /\ n \in 1 .. n BY EmptySeq, LenProperties
<1>2. /\ e \in Seq(S \union {l}) /\ Len(e) = n
      /\ \A i \in 1 .. n : e[i] = IF i = n THEN l ELSE c[i]
  <2>1. c \in Seq(S \union {l}) BY SeqMonotonic
  <2> QED BY <1>1, <2>1, ExceptSeq DEF LastIs
<1> HIDE DEF e
<1>3. \A i \in 1 .. n : /\ e[i].kind = c[i].kind
                        /\ e[i].kind = "eval" => e[i].goal = c[i].goal
                        /\ MayBreak(e[i]) => MayBreak(c[i])
  BY <1>2
<1>4. ASSUME NEW i \in 1 .. n - 1 PROVE Leads(e[i], e[i + 1])
  <2>1. i \in 1 .. n /\ i + 1 \in 1 .. n /\ i # n BY <1>1
  <2>2. Leads(c[i], c[i + 1]) BY DEF Nested
  <2>3. e[i] = c[i] /\ e[i + 1].kind = c[i + 1].kind
        /\ (e[i + 1].kind = "eval" => e[i + 1].goal = c[i + 1].goal)
    BY <2>1, <1>2, <1>3
  <2> QED BY <2>2, <2>3 DEF Leads
<1>5. ASSUME NEW i \in 1 .. n, MayBreak(e[i]) PROVE InLoop(e, i)
  <2>1. InLoop(c, i) BY <1>3, <1>5 DEF Nested
  <2>2. PICK k \in 1 .. i : /\ c[k].kind \in Loops /\ c[k].stage = "body"
                            /\ \A j \in k + 1 .. i : c[j].kind \in {"block", "if"}
    BY <2>1 DEF InLoop
  <2>3. c[i].kind \in {"block", "if"} BY <1>3, <1>5 DEF MayBreak
  <2>4. k # i BY <2>2, <2>3 DEF Loops
  <2>5. k \in 1 .. n /\ k # n /\ \A j \in k + 1 .. i : j \in 1 .. n BY <2>4, <1>1
  <2>6. e[k] = c[k] BY <2>5, <1>2
  <2>7. \A j \in k + 1 .. i : e[j].kind \in {"block", "if"} BY <2>2, <2>5, <1>3
  <2> QED BY <2>2, <2>6, <2>7 DEF InLoop
<1>6. ASSUME NEW i \in 1 .. n PROVE InCall(e, i)
  <2>1. InCall(c, i) BY DEF Nested
  <2>2. \A j \in 1 .. i : j \in 1 .. n /\ e[j].kind = c[j].kind BY <1>1, <1>3
  <2>3. \A k \in 1 .. i : \A j \in k + 1 .. i : j \in 1 .. i BY <1>1
  <2> QED BY <2>1, <2>2, <2>3 DEF InCall
<1>7. e # <<>> /\ e[Len(e)] = l BY <1>1, <1>2, NonEmpty
<1>8. \A i \in 1 .. n : Proper(e[i]) BY <1>2 DEF Nested
<1> QED BY <1>2, <1>4, <1>5, <1>6, <1>7, <1>8 DEF Nested, e

LEMMA NestedPush ==
  ASSUME NEW S, NEW c \in Seq(S), c # <<>>, Nested(c),
         NEW l, Proper(l), Leads(c[Len(c)], l),
         MayBreak(l) => \/ c[Len(c)].kind \in Loops /\ c[Len(c)].stage = "body"
                        \/ MayBreak(c[Len(c)])
  PROVE  /\ Nested(Append(c, l)) /\ Append(c, l) \in Seq(S \union {l}) /\ Append(c, l) # <<>>
         /\ Len(Append(c, l)) = Len(c) + 1 /\ Append(c, l)[Len(Append(c, l))] = l
<1> DEFINE e == Append(c, l)
           n == Len(c)
<1>1. n \in Nat /\ n \in 1 .. n BY EmptySeq, LenProperties
<1>2. /\ e \in Seq(S \union {l}) /\ e # <<>>
      /\ Len(e) = n + 1 /\ e[n + 1] = l /\ \A i \in 1 .. n : e[i] = c[i]
  <2>1. c \in Seq(S \union {l}) BY SeqMonotonic
  <2> QED BY <1>1, <2>1, AppendProperties
<1> HIDE DEF e
<1>3. \A i \in 1 .. n, k \in 1 .. n : /\ i \in 1 .. n + 1 /\ i # n + 1
                                      /\ \A j \in k + 1 .. i : j \in 1 .. n
  BY <1>1
<1>4. ASSUME NEW i \in 1 .. n + 1 - 1 PROVE Leads(e[i], e[i + 1])
  <2>1. CASE i = n BY <2>1, <1>1, <1>2
  <2>2. CASE i # n
    <3>1. i \in 1 .. n - 1 /\ i \in 1 .. n /\ i + 1 \in 1 .. n BY <2>2, <1>1
    <3> QED BY <3>1, <1>2 DEF Nested
  <2> QED BY <2>1, <2>2
<1>5. ASSUME NEW i \in 1 .. n, InLoop(c, i) PROVE InLoop(e, i)
  <2>1. PICK k \in 1 .. i : /\ c[k].kind \in Loops /\ c[k].stage = "body"
                            /\ \A j \in k + 1 .. i : c[j].kind \in {"block", "if"}
    BY <1>5 DEF InLoop
  <2>2. k \in 1 .. n /\ \A j \in k + 1 .. i : j \in 1 .. n BY <1>1
  <2> QED BY <2>1, <2>2, <1>2 DEF InLoop
<1>6. ASSUME NEW i \in 1 .. n + 1, MayBreak(e[i]) PROVE InLoop(e, i)
  <2>1. CASE i # n + 1
    <3>1. i \in 1 .. n BY <2>1, <1>1
    <3> QED BY <3>1, <1>2, <1>5, <1>6 DEF Nested
  <2>2. CASE i = n + 1
    <3>1. MayBreak(l) BY <2>2, <1>2, <1>6
    <3>2. l.kind \in {"block", "if"} BY <3>1 DEF MayBreak
    <3>3. CASE c[n].kind \in Loops /\ c[n].stage = "body"
      <4>1. n \in 1 .. i /\ e[n] = c[n] /\ \A j \in n + 1 .. i : e[j] = l
        BY <2>2, <1>1, <1>2
      <4> QED BY <4>1, <3>2, <3>3 DEF InLoop
    <3>4. CASE MayBreak(c[n])
      <4>1. InLoop(e, n) BY <3>4, <1>1, <1>5 DEF Nested
      <4>2. PICK k \in 1 .. n : /\ e[k].kind \in Loops /\ e[k].stage = "body"
                                /\ \A j \in k + 1 .. n : e[j].kind \in {"block", "if"}
        BY <4>1 DEF InLoop
      <4>3. k \in 1 .. i /\ \A j \in k + 1 .. i : j \in k + 1 .. n \/ j = n + 1
        BY <2>2, <1>1
      <4> QED BY <4>2, <4>3, <3>2, <1>2 DEF InLoop
    <3> QED BY <3>1, <3>3, <3>4
  <2> QED BY <2>1, <2>2
<1>7. ASSUME NEW i \in 1 .. n PROVE InCall(e, i)
  <2>1. PICK k \in 1 .. i : /\ c[k].kind \in CallOps
                            /\ \A j \in k + 1 .. i : c[j].kind \notin CallOps
    BY DEF InCall, Nested
  <2>2. k \in 1 .. n /\ \A j \in k + 1 .. i : j \in 1 .. n BY <1>1
  <2> QED BY <2>1, <2>2, <1>2 DEF InCall
<1>8. InCall(e, n + 1)
  <2>1. CASE l.kind \in CallOps
    <3>1. n + 1 \in 1 .. n + 1 /\ \A j \in n + 1 + 1 .. n + 1 : FALSE BY <1>1
    <3> QED BY <3>1, <2>1, <1>2 DEF InCall
  <2>2. CASE l.kind \notin CallOps
    <3>1. PICK k \in 1 .. n : /\ e[k].kind \in CallOps
                              /\ \A j \in k + 1 .. n : e[j].kind \notin CallOps
      BY <1>1, <1>7 DEF InCall
    <3>2. k \in 1 .. n + 1 /\ \A j \in k + 1 .. n + 1 : j \in k + 1 .. n \/ j = n + 1
      BY <1>1
    <3> QED BY <3>1, <3>2, <2>2, <1>2 DEF InCall
  <2> QED BY <2>1, <2>2
<1>9. \A i \in 1 .. n + 1 : i \in 1 .. n \/ i = n + 1 BY <1>1
<1>10. \A i \in 1 .. n + 1 : InCall(e, i) BY <1>7, <1>8, <1>9
<1>11. \A i \in 1 .. n + 1 : Proper(e[i]) BY <1>2, <1>9 DEF Nested
<1> QED BY <1>2, <1>4, <1>6, <1>10, <1>11 DEF Nested, e

LEMMA ButLastOf ==
  ASSUME NEW S, NEW c \in Seq(S), c # <<>>
  PROVE  /\ ButLast(c) \in Seq(S) /\ Len(ButLast(c)) = Len(c) - 1
         /\ Len(c) \in Nat /\ Len(c) \in 1 .. Len(c)
         /\ \A i \in 1 .. Len(c) - 1 : ButLast(c)[i] = c[i]
<1> DEFINE n == Len(c)
<1>1. n \in Nat /\ n # 0 BY NonEmpty
<1>2. \A i \in 1 .. n - 1 : c[i] \in S BY <1>1, ElementOfSeq
<1>3. /\ ButLast(c) \in Seq(S)
      /\ Len(ButLast(c)) = IF 1 <= n - 1 THEN n - 1 - 1 + 1 ELSE 0
      /\ \A i \in 1 .. n - 1 - 1 + 1 : ButLast(c)[i] = c[1 + i - 1]
  BY <1>1, <1>2, SubSeqProperties DEF ButLast
<1> HIDE DEF n
<1>4. Len(ButLast(c)) = n - 1 BY <1>1, <1>3, Positions
<1>5. \A i \in 1 .. n - 1 : ButLast(c)[i] = c[i] BY <1>1, <1>3, Positions
<1> QED BY <1>1, <1>3, <1>4, <1>5, Positions DEF n

LEMMA NestedPop ==
  ASSUME NEW S, NEW c \in Seq(S), c # <<>>, Nested(c)
  PROVE  Nested(ButLast(c))
<1> DEFINE b == ButLast(c)
           n == Len(c)
<1>1. n \in Nat /\ Len(b) = n - 1 /\ \A i \in 1 .. n - 1 : b[i] = c[i]
  BY ButLastOf
<1> HIDE DEF b
<1>2. \A i \in 1 .. n - 1 - 1 : i \in 1 .. n - 1 /\ i + 1 \in 1 .. n - 1 BY <1>1
<1>3. \A i \in 1 .. n - 1 : i \in 1 .. n BY <1>1
<1>4. \A i \in 1 .. n - 1, k \in 1 .. n - 1 : \A j \in k + 1 .. i : j \in 1 .. n - 1 BY <1>1
<1>5. \A i \in 1 .. n - 1 : \A k \in 1 .. i : k \in 1 .. n - 1 BY <1>1
<1>6. \A i \in 1 .. n - 1 - 1 : Leads(b[i], b[i + 1]) BY <1>1, <1>2 DEF Nested
<1>7. \A i \in 1 .. n - 1 : InLoop(c, i) => InLoop(b, i)
  BY <1>1, <1>4, <1>5 DEF InLoop
<1>8. \A i \in 1 .. n - 1 : InCall(c, i) => InCall(b, i)
  BY <1>1, <1>4, <1>5 DEF InCall
<1>9. \A i \in 1 .. n - 1 : MayBreak(b[i]) => InLoop(b, i)
  BY <1>1, <1>3, <1>7 DEF Nested
<1>10. \A i \in 1 .. n - 1 : InCall(b, i) BY <1>3, <1>8 DEF Nested
<1>11. \A i \in 1 .. n - 1 : Proper(b[i]) BY <1>1, <1>3 DEF Nested
<1> QED BY <1>1, <1>6, <1>9, <1>10, <1>11 DEF Nested, b
----------------------------------------------------------------------------
\* Nothing but the way out is open to an execution while a jump is pending.
LEMMA Straight ==
  ASSUME IInv, JumpInv, status = "running"
  PROVE  /\ ctrl \in Seq(Level) /\ ctrl # <<>> /\ Top \in Level
         /\ Len(ctrl) \in Nat /\ Len(ctrl) \in 1 .. Len(ctrl)
         /\ ~Underway(Top) => ~returning /\ ~brk
<1>1. ctrl # <<>> /\ Top \in Level BY Standpoint
<1>2. ctrl \in Seq(Level) BY DEF IInv, Good
<1>3. Len(ctrl) \in Nat /\ Len(ctrl) \in 1 .. Len(ctrl) BY <1>1, <1>2, NonEmpty, Positions
<1>4. ~Underway(Top) => ~returning /\ ~brk
  BY <1>1 DEF JumpInv, Unwinding, Top, IInv, Flags
<1> QED BY <1>1, <1>2, <1>3, <1>4

\* A node is started: the block waits for it, and no jump is pending.
LEMMA NodeNested ==
  ASSUME IInv, JumpInv, NEW kinds, AtNode(kinds)
  PROVE  /\ ~returning /\ ~brk
         /\ Stepped \in Seq(Level) /\ Stepped # <<>> /\ Nested(Stepped)
         /\ Stepped[Len(Stepped)].kind = "block" /\ Underway(Stepped[Len(Stepped)])
         /\ TheNode \in Breaking => MayBreak(Stepped[Len(Stepped)])
<1>1. status = "running" /\ Top.kind = "block" /\ NodeReady BY DEF AtNode, Running
<1>2. /\ ctrl \in Seq(Level) /\ ctrl # <<>> /\ Top \in BlockLevel
      /\ ~Underway(Top) => ~returning /\ ~brk
  BY <1>1, Straight, LevelKinds
<1>3. ~returning /\ ~brk
  <2>1. CASE Top.pc = 0 BY <2>1, <1>1, <1>2 DEF Underway
  <2>2. CASE Top.pc # 0 BY <2>2, <1>1 DEF NodeReady, Abrupt
  <2> QED BY <2>1, <2>2
<1> DEFINE l == [Top EXCEPT !.pc = @ + 1]
<1>4. /\ l.kind = "block" /\ l.pc = Top.pc + 1 /\ l.nodes = Top.nodes
      /\ Top.pc \in Nat /\ Top.nodes \in Seq(Node)
  BY <1>2, <1>1 DEF BlockLevel
<1>5. Stepped = LastIs(ctrl, l) BY DEF Stepped, Replaced, LastIs
<1> HIDE DEF l
<1>6. MayBreak(l) => MayBreak(Top) BY <1>1, <1>4 DEF MayBreak
<1>7. /\ Nested(Stepped) /\ Stepped # <<>> /\ Stepped[Len(Stepped)] = l
  <2>1. /\ l.kind = ctrl[Len(ctrl)].kind
        /\ l.kind = "eval" => l.goal = ctrl[Len(ctrl)].goal
    BY <1>1, <1>4 DEF Top
  <2>2. MayBreak(l) => MayBreak(ctrl[Len(ctrl)]) BY <1>6 DEF Top
  <2>3. ctrl \in Seq(Level) /\ ctrl # <<>> /\ Nested(ctrl) BY <1>2 DEF JumpInv
  <2>4. Proper(l) BY <1>4 DEF Proper, Loops
  <2> QED BY ZenonT(30), <2>1, <2>2, <2>3, <2>4, <1>5, NestedReplace
<1>8. Stepped \in Seq(Level) BY NodeStep DEF Good
<1>9. Underway(l) BY <1>4 DEF Underway, Loops
<1>10. TheNode \in Breaking => MayBreak(l)
  <2>1. Top.pc + 1 \in 1 .. Len(Top.nodes) BY <1>1, <1>4, LenProperties DEF NodeReady
  <2> QED BY <2>1, <1>4 DEF TheNode, MayBreak, Contains
<1> QED BY <1>3, <1>4, <1>7, <1>8, <1>9, <1>10

LEMMA OperationNested ==
  ASSUME IInv, JumpInv, NEW ops, AtOperation(ops)
  PROVE  /\ ~returning /\ ~brk
         /\ Advanced \in Seq(Level) /\ Advanced # <<>> /\ Nested(Advanced)
<1>1. status = "running" /\ Top.kind = "eval" BY DEF AtOperation, Running
<1>2. /\ ctrl \in Seq(Level) /\ ctrl # <<>> /\ Top \in EvalLevel
      /\ ~Underway(Top) => ~returning /\ ~brk
  BY <1>1, Straight, LevelKinds
<1>3. ~Underway(Top) BY <1>1 DEF Underway
<1> DEFINE l == [Top EXCEPT !.pc = @ + 1]
<1>4. l.kind = "eval" /\ l.goal = Top.goal BY <1>2 DEF EvalLevel
<1>5. Advanced = LastIs(ctrl, l) BY DEF Advanced, Replaced, LastIs
<1> HIDE DEF l
<1>6. ~MayBreak(l) /\ Proper(l) BY <1>1, <1>4, <1>2 DEF MayBreak, Proper, Loops, EvalLevel
<1>7. Nested(Advanced)
  BY <1>1, <1>2, <1>4, <1>5, <1>6, NestedReplace DEF JumpInv, Top
<1>8. Advanced \in Seq(Level) /\ Advanced # <<>> BY OperationStep DEF Good
<1> QED BY <1>2, <1>3, <1>7, <1>8

LEMMA StageNested ==
  ASSUME IInv, JumpInv, Running(Loops \union {"if"}), NEW stage \in Stages
  PROVE  /\ Top.stage # "body" => ~returning /\ ~brk
         /\ Stage(stage) \in Seq(Level) /\ Stage(stage) # <<>> /\ Nested(Stage(stage))
         /\ LET l == Stage(stage)[Len(Stage(stage))]
            IN l.kind = Top.kind /\ l.stage = stage /\ l.node = Top.node
<1>1. status = "running" /\ Top.kind \in Loops \union {"if"} BY DEF Running
<1>2. /\ ctrl \in Seq(Level) /\ ctrl # <<>> /\ Top \in IfLevel \union LoopLevel
      /\ Len(ctrl) \in 1 .. Len(ctrl)
      /\ ~Underway(Top) => ~returning /\ ~brk
  BY <1>1, Straight, LevelKinds
<1>3. Top.stage # "body" => ~Underway(Top) BY <1>1 DEF Underway
<1> DEFINE l == [Top EXCEPT !.stage = stage]
<1>4. l.kind = Top.kind /\ l.stage = stage /\ l.node = Top.node
  BY <1>2 DEF IfLevel, LoopLevel
<1>5. Stage(stage) = LastIs(ctrl, l) BY DEF Stage, Replaced, LastIs
<1> HIDE DEF l
<1>6. MayBreak(l) => MayBreak(Top) BY <1>1, <1>4 DEF MayBreak, Loops
<1>7. Top.kind # "eval" BY <1>1 DEF Loops
<1>8. Nested(Stage(stage)) /\ Stage(stage)[Len(Stage(stage))] = l
  <2>1. /\ l.kind = ctrl[Len(ctrl)].kind
        /\ l.kind = "eval" => l.goal = ctrl[Len(ctrl)].goal
    BY <1>4, <1>7 DEF Top
  <2>2. MayBreak(l) => MayBreak(ctrl[Len(ctrl)]) BY <1>6 DEF Top
  <2>3. ctrl \in Seq(Level) /\ ctrl # <<>> /\ Nested(ctrl) BY <1>2 DEF JumpInv
  <2>4. Proper(Top) BY <1>2 DEF JumpInv, Nested, Top
  <2>5. Proper(l) BY <2>4, <1>4 DEF Proper
  <2>6. Nested(LastIs(ctrl, l)) /\ LastIs(ctrl, l)[Len(LastIs(ctrl, l))] = l
    BY ZenonT(30), <2>1, <2>2, <2>3, <2>5, NestedReplace
  <2> QED BY <2>6, <1>5
<1>9. Stage(stage) \in Seq(Level) /\ Stage(stage) # <<>> BY StageStep DEF Good
<1> QED BY <1>2, <1>3, <1>4, <1>8, <1>9

\* Expressions and bodies that are started.
LEMMA NestedEval ==
  ASSUME NEW S, NEW c \in Seq(S), c # <<>>, Nested(c), NEW n, NEW e, NEW goal, NEW at,
         goal = "return" => Underway(c[Len(c)])
  PROVE  Nested(Append(c, Eval(n, e, goal, at)))
<1> DEFINE l == Eval(n, e, goal, at)
<1>1. l.kind = "eval" /\ l.goal = goal BY DEF Eval
<1> HIDE DEF l
<1>2. Leads(c[Len(c)], l) /\ ~MayBreak(l) /\ Proper(l)
  BY <1>1 DEF Leads, MayBreak, Proper, Loops
<1>3. Nested(Append(c, l)) BY <1>2, NestedPush
<1> QED BY <1>3 DEF l

LEMMA NestedBlock ==
  ASSUME NEW S, NEW c \in Seq(S), c # <<>>, Nested(c), NEW body, NEW at,
         Underway(c[Len(c)]),
         Contains(body, Breaking) => c[Len(c)].kind \in Loops \/ MayBreak(c[Len(c)])
  PROVE  Nested(Append(c, Block(body, at)))
<1> DEFINE l == Block(body, at)
<1>1. l.kind = "block" /\ l.nodes = body BY DEF Block
<1> HIDE DEF l
<1>2. Leads(c[Len(c)], l) /\ Proper(l) BY <1>1 DEF Leads, Proper, Loops
<1>3. MayBreak(l) => Contains(body, Breaking) BY <1>1 DEF MayBreak
<1>4. c[Len(c)].kind \in Loops => c[Len(c)].stage = "body" BY DEF Underway
<1>5. Nested(Append(c, l)) BY <1>2, <1>3, <1>4, NestedPush
<1> QED BY <1>5 DEF l

\* A jump out of the innermost activation finds one that it can go on with.
LEMMA BelowUnderway ==
  ASSUME NEW S, NEW c \in Seq(S), c # <<>>, Nested(c), ButLast(c) # <<>>,
         \/ c[Len(c)].kind \in Loops \union {"block", "if"}
         \/ c[Len(c)].kind = "eval" /\ c[Len(c)].goal = "return"
  PROVE  Underway(ButLast(c)[Len(ButLast(c))])
<1> DEFINE b == ButLast(c)
           n == Len(c)
<1>1. /\ n \in Nat /\ n \in 1 .. n /\ b \in Seq(S) /\ Len(b) = n - 1
      /\ \A i \in 1 .. n - 1 : b[i] = c[i]
  BY ButLastOf
<1> HIDE DEF b
<1>2. n - 1 \in Nat /\ n - 1 # 0
  <2>1. b # <<>> BY DEF b
  <2> QED BY <1>1, <2>1, NonEmpty
<1>3. n - 1 \in 1 .. n - 1 /\ n - 1 + 1 = n BY <1>1, <1>2
<1>4. Leads(c[n - 1], c[n]) BY <1>3 DEF Nested
<1>5. b[Len(b)] = c[n - 1] BY <1>1, <1>3
<1> QED BY <1>4, <1>5 DEF Leads, b

\* The innermost activation ends, and a jump out of it goes on below.
LEMMA UnwindingPop ==
  ASSUME NEW S, NEW c \in Seq(S), c # <<>>, Nested(c), NEW return, NEW break,
         Unwinding(c, return, break),
         return \/ break => c[Len(c)].kind \in Loops \union {"block", "if"},
         break => c[Len(c)].kind \notin Loops
  PROVE  Unwinding(ButLast(c), return, break)
<1> DEFINE b == ButLast(c)
           n == Len(c)
<1>1. /\ n \in Nat /\ n \in 1 .. n /\ b \in Seq(S) /\ Len(b) = n - 1
      /\ \A i \in 1 .. n - 1 : b[i] = c[i]
  BY ButLastOf
<1> HIDE DEF b
<1>2. ASSUME return \/ break, b # <<>> PROVE Underway(b[Len(b)])
  BY <1>2, BelowUnderway DEF b
<1>3. ASSUME break PROVE InLoop(b, Len(b))
  <2>1. PICK k \in 1 .. n : /\ c[k].kind \in Loops /\ c[k].stage = "body"
                            /\ \A j \in k + 1 .. n : c[j].kind \in {"block", "if"}
    BY <1>3 DEF Unwinding, InLoop
  <2>2. k # n BY <2>1, <1>3
  <2>3. k \in 1 .. n - 1 /\ \A j \in k + 1 .. n - 1 : j \in k + 1 .. n /\ j \in 1 .. n - 1
    BY <2>2, <1>1
  <2> QED BY <2>1, <2>3, <1>1 DEF InLoop
<1> QED BY <1>2, <1>3 DEF Unwinding, b
----------------------------------------------------------------------------
\* The programs keep their breaks inside loops.
LEMMA BreakingNodes ==
  ASSUME NEW n \in Node
  PROVE  /\ n.kind = "break" => n \in Breaking
         /\ n.kind \in {"block", "if"} /\ Contains(n.body, Breaking) => n \in Breaking
         /\ \A k \in 1 .. Len(n.ifs) :
              n.kind = "if" /\ Contains(n.ifs[k].body, Breaking) => n \in Breaking
BY BreakAssumption DEF BreaksOut

LEMMA JumpInitially == Init => JumpInv
<1> SUFFICES ASSUME Init PROVE JumpInv OBVIOUS
<1> DEFINE c == << Called("call", 1) >>
<1>1. ctrl = Append(c, Block(prog[Main], [frame |-> 1, height |-> 2]))
  BY DEF Init, Body
<1>2. c \in Seq({Called("call", 1)}) /\ Len(c) = 1 /\ c[1].kind = "call"
  BY DEF Called
<1>3. c # <<>> BY <1>2, NonEmpty
<1> HIDE DEF c
<1>4. Nested(c)
  <2>1. ~MayBreak(c[1]) /\ Proper(c[1]) BY <1>2 DEF MayBreak, Proper, Loops
  <2>2. InCall(c, 1) BY <1>2 DEF InCall, CallOps
  <2> QED BY <2>1, <2>2, <1>2 DEF Nested
<1>5. Underway(c[Len(c)]) BY <1>2 DEF Underway, Loops
<1>6. ~Contains(prog[Main], Breaking) BY BreakAssumption, ProgramAssumption DEF Init
<1>7. Nested(ctrl) BY <1>1, <1>2, <1>3, <1>4, <1>5, <1>6, NestedBlock
<1>8. ~returning /\ ~brk BY DEF Init
<1> QED BY <1>7, <1>8 DEF JumpInv, Unwinding

\* What each kind of step does to the nesting and to the jumps.
LEMMA BlockJumps ==
  ASSUME IInv, JumpInv, BlockStep
  PROVE  JumpInv'
<1> USE DEF JumpInv
<1>1. CASE ExecuteExpression
  <2>1. AtNode({"infix", "return", "decl"}) BY <1>1 DEF ExecuteExpression
  <2>2. ctrl' = Append(Stepped, Eval(TheNode, TheNode.expr, TheNode.kind, Here))
    BY <1>1 DEF ExecuteExpression
  <2>3. Nested(ctrl') BY <2>1, <2>2, NodeNested, NestedEval
  <2> QED BY <1>1, <2>1, <2>3, NodeNested DEF ExecuteExpression, Unwinding
<1>2. CASE ExecuteDefaultDeclaration
  <2>1. AtNode({"decl"}) /\ ctrl' = Stepped BY <1>2 DEF ExecuteDefaultDeclaration
  <2> QED BY <1>2, <2>1, NodeNested DEF ExecuteDefaultDeclaration, Unwinding
<1>3. CASE ExecuteImplicitReturn
  <2>1. AtNode({"implicit_return"}) /\ ctrl' = Stepped BY <1>3 DEF ExecuteImplicitReturn
  <2> QED BY <1>3, <2>1, NodeNested DEF ExecuteImplicitReturn, Unwinding
<1>4. CASE ExecuteBreak
  <2>1. AtNode({"break"}) /\ ctrl' = Stepped BY <1>4 DEF ExecuteBreak
  <2>2. TheNode \in Breaking BY <2>1, NodeStep, BreakingNodes
  <2>3. /\ Stepped \in Seq(Level) /\ Stepped # <<>> /\ Nested(Stepped)
        /\ MayBreak(Stepped[Len(Stepped)]) /\ Underway(Stepped[Len(Stepped)])
    BY <2>1, <2>2, NodeNested
  <2>4. Len(Stepped) \in 1 .. Len(Stepped) BY <2>3, NonEmpty, Positions
  <2>5. InLoop(Stepped, Len(Stepped)) BY <2>3, <2>4 DEF Nested
  <2> QED BY <1>4, <2>1, <2>3, <2>5, NodeNested DEF ExecuteBreak, Unwinding
<1>5. CASE ExecuteBlock
  <2>1. AtNode({"block"}) /\ ctrl' = Append(Stepped, Block(TheNode.body, Inner))
    BY <1>5 DEF ExecuteBlock
  <2>2. Contains(TheNode.body, Breaking) => TheNode \in Breaking
    BY <2>1, NodeStep, BreakingNodes
  <2>3. Nested(ctrl') BY <2>1, <2>2, NodeNested, NestedBlock
  <2> QED BY <1>5, <2>1, <2>3, NodeNested DEF ExecuteBlock, Unwinding
<1>6. CASE ExecuteOldScript
  <2>1. AtNode({"old_script"}) /\ ctrl' = Stepped BY <1>6 DEF ExecuteOldScript
  <2> QED BY <1>6, <2>1, NodeNested DEF ExecuteOldScript, Unwinding
<1>7. CASE ExecuteIf
  <2> DEFINE branch == [kind |-> "if", node |-> TheNode, pc |-> 1, stage |-> "cond", at |-> Here]
             c == Append(Stepped, branch)
  <2>1. AtNode({"if"}) /\ ctrl' = Append(c, Eval(TheNode, TheNode.ifs[1].cond, "cond", Here))
    BY <1>7 DEF ExecuteIf
  <2>2. branch.kind = "if" /\ branch.node = TheNode OBVIOUS
  <2> HIDE DEF branch
  <2>3. (MayBreak(branch) => TheNode \in Breaking) /\ Proper(branch)
    BY <2>1, <2>2 DEF MayBreak, Proper, AtNode
  <2>4. Nested(c) /\ c \in Seq(Level \union {branch}) /\ c # <<>>
    <3>1. Leads(Stepped[Len(Stepped)], branch) BY <2>1, NodeNested DEF Leads
    <3> QED BY <2>1, <2>3, <3>1, NodeNested, NestedPush
  <2> HIDE DEF c
  <2>5. Nested(ctrl') BY <2>1, <2>4, NestedEval
  <2> QED BY <1>7, <2>1, <2>5, NodeNested DEF ExecuteIf, Unwinding
<1>8. CASE ExecuteWhile
  <2> DEFINE loop == [kind |-> "while", node |-> TheNode, stage |-> "cond", at |-> Here]
             c == Append(Stepped, loop)
  <2>1. AtNode({"while"}) /\ ctrl' = Append(c, Eval(TheNode, TheNode.expr, "cond", Here))
    BY <1>8 DEF ExecuteWhile
  <2>2. loop.kind = "while" /\ loop.node = TheNode OBVIOUS
  <2> HIDE DEF loop
  <2>3. ~MayBreak(loop) /\ Proper(loop) BY <2>1, <2>2 DEF MayBreak, Proper, AtNode
  <2>4. Nested(c) /\ c \in Seq(Level \union {loop}) /\ c # <<>>
    <3>1. Leads(Stepped[Len(Stepped)], loop) BY <2>1, NodeNested DEF Leads
    <3> QED BY <2>1, <2>3, <3>1, NodeNested, NestedPush
  <2> HIDE DEF c
  <2>5. Nested(ctrl') BY <2>1, <2>4, NestedEval
  <2> QED BY <1>8, <2>1, <2>5, NodeNested DEF ExecuteWhile, Unwinding
<1>9. CASE ExecuteFor
  <2> DEFINE loop == [kind |-> "for", node |-> TheNode, stage |-> "init", at |-> Inner]
  <2>1. AtNode({"for"}) /\ ctrl' = Append(Stepped, loop) BY <1>9 DEF ExecuteFor
  <2>2. loop.kind = "for" /\ loop.node = TheNode OBVIOUS
  <2> HIDE DEF loop
  <2>3. ~MayBreak(loop) /\ Proper(loop) BY <2>1, <2>2 DEF MayBreak, Proper, AtNode
  <2>4. Leads(Stepped[Len(Stepped)], loop) BY <2>1, NodeNested DEF Leads
  <2>5. Nested(ctrl') BY <2>1, <2>3, <2>4, NodeNested, NestedPush
  <2> QED BY <1>9, <2>1, <2>5, NodeNested DEF ExecuteFor, Unwinding
<1>10. CASE LeaveBlock
  <2>1. status = "running" /\ Top.kind = "block" BY <1>10 DEF LeaveBlock, Running
  <2>2. ctrl \in Seq(Level) /\ ctrl # <<>> BY <2>1, Straight
  <2>3. ctrl' = ButLast(ctrl) BY <1>10 DEF LeaveBlock, Below, ButLast
  <2>4. ctrl[Len(ctrl)].kind = "block" BY <2>1 DEF Top
  <2>5. Nested(ctrl') BY <2>2, <2>3, NestedPop
  <2>6. Unwinding(ctrl', returning, brk) BY <2>2, <2>3, <2>4, UnwindingPop DEF Loops
  <2> QED BY <1>10, <2>5, <2>6 DEF LeaveBlock
<1> QED BY <1>1, <1>2, <1>3, <1>4, <1>5, <1>6, <1>7, <1>8, <1>9, <1>10 DEF BlockStep

\* An expression ends, with no jump pending.
LEMMA EvalNested ==
  ASSUME IInv, JumpInv, Running({"eval"})
  PROVE  /\ ~returning /\ ~brk /\ Nested(Below)
         /\ Below \in Seq(Level) /\ Below # <<>>
         /\ Top.goal = "return" => Underway(Below[Len(Below)])
<1>1. status = "running" /\ Top.kind = "eval" BY DEF Running
<1>2. /\ ctrl \in Seq(Level) /\ ctrl # <<>>
      /\ ~Underway(Top) => ~returning /\ ~brk
  BY <1>1, Straight
<1>3. ~returning /\ ~brk BY <1>1, <1>2 DEF Underway
<1>4. Below = ButLast(ctrl) BY DEF Below, ButLast
<1>5. Nested(Below) BY <1>2, <1>4, NestedPop DEF JumpInv
<1>6. Below \in Seq(Level) /\ Below # <<>> BY EvalEnds DEF Good
<1>7. ASSUME Top.goal = "return" PROVE Underway(Below[Len(Below)])
  BY <1>1, <1>2, <1>4, <1>6, <1>7, BelowUnderway DEF JumpInv, Top
<1> QED BY <1>3, <1>5, <1>6, <1>7

LEMMA EvalJumps ==
  ASSUME IInv, JumpInv, EvalStep
  PROVE  JumpInv'
<1> USE DEF JumpInv, Unwinding
<1>1. CASE EvaluateUse BY <1>1, OperationNested DEF EvaluateUse
<1>2. CASE EvaluateBuiltin BY <1>2, OperationNested DEF EvaluateBuiltin
<1>3. CASE EvaluateFatal BY <1>3, OperationNested DEF EvaluateFatal
<1>4. CASE EvaluateComponent BY <1>4, OperationNested DEF EvaluateComponent
<1>5. CASE EvaluateCall
  <2> DEFINE a == Called(Operand.op, Len(frames) + 1)
             b == Body(Operand.fun, Len(frames) + 1)
             c == Append(Advanced, a)
  <2>1. AtOperation(CallOps) /\ UNCHANGED <<returning, brk>> BY <1>5 DEF EvaluateCall
  <2>2. CASE ctrl' = ctrl BY <2>1, <2>2
  <2>3. CASE ctrl' = Append(c, b)
    <3>1. a.kind \in CallOps BY <2>1 DEF AtOperation, Called
    <3>2. ~Contains(prog[Operand.fun], Breaking)
      <4>1. Operand.fun \in Fun BY <2>1, OperationStep DEF Operation, CallOps
      <4> QED BY <4>1, BreakAssumption DEF IInv, Flags
    <3>3. b = Block(prog[Operand.fun], [frame |-> Len(frames) + 1, height |-> 2]) BY DEF Body
    <3> HIDE DEF a, b
    <3>4. ~MayBreak(a) /\ Proper(a) /\ Underway(a) /\ Leads(Advanced[Len(Advanced)], a)
      BY <3>1 DEF MayBreak, Proper, Underway, Leads, CallOps, Loops
    <3>5. /\ Nested(c) /\ c \in Seq(Level \union {a}) /\ c # <<>>
          /\ c[Len(c)] = a
      BY <2>1, <3>4, OperationNested, NestedPush
    <3> HIDE DEF c
    <3>6. Nested(ctrl') BY <2>3, <3>2, <3>3, <3>4, <3>5, NestedBlock
    <3> QED BY <2>1, <3>6, OperationNested
  <2> QED BY <1>5, <2>2, <2>3 DEF EvaluateCall
<1>6. CASE SkipCall BY <1>6, OperationNested DEF SkipCall
<1>7. CASE EvaluateUnary BY <1>7, OperationNested DEF EvaluateUnary
<1>8. CASE EndInfix BY <1>8, EvalNested DEF EndInfix
<1>9. CASE EndReturn BY <1>9, EvalNested DEF EndReturn
<1>10. CASE EndDeclaration BY <1>10, EvalNested DEF EndDeclaration
<1>11. CASE EndCondition
  <2>1. Running({"eval"}) /\ Top.goal = "cond" /\ UNCHANGED <<returning, brk>>
    BY <1>11 DEF EndCondition
  <2>2. /\ Below[Len(Below)] \in IfLevel \union LoopLevel
        /\ Below[Len(Below)].kind \in Loops \union {"if"}
    BY <2>1, EvalEnds, LevelKinds
  <2>3. PICK value \in Stages :
          ctrl' = [Below EXCEPT ![Len(Below)] = [@ EXCEPT !.stage = value]]
    BY <1>11 DEF EndCondition, Stages
  <2> DEFINE l == [Below[Len(Below)] EXCEPT !.stage = value]
  <2>4. l.kind = Below[Len(Below)].kind /\ l.node = Below[Len(Below)].node
    BY <2>2 DEF IfLevel, LoopLevel
  <2>5. ctrl' = LastIs(Below, l) BY <2>3 DEF LastIs
  <2> HIDE DEF l
  <2>6. MayBreak(l) => MayBreak(Below[Len(Below)]) BY <2>2, <2>4 DEF MayBreak, Loops
  <2>7. l.kind = "eval" => l.goal = Below[Len(Below)].goal BY <2>2, <2>4 DEF Loops
  <2>8. /\ Below \in Seq(Level) /\ Below # <<>> /\ Nested(Below)
        /\ Len(Below) \in 1 .. Len(Below)
    BY <2>1, EvalNested, NonEmpty, Positions
  <2>9. Proper(l)
    <3>1. Proper(Below[Len(Below)]) BY <2>8 DEF Nested
    <3> QED BY <3>1, <2>4 DEF Proper
  <2>10. Nested(ctrl') BY <2>4, <2>5, <2>6, <2>7, <2>8, <2>9, NestedReplace
  <2> QED BY <2>1, <2>10, EvalNested
<1> QED BY <1>1, <1>2, <1>3, <1>4, <1>5, <1>6, <1>7, <1>8, <1>9, <1>10, <1>11 DEF EvalStep

LEMMA BranchJumps ==
  ASSUME IInv, JumpInv, BranchStep
  PROVE  JumpInv'
<1> USE DEF JumpInv, Unwinding
<1>1. CASE NullCondition BY <1>1 DEF NullCondition
<1>2. CASE IfBody
  <2> DEFINE body == IF Top.stage = "true" THEN Top.node.ifs[Top.pc].body ELSE Top.node.body
             c == Stage("body")
  <2>1. /\ status = "running" /\ Top.kind = "if" /\ Running(Loops \union {"if"})
        /\ Top.stage # "body" /\ UNCHANGED <<returning, brk>>
        /\ ctrl' = Append(c, Block(body, Inner))
    BY <1>2 DEF IfBody, AtStage, Running
  <2>2. "body" \in Stages BY DEF Stages
  <2>3. /\ ~returning /\ ~brk
        /\ c \in Seq(Level) /\ c # <<>> /\ Nested(c)
        /\ c[Len(c)].kind = "if" /\ c[Len(c)].stage = "body" /\ c[Len(c)].node = Top.node
    BY <2>1, <2>2, StageNested
  <2>4. Contains(body, Breaking) => Top.node \in Breaking
    <3>1. Top \in IfLevel BY <2>1, Straight, LevelKinds
    <3>2. Top.node \in Node /\ Top.pc \in 1 .. Len(Top.node.ifs) BY <3>1 DEF IfLevel
    <3>3. Top.node.kind = "if"
      <4>1. ctrl # <<>> /\ Len(ctrl) \in 1 .. Len(ctrl) BY <2>1, Straight
      <4> QED BY <4>1, <2>1 DEF Nested, Proper, Top
    <3> QED BY <3>2, <3>3, BreakingNodes
  <2> HIDE DEF body, c
  <2>5. Underway(c[Len(c)]) BY <2>3 DEF Underway
  <2>6. Contains(body, Breaking) => c[Len(c)].kind \in Loops \/ MayBreak(c[Len(c)])
    BY <2>3, <2>4 DEF MayBreak
  <2>7. Nested(ctrl') BY <2>1, <2>3, <2>5, <2>6, NestedBlock
  <2> QED BY <2>1, <2>3, <2>7
<1>3. CASE ElseIf
  <2> DEFINE l == [Top EXCEPT !.stage = "cond", !.pc = @ + 1]
             c == Replaced(l)
             part == Top.node.ifs[Top.pc + 1]
  <2>1. /\ status = "running" /\ Top.kind = "if" /\ Top.stage # "body"
        /\ UNCHANGED <<returning, brk>>
        /\ ctrl' = Append(c, Eval(Top.node, part.cond, "cond", Here))
    BY <1>3 DEF ElseIf, AtStage, Running
  <2>2. /\ ctrl \in Seq(Level) /\ ctrl # <<>> /\ Len(ctrl) \in 1 .. Len(ctrl)
        /\ Top \in IfLevel /\ ~returning /\ ~brk
    BY <2>1, Straight, LevelKinds DEF Underway
  <2>3. l.kind = "if" /\ l.node = Top.node BY <2>2 DEF IfLevel
  <2>4. c = LastIs(ctrl, l) BY DEF Replaced, LastIs
  <2> HIDE DEF l, c, part
  <2>5. Proper(l) /\ (MayBreak(l) => MayBreak(ctrl[Len(ctrl)])) /\ l.kind = ctrl[Len(ctrl)].kind
    BY <2>1, <2>2, <2>3 DEF Nested, Proper, MayBreak, Top
  <2>6. Nested(c) /\ c \in Seq(Level \union {l}) /\ c # <<>>
    BY <2>2, <2>3, <2>4, <2>5, NestedReplace
  <2>7. Nested(ctrl') BY <2>1, <2>6, NestedEval
  <2> QED BY <2>1, <2>2, <2>7
<1>4. CASE LeaveIf
  <2>1. status = "running" /\ Top.kind = "if" BY <1>4 DEF LeaveIf, AtStage, Running
  <2>2. ctrl \in Seq(Level) /\ ctrl # <<>> BY <2>1, Straight
  <2>3. ctrl' = ButLast(ctrl) BY <1>4 DEF LeaveIf, Below, ButLast
  <2>4. ctrl[Len(ctrl)].kind = "if" BY <2>1 DEF Top
  <2>5. Nested(ctrl') BY <2>2, <2>3, NestedPop
  <2>6. Unwinding(ctrl', returning, brk) BY <2>2, <2>3, <2>4, UnwindingPop DEF Loops
  <2> QED BY <1>4, <2>5, <2>6 DEF LeaveIf
<1> QED BY <1>1, <1>2, <1>3, <1>4 DEF BranchStep

\* The condition of a loop is asked for.
LEMMA ConditionNested ==
  ASSUME IInv, JumpInv, Running(Loops), CheckCondition
  PROVE  Nested(ctrl')
<1>1. Running(Loops \union {"if"}) BY DEF Running
<1>2. CASE Top.kind = "for" /\ ~Top.node.hasExpr
  <2>1. ctrl' = Stage("true") BY <1>2 DEF CheckCondition
  <2>2. "true" \in Stages BY DEF Stages
  <2> QED BY <1>1, <2>1, <2>2, StageNested
<1>3. CASE ~(Top.kind = "for" /\ ~Top.node.hasExpr)
  <2>1. ctrl' = Append(Stage("cond"), Eval(Top.node, Top.node.expr, "cond", Here))
    BY <1>3 DEF CheckCondition
  <2>2. "cond" \in Stages BY DEF Stages
  <2> QED BY <1>1, <2>1, <2>2, StageNested, NestedEval
<1> QED BY <1>2, <1>3

LEMMA LoopJumps ==
  ASSUME IInv, JumpInv, LoopStep
  PROVE  JumpInv'
<1> USE DEF JumpInv
<1>1. CASE ForInit
  <2> DEFINE c == Stage("iteration")
             n == Top.node.init[1]
  <2>1. /\ Running(Loops \union {"if"}) /\ Top.stage # "body" /\ Top.node.init # <<>>
        /\ status = "running" /\ Top.kind = "for" /\ UNCHANGED <<returning, brk>>
        /\ ctrl' = c \/ ctrl' = Append(c, Eval(n, n.expr, n.kind, Here))
    BY <1>1 DEF ForInit, AtStage, Running, Loops
  <2>2. "iteration" \in Stages BY DEF Stages
  <2>3. ~returning /\ ~brk /\ c \in Seq(Level) /\ c # <<>> /\ Nested(c)
    BY <2>1, <2>2, StageNested
  <2>4. n.kind # "return"
    <3>1. Top \in LoopLevel BY <2>1, Straight, LevelKinds DEF Loops
    <3>2. Top.node \in Node BY <3>1 DEF LoopLevel
    <3>3. Top.node.init \in Seq(Node) BY <3>2, NodeAssumption
    <3>4. 1 \in 1 .. Len(Top.node.init) BY <2>1, <3>3, NonEmpty, Positions
    <3> QED BY <3>2, <3>4, NodeAssumption
  <2> HIDE DEF c, n
  <2>5. Nested(Append(c, Eval(n, n.expr, n.kind, Here))) BY <2>3, <2>4, NestedEval
  <2> QED BY <2>1, <2>3, <2>5 DEF Unwinding
<1>2. CASE ForCondition
  <2>1. /\ Running(Loops) /\ Running(Loops \union {"if"}) /\ Top.stage # "body" /\ CheckCondition
        /\ UNCHANGED <<returning, brk>>
    BY <1>2 DEF ForCondition, AtStage, Running, Loops
  <2>2. "true" \in Stages BY DEF Stages
  <2>3. ~returning /\ ~brk BY <2>1, <2>2, StageNested
  <2>4. Nested(ctrl') BY <2>1, ConditionNested
  <2> QED BY <2>1, <2>3, <2>4 DEF Unwinding
<1>3. CASE LoopBody
  <2> DEFINE c == Stage("body")
             body == Top.node.body
  <2>1. /\ Running(Loops \union {"if"}) /\ Top.stage # "body" /\ Top.kind \in Loops
        /\ UNCHANGED <<returning, brk>>
        /\ ctrl' = Append(c, Block(body, Inner))
    BY <1>3 DEF LoopBody, AtStage, Running
  <2>2. "body" \in Stages BY DEF Stages
  <2>3. /\ ~returning /\ ~brk /\ c \in Seq(Level) /\ c # <<>> /\ Nested(c)
        /\ c[Len(c)].kind \in Loops /\ c[Len(c)].stage = "body"
    BY <2>1, <2>2, StageNested
  <2> HIDE DEF c, body
  <2>4. Underway(c[Len(c)]) BY <2>3 DEF Underway, Loops
  <2>5. Nested(ctrl') BY <2>1, <2>3, <2>4, NestedBlock
  <2> QED BY <2>1, <2>3, <2>5 DEF Unwinding
<1>4. CASE LoopFalse
  <2>1. /\ status = "running" /\ Running(Loops \union {"if"}) /\ Top.stage # "body"
        /\ ctrl' = ButLast(ctrl) /\ UNCHANGED <<returning, brk>>
    BY <1>4 DEF LoopFalse, AtStage, Running, EndLoop, Below, ButLast
  <2>2. "true" \in Stages BY DEF Stages
  <2>3. ~returning /\ ~brk BY <2>1, <2>2, StageNested
  <2>4. Nested(ctrl') BY <2>1, Straight, NestedPop
  <2> QED BY <2>1, <2>3, <2>4 DEF Unwinding
<1>5. CASE LeaveLoop
  <2>1. /\ status = "running" /\ Top.kind \in Loops
        /\ ctrl' = ButLast(ctrl) /\ UNCHANGED returning /\ brk' = BreakAfterLoop
    BY <1>5 DEF LeaveLoop, AtStage, Running, EndLoop, Below, ButLast
  <2>2. ~brk' BY <2>1 DEF BreakAfterLoop, Unwinding
  <2>3. ctrl \in Seq(Level) /\ ctrl # <<>> BY <2>1, Straight
  <2>4. Nested(ctrl') BY <2>1, <2>3, NestedPop
  <2>5. Unwinding(ctrl, returning, FALSE) BY DEF Unwinding
  <2>6. Unwinding(ButLast(ctrl), returning, FALSE)
    <3>1. ctrl[Len(ctrl)].kind \in Loops \union {"block", "if"} BY <2>1 DEF Top
    <3> QED BY <2>3, <2>5, <3>1, UnwindingPop
  <2>7. Unwinding(ctrl', returning', brk') BY <2>1, <2>2, <2>6 DEF Unwinding
  <2> QED BY <2>4, <2>7
<1>6. CASE LoopAgain
  <2>1. /\ Running(Loops) /\ Running(Loops \union {"if"}) /\ ~returning /\ ~brk
        /\ UNCHANGED <<returning, brk>>
    BY <1>6 DEF LoopAgain, AtStage, Running, LoopLeft
  <2>2. CASE Top.kind = "for" /\ Top.node.iteration # <<>>
    <3>1. ctrl' = Append(Stage("iteration"), Eval(Top.node, Top.node.iteration, "infix", Here))
      BY <1>6, <2>2 DEF LoopAgain
    <3>2. "iteration" \in Stages BY DEF Stages
    <3>3. Nested(ctrl') BY <2>1, <3>1, <3>2, StageNested, NestedEval
    <3> QED BY <2>1, <3>3 DEF Unwinding
  <2>3. CASE ~(Top.kind = "for" /\ Top.node.iteration # <<>>)
    <3>1. CheckCondition BY <1>6, <2>3 DEF LoopAgain
    <3>2. Nested(ctrl') BY <2>1, <3>1, ConditionNested
    <3> QED BY <2>1, <3>2 DEF Unwinding
  <2> QED BY <2>2, <2>3
<1> QED BY <1>1, <1>2, <1>3, <1>4, <1>5, <1>6 DEF LoopStep

\* A break has met its loop before a function ends, and a return ends with it.
LEMMA FunctionJumps ==
  ASSUME IInv, JumpInv, LeaveFunction
  PROVE  JumpInv'
<1>1. status = "running" /\ Top.kind \in CallOps BY DEF LeaveFunction, Running
<1>2. ctrl \in Seq(Level) /\ ctrl # <<>> /\ Len(ctrl) \in Nat BY <1>1, Straight
<1>3. ctrl' = ButLast(ctrl) /\ returning' = FALSE /\ brk' = brk
  BY DEF LeaveFunction, Below, ButLast
<1>4. Nested(ctrl') BY <1>2, <1>3, NestedPop DEF JumpInv
<1>5. ~brk
  <2> SUFFICES ASSUME brk PROVE FALSE OBVIOUS
  <2>1. PICK k \in 1 .. Len(ctrl) :
          /\ ctrl[k].kind \in Loops
          /\ \A j \in k + 1 .. Len(ctrl) : ctrl[j].kind \in {"block", "if"}
    BY DEF JumpInv, Unwinding, InLoop
  <2>2. k = Len(ctrl) \/ Len(ctrl) \in k + 1 .. Len(ctrl) BY <1>2
  <2> QED BY <1>1, <2>1, <2>2 DEF Top, Loops, CallOps
<1> QED BY <1>3, <1>4, <1>5 DEF JumpInv, Unwinding
----------------------------------------------------------------------------
\* Activations are nested as the jumps need them, in every state of every
\* execution of every program whose breaks are inside loops.
THEOREM JumpsInductive == Spec => [](IInv /\ JumpInv)
<1>1. Init => JumpInv BY JumpInitially
<1>2. IInv /\ JumpInv /\ [Next]_vars => JumpInv'
  <2> SUFFICES ASSUME IInv, JumpInv, [Next]_vars PROVE JumpInv' OBVIOUS
  <2>1. CASE UNCHANGED vars BY <2>1 DEF vars, JumpInv
  <2>2. CASE Step
    BY <2>2, BlockJumps, EvalJumps, BranchJumps, LoopJumps, FunctionJumps DEF Step
  <2> QED BY <2>1, <2>2 DEF Next, Stopped
<1> QED BY <1>1, <1>2, Inductive, PTL DEF Spec

\* m_breaking_from_loop is consumed by the loop the break belongs to: while it
\* is set only blocks and ifs are open inside that loop, so that it never
\* crosses a call, whatever the calls and loops around it.
THEOREM BreaksStay == Spec => []BreakStaysInLoop
<1>1. JumpInv => BreakStaysInLoop BY DEF JumpInv, Unwinding, InLoop, BreakStaysInLoop
<1> QED BY <1>1, JumpsInductive, PTL

\* m_function_return_value and m_breaking_from_loop are empty whenever an
\* expression is evaluated, so that no call takes the value of another.
THEOREM JumpsComplete == Spec => []JumpsFinishFirst
<1>1. ASSUME IInv, JumpInv PROVE JumpsFinishFirst
  <2> SUFFICES ASSUME status = "running", Top.kind = "eval" PROVE ~returning /\ ~brk
    BY DEF JumpsFinishFirst
  <2>1. ~Underway(Top) BY DEF Underway
  <2> QED BY <1>1, <2>1, Straight
<1> QED BY <1>1, JumpsInductive, PTL
====
