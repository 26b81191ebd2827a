---- MODULE LoaderProofs ----
(***************************************************************************)
(* The loader, for every project: the directory that scripts are looked up *)
(* in, what a file can use when a function of it runs, and the values of   *)
(* static variables; for the tidy ones, the one unit of each path.         *)
(***************************************************************************)
EXTENDS Loader, SequenceTheorems, TLAPS

Level == UnitLevel \union StaticsLevel \union FunctionLevel

\* A unit all of whose imports were resolved, and one that names can come from:
\* its variables exist as well.
Complete(us, u) ==
  /\ u \in 1 .. Len(us)
  /\ \A p \in Imports(fs[us[u].path].steps) : us[u].links[p] # None
DeclaredUpTo(statics, pc) ==
  { statics[i].name : i \in { i \in 1 .. pc : statics[i].do = "variable" } }
Declared(statics) == DeclaredUpTo(statics, Len(statics))
Initialized(us, u) == \A n \in Declared(fs[us[u].path].statics) : us[u].statics[n] # "absent"
Module(us, u, p) == Complete(us, u) /\ us[u].path = p /\ Initialized(us, u)

\* Units are made and changed, never taken back.
Filed(us) == \A u \in 1 .. Len(us) : us[u].path \in DOMAIN fs
Grows(us, us2) ==
  /\ us2 \in Seq(UnitRecord) /\ Len(us) <= Len(us2)
  /\ \A u \in 1 .. Len(us) :
       /\ us2[u].path = us[u].path /\ us2[u].lang = us[u].lang
       /\ \A p \in Path : us[u].links[p] # None => us2[u].links[p] # None
       /\ \A n \in Var :
            /\ us2[u].statics[n] = "absent" => us[u].statics[n] = "absent"
            /\ us[u].statics[n] = "written" => us2[u].statics[n] = "written"
            /\ us[u].globals[n] = "written" => us2[u].globals[n] = "written"

\* Nothing is named or stored before its own names are resolved.
Callable(us, s) == Complete(us, s) /\ (us[s].lang = "cmsl" => HasMain(us[s].path))
WellLinked(us) ==
  /\ Filed(us)
  /\ \A u \in 1 .. Len(us) :
       /\ \A p \in Path : us[u].links[p] # None => Module(us, us[u].links[p], p)
       /\ \A n \in Entry : us[u].scripts[n] # None => Callable(us, us[u].scripts[n])
HoldsComplete(cache, us) == \A p \in Path : cache[p] # None => Complete(us, cache[p])
HoldsDeclarative(cache, us) ==
  \A p \in Path : cache[p] # None => Complete(us, cache[p]) /\ us[cache[p]].lang = "dcmsl"
HoldsModules(cache, us) == \A p \in Path : cache[p] # None => Module(us, cache[p], p)
WellStored(us) == /\ HoldsComplete(compiled, us) /\ HoldsDeclarative(declarative, us)
                  /\ HoldsComplete(trees, us) /\ HoldsModules(exported, us)

\* An activation and the one above it, if it waits for one.
Above(c, i, kind) == i < Len(c) /\ c[i + 1].kind = kind
Compiles(c, us, i, p) ==
  Above(c, i, "unit") /\ c[i + 1].by = "import" /\ us[c[i + 1].unit].path = p
UnitWaits(c, us, i) ==
  LET u == c[i].unit
      steps == fs[us[u].path].steps
  IN /\ IF c[i].by = "root" THEN i = 1
        ELSE i > 1 /\ c[i - 1].kind = "unit" /\ c[i - 1].stage = "analysis"
     /\ c[i].stage = "analysis" =>
          /\ c[i].pc <= Len(steps)
          /\ \A j \in 1 .. c[i].pc : steps[j].do = "import" =>
               us[u].links[steps[j].path] # None \/ Compiles(c, us, i, steps[j].path)
     /\ c[i].stage = "initialization" =>
          /\ c[i].by = "import" /\ Complete(us, u)
          /\ Initialized(us, u) \/ (Above(c, i, "statics") /\ c[i + 1].unit = u /\ c[i + 1].by # "program")
StaticsWait(c, us, i) ==
  LET p == us[c[i].unit].path
  IN /\ Complete(us, c[i].unit)
     /\ c[i].pc <= Len(fs[p].statics)
     /\ c[i].own = DeclaredUpTo(fs[p].statics, c[i].pc)
     /\ c[i].by = "program" => i = 1 /\ HasMain(p)
FunctionWaits(c, us, i) ==
  /\ Complete(us, c[i].unit)
  /\ c[i].name \in DOMAIN fs[us[c[i].unit].path].functions
Waits(c, us, i) ==
  /\ c[i].unit \in 1 .. Len(us)
  /\ c[i].kind = "unit" => UnitWaits(c, us, i)
  /\ c[i].kind = "statics" => StaticsWait(c, us, i)
  /\ c[i].kind = "function" => FunctionWaits(c, us, i)

\* The directory spelled by the first k activations.
Adds(c, i) == c[i].kind = "unit" /\ c[i].by = "subdir"
Spelled(c, us, k, d) ==
  \/ (\A i \in 1 .. k : ~Adds(c, i)) /\ d = <<>>
  \/ \E i \in 1 .. k : /\ Adds(c, i) /\ (\A j \in i + 1 .. k : ~Adds(c, j))
                       /\ \E n : us[c[i].unit].path = Append(d, n)
Entered(c, us, i) ==
  Adds(c, i) => \E d \in Seq(Entry) : \E n \in Entry : \E f :
                  us[c[i].unit].path = Append(Append(d, n), f) /\ Spelled(c, us, i - 1, d)

Stack(c, us) == \A i \in 1 .. Len(c) : Waits(c, us, i)
Directory(c, us, d) == Spelled(c, us, Len(c), d) /\ \A i \in 1 .. Len(c) : Entered(c, us, i)
Sound == /\ WellLinked(units) /\ WellStored(units)
         /\ Stack(ctrl, units) /\ Directory(ctrl, units, directories)
IInv == TypeOK /\ fs \in FileSystems /\ (status = "running" => Sound)
----------------------------------------------------------------------------
\* Positions in a sequence.
LEMMA NonEmpty ==
  ASSUME NEW S, NEW s \in Seq(S)
  PROVE  /\ Len(s) \in Nat /\ (s = <<>> <=> Len(s) = 0)
         /\ s # <<>> => Len(s) \in 1 .. Len(s) /\ 1 \in 1 .. Len(s)
BY EmptySeq, LenProperties

LEMMA BelowOf ==
  ASSUME NEW S, NEW c \in Seq(S), c # <<>>
  PROVE  LET b == SubSeq(c, 1, Len(c) - 1)
         IN /\ b \in Seq(S) /\ Len(b) = Len(c) - 1
            /\ \A i \in 1 .. Len(c) - 1 : b[i] = c[i]
<1> DEFINE n == Len(c)
           b == SubSeq(c, 1, n - 1)
<1>1. n \in Nat /\ n # 0 BY NonEmpty
<1>2. \A i \in 1 .. n - 1 : c[i] \in S BY <1>1, ElementOfSeq
<1>3. /\ b \in Seq(S)
      /\ Len(b) = IF 1 <= n - 1 THEN n - 1 - 1 + 1 ELSE 0
      /\ \A i \in 1 .. n - 1 - 1 + 1 : b[i] = c[1 + i - 1]
  BY <1>1, <1>2, SubSeqProperties
<1> HIDE DEF n, b
<1>4. Len(b) = n - 1 BY <1>1, <1>3
<1>5. \A i \in 1 .. n - 1 : i \in 1 .. n - 1 - 1 + 1 /\ 1 + i - 1 = i BY <1>1
<1>6. \A i \in 1 .. n - 1 : b[i] = c[i] BY <1>3, <1>5
<1> QED BY <1>3, <1>4, <1>6 DEF n, b

\* What a directory's script is called tells the directory.
LEMMA DirectoryOf ==
  ASSUME NEW d \in Seq(Entry), NEW e \in Seq(Entry), NEW m, NEW n, Append(d, m) = Append(e, n)
  PROVE  d = e
<1> DEFINE S == Entry \union {m, n}
<1>1. d \in Seq(S) /\ e \in Seq(S) /\ m \in S /\ n \in S BY SeqMonotonic
<1>2. /\ Len(Append(d, m)) = Len(d) + 1 /\ Len(Append(e, n)) = Len(e) + 1
      /\ \A i \in 1 .. Len(d) : Append(d, m)[i] = d[i]
      /\ \A i \in 1 .. Len(e) : Append(e, n)[i] = e[i]
      /\ Len(d) \in Nat /\ Len(e) \in Nat
  BY <1>1, AppendProperties, LenProperties
<1>3. Len(d) = Len(e) BY <1>2
<1>4. \A i \in 1 .. Len(d) : d[i] = e[i] BY <1>2, <1>3
<1> QED BY <1>3, <1>4, SeqEqual

LEMMA FrontOfAppend ==
  ASSUME NEW S, NEW d \in Seq(S), NEW m
  PROVE  /\ SubSeq(Append(d, m), 1, Len(Append(d, m)) - 1) = d
         /\ Append(d, m)[Len(Append(d, m))] = m
<1> DEFINE T == S \union {m}
           a == Append(d, m)
<1>1. d \in Seq(T) /\ m \in T BY SeqMonotonic
<1>2. /\ a \in Seq(T) /\ Len(a) = Len(d) + 1 /\ Len(d) \in Nat /\ a[Len(d) + 1] = m
      /\ \A i \in 1 .. Len(d) : a[i] = d[i]
  BY <1>1, AppendProperties, LenProperties
<1> HIDE DEF T, a
<1>3. a # <<>> BY <1>2, NonEmpty
<1> DEFINE b == SubSeq(a, 1, Len(a) - 1)
<1>4. b \in Seq(T) /\ Len(b) = Len(a) - 1 /\ \A i \in 1 .. Len(a) - 1 : b[i] = a[i]
  BY <1>2, <1>3, BelowOf
<1> HIDE DEF b
<1>5. Len(b) = Len(d) /\ \A i \in 1 .. Len(b) : b[i] = d[i] BY <1>2, <1>4
<1>6. b = d BY <1>1, <1>4, <1>5, SeqEqual
<1> QED BY <1>2, <1>6 DEF a, b
----------------------------------------------------------------------------
\* What files are made of.
LEMMA FileTyped ==
  ASSUME fs \in FileSystems, NEW p \in DOMAIN fs
  PROVE  /\ p \in Path
         /\ fs[p].steps \in Seq(Step) /\ fs[p].statics \in Seq(Static)
         /\ Imports(fs[p].steps) \subseteq Path
         /\ \A pc \in Nat : pc <= Len(fs[p].statics) => DeclaredUpTo(fs[p].statics, pc) \subseteq Var
         /\ Declared(fs[p].statics) \subseteq Var
<1>1. p \in Path /\ fs[p].steps \in Seq(Step) /\ fs[p].statics \in Seq(Static)
  BY FileAssumption
<1>2. \A i \in 1 .. Len(fs[p].steps) : fs[p].steps[i] \in Step BY <1>1, ElementOfSeq
<1>3. Imports(fs[p].steps) \subseteq Path BY <1>2 DEF Imports, Step
<1>4. \A i \in 1 .. Len(fs[p].statics) : fs[p].statics[i] \in Static BY <1>1, ElementOfSeq
<1>5. Len(fs[p].statics) \in Nat BY <1>1, LenProperties
<1>6. \A pc \in Nat : pc <= Len(fs[p].statics) => DeclaredUpTo(fs[p].statics, pc) \subseteq Var
  BY <1>4, <1>5 DEF DeclaredUpTo, Static
<1>7. Declared(fs[p].statics) \subseteq Var BY <1>5, <1>6 DEF Declared
<1> QED BY <1>1, <1>3, <1>6, <1>7

\* What units have they keep.
LEMMA GrownUnits ==
  ASSUME fs \in FileSystems, NEW us \in Seq(UnitRecord), NEW us2, Grows(us, us2),
         Filed(us),
         NEW u
  PROVE  /\ u \in 1 .. Len(us) => u \in 1 .. Len(us2)
         /\ Complete(us, u) => Complete(us2, u)
         /\ u \in 1 .. Len(us) /\ Initialized(us, u) => Initialized(us2, u)
         /\ \A p : Module(us, u, p) => Module(us2, u, p)
         /\ Callable(us, u) => Callable(us2, u)
<1>1. Len(us) \in Nat /\ Len(us2) \in Nat /\ Len(us) <= Len(us2)
  BY LenProperties DEF Grows
<1>2. u \in 1 .. Len(us) => u \in 1 .. Len(us2) BY <1>1
<1>3. ASSUME Complete(us, u) PROVE Complete(us2, u)
  <2>1. u \in 1 .. Len(us) BY <1>3 DEF Complete
  <2>2. Imports(fs[us[u].path].steps) \subseteq Path BY <2>1, FileTyped DEF Filed
  <2> QED BY <1>2, <1>3, <2>1, <2>2 DEF Complete, Grows
<1>4. ASSUME u \in 1 .. Len(us), Initialized(us, u) PROVE Initialized(us2, u)
  <2>1. Declared(fs[us[u].path].statics) \subseteq Var BY <1>4, FileTyped DEF Filed
  <2> QED BY <1>4, <2>1 DEF Initialized, Grows
<1>5. ASSUME NEW p, Module(us, u, p) PROVE Module(us2, u, p)
  <2>1. Complete(us, u) /\ u \in 1 .. Len(us) /\ Initialized(us, u) /\ us[u].path = p
    BY <1>5 DEF Module, Complete
  <2>2. us2[u].path = p BY <2>1 DEF Grows
  <2> QED BY <1>3, <1>4, <2>1, <2>2 DEF Module
<1>6. ASSUME Callable(us, u) PROVE Callable(us2, u)
  <2>1. Complete(us, u) /\ u \in 1 .. Len(us) BY <1>6 DEF Callable, Complete
  <2>2. us2[u].path = us[u].path /\ us2[u].lang = us[u].lang BY <2>1 DEF Grows
  <2> QED BY <1>3, <1>6, <2>1, <2>2 DEF Callable
<1> QED BY <1>2, <1>3, <1>4, <1>5, <1>6
----------------------------------------------------------------------------
\* What lies below the top of the stack waits on, whatever happens at the top.
Alike(l, m) == l.kind = m.kind /\ l.unit = m.unit /\ (l.kind # "function" => l.by = m.by)
Agree(c, c2, n) == /\ n \in 1 .. Len(c) /\ n <= Len(c2)
                   /\ Alike(c[n], c2[n]) /\ \A j \in 1 .. n - 1 : c2[j] = c[j]

LEMMA Carry ==
  ASSUME fs \in FileSystems, NEW us \in Seq(UnitRecord), NEW us2, Grows(us, us2),
         Filed(us),
         NEW c \in Seq(Level), NEW c2 \in Seq(Level), Stack(c, us),
         NEW n, Agree(c, c2, n)
  PROVE  /\ \A i \in 1 .. n - 1 : Waits(c2, us2, i)
         /\ \A k \in 0 .. n : \A d : Spelled(c, us, k, d) => Spelled(c2, us2, k, d)
         /\ \A i \in 1 .. n : Entered(c, us, i) => Entered(c2, us2, i)
<1>0. /\ Len(c) \in Nat /\ Len(c2) \in Nat /\ n \in Nat
      /\ n \in 1 .. Len(c) /\ n <= Len(c2)
      /\ Alike(c[n], c2[n]) /\ \A j \in 1 .. n - 1 : c2[j] = c[j]
  BY LenProperties DEF Agree
<1>1. ASSUME NEW i \in 1 .. n
      PROVE  /\ c[i].unit \in 1 .. Len(us) /\ Alike(c[i], c2[i])
             /\ us2[c2[i].unit].path = us[c[i].unit].path
             /\ us2[c2[i].unit].lang = us[c[i].unit].lang
             /\ Adds(c2, i) <=> Adds(c, i)
  <2>1. c[i].unit \in 1 .. Len(us) BY <1>0 DEF Stack, Waits
  <2>2. Alike(c[i], c2[i])
    <3>1. i = n \/ i \in 1 .. n - 1 BY <1>0
    <3> QED BY <1>0, <3>1 DEF Alike
  <2>3. Adds(c2, i) <=> Adds(c, i) BY <2>2 DEF Alike, Adds
  <2> QED BY <2>1, <2>2, <2>3 DEF Grows, Alike
<1>2. ASSUME NEW i \in 1 .. n - 1 PROVE Waits(c2, us2, i)
  <2> DEFINE u == c[i].unit
  <2>1. /\ i \in 1 .. n /\ i + 1 \in 1 .. n /\ i \in Nat /\ c2[i] = c[i] /\ i < Len(c) /\ i < Len(c2)
        /\ i > 1 => i - 1 \in 1 .. n - 1 /\ c2[i - 1] = c[i - 1]
    BY <1>0
  <2>2. Waits(c, us, i) /\ u \in 1 .. Len(us) /\ us2[u].path = us[u].path
    BY <1>0, <1>1, <2>1 DEF Stack
  <2>3. /\ Complete(us, u) => Complete(us2, u)
        /\ Initialized(us, u) => Initialized(us2, u)
        /\ u \in 1 .. Len(us2)
    BY <2>2, GrownUnits
  <2>9. \A p \in Path : us[u].links[p] # None => us2[u].links[p] # None
    BY <2>2 DEF Grows
  <2>4. /\ \A kind : Above(c2, i, kind) <=> Above(c, i, kind)
        /\ c2[i + 1].kind = c[i + 1].kind /\ c2[i + 1].unit = c[i + 1].unit
        /\ c[i + 1].kind # "function" => c2[i + 1].by = c[i + 1].by
        /\ us2[c2[i + 1].unit].path = us[c[i + 1].unit].path
    BY <1>1, <2>1 DEF Above, Alike
  <2>5. \A p : Compiles(c, us, i, p) => Compiles(c2, us2, i, p)
    BY <2>4 DEF Compiles, Above
  <2>6. ASSUME c[i].kind = "unit" PROVE UnitWaits(c2, us2, i)
    <3>1. UnitWaits(c, us, i) BY <2>2, <2>6 DEF Waits
    <3>2. IF c2[i].by = "root" THEN i = 1
          ELSE i > 1 /\ c2[i - 1].kind = "unit" /\ c2[i - 1].stage = "analysis"
      BY <2>1, <3>1 DEF UnitWaits
    <3>3. ASSUME c[i].stage = "analysis"
          PROVE  LET steps == fs[us2[u].path].steps
                 IN /\ c[i].pc <= Len(steps)
                    /\ \A j \in 1 .. c[i].pc : steps[j].do = "import" =>
                         us2[u].links[steps[j].path] # None \/ Compiles(c2, us2, i, steps[j].path)
      <4> DEFINE steps == fs[us[u].path].steps
      <4>1. c[i].pc <= Len(steps) BY <3>1, <3>3 DEF UnitWaits
      <4>2. c[i].pc \in Nat BY <2>1, <2>6, ElementOfSeq DEF Level, UnitLevel, StaticsLevel, FunctionLevel
      <4>3. us[u].path \in DOMAIN fs BY <2>2 DEF Filed
      <4>4. steps \in Seq(Step) /\ Imports(steps) \subseteq Path BY <4>3, FileTyped
      <4>6. Len(steps) \in Nat BY <4>4, LenProperties
      <4>7. ASSUME NEW len \in Nat, c[i].pc <= len, NEW j \in 1 .. c[i].pc PROVE j \in 1 .. len
        BY <4>2, <4>7
      <4>5. ASSUME NEW j \in 1 .. c[i].pc, steps[j].do = "import"
            PROVE  us2[u].links[steps[j].path] # None \/ Compiles(c2, us2, i, steps[j].path)
        <5>1. us[u].links[steps[j].path] # None \/ Compiles(c, us, i, steps[j].path)
          BY <3>1, <3>3, <4>5 DEF UnitWaits
        <5>2. steps[j].path \in Path
          <6>1. j \in 1 .. Len(steps) BY <4>1, <4>6, <4>7
          <6> QED BY <4>4, <4>5, <6>1 DEF Imports
        <5>3. us[u].links[steps[j].path] # None => us2[u].links[steps[j].path] # None
          BY <2>9, <5>2
        <5> QED BY <2>5, <5>1, <5>3
      <4> QED BY <2>2, <4>1, <4>5
    <3>4. ASSUME c[i].stage = "initialization"
          PROVE  /\ c[i].by = "import" /\ Complete(us2, u)
                 /\ \/ Initialized(us2, u)
                    \/ Above(c2, i, "statics") /\ c2[i + 1].unit = u /\ c2[i + 1].by # "program"
      BY <2>3, <2>4, <3>1, <3>4 DEF UnitWaits, Above
    <3> QED BY <2>1, <3>2, <3>3, <3>4 DEF UnitWaits
  <2>7. ASSUME c[i].kind = "statics" PROVE StaticsWait(c2, us2, i)
    <3>1. StaticsWait(c, us, i) BY <2>2, <2>7 DEF Waits
    <3> QED BY <2>1, <2>2, <2>3, <3>1 DEF StaticsWait
  <2>8. ASSUME c[i].kind = "function" PROVE FunctionWaits(c2, us2, i)
    <3>1. FunctionWaits(c, us, i) BY <2>2, <2>8 DEF Waits
    <3> QED BY <2>1, <2>2, <2>3, <3>1 DEF FunctionWaits
  <2> QED BY <2>1, <2>3, <2>6, <2>7, <2>8 DEF Waits
<1>3. ASSUME NEW k \in 0 .. n, NEW d, Spelled(c, us, k, d) PROVE Spelled(c2, us2, k, d)
  <2>1. \A i \in 1 .. k : i \in 1 .. n /\ \A j \in i + 1 .. k : j \in 1 .. n BY <1>0
  <2>2. CASE (\A i \in 1 .. k : ~Adds(c, i)) /\ d = <<>>
    BY <1>1, <2>1, <2>2 DEF Spelled
  <2>3. CASE \E i \in 1 .. k : /\ Adds(c, i) /\ (\A j \in i + 1 .. k : ~Adds(c, j))
                               /\ \E m : us[c[i].unit].path = Append(d, m)
    <3>1. PICK i \in 1 .. k : /\ Adds(c, i) /\ (\A j \in i + 1 .. k : ~Adds(c, j))
                              /\ \E m : us[c[i].unit].path = Append(d, m)
      BY <2>3
    <3>2. Adds(c2, i) /\ (\A j \in i + 1 .. k : ~Adds(c2, j)) BY <1>1, <2>1, <3>1
    <3>3. us2[c2[i].unit].path = us[c[i].unit].path BY <1>1, <2>1
    <3> QED BY <3>1, <3>2, <3>3 DEF Spelled
  <2> QED BY <1>3, <2>2, <2>3 DEF Spelled
<1>4. ASSUME NEW i \in 1 .. n, Entered(c, us, i) PROVE Entered(c2, us2, i)
  <2>1. i - 1 \in 0 .. n BY <1>0
  <2>2. us2[c2[i].unit].path = us[c[i].unit].path /\ (Adds(c2, i) <=> Adds(c, i)) BY <1>1
  <2>3. \A d : Spelled(c, us, i - 1, d) => Spelled(c2, us2, i - 1, d) BY <1>3, <2>1
  <2> QED BY <1>4, <2>2, <2>3 DEF Entered
<1> QED BY <1>2, <1>3, <1>4

LEMMA EnteredBy ==
  ASSUME NEW c, NEW us, NEW i, NEW j, j = i - 1, NEW d \in Seq(Entry), NEW n \in Entry, NEW f,
         us[c[i].unit].path = Append(Append(d, n), f), Spelled(c, us, j, d)
  PROVE  Entered(c, us, i)
BY Zenon DEF Entered

\* The top of the stack goes on, starts another activation or is left.
LEMMA Continue ==
  ASSUME fs \in FileSystems, NEW us \in Seq(UnitRecord), NEW us2, Grows(us, us2), Filed(us),
         NEW c \in Seq(Level), c # <<>>, Stack(c, us), NEW d, Directory(c, us, d),
         NEW c2 \in Seq(Level), Len(c2) = Len(c), Agree(c, c2, Len(c)), Waits(c2, us2, Len(c))
  PROVE  Stack(c2, us2) /\ Directory(c2, us2, d)
<1> DEFINE n == Len(c)
<1>1. n \in Nat /\ n \in 1 .. n BY NonEmpty
<1>2. Agree(c, c2, n) /\ Len(c2) = n /\ Waits(c2, us2, n) OBVIOUS
<1> HIDE DEF n
<1>3. /\ \A i \in 1 .. n - 1 : Waits(c2, us2, i)
      /\ \A k \in 0 .. n : \A e : Spelled(c, us, k, e) => Spelled(c2, us2, k, e)
      /\ \A i \in 1 .. n : Entered(c, us, i) => Entered(c2, us2, i)
  BY <1>2, Carry
<1>4. Stack(c2, us2)
  <2>1. \A i \in 1 .. n : i \in 1 .. n - 1 \/ i = n BY <1>1
  <2> QED BY <1>2, <1>3, <2>1 DEF Stack
<1>5. Directory(c2, us2, d)
  <2>1. n \in 0 .. n BY <1>1
  <2>2. Spelled(c, us, n, d) /\ \A i \in 1 .. n : Entered(c, us, i) BY DEF Directory, n
  <2> QED BY <1>2, <1>3, <2>1, <2>2 DEF Directory
<1> QED BY <1>4, <1>5

LEMMA Ascend ==
  ASSUME fs \in FileSystems, NEW us \in Seq(UnitRecord), NEW us2, Grows(us, us2), Filed(us),
         NEW c \in Seq(Level), c # <<>>, Stack(c, us),
         NEW d \in Seq(Entry), Directory(c, us, d),
         NEW c2 \in Seq(Level), Len(c2) = Len(c) + 1, Agree(c, c2, Len(c)),
         Waits(c2, us2, Len(c)), Waits(c2, us2, Len(c) + 1),
         NEW e,
         \/ ~Adds(c2, Len(c) + 1) /\ e = d
         \/ /\ Adds(c2, Len(c) + 1)
            /\ \E name \in Entry : \E f :
                 e = Append(d, name) /\ us2[c2[Len(c) + 1].unit].path = Append(e, f)
  PROVE  Stack(c2, us2) /\ Directory(c2, us2, e)
<1> DEFINE n == Len(c)
<1>1. n \in Nat /\ n \in 1 .. n BY NonEmpty
<1>2. Agree(c, c2, n) /\ Len(c2) = n + 1 /\ Waits(c2, us2, n) /\ Waits(c2, us2, n + 1) OBVIOUS
<1>3. Spelled(c, us, n, d) /\ \A i \in 1 .. n : Entered(c, us, i) BY DEF Directory
<1>4. \/ ~Adds(c2, n + 1) /\ e = d
      \/ /\ Adds(c2, n + 1)
         /\ \E name \in Entry : \E f :
              e = Append(d, name) /\ us2[c2[n + 1].unit].path = Append(e, f)
  OBVIOUS
<1> HIDE DEF n
<1>5. /\ \A i \in 1 .. n - 1 : Waits(c2, us2, i)
      /\ \A k \in 0 .. n : \A x : Spelled(c, us, k, x) => Spelled(c2, us2, k, x)
      /\ \A i \in 1 .. n : Entered(c, us, i) => Entered(c2, us2, i)
  BY <1>2, Carry
<1>6. Stack(c2, us2)
  <2>1. \A i \in 1 .. n + 1 : i \in 1 .. n - 1 \/ i = n \/ i = n + 1 BY <1>1
  <2> QED BY <1>2, <1>5, <2>1 DEF Stack
<1>7. Spelled(c2, us2, n, d)
  <2>1. n \in 0 .. n BY <1>1
  <2> QED BY <1>3, <1>5, <2>1
<1>8. CASE ~Adds(c2, n + 1) /\ e = d
  <2>1. Entered(c2, us2, n + 1) BY <1>8 DEF Entered
  <2>2. Spelled(c2, us2, n + 1, d)
    <3>1. CASE (\A i \in 1 .. n : ~Adds(c2, i)) /\ d = <<>>
      <4>1. \A i \in 1 .. n + 1 : i \in 1 .. n \/ i = n + 1 BY <1>1
      <4> QED BY <1>8, <3>1, <4>1 DEF Spelled
    <3>2. CASE \E i \in 1 .. n : /\ Adds(c2, i) /\ (\A j \in i + 1 .. n : ~Adds(c2, j))
                                 /\ \E x : us2[c2[i].unit].path = Append(d, x)
      <4>1. PICK i \in 1 .. n : /\ Adds(c2, i) /\ (\A j \in i + 1 .. n : ~Adds(c2, j))
                                /\ \E x : us2[c2[i].unit].path = Append(d, x)
        BY <3>2
      <4>2. i \in 1 .. n + 1 /\ \A j \in i + 1 .. n + 1 : j \in i + 1 .. n \/ j = n + 1
        BY <1>1
      <4>3. \A j \in i + 1 .. n + 1 : ~Adds(c2, j) BY <1>8, <4>1, <4>2
      <4> QED BY <4>1, <4>2, <4>3 DEF Spelled
    <3> QED BY <1>7, <3>1, <3>2 DEF Spelled
  <2> QED BY <1>1, <1>2, <1>3, <1>5, <1>6, <1>8, <2>1, <2>2 DEF Directory
<1>9. CASE /\ Adds(c2, n + 1)
           /\ \E name \in Entry : \E f :
                e = Append(d, name) /\ us2[c2[n + 1].unit].path = Append(e, f)
  <2>1. n + 1 \in 1 .. n + 1 /\ n + 1 - 1 = n /\ \A j \in n + 1 + 1 .. n + 1 : FALSE BY <1>1
  <2>2. PICK name, f : /\ name \in Entry /\ e = Append(d, name)
                       /\ us2[c2[n + 1].unit].path = Append(e, f)
    BY <1>9
  <2>3. Entered(c2, us2, n + 1)
    <3> DEFINE i == n + 1
    <3>1. us2[c2[i].unit].path = Append(Append(d, name), f) BY <2>2
    <3>2. n = i - 1 BY <1>1
    <3> HIDE DEF i
    <3>3. Entered(c2, us2, i) BY <1>7, <2>2, <3>1, <3>2, EnteredBy
    <3> QED BY <3>3 DEF i
  <2>4. Spelled(c2, us2, n + 1, e)
    <3>1. \E x : us2[c2[n + 1].unit].path = Append(e, x) BY <2>2
    <3> QED BY <1>9, <2>1, <3>1 DEF Spelled
  <2> QED BY <1>1, <1>2, <1>3, <1>5, <1>6, <2>3, <2>4 DEF Directory
<1> QED BY <1>4, <1>8, <1>9

LEMMA Return ==
  ASSUME fs \in FileSystems, NEW us \in Seq(UnitRecord), NEW us2, Grows(us, us2), Filed(us),
         NEW c \in Seq(Level), c # <<>>, Stack(c, us),
         NEW d \in Seq(Entry), Directory(c, us, d),
         NEW c2 \in Seq(Level), Len(c2) = Len(c) - 1,
         Len(c2) # 0 => Agree(c, c2, Len(c2)) /\ Waits(c2, us2, Len(c2)),
         NEW e, e = IF Adds(c, Len(c)) THEN SubSeq(d, 1, Len(d) - 1) ELSE d
  PROVE  Stack(c2, us2) /\ Directory(c2, us2, e)
<1> DEFINE n == Len(c)
           b == Len(c2)
<1>1. n \in Nat /\ n \in 1 .. n /\ b \in Nat /\ b = n - 1 BY NonEmpty
<1>2. Spelled(c, us, n, d) /\ \A i \in 1 .. n : Entered(c, us, i) BY DEF Directory
<1> HIDE DEF n, b
<1>3. Spelled(c, us, b, e)
  <2>1. CASE ~Adds(c, n)
    <3>1. e = d BY <2>1 DEF n
    <3>2. CASE \A i \in 1 .. n : ~Adds(c, i)
      <4>1. \A i \in 1 .. b : i \in 1 .. n BY <1>1
      <4>2. ~ \E i \in 1 .. n : Adds(c, i) BY <3>2
      <4>3. d = <<>> BY <1>2, <4>2 DEF Spelled
      <4> QED BY <3>1, <3>2, <4>1, <4>3 DEF Spelled
    <3>3. CASE \E i \in 1 .. n : /\ Adds(c, i) /\ (\A j \in i + 1 .. n : ~Adds(c, j))
                                 /\ \E x : us[c[i].unit].path = Append(d, x)
      <4>1. PICK i \in 1 .. n : /\ Adds(c, i) /\ (\A j \in i + 1 .. n : ~Adds(c, j))
                                /\ \E x : us[c[i].unit].path = Append(d, x)
        BY <3>3
      <4>2. i # n BY <2>1, <4>1
      <4>3. i \in 1 .. b /\ \A j \in i + 1 .. b : j \in i + 1 .. n BY <1>1, <4>2
      <4> QED BY <3>1, <4>1, <4>3 DEF Spelled
    <3> QED BY <1>2, <3>2, <3>3 DEF Spelled
  <2>2. CASE Adds(c, n)
    <3>1. Entered(c, us, n) /\ n - 1 = b BY <1>1, <1>2
    <3>2. PICK d0, m, f : /\ d0 \in Seq(Entry) /\ m \in Entry
                          /\ us[c[n].unit].path = Append(Append(d0, m), f)
                          /\ Spelled(c, us, b, d0)
      BY <2>2, <3>1 DEF Entered
    <3>3. PICK i \in 1 .. n : /\ Adds(c, i) /\ (\A j \in i + 1 .. n : ~Adds(c, j))
                              /\ \E x : us[c[i].unit].path = Append(d, x)
      BY <1>1, <1>2, <2>2 DEF Spelled
    <3>4. i = n \/ n \in i + 1 .. n BY <1>1
    <3>5. PICK x : us[c[n].unit].path = Append(d, x) BY <2>2, <3>3, <3>4
    <3>6. Append(d0, m) \in Seq(Entry) BY <3>2, AppendProperties
    <3>7. d = Append(d0, m) BY <3>2, <3>5, <3>6, DirectoryOf
    <3>8. e = d0 BY <2>2, <3>7, FrontOfAppend DEF n
    <3> QED BY <3>2, <3>8
  <2> QED BY <2>1, <2>2
<1>4. CASE b = 0
  <2>1. \A i \in 1 .. b : FALSE BY <1>1, <1>4
  <2>2. (\A i \in 1 .. b : ~Adds(c2, i)) /\ e = <<>> BY <1>3, <2>1 DEF Spelled
  <2> QED BY <2>1, <2>2 DEF Stack, Directory, Spelled, b
<1>5. CASE b # 0
  <2>1. b \in 1 .. b /\ b \in 0 .. b BY <1>1, <1>5
  <2>2. Agree(c, c2, b) /\ Waits(c2, us2, b) BY <1>5 DEF b
  <2>3. /\ \A i \in 1 .. b - 1 : Waits(c2, us2, i)
        /\ \A k \in 0 .. b : \A x : Spelled(c, us, k, x) => Spelled(c2, us2, k, x)
        /\ \A i \in 1 .. b : Entered(c, us, i) => Entered(c2, us2, i)
    BY <2>2, Carry
  <2>4. Spelled(c2, us2, b, e) BY <1>3, <2>1, <2>3
  <2>5. \A i \in 1 .. b : i \in 1 .. n /\ (i \in 1 .. b - 1 \/ i = b) BY <1>1
  <2>6. Stack(c2, us2) BY <2>2, <2>3, <2>5 DEF Stack, b
  <2>7. \A i \in 1 .. b : Entered(c2, us2, i) BY <1>2, <2>3, <2>5
  <2> QED BY <2>4, <2>6, <2>7 DEF Directory, b
<1> QED BY <1>4, <1>5

\* The directory and the entry that the top of the stack was found by.
LEMMA InDirectory ==
  ASSUME NEW us, NEW c \in Seq(Level), c # <<>>, Adds(c, Len(c)),
         NEW d \in Seq(Entry), Directory(c, us, d)
  PROVE  /\ d # <<>> /\ d[Len(d)] \in Entry /\ SubSeq(d, 1, Len(d) - 1) \in Seq(Entry)
         /\ \E x : us[c[Len(c)].unit].path = Append(d, x)
<1> DEFINE n == Len(c)
<1>1. n \in Nat /\ n \in 1 .. n BY NonEmpty
<1>2. Spelled(c, us, n, d) /\ Entered(c, us, n) BY <1>1 DEF Directory
<1>3. PICK i \in 1 .. n : /\ Adds(c, i) /\ (\A j \in i + 1 .. n : ~Adds(c, j))
                          /\ \E x : us[c[i].unit].path = Append(d, x)
  BY <1>1, <1>2 DEF Spelled
<1>4. i = n \/ n \in i + 1 .. n BY <1>1
<1>5. PICK x : us[c[n].unit].path = Append(d, x) BY <1>3, <1>4
<1>6. PICK d0, m, f : /\ d0 \in Seq(Entry) /\ m \in Entry
                      /\ us[c[n].unit].path = Append(Append(d0, m), f)
  BY <1>2 DEF Entered
<1>7. Append(d0, m) \in Seq(Entry) BY <1>6, AppendProperties
<1>8. d = Append(d0, m) BY <1>5, <1>6, <1>7, DirectoryOf
<1>9. d # <<>> /\ d[Len(d)] = m /\ SubSeq(d, 1, Len(d) - 1) = d0
  BY <1>8, FrontOfAppend, AppendProperties
<1> QED BY <1>5, <1>9
----------------------------------------------------------------------------
\* What a unit may turn into.
Succeeds(us, u, r) ==
  /\ u \in 1 .. Len(us)
  /\ r \in UnitRecord /\ r.path = us[u].path /\ r.lang = us[u].lang
  /\ \A p \in Path : r.links[p] = us[u].links[p] \/ Module(us, r.links[p], p)
  /\ \A n \in Entry : r.scripts[n] = us[u].scripts[n] \/ Callable(us, r.scripts[n])
  /\ \A n \in Var : /\ r.statics[n] = "absent" => us[u].statics[n] = "absent"
                    /\ us[u].statics[n] = "written" => r.statics[n] = "written"
                    /\ us[u].globals[n] = "written" => r.globals[n] = "written"
Becomes(us, u, r, us2) == us2 = [us EXCEPT ![u] = r]

LEMMA Updated ==
  ASSUME fs \in FileSystems, NEW us \in Seq(UnitRecord), WellLinked(us),
         NEW u, NEW r, Succeeds(us, u, r), NEW us2, Becomes(us, u, r, us2)
  PROVE  Grows(us, us2) /\ WellLinked(us2) /\ Len(us2) = Len(us) /\ us2[u] = r
<1>1. u \in 1 .. Len(us) /\ r \in UnitRecord BY DEF Succeeds
<1>2. /\ us2 \in Seq(UnitRecord) /\ Len(us2) = Len(us) /\ us2[u] = r
      /\ \A v \in 1 .. Len(us) : us2[v] = IF v = u THEN r ELSE us[v]
      /\ Len(us) \in Nat
  BY <1>1, ExceptSeq, LenProperties DEF Becomes
<1>3. \A p \in Path : us[u].links[p] # None => r.links[p] # None
  BY DEF Succeeds, Module, Complete, None
<1>4. ASSUME NEW v \in 1 .. Len(us)
      PROVE  /\ us2[v].path = us[v].path /\ us2[v].lang = us[v].lang
             /\ \A p \in Path : us[v].links[p] # None => us2[v].links[p] # None
             /\ \A n \in Var : /\ us2[v].statics[n] = "absent" => us[v].statics[n] = "absent"
                               /\ us[v].statics[n] = "written" => us2[v].statics[n] = "written"
                               /\ us[v].globals[n] = "written" => us2[v].globals[n] = "written"
  <2>1. CASE v = u BY <1>2, <1>3, <2>1 DEF Succeeds
  <2>2. CASE v # u BY <1>2, <2>2
  <2> QED BY <2>1, <2>2
<1>5. Grows(us, us2)
  <2>1. Len(us) <= Len(us2) BY <1>2
  <2> QED BY <1>2, <1>4, <2>1 DEF Grows
<1>6. Filed(us) BY DEF WellLinked
<1>7. \A v, p : Module(us, v, p) => Module(us2, v, p) BY <1>5, <1>6, GrownUnits
<1>8. \A v : Callable(us, v) => Callable(us2, v) BY <1>5, <1>6, GrownUnits
<1>9. Filed(us2) BY <1>2, <1>4, <1>6 DEF Filed
<1>10. ASSUME NEW v \in 1 .. Len(us2)
       PROVE  /\ \A p \in Path : us2[v].links[p] # None => Module(us2, us2[v].links[p], p)
              /\ \A n \in Entry : us2[v].scripts[n] # None => Callable(us2, us2[v].scripts[n])
  <2>1. /\ \A p \in Path : us2[v].links[p] # None => Module(us, us2[v].links[p], p)
        /\ \A n \in Entry : us2[v].scripts[n] # None => Callable(us, us2[v].scripts[n])
    <3>1. v \in 1 .. Len(us) BY <1>2
    <3>2. CASE v = u BY <1>2, <3>1, <3>2 DEF Succeeds, WellLinked
    <3>3. CASE v # u BY <1>2, <3>1, <3>3 DEF WellLinked
    <3> QED BY <3>2, <3>3
  <2> QED BY <1>7, <1>8, <2>1
<1> QED BY <1>2, <1>5, <1>9, <1>10 DEF WellLinked

\* The fields that the actions update.
Links(us, u, p, v, us2) == us2 = [us EXCEPT ![u].links[p] = v]
LEMMA LinkedUnit ==
  ASSUME fs \in FileSystems, NEW us \in Seq(UnitRecord), WellLinked(us),
         NEW u \in 1 .. Len(us), NEW p \in Path, NEW v, Module(us, v, p),
         NEW us2, Links(us, u, p, v, us2)
  PROVE  Grows(us, us2) /\ WellLinked(us2) /\ Len(us2) = Len(us) /\ us2[u].links[p] = v
<1> DEFINE r == [us[u] EXCEPT !.links[p] = v]
<1>1. us[u] \in UnitRecord BY ElementOfSeq
<1>2. v \in Nat BY LenProperties DEF Module, Complete
<1>3. Succeeds(us, u, r) BY <1>1, <1>2 DEF Succeeds, UnitRecord
<1>4. Becomes(us, u, r, us2) BY DEF Becomes, Links
<1>5. r.links[p] = v BY <1>1 DEF UnitRecord
<1> HIDE DEF r
<1>6. Grows(us, us2) /\ WellLinked(us2) /\ Len(us2) = Len(us) /\ us2[u] = r BY <1>3, <1>4, Updated
<1> QED BY <1>5, <1>6

LEMMA ScriptedUnit ==
  ASSUME fs \in FileSystems, NEW us \in Seq(UnitRecord), WellLinked(us),
         NEW u \in 1 .. Len(us), NEW n, NEW v \in Nat,
         NEW us2, us2 = [us EXCEPT ![u].scripts[n] = v]
  PROVE  Grows(us, us2) /\ (Callable(us, v) => WellLinked(us2))
<1> DEFINE r == [us[u] EXCEPT !.scripts[n] = v]
<1>1. us[u] \in UnitRecord BY ElementOfSeq
<1>2. Becomes(us, u, r, us2) BY DEF Becomes
<1>3. Callable(us, v) => Succeeds(us, u, r) BY <1>1 DEF Succeeds, UnitRecord
<1>4. /\ r \in UnitRecord /\ r.path = us[u].path /\ r.lang = us[u].lang
      /\ r.links = us[u].links /\ r.statics = us[u].statics /\ r.globals = us[u].globals
  BY <1>1 DEF UnitRecord
<1> HIDE DEF r
<1>5. Callable(us, v) => WellLinked(us2) BY <1>2, <1>3, Updated
<1>6. /\ us2 \in Seq(UnitRecord) /\ Len(us2) = Len(us) /\ Len(us) \in Nat
      /\ \A w \in 1 .. Len(us) : us2[w] = IF w = u THEN r ELSE us[w]
  BY SMTT(30), <1>2, <1>4, ExceptSeq, LenProperties DEF Becomes
<1>7. Len(us) <= Len(us2) BY <1>6
<1>8. Grows(us, us2) BY <1>4, <1>6, <1>7 DEF Grows
<1> QED BY <1>5, <1>8

Marks(us, u, dead, us2) == us2 = [us EXCEPT ![u].dead = dead]
LEMMA MarkedUnit ==
  ASSUME fs \in FileSystems, NEW us \in Seq(UnitRecord), WellLinked(us),
         NEW u \in 1 .. Len(us), NEW dead \in BOOLEAN,
         NEW us2, Marks(us, u, dead, us2)
  PROVE  Grows(us, us2) /\ WellLinked(us2) /\ Len(us2) = Len(us)
<1> DEFINE r == [us[u] EXCEPT !.dead = dead]
<1>1. us[u] \in UnitRecord BY ElementOfSeq
<1>3. Succeeds(us, u, r) BY <1>1 DEF Succeeds, UnitRecord
<1>4. Becomes(us, u, r, us2) BY DEF Becomes, Marks
<1> HIDE DEF r
<1> QED BY <1>3, <1>4, Updated

StaticsGrow(old, s) ==
  /\ s \in [Var -> States]
  /\ \A n \in Var : /\ s[n] = "absent" => old[n] = "absent"
                    /\ old[n] = "written" => s[n] = "written"
LEMMA StaticsOfUnit ==
  ASSUME fs \in FileSystems, NEW us \in Seq(UnitRecord), WellLinked(us),
         NEW u \in 1 .. Len(us), NEW s, StaticsGrow(us[u].statics, s),
         NEW us2, us2 = [us EXCEPT ![u].statics = s]
  PROVE  Grows(us, us2) /\ WellLinked(us2) /\ Len(us2) = Len(us)
<1> DEFINE r == [us[u] EXCEPT !.statics = s]
<1>1. us[u] \in UnitRecord BY ElementOfSeq
<1>3. Succeeds(us, u, r) BY <1>1 DEF Succeeds, UnitRecord, StaticsGrow
<1>4. Becomes(us, u, r, us2) BY DEF Becomes
<1> HIDE DEF r
<1> QED BY <1>3, <1>4, Updated

LEMMA GlobalsOfUnit ==
  ASSUME fs \in FileSystems, NEW us \in Seq(UnitRecord), WellLinked(us),
         NEW u \in 1 .. Len(us), NEW s \in [Var -> States],
         \A n \in Var : us[u].globals[n] = "written" => s[n] = "written",
         NEW us2, us2 = [us EXCEPT ![u].globals = s]
  PROVE  Grows(us, us2) /\ WellLinked(us2) /\ Len(us2) = Len(us)
<1> DEFINE r == [us[u] EXCEPT !.globals = s]
<1>1. us[u] \in UnitRecord BY ElementOfSeq
<1>3. Succeeds(us, u, r) BY <1>1 DEF Succeeds, UnitRecord
<1>4. Becomes(us, u, r, us2) BY DEF Becomes
<1> HIDE DEF r
<1> QED BY <1>3, <1>4, Updated

Makes(us, p, lang, us2) == us2 = Append(us, NewUnit(p, lang))
LEMMA MadeUnit ==
  ASSUME fs \in FileSystems, NEW us \in Seq(UnitRecord), WellLinked(us),
         NEW p \in DOMAIN fs, NEW lang \in Languages,
         NEW us2, Makes(us, p, lang, us2)
  PROVE  /\ Grows(us, us2) /\ WellLinked(us2) /\ Len(us2) = Len(us) + 1
         /\ us2[Len(us) + 1].path = p /\ us2[Len(us) + 1].lang = lang
<1> DEFINE r == NewUnit(p, lang)
<1>1. /\ r \in UnitRecord /\ r.path = p /\ r.lang = lang
      /\ \A q \in Path : r.links[q] = None
      /\ \A n \in Entry : r.scripts[n] = None
  BY FileTyped DEF UnitRecord, NewUnit, None, States
<1> HIDE DEF r
<1>0. us2 = Append(us, r) BY DEF r, Makes
<1>2. /\ us2 \in Seq(UnitRecord) /\ Len(us2) = Len(us) + 1 /\ us2[Len(us) + 1] = r
      /\ \A v \in 1 .. Len(us) : us2[v] = us[v]
      /\ Len(us) \in Nat
  BY <1>0, <1>1, AppendProperties, LenProperties
<1>3. Grows(us, us2)
  <2>1. Len(us) <= Len(us2) BY <1>2
  <2> QED BY <1>2, <2>1 DEF Grows
<1>4. Filed(us) BY DEF WellLinked
<1>5. \A v, q : Module(us, v, q) => Module(us2, v, q) BY <1>3, <1>4, GrownUnits
<1>6. \A v : Callable(us, v) => Callable(us2, v) BY <1>3, <1>4, GrownUnits
<1>7. \A v \in 1 .. Len(us2) : v \in 1 .. Len(us) \/ v = Len(us) + 1 BY <1>2
<1>8. Filed(us2) BY <1>1, <1>2, <1>4, <1>7 DEF Filed
<1>9. ASSUME NEW v \in 1 .. Len(us2)
      PROVE  /\ \A q \in Path : us2[v].links[q] # None => Module(us2, us2[v].links[q], q)
             /\ \A n \in Entry : us2[v].scripts[n] # None => Callable(us2, us2[v].scripts[n])
  <2>1. CASE v \in 1 .. Len(us) BY <1>2, <1>5, <1>6, <2>1 DEF WellLinked
  <2>2. CASE v = Len(us) + 1 BY <1>1, <1>2, <2>2
  <2> QED BY <1>7, <2>1, <2>2
<1> QED BY <1>1, <1>2, <1>3, <1>8, <1>9 DEF WellLinked

LEMMA GrowsTwice ==
  ASSUME NEW us \in Seq(UnitRecord), NEW us1, NEW us2, Grows(us, us1), Grows(us1, us2)
  PROVE  Grows(us, us2)
<1>1. Len(us) \in Nat /\ Len(us1) \in Nat /\ Len(us2) \in Nat BY LenProperties DEF Grows
<1>2. Len(us) <= Len(us2) /\ \A u \in 1 .. Len(us) : u \in 1 .. Len(us1) BY <1>1 DEF Grows
<1> QED BY <1>2 DEF Grows

LEMMA GrowsNot == ASSUME NEW us \in Seq(UnitRecord) PROVE Grows(us, us)
<1>1. Len(us) <= Len(us) BY LenProperties
<1> QED BY <1>1 DEF Grows
----------------------------------------------------------------------------
\* The caches.
CacheOK(cache, us) == /\ cache \in [Path -> 0 .. Len(us)]
                      /\ \A p \in Path : cache[p] # None => us[cache[p]].path = p

LEMMA CacheKept ==
  ASSUME fs \in FileSystems, NEW us \in Seq(UnitRecord), NEW us2, Grows(us, us2), Filed(us),
         NEW cache, CacheOK(cache, us)
  PROVE  /\ CacheOK(cache, us2)
         /\ HoldsComplete(cache, us) => HoldsComplete(cache, us2)
         /\ HoldsDeclarative(cache, us) => HoldsDeclarative(cache, us2)
         /\ HoldsModules(cache, us) => HoldsModules(cache, us2)
<1>1. Len(us) \in Nat /\ Len(us2) \in Nat /\ Len(us) <= Len(us2) BY LenProperties DEF Grows
<1>2. \A p \in Path : cache[p] # None => cache[p] \in 1 .. Len(us) BY <1>1 DEF CacheOK, None
<1>3. \A u : Complete(us, u) => Complete(us2, u) BY GrownUnits
<1>4. \A u, p : Module(us, u, p) => Module(us2, u, p) BY GrownUnits
<1>5. CacheOK(cache, us2)
  <2>1. \A k \in 0 .. Len(us) : k \in 0 .. Len(us2) BY <1>1
  <2>2. cache \in [Path -> 0 .. Len(us2)] BY <2>1 DEF CacheOK
  <2> QED BY <1>2, <2>2 DEF CacheOK, Grows
<1>6. HoldsComplete(cache, us) => HoldsComplete(cache, us2) BY <1>3 DEF HoldsComplete
<1>7. HoldsDeclarative(cache, us) => HoldsDeclarative(cache, us2)
  BY <1>2, <1>3 DEF HoldsDeclarative, Grows
<1>8. HoldsModules(cache, us) => HoldsModules(cache, us2) BY <1>4 DEF HoldsModules
<1> QED BY <1>5, <1>6, <1>7, <1>8

LEMMA CacheEmplaced ==
  ASSUME NEW us \in Seq(UnitRecord), NEW cache, CacheOK(cache, us),
         NEW p \in Path, NEW u \in 1 .. Len(us), us[u].path = p
  PROVE  /\ CacheOK(Emplaced(cache, p, u), us)
         /\ HoldsComplete(cache, us) /\ Complete(us, u) => HoldsComplete(Emplaced(cache, p, u), us)
         /\ HoldsDeclarative(cache, us) /\ Complete(us, u) /\ us[u].lang = "dcmsl" =>
              HoldsDeclarative(Emplaced(cache, p, u), us)
         /\ HoldsModules(cache, us) /\ Module(us, u, p) => HoldsModules(Emplaced(cache, p, u), us)
<1> DEFINE new == Emplaced(cache, p, u)
<1>1. Len(us) \in Nat /\ u \in 0 .. Len(us) BY LenProperties
<1>2. /\ new \in [Path -> 0 .. Len(us)]
      /\ \A q \in Path : new[q] = cache[q] \/ (q = p /\ new[q] = u)
  BY <1>1 DEF Emplaced, CacheOK
<1> HIDE DEF new
<1>3. CacheOK(new, us) BY <1>2 DEF CacheOK
<1>4. HoldsComplete(cache, us) /\ Complete(us, u) => HoldsComplete(new, us)
  BY <1>2 DEF HoldsComplete
<1>5. HoldsDeclarative(cache, us) /\ Complete(us, u) /\ us[u].lang = "dcmsl" =>
        HoldsDeclarative(new, us)
  BY <1>2 DEF HoldsDeclarative
<1>6. HoldsModules(cache, us) /\ Module(us, u, p) => HoldsModules(new, us)
  BY <1>2 DEF HoldsModules
<1> QED BY <1>3, <1>4, <1>5, <1>6 DEF new
----------------------------------------------------------------------------
\* What a step has to show.
Statuses == {"running", "done", "failed", "crashed", "asserted", "overflow"}
Typed == /\ ctrl' \in Seq(Level) /\ directories' \in Seq(Entry)
         /\ CacheOK(compiled', units') /\ CacheOK(declarative', units')
         /\ CacheOK(trees', units') /\ CacheOK(exported', units')
         /\ builtins' \in BOOLEAN /\ fatal' \in BOOLEAN /\ status' \in Statuses
SoundNext == /\ WellLinked(units')
             /\ HoldsComplete(compiled', units') /\ HoldsDeclarative(declarative', units')
             /\ HoldsComplete(trees', units') /\ HoldsModules(exported', units')
             /\ Stack(ctrl', units') /\ Directory(ctrl', units', directories')
Kept == IInv' /\ Grows(units, units')

LEMMA StepKept ==
  ASSUME IInv, fs' = fs, Grows(units, units'), Typed, status' = "running" => SoundNext
  PROVE  Kept
<1>1. TypeOK' /\ (fs \in FileSystems)'
  <2>1. units' \in Seq(UnitRecord) BY DEF Grows
  <2>2. DOMAIN fs' \subseteq Path /\ fs' \in FileSystems BY DEF IInv, TypeOK
  <2> QED BY <2>1, <2>2 DEF TypeOK, Typed, CacheOK, Statuses, Level
<1>2. ASSUME SoundNext PROVE Sound'
  <2>1. WellLinked(units)'
    BY ZenonT(30), <1>2 DEF SoundNext, WellLinked, Filed, Module, Callable, Complete, Initialized, HasMain
  <2>2. WellStored(units)'
    BY <1>2 DEF SoundNext, WellStored, HoldsComplete, HoldsDeclarative, HoldsModules, Module,
                Complete, Initialized
  <2>3. Stack(ctrl, units)'
    <3>1. \A i \in 1 .. Len(ctrl') : Waits(ctrl', units', i) BY <1>2 DEF SoundNext, Stack
    <3> QED BY ZenonT(30), <3>1 DEF Stack, Waits, UnitWaits, StaticsWait, FunctionWaits, Complete, Initialized,
                        Compiles, HasMain
  <2>4. Directory(ctrl, units, directories)'
    BY <1>2 DEF SoundNext, Directory, Spelled, Entered, Adds
  <2> QED BY <2>1, <2>2, <2>3, <2>4 DEF Sound
<1> QED BY <1>1, <1>2 DEF Kept, IInv
----------------------------------------------------------------------------
\* What is known while the loader runs.
LEMMA Now ==
  ASSUME IInv, status = "running"
  PROVE  /\ fs \in FileSystems /\ DOMAIN fs \subseteq Path
         /\ units \in Seq(UnitRecord) /\ ctrl \in Seq(Level) /\ directories \in Seq(Entry)
         /\ CacheOK(compiled, units) /\ CacheOK(declarative, units)
         /\ CacheOK(trees, units) /\ CacheOK(exported, units)
         /\ builtins \in BOOLEAN /\ fatal \in BOOLEAN /\ status \in Statuses
         /\ WellLinked(units) /\ Filed(units)
         /\ HoldsComplete(compiled, units) /\ HoldsDeclarative(declarative, units)
         /\ HoldsComplete(trees, units) /\ HoldsModules(exported, units)
         /\ Stack(ctrl, units) /\ Directory(ctrl, units, directories)
BY DEF IInv, TypeOK, Sound, WellLinked, WellStored, CacheOK, Statuses, Level

LEMMA TopOf ==
  ASSUME IInv, status = "running", ctrl # <<>>
  PROVE  LET n == Len(ctrl)
             u == Top.unit
         IN /\ n \in Nat /\ n \in 1 .. n /\ Top \in Level
            /\ u \in 1 .. Len(units) /\ units[u] \in UnitRecord
            /\ units[u].path \in DOMAIN fs /\ units[u].path \in Path
            /\ Waits(ctrl, units, n)
            /\ \A kind : ~Above(ctrl, n, kind)
<1>1. Len(ctrl) \in Nat /\ Len(ctrl) \in 1 .. Len(ctrl) BY Now, NonEmpty
<1>2. Top \in Level BY <1>1, Now, ElementOfSeq DEF Top
<1>3. Waits(ctrl, units, Len(ctrl)) BY <1>1, Now DEF Stack
<1>4. Top.unit \in 1 .. Len(units) BY <1>3 DEF Waits, Top
<1>5. units[Top.unit] \in UnitRecord BY <1>4, Now, ElementOfSeq
<1>6. units[Top.unit].path \in DOMAIN fs BY <1>4, Now DEF Filed
<1>7. units[Top.unit].path \in Path BY <1>6, Now
<1>8. \A kind : ~Above(ctrl, Len(ctrl), kind) BY <1>1 DEF Above
<1> QED BY <1>1, <1>2, <1>3, <1>4, <1>5, <1>6, <1>7, <1>8

\* The shapes the stack takes.
LEMMA ReplacedTop ==
  ASSUME IInv, status = "running", ctrl # <<>>, NEW l \in Level, Alike(Top, l),
         NEW c, c = Replaced(l)
  PROVE  /\ c \in Seq(Level) /\ Len(c) = Len(ctrl) /\ c[Len(ctrl)] = l
         /\ Agree(ctrl, c, Len(ctrl)) /\ \A j \in 1 .. Len(ctrl) - 1 : c[j] = ctrl[j]
<1> DEFINE n == Len(ctrl)
<1>1. n \in Nat /\ n \in 1 .. n /\ n <= n BY TopOf
<1>2. ctrl \in Seq(Level) BY Now
<1>3. /\ c \in Seq(Level) /\ Len(c) = n /\ c[n] = l
      /\ \A j \in 1 .. n - 1 : c[j] = ctrl[j]
  BY <1>1, <1>2, ExceptSeq DEF Replaced
<1> QED BY <1>1, <1>3 DEF Agree, Top

Pushes(c, l, m) == c = Append(Replaced(l), m)
LEMMA PushedTop ==
  ASSUME IInv, status = "running", ctrl # <<>>, NEW l \in Level, Alike(Top, l), NEW m \in Level,
         NEW c, Pushes(c, l, m)
  PROVE  /\ c \in Seq(Level) /\ Len(c) = Len(ctrl) + 1
         /\ c[Len(ctrl)] = l /\ c[Len(ctrl) + 1] = m
         /\ Agree(ctrl, c, Len(ctrl)) /\ \A j \in 1 .. Len(ctrl) - 1 : c[j] = ctrl[j]
<1> DEFINE n == Len(ctrl)
           r == Replaced(l)
<1>1. n \in Nat /\ n \in 1 .. n /\ n <= n + 1 BY TopOf
<1>2. /\ r \in Seq(Level) /\ Len(r) = n /\ r[n] = l
      /\ \A j \in 1 .. n - 1 : r[j] = ctrl[j]
  BY ReplacedTop
<1>3. c = Append(r, m) BY DEF Pushes
<1> HIDE DEF r
<1>4. /\ c \in Seq(Level) /\ Len(c) = n + 1 /\ c[n + 1] = m
      /\ \A j \in 1 .. n : c[j] = r[j]
  BY <1>2, <1>3, AppendProperties
<1>5. \A j \in 1 .. n - 1 : j \in 1 .. n BY <1>1
<1>6. \A j \in 1 .. n - 1 : c[j] = ctrl[j] BY <1>2, <1>4, <1>5
<1>7. c[n] = l BY <1>1, <1>2, <1>4
<1> QED BY <1>1, <1>4, <1>6, <1>7 DEF Agree, Top

LEMMA PoppedTop ==
  ASSUME IInv, status = "running", ctrl # <<>>, NEW c, c = Below
  PROVE  /\ c \in Seq(Level) /\ Len(c) = Len(ctrl) - 1
         /\ Len(c) # 0 => Agree(ctrl, c, Len(c))
         /\ \A j \in 1 .. Len(c) : c[j] = ctrl[j]
<1>1. ctrl \in Seq(Level) /\ Len(ctrl) \in Nat /\ Len(ctrl) \in 1 .. Len(ctrl) BY Now, TopOf
<1>2. /\ c \in Seq(Level) /\ Len(c) = Len(ctrl) - 1
      /\ \A j \in 1 .. Len(ctrl) - 1 : c[j] = ctrl[j]
  BY <1>1, BelowOf DEF Below
<1>3. ASSUME NEW k, k = Len(ctrl) - 1, k # 0
      PROVE  k \in 1 .. Len(ctrl) /\ k <= k /\ k \in 1 .. k /\ \A j \in 1 .. k - 1 : j \in 1 .. k
  BY <1>1, <1>3
<1>4. Len(c) # 0 => Agree(ctrl, c, Len(c)) BY <1>2, <1>3 DEF Agree, Alike
<1> QED BY <1>2, <1>4

\* The step to the next operation.
PastLevel == [Top EXCEPT !.op = @ + 1]
LEMMA PastWaits ==
  ASSUME IInv, status = "running", ctrl # <<>>, Top.kind \in {"statics", "function"}
  PROVE  /\ PastLevel \in Level /\ Alike(Top, PastLevel) /\ Past = Replaced(PastLevel)
         /\ \A c, us : Grows(units, us) /\ c[Len(ctrl)] = PastLevel => Waits(c, us, Len(ctrl))
<1> DEFINE n == Len(ctrl)
<1>1. Top \in StaticsLevel \/ Top \in FunctionLevel
  BY TopOf DEF Level, UnitLevel, StaticsLevel, FunctionLevel
<1>2. PastLevel \in Level
  BY <1>1 DEF PastLevel, Level, StaticsLevel, FunctionLevel
<1>3. /\ PastLevel.kind = Top.kind /\ PastLevel.unit = Top.unit
      /\ Top.kind = "statics" => PastLevel.by = Top.by /\ PastLevel.pc = Top.pc /\ PastLevel.own = Top.own
      /\ Top.kind = "function" => PastLevel.name = Top.name
  BY <1>1 DEF PastLevel, StaticsLevel, FunctionLevel
<1>4. Alike(Top, PastLevel) BY <1>3 DEF Alike
<1>5. ASSUME NEW c, NEW us, Grows(units, us), c[n] = PastLevel PROVE Waits(c, us, n)
  <2>1. Waits(ctrl, units, n) /\ Top.unit \in 1 .. Len(units) BY TopOf
  <2>2. us[Top.unit].path = units[Top.unit].path BY <1>5, <2>1 DEF Grows
  <2>3. Top.unit \in 1 .. Len(us) /\ (Complete(units, Top.unit) => Complete(us, Top.unit))
    BY <1>5, <2>1, Now, GrownUnits
  <2>4. CASE Top.kind = "statics"
    <3>1. StaticsWait(ctrl, units, n) BY <2>1, <2>4 DEF Waits, Top
    <3>2. StaticsWait(c, us, n) BY <1>3, <1>5, <2>2, <2>3, <2>4, <3>1 DEF StaticsWait, Top
    <3> QED BY <1>3, <1>5, <2>3, <2>4, <3>2 DEF Waits
  <2>5. CASE Top.kind = "function"
    <3>1. FunctionWaits(ctrl, units, n) BY <2>1, <2>5 DEF Waits, Top
    <3>2. FunctionWaits(c, us, n) BY <1>3, <1>5, <2>2, <2>3, <2>5, <3>1 DEF FunctionWaits, Top
    <3> QED BY <1>3, <1>5, <2>3, <2>5, <3>2 DEF Waits
  <2> QED BY <2>4, <2>5
<1> QED BY <1>2, <1>4, <1>5 DEF Past, PastLevel
----------------------------------------------------------------------------
\* The kinds of steps.
CachesNext == /\ CacheOK(compiled', units') /\ CacheOK(declarative', units')
              /\ CacheOK(trees', units') /\ CacheOK(exported', units')
              /\ HoldsComplete(compiled', units') /\ HoldsDeclarative(declarative', units')
              /\ HoldsComplete(trees', units') /\ HoldsModules(exported', units')
FlagsNext == builtins' \in BOOLEAN /\ fatal' \in BOOLEAN /\ status' \in Statuses

LEMMA CachesUnchanged ==
  ASSUME IInv, status = "running", Grows(units, units'), UNCHANGED caches
  PROVE  CachesNext
<1>1. compiled' = compiled /\ declarative' = declarative /\ trees' = trees /\ exported' = exported
  BY DEF caches
<1>2. CacheOK(compiled, units') /\ HoldsComplete(compiled, units') BY Now, CacheKept
<1>3. CacheOK(declarative, units') /\ HoldsDeclarative(declarative, units') BY Now, CacheKept
<1>4. CacheOK(trees, units') /\ HoldsComplete(trees, units') BY Now, CacheKept
<1>5. CacheOK(exported, units') /\ HoldsModules(exported, units') BY Now, CacheKept
<1> QED BY <1>1, <1>2, <1>3, <1>4, <1>5 DEF CachesNext

LEMMA StepHaltsStoring ==
  ASSUME IInv, status = "running", UNCHANGED <<fs, ctrl, units>>, CachesNext,
         directories' \in Seq(Entry), FlagsNext, status' # "running"
  PROVE  Kept
<1>1. Grows(units, units') BY Now, GrowsNot
<1>2. Typed BY Now DEF Typed, CachesNext, FlagsNext
<1> QED BY <1>1, <1>2, StepKept

LEMMA StepHalts ==
  ASSUME IInv, status = "running", UNCHANGED <<fs, ctrl, units, caches>>,
         directories' \in Seq(Entry), FlagsNext, status' # "running"
  PROVE  Kept
<1>1. Grows(units, units') BY Now, GrowsNot
<1>2. CachesNext BY <1>1, CachesUnchanged
<1> QED BY <1>2, StepHaltsStoring

\* The only activation makes room for a run of initializers or a function.
LEMMA StepBottom ==
  ASSUME IInv, status = "running", Len(ctrl) = 1, ~Adds(ctrl, 1),
         NEW m \in Level, m.kind # "unit", ctrl' = << m >>, UNCHANGED <<fs, directories>>,
         Grows(units, units'), WellLinked(units'), CachesNext, FlagsNext,
         \A c : c[1] = m => Waits(c, units', 1)
  PROVE  Kept
<1>1. ctrl' \in Seq(Level) /\ Len(ctrl') = 1 /\ ctrl'[1] = m OBVIOUS
<1>2. Typed BY <1>1, Now DEF Typed, CachesNext, FlagsNext
<1>3. \A i \in 1 .. 1 : i = 1 OBVIOUS
<1>4. Stack(ctrl', units') BY <1>1, <1>3 DEF Stack
<1>5. ~Adds(ctrl', 1) BY <1>1 DEF Adds
<1>6. directories' = <<>>
  <2>1. Spelled(ctrl, units, 1, directories) BY Now DEF Directory
  <2> QED BY <1>3, <2>1 DEF Spelled
<1>7. Directory(ctrl', units', directories')
  BY <1>1, <1>3, <1>5, <1>6 DEF Directory, Spelled, Entered
<1>8. SoundNext BY <1>4, <1>7 DEF SoundNext, CachesNext
<1> QED BY <1>2, <1>8, StepKept

LEMMA StepGoes ==
  ASSUME IInv, status = "running", ctrl # <<>>, NEW l \in Level, Alike(Top, l),
         ctrl' = Replaced(l), UNCHANGED <<fs, directories, caches>>,
         Grows(units, units'), WellLinked(units'), FlagsNext,
         status' = "running" => Waits(ctrl', units', Len(ctrl))
  PROVE  Kept
<1>1. /\ ctrl' \in Seq(Level) /\ Len(ctrl') = Len(ctrl) /\ Agree(ctrl, ctrl', Len(ctrl))
  BY ReplacedTop
<1>2. CachesNext BY CachesUnchanged
<1>3. Typed BY <1>1, <1>2, Now DEF Typed, CachesNext, FlagsNext
<1>4. ASSUME status' = "running" PROVE SoundNext
  <2>1. Stack(ctrl', units') /\ Directory(ctrl', units', directories)
    BY <1>1, <1>4, Now, Continue
  <2> QED BY <1>2, <2>1 DEF SoundNext, CachesNext
<1> QED BY <1>3, <1>4, StepKept

LEMMA StepEnters ==
  ASSUME IInv, status = "running", ctrl # <<>>, NEW l \in Level, Alike(Top, l), NEW m \in Level,
         Pushes(ctrl', l, m), UNCHANGED <<fs, caches>>,
         Grows(units, units'), WellLinked(units'), FlagsNext,
         Waits(ctrl', units', Len(ctrl)), Waits(ctrl', units', Len(ctrl) + 1),
         \/ ~(m.kind = "unit" /\ m.by = "subdir") /\ directories' = directories
         \/ /\ m.kind = "unit" /\ m.by = "subdir"
            /\ \E name \in Entry : \E f : /\ directories' = Append(directories, name)
                                          /\ units'[m.unit].path = Append(directories', f)
  PROVE  Kept
<1> DEFINE n == Len(ctrl)
<1>1. /\ ctrl' \in Seq(Level) /\ Len(ctrl') = n + 1 /\ Agree(ctrl, ctrl', n) /\ ctrl'[n + 1] = m
  BY PushedTop
<1>2. CachesNext BY CachesUnchanged
<1>3. directories' \in Seq(Entry)
  <2>1. directories' = directories \/ \E name \in Entry : directories' = Append(directories, name)
    OBVIOUS
  <2>2. directories \in Seq(Entry) BY Now
  <2>3. ASSUME NEW name \in Entry PROVE Append(directories, name) \in Seq(Entry)
    BY <2>2, AppendProperties
  <2> QED BY <2>1, <2>2, <2>3
<1>4. Typed BY <1>1, <1>2, <1>3 DEF Typed, CachesNext, FlagsNext
<1>5. Adds(ctrl', n + 1) <=> (m.kind = "unit" /\ m.by = "subdir") BY <1>1 DEF Adds
<1>6. \/ ~Adds(ctrl', n + 1) /\ directories' = directories
      \/ /\ Adds(ctrl', n + 1)
         /\ \E name \in Entry : \E f :
              /\ directories' = Append(directories, name)
              /\ units'[ctrl'[n + 1].unit].path = Append(directories', f)
  BY <1>1, <1>5
<1>7. Stack(ctrl', units') /\ Directory(ctrl', units', directories')
  BY <1>1, <1>6, Now, Ascend
<1>8. SoundNext BY <1>2, <1>7 DEF SoundNext, CachesNext
<1> QED BY <1>4, <1>8, StepKept

LEMMA StepReturns ==
  ASSUME IInv, status = "running", ctrl # <<>>, ctrl' = Below, fs' = fs,
         Grows(units, units'), WellLinked(units'), CachesNext, FlagsNext,
         status' = "running" /\ Below # <<>> => Waits(ctrl', units', Len(ctrl) - 1),
         directories' = IF Adds(ctrl, Len(ctrl)) THEN LeaveDirectory ELSE directories
  PROVE  Kept
<1>1. /\ ctrl' \in Seq(Level) /\ Len(ctrl') = Len(ctrl) - 1
      /\ Len(ctrl') # 0 => Agree(ctrl, ctrl', Len(ctrl'))
  BY PoppedTop
<1>2. directories' \in Seq(Entry)
  <2>1. CASE Adds(ctrl, Len(ctrl)) BY <2>1, Now, InDirectory DEF LeaveDirectory
  <2>2. CASE ~Adds(ctrl, Len(ctrl)) BY <2>2, Now
  <2> QED BY <2>1, <2>2
<1>3. Typed BY <1>1, <1>2 DEF Typed, CachesNext, FlagsNext
<1>4. ASSUME status' = "running" PROVE SoundNext
  <2>1. Len(ctrl') # 0 => Below # <<>> BY EmptySeq
  <2>2. Len(ctrl') # 0 => Agree(ctrl, ctrl', Len(ctrl')) /\ Waits(ctrl', units', Len(ctrl'))
    BY <1>1, <1>4, <2>1
  <2>3. directories' = IF Adds(ctrl, Len(ctrl)) THEN SubSeq(directories, 1, Len(directories) - 1)
                       ELSE directories
    BY DEF LeaveDirectory
  <2>4. Stack(ctrl', units') /\ Directory(ctrl', units', directories')
    BY <1>1, <2>2, <2>3, Now, Return
  <2> QED BY <2>4 DEF SoundNext, CachesNext
<1> QED BY <1>3, <1>4, StepKept
----------------------------------------------------------------------------
\* Operations of functions and initializers.
LEMMA OperationsTyped ==
  ASSUME IInv, NEW op, AtOp(op)
  PROVE  /\ status = "running" /\ ctrl # <<>> /\ Top.kind \in {"statics", "function"}
         /\ Top.kind = "statics" => AtStatic("variable")
         /\ Complete(units, Top.unit)
         /\ Operations \in Seq(Op) /\ Top.op + 1 \in 1 .. Len(Operations)
         /\ TheOp \in Op /\ TheOp.op = op
         /\ Resolved(fs, units[Top.unit].path, Operations)
<1> DEFINE p == units[Top.unit].path
<1>1. status = "running" /\ ctrl # <<>> /\ Top.kind \in {"statics", "function"}
  BY DEF AtOp, AtStatic, Running
<1>2. Top.kind = "statics" => AtStatic("variable") BY DEF AtOp, Running
<1>3. /\ Waits(ctrl, units, Len(ctrl)) /\ Top \in Level /\ fs \in FileSystems
      /\ p \in DOMAIN fs /\ fs[p].statics \in Seq(Static)
  BY <1>1, TopOf, Now, FileTyped
<1>4. Complete(units, Top.unit) BY <1>1, <1>3 DEF Waits, StaticsWait, FunctionWaits, Top
<1>5. Operations \in Seq(Op) /\ Resolved(fs, p, Operations) /\ Top.op \in Nat
  <2>1. CASE Top.kind = "function"
    <3>1. Top.name \in DOMAIN fs[p].functions
      BY <1>3, <2>1 DEF Waits, FunctionWaits, Top
    <3>2. Operations = fs[p].functions[Top.name] BY <2>1 DEF Operations, Body, FileOf
    <3>3. Top.op \in Nat BY <1>3, <2>1 DEF Level, UnitLevel, StaticsLevel, FunctionLevel
    <3> QED BY <1>3, <3>1, <3>2, <3>3, FileAssumption, AnalysisAssumption
  <2>2. CASE Top.kind = "statics"
    <3>1. Top.pc \in Nat /\ Top.op \in Nat
      BY <1>3, <2>2 DEF Level, UnitLevel, StaticsLevel, FunctionLevel
    <3>2. TheStatics = fs[p].statics BY DEF TheStatics, FileOf
    <3>3. Len(fs[p].statics) \in Nat BY <1>3, LenProperties
    <3>4. Top.pc < Len(fs[p].statics) /\ fs[p].statics[Top.pc + 1].do = "variable"
      BY <1>2, <2>2, <3>2 DEF AtStatic
    <3>5. Top.pc + 1 \in 1 .. Len(fs[p].statics) BY <3>1, <3>3, <3>4
    <3>6. fs[p].statics[Top.pc + 1] \in Static BY <1>3, <3>5, ElementOfSeq
    <3>7. fs[p].statics[Top.pc + 1].init \in Seq(Op) BY <3>4, <3>6 DEF Static
    <3>8. Operations = fs[p].statics[Top.pc + 1].init
      BY <2>2, <3>2 DEF Operations, Initializer, TheStatic
    <3>9. Resolved(fs, p, fs[p].statics[Top.pc + 1].init)
      BY <1>3, <3>4, <3>5, AnalysisAssumption
    <3> QED BY <3>1, <3>7, <3>8, <3>9
  <2> QED BY <1>1, <2>1, <2>2
<1>6. Top.op < Len(Operations) /\ TheOp.op = op BY DEF AtOp, TheOp
<1>7. Len(Operations) \in Nat BY <1>5, LenProperties
<1>8. Top.op + 1 \in 1 .. Len(Operations) BY <1>5, <1>6, <1>7
<1>9. TheOp \in Op BY <1>5, <1>8, ElementOfSeq DEF TheOp
<1> QED BY <1>1, <1>2, <1>4, <1>5, <1>6, <1>8, <1>9

\* A name that was resolved leads to a unit with the name.
LEMMA TargetOf ==
  ASSUME IInv, NEW op \in {"read", "write", "call"}, AtOp(op)
  PROVE  /\ Target(TheOp) \in 1 .. Len(units)
         /\ Complete(units, Target(TheOp))
         /\ op = "call" => TheOp.name \in DOMAIN fs[units[Target(TheOp)].path].functions
<1> DEFINE p == units[Top.unit].path
           o == TheOp
<1>1. /\ status = "running" /\ ctrl # <<>> /\ Complete(units, Top.unit)
      /\ o \in Op /\ o.op = op /\ Resolved(fs, p, Operations)
      /\ Top.op + 1 \in 1 .. Len(Operations)
  BY OperationsTyped
<1>2. /\ o.from \in Imports(fs[p].steps) \union {Own}
      /\ op = "call" => LET from == IF o.from = Own THEN p ELSE o.from
                        IN from \in DOMAIN fs => o.name \in DOMAIN fs[from].functions
  BY <1>1 DEF Resolved, TheOp
<1>3. p \in DOMAIN fs /\ Imports(fs[p].steps) \subseteq Path BY <1>1, TopOf, Now, FileTyped
<1>4. CASE o.from = Own
  <2>1. Target(o) = Top.unit BY <1>4 DEF Target
  <2>2. Top.unit \in 1 .. Len(units) BY <1>1, TopOf
  <2> QED BY <1>1, <1>2, <1>3, <1>4, <2>1, <2>2
<1>5. CASE o.from # Own
  <2> DEFINE v == units[Top.unit].links[o.from]
  <2>1. Target(o) = v /\ o.from \in Imports(fs[p].steps) /\ o.from \in Path
    BY <1>2, <1>3, <1>5 DEF Target
  <2>2. v # None BY <1>1, <2>1 DEF Complete
  <2>3. Module(units, v, o.from) BY <1>1, <2>1, <2>2, TopOf, Now DEF WellLinked
  <2>4. Complete(units, v) /\ v \in 1 .. Len(units) /\ units[v].path = o.from
    BY <2>3 DEF Module, Complete
  <2>5. o.from \in DOMAIN fs BY <1>1, <2>4, Now DEF Filed
  <2> QED BY <1>2, <1>5, <2>1, <2>4, <2>5
<1> QED BY <1>4, <1>5

LEMMA StepPast ==
  ASSUME IInv, NEW op, AtOp(op), ctrl' = Past, UNCHANGED <<fs, directories, caches>>,
         Grows(units, units'), WellLinked(units'), FlagsNext
  PROVE  Kept
<1>1. status = "running" /\ ctrl # <<>> /\ Top.kind \in {"statics", "function"}
  BY OperationsTyped
<1>2. /\ PastLevel \in Level /\ Alike(Top, PastLevel) /\ ctrl' = Replaced(PastLevel)
      /\ \A c, us : Grows(units, us) /\ c[Len(ctrl)] = PastLevel => Waits(c, us, Len(ctrl))
  BY <1>1, PastWaits
<1>3. ctrl'[Len(ctrl)] = PastLevel BY <1>1, <1>2, ReplacedTop
<1>4. Waits(ctrl', units', Len(ctrl)) BY <1>2, <1>3
<1> QED BY <1>1, <1>2, <1>4, StepGoes

LEMMA StepStays ==
  ASSUME IInv, NEW op, AtOp(op), ctrl' = Past, UNCHANGED <<fs, units, directories, caches>>, FlagsNext
  PROVE  Kept
<1>1. Grows(units, units') /\ WellLinked(units') BY OperationsTyped, Now, GrowsNot
<1> QED BY <1>1, StepPast

LEMMA ReadVariableKept == ASSUME IInv, ReadVariable PROVE Kept
<1>1. AtOp("read") /\ FlagsNext
  BY OperationsTyped, Now DEF ReadVariable, FlagsNext, Statuses
<1> QED BY <1>1, StepStays DEF ReadVariable

LEMMA ReadBuiltinKept == ASSUME IInv, ReadBuiltin PROVE Kept
<1>1. AtOp("builtin") /\ FlagsNext
  BY OperationsTyped, Now DEF ReadBuiltin, FlagsNext, Statuses
<1> QED BY <1>1, StepStays DEF ReadBuiltin

LEMMA RaiseFatalKept == ASSUME IInv, RaiseFatal PROVE Kept
<1>1. AtOp("fatal") /\ FlagsNext
  BY OperationsTyped, Now DEF RaiseFatal, FlagsNext, Statuses
<1> QED BY <1>1, StepStays DEF RaiseFatal

LEMMA CreateComponentKept == ASSUME IInv, CreateComponent PROVE Kept
<1>1. PICK op \in {"subdir", "file"} : AtOp(op) BY DEF CreateComponent
<1>2. FlagsNext BY <1>1, OperationsTyped, Now DEF CreateComponent, FlagsNext, Statuses
<1> QED BY <1>1, <1>2, StepStays DEF CreateComponent

LEMMA AddOldScriptKept == ASSUME IInv, AddOldScript PROVE Kept
<1>1. AtOp("subdir") /\ FlagsNext
  BY OperationsTyped, Now DEF AddOldScript, FlagsNext, Statuses
<1> QED BY <1>1, StepStays DEF AddOldScript

LEMMA WriteVariableKept == ASSUME IInv, WriteVariable PROVE Kept
<1> DEFINE o == TheOp
           t == Target(TheOp)
<1>1. AtOp("write") /\ FlagsNext
  BY OperationsTyped, Now DEF WriteVariable, FlagsNext, Statuses
<1>2. units \in Seq(UnitRecord) /\ WellLinked(units) /\ fs \in FileSystems
  BY <1>1, OperationsTyped, Now
<1>3. o \in Op /\ o.op = "write" BY <1>1, OperationsTyped
<1>4. o.name \in Var BY <1>3 DEF Op
<1>5. t \in 1 .. Len(units) BY <1>1, TargetOf
<1>6. units[t] \in UnitRecord BY <1>2, <1>5, ElementOfSeq
<1> DEFINE v == [units[t].statics EXCEPT ![o.name] = "written"]
           g == [units[t].globals EXCEPT ![o.name] = "written"]
<1>7. /\ v \in [Var -> States] /\ g \in [Var -> States]
      /\ \A n \in Var : /\ v[n] = "absent" => units[t].statics[n] = "absent"
                        /\ units[t].statics[n] = "written" => v[n] = "written"
                        /\ units[t].globals[n] = "written" => g[n] = "written"
  BY <1>4, <1>6 DEF UnitRecord, States
<1>8. CASE units' = units
  <2>1. Grows(units, units') /\ WellLinked(units') BY <1>2, <1>8, GrowsNot
  <2> QED BY <1>1, <2>1, StepPast DEF WriteVariable
<1>9. CASE units' = [units EXCEPT ![t].globals[o.name] = "written"]
  <2>1. units' = [units EXCEPT ![t].globals = g] BY <1>9
  <2> HIDE DEF g
  <2>2. Grows(units, units') /\ WellLinked(units')
    BY <1>2, <1>5, <1>7, <2>1, GlobalsOfUnit
  <2> QED BY <1>1, <2>2, StepPast DEF WriteVariable
<1>10. CASE units' = [units EXCEPT ![t].statics[o.name] = "written"]
  <2>1. units' = [units EXCEPT ![t].statics = v] BY <1>10
  <2> HIDE DEF v
  <2>2. StaticsGrow(units[t].statics, v) BY <1>7 DEF StaticsGrow
  <2>3. Grows(units, units') /\ WellLinked(units')
    BY <1>2, <1>5, <2>1, <2>2, StaticsOfUnit
  <2> QED BY <1>1, <2>3, StepPast DEF WriteVariable
<1> QED BY <1>8, <1>9, <1>10 DEF WriteVariable

LEMMA EnterKept ==
  ASSUME IInv, NEW op, AtOp(op), NEW u, Complete(units, u),
         NEW name \in DOMAIN fs[units[u].path].functions, Enter(u, name),
         UNCHANGED <<fs, units, directories, caches, builtins, fatal>>
  PROVE  Kept
<1>1. status = "running" /\ ctrl # <<>> /\ Top.kind \in {"statics", "function"}
  BY OperationsTyped
<1>2. FlagsNext BY <1>1, Now DEF Enter, FlagsNext, Statuses
<1>3. CASE ctrl' = ctrl /\ status' # "running"
  BY <1>1, <1>2, <1>3, Now, StepHalts
<1>4. CASE ctrl' = Append(Past, Function(u, name))
  <2> DEFINE m == Function(u, name)
             n == Len(ctrl)
  <2>1. /\ PastLevel \in Level /\ Alike(Top, PastLevel) /\ Past = Replaced(PastLevel)
        /\ \A c, us : Grows(units, us) /\ c[n] = PastLevel => Waits(c, us, n)
    BY <1>1, PastWaits
  <2>2. u \in 1 .. Len(units) /\ Len(units) \in Nat /\ units[u].path \in DOMAIN fs
    BY <1>1, Now, LenProperties DEF Complete, Filed
  <2>3. name \in Fun /\ u \in Nat BY <1>1, <2>2, Now, FileAssumption
  <2>4. m \in Level /\ m.kind = "function" /\ m.unit = u /\ m.name = name
    BY <2>3 DEF Function, Level, FunctionLevel
  <2>5. Pushes(ctrl', PastLevel, m) BY <1>4, <2>1 DEF Pushes
  <2> HIDE DEF m
  <2>6. ctrl'[n] = PastLevel /\ ctrl'[n + 1] = m BY <1>1, <2>1, <2>4, <2>5, PushedTop
  <2>7. Grows(units, units') /\ WellLinked(units') BY <1>1, Now, GrowsNot
  <2>8. Waits(ctrl', units', n) BY <2>1, <2>6, <2>7
  <2>9. Waits(ctrl', units', n + 1)
    BY <2>2, <2>4, <2>6 DEF Waits, FunctionWaits
  <2> QED BY <1>1, <1>2, <2>1, <2>4, <2>5, <2>7, <2>8, <2>9, StepEnters
<1> QED BY <1>3, <1>4 DEF Enter

LEMMA CallFunctionKept == ASSUME IInv, CallFunction PROVE Kept
<1>1. AtOp("call") BY DEF CallFunction
<1>2. /\ Complete(units, Target(TheOp))
      /\ TheOp.name \in DOMAIN fs[units[Target(TheOp)].path].functions
  BY <1>1, TargetOf
<1> QED BY <1>1, <1>2, EnterKept DEF CallFunction

LEMMA AddSubdirectoryKept == ASSUME IInv, AddSubdirectory PROVE Kept
<1>1. AtOp("subdir") /\ Added # None /\ units[Added].lang = "cmsl" BY DEF AddSubdirectory
<1>2. /\ status = "running" /\ ctrl # <<>> /\ TheOp \in Op /\ TheOp.op = "subdir"
  BY <1>1, OperationsTyped
<1>3. TheOp.name \in Entry BY <1>2 DEF Op
<1>4. Callable(units, Added) BY <1>1, <1>2, <1>3, TopOf, Now DEF WellLinked, Added
<1>5. Complete(units, Added) /\ "main" \in DOMAIN fs[units[Added].path].functions
  BY <1>1, <1>4 DEF Callable, HasMain
<1> QED BY <1>1, <1>5, EnterKept DEF AddSubdirectory

\* What the activation below the top waits for when the top is left.
LEMMA PopWaits ==
  ASSUME IInv, status = "running", ctrl # <<>>, NEW c, c = Below, NEW us, Grows(units, us),
         NEW k, k = Len(ctrl) - 1, k # 0,
         Top.kind = "unit" /\ Top.by = "import" => us[ctrl[k].unit].links[units[Top.unit].path] # None,
         Top.kind = "statics" /\ Top.by # "program" => Initialized(us, Top.unit)
  PROVE  Waits(c, us, k)
<1> DEFINE n == Len(ctrl)
           u == ctrl[k].unit
           p == units[u].path
<1>1. n \in Nat /\ k \in 1 .. n /\ k + 1 = n
  <2>1. n \in Nat /\ n \in 1 .. n BY TopOf
  <2>2. k = n - 1 OBVIOUS
  <2> HIDE DEF n
  <2> QED BY <2>1, <2>2
<1>2. Len(c) = k /\ c \in Seq(Level) /\ \A j \in 1 .. k : c[j] = ctrl[j] BY PoppedTop
<1>3. k \in 1 .. k /\ (k > 1 => k - 1 \in 1 .. k) /\ k \in Nat BY <1>1
<1>4. c[k] = ctrl[k] /\ (k > 1 => c[k - 1] = ctrl[k - 1]) /\ c[k] \in Level
  BY <1>2, <1>3, ElementOfSeq
<1>5. Waits(ctrl, units, k) BY <1>1, Now DEF Stack
<1>6. u \in 1 .. Len(units) BY <1>5 DEF Waits
<1>7. us[u].path = p /\ p \in DOMAIN fs BY <1>6, Now DEF Grows, Filed
<1>8. /\ u \in 1 .. Len(us)
      /\ Complete(units, u) => Complete(us, u)
      /\ Initialized(units, u) => Initialized(us, u)
  BY <1>6, Now, GrownUnits
<1>9. ASSUME ctrl[k].kind = "unit" PROVE UnitWaits(c, us, k)
  <2>1. UnitWaits(ctrl, units, k) BY <1>5, <1>9 DEF Waits
  <2>2. IF c[k].by = "root" THEN k = 1
        ELSE k > 1 /\ c[k - 1].kind = "unit" /\ c[k - 1].stage = "analysis"
    BY <1>4, <2>1 DEF UnitWaits
  <2>3. ASSUME c[k].stage = "analysis",
               NEW j \in 1 .. c[k].pc, fs[p].steps[j].do = "import"
        PROVE  us[u].links[fs[p].steps[j].path] # None
    <3> DEFINE q == fs[p].steps[j].path
    <3>1. c[k].pc <= Len(fs[p].steps) BY <1>4, <2>1, <2>3 DEF UnitWaits
    <3>2. c[k].pc \in Nat
      BY <1>4, <1>9 DEF Level, UnitLevel, StaticsLevel, FunctionLevel
    <3>3. fs[p].steps \in Seq(Step) /\ Imports(fs[p].steps) \subseteq Path
      BY <1>7, Now, FileTyped
    <3>4. Len(fs[p].steps) \in Nat BY <3>3, LenProperties
    <3>5. j \in 1 .. Len(fs[p].steps) BY SMTT(30), <3>1, <3>2, <3>4
    <3>6. q \in Path BY <2>3, <3>3, <3>5 DEF Imports
    <3>7. units[u].links[q] # None \/ Compiles(ctrl, units, k, q)
      BY <1>4, <2>1, <2>3 DEF UnitWaits
    <3>8. CASE units[u].links[q] # None BY <1>6, <3>6, <3>8 DEF Grows
    <3>9. CASE Compiles(ctrl, units, k, q)
      <4>1. Top.kind = "unit" /\ Top.by = "import" /\ units[Top.unit].path = q
        BY <1>1, <3>9 DEF Compiles, Above, Top
      <4> QED BY <4>1
    <3> QED BY <3>7, <3>8, <3>9
  <2>4. ASSUME c[k].stage = "initialization"
        PROVE  c[k].by = "import" /\ Complete(us, u) /\ Initialized(us, u)
    <3>1. c[k].by = "import" /\ Complete(units, u) BY <1>4, <2>1, <2>4 DEF UnitWaits
    <3>2. \/ Initialized(units, u)
          \/ Above(ctrl, k, "statics") /\ ctrl[k + 1].unit = u /\ ctrl[k + 1].by # "program"
      BY <1>4, <2>1, <2>4 DEF UnitWaits
    <3>3. CASE Above(ctrl, k, "statics") /\ ctrl[k + 1].unit = u /\ ctrl[k + 1].by # "program"
      BY <1>1, <1>8, <3>1, <3>3 DEF Above, Top
    <3> QED BY <1>8, <3>1, <3>2, <3>3
  <2>5. c[k].stage = "analysis" => c[k].pc <= Len(fs[p].steps) BY <1>4, <2>1 DEF UnitWaits
  <2> QED BY ZenonT(30), <1>4, <1>7, <2>2, <2>3, <2>4, <2>5 DEF UnitWaits
<1>10. ASSUME ctrl[k].kind = "statics" PROVE StaticsWait(c, us, k)
  <2>1. StaticsWait(ctrl, units, k) BY <1>5, <1>10 DEF Waits
  <2> QED BY <1>4, <1>7, <1>8, <2>1 DEF StaticsWait
<1>11. ASSUME ctrl[k].kind = "function" PROVE FunctionWaits(c, us, k)
  <2>1. FunctionWaits(ctrl, units, k) BY <1>5, <1>11 DEF Waits
  <2> QED BY <1>4, <1>7, <1>8, <2>1 DEF FunctionWaits
<1> QED BY <1>4, <1>8, <1>9, <1>10, <1>11 DEF Waits

\* Below the bottom there is nothing.
LEMMA BelowEmpty ==
  ASSUME IInv, status = "running", ctrl # <<>>
  PROVE  Below # <<>> => Len(ctrl) - 1 # 0
<1>1. Below \in Seq(Level) /\ Len(Below) = Len(ctrl) - 1 BY PoppedTop
<1> QED BY <1>1, EmptySeq

LEMMA EndFunctionKept == ASSUME IInv, EndFunction PROVE Kept
<1>1. /\ status = "running" /\ ctrl # <<>> /\ Top.kind = "function"
      /\ ctrl' = Below /\ fs' = fs /\ units' = units /\ directories' = directories
      /\ UNCHANGED caches
  BY DEF EndFunction, Running
<1>2. Grows(units, units') /\ WellLinked(units') BY <1>1, Now, GrowsNot
<1>3. CachesNext BY <1>1, <1>2, CachesUnchanged
<1>4. FlagsNext BY <1>1, Now DEF EndFunction, FlagsNext, Statuses
<1>5. directories' = IF Adds(ctrl, Len(ctrl)) THEN LeaveDirectory ELSE directories
  BY <1>1 DEF Adds, Top
<1>6. Below # <<>> => Waits(ctrl', units', Len(ctrl) - 1)
  <2>1. ASSUME NEW k, k = Len(ctrl) - 1, k # 0 PROVE Waits(ctrl', units', k)
    BY <1>1, <1>2, <2>1, PopWaits
  <2> QED BY <1>1, <2>1, BelowEmpty
<1> QED BY <1>1, <1>2, <1>3, <1>4, <1>5, <1>6, StepReturns
----------------------------------------------------------------------------
\* Static variables.
LEMMA DeclaredNext ==
  ASSUME NEW statics, NEW pc \in Nat
  PROVE  DeclaredUpTo(statics, pc + 1) =
           IF statics[pc + 1].do = "variable"
           THEN DeclaredUpTo(statics, pc) \union {statics[pc + 1].name}
           ELSE DeclaredUpTo(statics, pc)
<1>1. \A i : i \in 1 .. pc + 1 <=> i \in 1 .. pc \/ i = pc + 1 OBVIOUS
<1> QED BY <1>1 DEF DeclaredUpTo

LEMMA DeclaredNone == ASSUME NEW statics PROVE DeclaredUpTo(statics, 0) = {}
<1>1. \A i : i \notin 1 .. 0 OBVIOUS
<1> QED BY <1>1 DEF DeclaredUpTo

LEMMA StaticsTop ==
  ASSUME IInv, Running("statics")
  PROVE  LET p == units[Top.unit].path
         IN /\ status = "running" /\ ctrl # <<>> /\ Top \in StaticsLevel
            /\ StaticsWait(ctrl, units, Len(ctrl))
            /\ Complete(units, Top.unit)
            /\ Top.pc <= Len(fs[p].statics)
            /\ Top.own = DeclaredUpTo(fs[p].statics, Top.pc)
            /\ Top.by = "program" => Len(ctrl) = 1 /\ HasMain(p)
            /\ TheStatics = fs[p].statics /\ fs[p].statics \in Seq(Static)
            /\ Len(fs[p].statics) \in Nat
<1>1. status = "running" /\ ctrl # <<>> /\ Top.kind = "statics" BY DEF Running
<1>2. Top \in StaticsLevel BY <1>1, TopOf DEF Level, UnitLevel, FunctionLevel
<1>3. StaticsWait(ctrl, units, Len(ctrl)) BY <1>1, TopOf DEF Waits, Top
<1>4. /\ Complete(units, Top.unit)
      /\ Top.pc <= Len(fs[units[Top.unit].path].statics)
      /\ Top.own = DeclaredUpTo(fs[units[Top.unit].path].statics, Top.pc)
      /\ Top.by = "program" => Len(ctrl) = 1 /\ HasMain(units[Top.unit].path)
  BY <1>3 DEF StaticsWait, Top
<1>5. fs[units[Top.unit].path].statics \in Seq(Static) BY <1>1, TopOf, Now, FileTyped
<1>6. Len(fs[units[Top.unit].path].statics) \in Nat BY <1>5, LenProperties
<1> QED BY <1>1, <1>2, <1>3, <1>4, <1>5, <1>6 DEF TheStatics, FileOf

\* The initializer of a module moves to the next import or variable.
LEMMA NextStatic ==
  ASSUME IInv, NEW do, AtStatic(do), NEW l, l.kind = "statics", l.unit = Top.unit, l.by = Top.by,
         l.pc = Top.pc + 1, l.op \in Nat, l \in StaticsLevel,
         l.own = DeclaredUpTo(TheStatics, Top.pc + 1)
  PROVE  /\ l \in Level /\ Alike(Top, l)
         /\ \A c : c[Len(ctrl)] = l => Waits(c, units, Len(ctrl))
<1>1. Running("statics") /\ Top.pc < Len(TheStatics) BY DEF AtStatic
<1>2. /\ Top \in StaticsLevel /\ StaticsWait(ctrl, units, Len(ctrl)) /\ Complete(units, Top.unit)
      /\ TheStatics = fs[units[Top.unit].path].statics /\ Len(TheStatics) \in Nat
      /\ Top.by = "program" => Len(ctrl) = 1 /\ HasMain(units[Top.unit].path)
  BY <1>1, StaticsTop
<1>3. Top.unit \in 1 .. Len(units) BY <1>2 DEF Complete
<1>4. Top.pc \in Nat BY <1>2 DEF StaticsLevel
<1>5. l.pc <= Len(TheStatics) BY <1>1, <1>2, <1>4
<1>6. l \in Level BY DEF Level
<1>7. Top.kind = "statics" BY <1>1 DEF Running
<1>8. Alike(Top, l) BY <1>7 DEF Alike
<1>9. ASSUME NEW c, c[Len(ctrl)] = l PROVE Waits(c, units, Len(ctrl))
  <2>1. StaticsWait(c, units, Len(ctrl)) BY <1>2, <1>5, <1>9 DEF StaticsWait
  <2> QED BY <1>3, <1>9, <2>1 DEF Waits
<1> QED BY <1>6, <1>8, <1>9

LEMMA EndVariableKept == ASSUME IInv, EndVariable PROVE Kept
<1> DEFINE l == [Top EXCEPT !.pc = @ + 1, !.op = 0, !.own = @ \union {TheStatic.name}]
<1>1. /\ AtStatic("variable") /\ Running("statics") /\ ctrl' = Replaced(l)
      /\ UNCHANGED <<fs, units, directories, caches>>
  BY DEF EndVariable, AtStatic
<1>2. /\ status = "running" /\ ctrl # <<>> /\ Top \in StaticsLevel
      /\ Top.own = DeclaredUpTo(TheStatics, Top.pc)
      /\ TheStatics \in Seq(Static) /\ Len(TheStatics) \in Nat
  BY <1>1, StaticsTop
<1>3. Top.pc \in Nat /\ Top.pc + 1 \in 1 .. Len(TheStatics)
  BY <1>1, <1>2 DEF StaticsLevel, AtStatic
<1>4. TheStatic \in Static /\ TheStatic.do = "variable"
  BY <1>1, <1>2, <1>3, ElementOfSeq DEF TheStatic, AtStatic
<1>5. TheStatic.name \in Var BY <1>4 DEF Static
<1>6. /\ l \in StaticsLevel /\ l.kind = "statics" /\ l.unit = Top.unit /\ l.by = Top.by
      /\ l.pc = Top.pc + 1 /\ l.op \in Nat
      /\ l.own = DeclaredUpTo(TheStatics, Top.pc) \union {TheStatic.name}
  <2> DEFINE own == Top.own \union {TheStatic.name}
  <2>1. own \in SUBSET Var BY <1>2, <1>5 DEF StaticsLevel
  <2> HIDE DEF own
  <2>2. l = [Top EXCEPT !.pc = @ + 1, !.op = 0, !.own = own] BY DEF own
  <2>3. /\ l \in StaticsLevel /\ l.kind = "statics" /\ l.unit = Top.unit /\ l.by = Top.by
        /\ l.pc = Top.pc + 1 /\ l.op = 0 /\ l.own = own
    <3> HIDE DEF l
    <3> DEFINE l1 == [Top EXCEPT !.pc = @ + 1]
               l2 == [l1 EXCEPT !.op = 0]
    <3>1. l1 \in StaticsLevel /\ l1.kind = "statics" /\ l1.unit = Top.unit /\ l1.by = Top.by /\ l1.pc = Top.pc + 1
      BY <1>2 DEF StaticsLevel
    <3>2. l = [l2 EXCEPT !.own = own] BY <2>2
    <3> HIDE DEF l1
    <3>3. l2 \in StaticsLevel /\ l2.kind = "statics" /\ l2.unit = Top.unit /\ l2.by = Top.by /\ l2.pc = Top.pc + 1 /\ l2.op = 0
      BY <3>1 DEF StaticsLevel
    <3> HIDE DEF l2
    <3> QED BY <2>1, <3>2, <3>3 DEF StaticsLevel
  <2> QED BY <1>2, <2>3 DEF own
<1>7. l.own = DeclaredUpTo(TheStatics, Top.pc + 1)
  BY <1>3, <1>4, <1>6, DeclaredNext DEF TheStatic
<1> HIDE DEF l
<1>8. /\ l \in Level /\ Alike(Top, l)
      /\ \A c : c[Len(ctrl)] = l => Waits(c, units, Len(ctrl))
  BY <1>1, <1>6, <1>7, NextStatic
<1>9. ctrl'[Len(ctrl)] = l BY <1>1, <1>2, <1>8, ReplacedTop
<1>10. Waits(ctrl', units', Len(ctrl)) BY <1>1, <1>8, <1>9
<1>11. FlagsNext BY <1>2, Now DEF EndVariable, FlagsNext, Statuses
<1>12. Grows(units, units') /\ WellLinked(units') BY <1>1, <1>2, Now, GrowsNot
<1> QED BY <1>1, <1>2, <1>8, <1>10, <1>11, <1>12, StepGoes

LEMMA InitializeImportKept == ASSUME IInv, InitializeImport PROVE Kept
<1> DEFINE l == [Top EXCEPT !.pc = @ + 1]
           p == TheStatic.path
           m == Statics(trees[p], "again")
           n == Len(ctrl)
<1>1. /\ AtStatic("import") /\ Running("statics")
      /\ UNCHANGED <<fs, units, directories, caches, builtins, fatal>>
      /\ \/ status' \in {"crashed", "overflow"} /\ UNCHANGED ctrl
         \/ trees[p] # None /\ ctrl' = Append(Replaced(l), m) /\ UNCHANGED status
  BY DEF InitializeImport, AtStatic, AlreadyInitialized, Advanced
<1>2. /\ status = "running" /\ ctrl # <<>> /\ Top \in StaticsLevel
      /\ Top.own = DeclaredUpTo(TheStatics, Top.pc)
      /\ TheStatics \in Seq(Static) /\ Len(TheStatics) \in Nat
  BY <1>1, StaticsTop
<1>3. FlagsNext BY <1>1, <1>2, Now DEF FlagsNext, Statuses
<1>4. CASE status' \in {"crashed", "overflow"} /\ UNCHANGED ctrl
  BY <1>1, <1>2, <1>3, <1>4, Now, StepHalts
<1>5. CASE trees[p] # None /\ ctrl' = Append(Replaced(l), m) /\ UNCHANGED status
  <2>1. Top.pc \in Nat /\ Top.pc + 1 \in 1 .. Len(TheStatics)
    BY <1>1, <1>2 DEF StaticsLevel, AtStatic
  <2>2. TheStatic \in Static /\ TheStatic.do = "import"
    BY <1>1, <1>2, <2>1, ElementOfSeq DEF TheStatic, AtStatic
  <2>3. p \in Path BY <2>2 DEF Static
  <2>4. /\ l \in StaticsLevel /\ l.kind = "statics" /\ l.unit = Top.unit /\ l.by = Top.by
        /\ l.pc = Top.pc + 1 /\ l.op \in Nat /\ l.own = DeclaredUpTo(TheStatics, Top.pc)
    BY <1>2 DEF StaticsLevel
  <2>5. l.own = DeclaredUpTo(TheStatics, Top.pc + 1)
    BY <2>1, <2>2, <2>4, DeclaredNext DEF TheStatic
  <2>6. Complete(units, trees[p]) BY <1>2, <1>5, <2>3, Now DEF HoldsComplete
  <2>7. trees[p] \in 1 .. Len(units) /\ Len(units) \in Nat
    BY <1>2, <2>6, Now, LenProperties DEF Complete
  <2>8. /\ m \in Level /\ m.kind = "statics" /\ m.unit = trees[p] /\ m.pc = 0
        /\ m.own = {} /\ m.by = "again"
    BY <2>7 DEF Statics, Level, StaticsLevel
  <2>9. Pushes(ctrl', l, m) BY <1>5 DEF Pushes
  <2> HIDE DEF l, m
  <2>10. /\ l \in Level /\ Alike(Top, l)
         /\ \A c : c[n] = l => Waits(c, units, n)
    BY <1>1, <2>4, <2>5, NextStatic
  <2>11. ctrl'[n] = l /\ ctrl'[n + 1] = m BY <1>2, <2>8, <2>9, <2>10, PushedTop
  <2>12. Grows(units, units') /\ WellLinked(units') BY <1>1, <1>2, Now, GrowsNot
  <2>13. Waits(ctrl', units', n) BY <1>1, <2>10, <2>11
  <2>14. Waits(ctrl', units', n + 1)
    <3>1. units' = units /\ units[trees[p]].path \in DOMAIN fs BY <1>1, <1>2, <2>7, Now DEF Filed
    <3>2. 0 <= Len(fs[units[trees[p]].path].statics)
      BY <1>2, <3>1, Now, FileTyped, LenProperties
    <3>3. m.own = DeclaredUpTo(fs[units[trees[p]].path].statics, m.pc)
      BY <2>8, DeclaredNone
    <3>4. StaticsWait(ctrl', units', n + 1)
      BY <2>6, <2>8, <2>11, <3>1, <3>2, <3>3 DEF StaticsWait
    <3> QED BY <2>7, <2>8, <2>11, <3>1, <3>4 DEF Waits
  <2> QED BY <1>1, <1>2, <1>3, <2>8, <2>9, <2>10, <2>12, <2>13, <2>14, StepEnters
<1> QED BY <1>1, <1>4, <1>5

LEMMA EndStaticsKept == ASSUME IInv, EndStatics PROVE Kept
<1> DEFINE u == Top.unit
           p == units[Top.unit].path
           statics == Gathered(units[Top.unit].statics)
           globals == Gathered(units[Top.unit].globals)
<1>1. /\ Running("statics") /\ Top.pc = Len(TheStatics)
      /\ UNCHANGED <<fs, directories, caches, builtins, fatal, status>>
  BY DEF EndStatics
<1>2. /\ status = "running" /\ ctrl # <<>> /\ Top \in StaticsLevel /\ Complete(units, u)
      /\ Top.own = DeclaredUpTo(fs[p].statics, Top.pc)
      /\ Top.by = "program" => Len(ctrl) = 1 /\ HasMain(p)
      /\ TheStatics = fs[p].statics
  BY <1>1, StaticsTop
<1>3. /\ u \in 1 .. Len(units) /\ units[u] \in UnitRecord /\ p \in DOMAIN fs /\ fs \in FileSystems
      /\ units \in Seq(UnitRecord) /\ WellLinked(units)
  BY <1>2, TopOf, Now
<1>4. FlagsNext BY <1>1, <1>2, Now DEF FlagsNext
<1>5. Top.kind = "statics" BY <1>1 DEF Running
<1>6. ~Adds(ctrl, Len(ctrl)) BY <1>5 DEF Adds, Top
<1>7. CASE Top.by = "program"
  <2> DEFINE m == Function(u, "main")
  <2>1. units' = [units EXCEPT ![u].globals = globals] /\ ctrl' = << m >>
    BY <1>7 DEF EndStatics
  <2>2. /\ globals \in [Var -> States]
        /\ \A n \in Var : units[u].globals[n] = "written" => globals[n] = "written"
    BY <1>3 DEF Gathered, UnitRecord, States
  <2> HIDE DEF globals
  <2>3. Grows(units, units') /\ WellLinked(units') BY <1>3, <2>1, <2>2, GlobalsOfUnit
  <2>4. CachesNext BY <1>1, <1>2, <2>3, CachesUnchanged
  <2>5. Len(ctrl) = 1 /\ "main" \in DOMAIN fs[p].functions BY <1>2, <1>7 DEF HasMain
  <2>6. m \in Level /\ m.kind = "function" /\ m.unit = u /\ m.name = "main"
    BY <1>3, LenProperties, NameAssumption DEF Function, Level, FunctionLevel
  <2> HIDE DEF m
  <2>7. ASSUME NEW c, c[1] = m PROVE Waits(c, units', 1)
    <3>1. u \in 1 .. Len(units') /\ Complete(units', u) BY <1>2, <1>3, <2>3, Now, GrownUnits
    <3>2. units'[u].path = p BY <1>3, <2>3 DEF Grows
    <3> QED BY <2>5, <2>6, <2>7, <3>1, <3>2 DEF Waits, FunctionWaits
  <2> QED BY <1>1, <1>2, <1>4, <1>6, <2>1, <2>3, <2>4, <2>5, <2>6, <2>7, StepBottom
<1>8. CASE Top.by # "program"
  <2>1. units' = [units EXCEPT ![u].statics = statics] /\ ctrl' = Below
    BY <1>8 DEF EndStatics
  <2>2. StaticsGrow(units[u].statics, statics)
    BY <1>3 DEF Gathered, UnitRecord, States, StaticsGrow
  <2>8. \A n \in Var : n \in Top.own => statics[n] # "absent"
    BY <1>3 DEF Gathered, UnitRecord, States
  <2> HIDE DEF statics
  <2>3. Grows(units, units') /\ WellLinked(units')
    BY <1>3, <2>1, <2>2, StaticsOfUnit
  <2>9. units'[u].statics = statics
    BY <1>3, <2>1 DEF UnitRecord
  <2>4. CachesNext BY <1>1, <1>2, <2>3, CachesUnchanged
  <2>5. Initialized(units', u)
    <3>1. units'[u].path = p BY <1>3, <2>3 DEF Grows
    <3>2. Declared(fs[p].statics) = Top.own BY <1>1, <1>2 DEF Declared
    <3>3. Declared(fs[p].statics) \subseteq Var BY <1>3, FileTyped
    <3> QED BY <2>8, <2>9, <3>1, <3>2, <3>3 DEF Initialized
  <2>6. Below # <<>> => Waits(ctrl', units', Len(ctrl) - 1)
    <3>1. ASSUME NEW k, k = Len(ctrl) - 1, k # 0 PROVE Waits(ctrl', units', k)
      BY <1>2, <1>5, <2>1, <2>3, <2>5, <3>1, PopWaits
    <3> QED BY <1>2, <3>1, BelowEmpty
  <2>7. directories' = IF Adds(ctrl, Len(ctrl)) THEN LeaveDirectory ELSE directories
    BY <1>1, <1>6
  <2> QED BY <1>1, <1>2, <1>4, <2>1, <2>3, <2>4, <2>6, <2>7, StepReturns
<1> QED BY <1>7, <1>8
----------------------------------------------------------------------------
\* Compilation.
LEMMA UnitTop ==
  ASSUME IInv, Running("unit")
  PROVE  LET n == Len(ctrl)
             u == Top.unit
             steps == fs[units[Top.unit].path].steps
         IN /\ status = "running" /\ ctrl # <<>> /\ Top \in UnitLevel
            /\ IF Top.by = "root" THEN n = 1
               ELSE n > 1 /\ ctrl[n - 1].kind = "unit" /\ ctrl[n - 1].stage = "analysis"
            /\ steps \in Seq(Step) /\ Len(steps) \in Nat /\ Imports(steps) \subseteq Path
            /\ Top.stage = "analysis" =>
                 /\ Top.pc <= Len(steps)
                 /\ \A j \in 1 .. Top.pc : steps[j].do = "import" => units[u].links[steps[j].path] # None
            /\ Top.stage = "initialization" =>
                 Top.by = "import" /\ Complete(units, u) /\ Initialized(units, u)
<1> DEFINE n == Len(ctrl)
           u == Top.unit
           steps == fs[units[Top.unit].path].steps
<1>1. status = "running" /\ ctrl # <<>> /\ Top.kind = "unit" BY DEF Running
<1>2. Top \in UnitLevel BY <1>1, TopOf DEF Level, StaticsLevel, FunctionLevel
<1>3. UnitWaits(ctrl, units, n) BY <1>1, TopOf DEF Waits, Top
<1>4. \A kind : ~Above(ctrl, n, kind) BY <1>1, TopOf
<1>5. steps \in Seq(Step) /\ Imports(steps) \subseteq Path BY <1>1, TopOf, Now, FileTyped
<1>6. Len(steps) \in Nat BY <1>5, LenProperties
<1>7. IF Top.by = "root" THEN n = 1
      ELSE n > 1 /\ ctrl[n - 1].kind = "unit" /\ ctrl[n - 1].stage = "analysis"
  BY <1>3 DEF UnitWaits, Top
<1>8. Top.stage = "analysis" =>
        /\ Top.pc <= Len(steps)
        /\ \A j \in 1 .. Top.pc : steps[j].do = "import" => units[u].links[steps[j].path] # None
  BY <1>3, <1>4 DEF UnitWaits, Compiles, Top
<1>9. Top.stage = "initialization" =>
        Top.by = "import" /\ Complete(units, u) /\ Initialized(units, u)
  BY <1>3, <1>4 DEF UnitWaits, Top
<1> QED BY <1>1, <1>2, <1>5, <1>6, <1>7, <1>8, <1>9

LEMMA AnalysedUnit ==
  ASSUME IInv, Running("unit"), Top.stage = "analysis", ~StepsLeft
  PROVE  Complete(units, Top.unit)
<1> DEFINE steps == fs[units[Top.unit].path].steps
<1>1. /\ status = "running" /\ ctrl # <<>> /\ Top \in UnitLevel /\ Len(steps) \in Nat
      /\ Top.pc <= Len(steps)
      /\ \A j \in 1 .. Top.pc : steps[j].do = "import" => units[Top.unit].links[steps[j].path] # None
  BY UnitTop
<1>2. /\ Top.pc \in Nat /\ ~(Top.pc < Len(steps))
      /\ Len(steps) \in Nat /\ Top.pc <= Len(steps)
  BY <1>1 DEF UnitLevel, StepsLeft, FileOf
<1>3. Top.pc = Len(steps) BY <1>2
<1>4. Top.unit \in 1 .. Len(units) BY <1>1, TopOf
<1> QED BY <1>1, <1>3, <1>4 DEF Complete, Imports

LEMMA ParseErrorKept == ASSUME IInv, ParseError \/ SemanticError PROVE Kept
<1>1. /\ status = "running" /\ status' = "failed" /\ UNCHANGED <<fs, ctrl, units, caches>>
      /\ UNCHANGED <<directories, builtins, fatal>>
  BY DEF ParseError, SemanticError, Running, Fail
<1>2. FlagsNext /\ directories' \in Seq(Entry) BY <1>1, Now DEF FlagsNext, Statuses
<1> QED BY <1>1, <1>2, StepHalts

\* Semantic analysis moves to the next of its steps.
AdvancedLevel == [Top EXCEPT !.pc = @ + 1]
LEMMA AdvancedWaits ==
  ASSUME IInv, Running("unit"), Top.stage = "analysis", StepsLeft
  PROVE  /\ AdvancedLevel \in Level /\ Alike(Top, AdvancedLevel) /\ Advanced = Replaced(AdvancedLevel)
         /\ TheStep \in Step
         /\ \A c, us :
              /\ Grows(units, us) /\ c[Len(ctrl)] = AdvancedLevel
              /\ \A j \in 1 .. Len(ctrl) - 1 : c[j] = ctrl[j]
              /\ TheStep.do = "import" => \/ us[Top.unit].links[TheStep.path] # None
                                          \/ Compiles(c, us, Len(ctrl), TheStep.path)
              => Waits(c, us, Len(ctrl))
<1> DEFINE n == Len(ctrl)
           u == Top.unit
           steps == fs[units[Top.unit].path].steps
<1>1. /\ status = "running" /\ ctrl # <<>> /\ Top \in UnitLevel
      /\ IF Top.by = "root" THEN n = 1
         ELSE n > 1 /\ ctrl[n - 1].kind = "unit" /\ ctrl[n - 1].stage = "analysis"
      /\ steps \in Seq(Step) /\ Len(steps) \in Nat /\ Imports(steps) \subseteq Path
      /\ Top.pc <= Len(steps)
      /\ \A j \in 1 .. Top.pc : steps[j].do = "import" => units[u].links[steps[j].path] # None
  BY UnitTop
<1>2. /\ Top.pc \in Nat /\ Top.pc < Len(steps) /\ Top.kind = "unit" /\ Len(steps) \in Nat
      /\ Top.stage = "analysis" /\ Top \in UnitLevel
  BY <1>1 DEF UnitLevel, StepsLeft, FileOf
<1>3. Top.pc + 1 \in 1 .. Len(steps) /\ Top.pc + 1 <= Len(steps) BY <1>2
<1>4. TheStep = steps[Top.pc + 1] BY DEF TheStep, FileOf
<1>5. TheStep \in Step BY <1>1, <1>3, <1>4, ElementOfSeq
<1>6. /\ AdvancedLevel \in UnitLevel /\ AdvancedLevel.kind = "unit" /\ AdvancedLevel.unit = u
      /\ AdvancedLevel.by = Top.by /\ AdvancedLevel.stage = "analysis"
      /\ AdvancedLevel.pc = Top.pc + 1
  BY <1>2 DEF AdvancedLevel, UnitLevel
<1>7. AdvancedLevel \in Level /\ Alike(Top, AdvancedLevel) BY <1>2, <1>6 DEF Level, Alike
<1>8. n \in Nat /\ u \in 1 .. Len(units) /\ units[u].path \in DOMAIN fs BY <1>1, TopOf
<1>9. ASSUME NEW c, NEW us, Grows(units, us), c[n] = AdvancedLevel,
             \A j \in 1 .. n - 1 : c[j] = ctrl[j],
             TheStep.do = "import" => \/ us[u].links[TheStep.path] # None
                                      \/ Compiles(c, us, n, TheStep.path)
      PROVE  Waits(c, us, n)
  <2>1. u \in 1 .. Len(us) /\ us[u].path = units[u].path
    BY <1>1, <1>8, <1>9, Now, GrownUnits DEF Grows
  <2>2. IF c[n].by = "root" THEN n = 1
        ELSE n > 1 /\ c[n - 1].kind = "unit" /\ c[n - 1].stage = "analysis"
    <3>1. n > 1 => n - 1 \in 1 .. n - 1 BY <1>8
    <3> QED BY <1>1, <1>6, <1>9, <3>1
  <2>3. ASSUME NEW j \in 1 .. Top.pc + 1, steps[j].do = "import"
        PROVE  us[u].links[steps[j].path] # None \/ Compiles(c, us, n, steps[j].path)
    <3>1. CASE j = Top.pc + 1 BY <1>4, <1>9, <2>3, <3>1
    <3>2. CASE j \in 1 .. Top.pc
      <4>1. units[u].links[steps[j].path] # None BY <1>1, <2>3, <3>2
      <4>2. j \in 1 .. Len(steps) BY <1>2, <3>2
      <4>3. steps[j].path \in Path BY <1>1, <2>3, <4>2 DEF Imports
      <4> QED BY SMTT(30), <1>8, <1>9, <4>1, <4>3 DEF Grows
    <3>3. j = Top.pc + 1 \/ j \in 1 .. Top.pc BY <1>2
    <3> QED BY <3>1, <3>2, <3>3
  <2>4. UnitWaits(c, us, n)
    <3>1. c[n].unit = u /\ c[n].stage = "analysis" /\ c[n].pc = Top.pc + 1 BY <1>6, <1>9
    <3> QED BY <1>3, <2>1, <2>2, <2>3, <3>1 DEF UnitWaits
  <2> QED BY <1>6, <1>9, <2>1, <2>4 DEF Waits
<1> QED BY <1>5, <1>7, <1>9 DEF Advanced, AdvancedLevel

LEMMA AdvanceKept ==
  ASSUME IInv, Running("unit"), Top.stage = "analysis", StepsLeft, ctrl' = Advanced,
         UNCHANGED <<fs, directories, caches>>, Grows(units, units'), WellLinked(units'), FlagsNext,
         TheStep.do = "import" => units'[Top.unit].links[TheStep.path] # None
  PROVE  Kept
<1> DEFINE n == Len(ctrl)
<1>1. status = "running" /\ ctrl # <<>> BY DEF Running
<1>2. /\ AdvancedLevel \in Level /\ Alike(Top, AdvancedLevel) /\ ctrl' = Replaced(AdvancedLevel)
  BY AdvancedWaits
<1>3. ctrl'[n] = AdvancedLevel /\ \A j \in 1 .. n - 1 : ctrl'[j] = ctrl[j]
  BY <1>1, <1>2, ReplacedTop
<1>4. Waits(ctrl', units', n) BY <1>3, AdvancedWaits
<1> QED BY <1>1, <1>2, <1>4, StepGoes

\* The activation of a new compilation.
UnitOf(u, by) == [kind |-> "unit", unit |-> u, pc |-> 0, by |-> by, stage |-> "analysis"]

LEMMA CompileKept ==
  ASSUME IInv, Running("unit"), Top.stage = "analysis", StepsLeft,
         NEW p \in DOMAIN fs, NEW lang \in Languages, NEW by \in {"import", "subdir", "file"},
         Compile(Advanced, p, lang, by), UNCHANGED <<fs, caches, builtins, fatal>>,
         TheStep.do = "import" => by = "import" /\ TheStep.path = p,
         \/ by # "subdir" /\ directories' = directories
         \/ /\ by = "subdir"
            /\ \E name \in Entry : \E f : /\ directories' = Append(directories, name)
                                          /\ p = Append(directories', f)
  PROVE  Kept
<1> DEFINE n == Len(ctrl)
           v == Len(units) + 1
           m == UnitOf(v, by)
<1>1. /\ status = "running" /\ ctrl # <<>> /\ Top.kind = "unit" BY DEF Running
<1>2. directories' \in Seq(Entry)
  <2>1. directories' = directories \/ \E name \in Entry : directories' = Append(directories, name)
    OBVIOUS
  <2>2. directories \in Seq(Entry) BY <1>1, Now
  <2>3. ASSUME NEW name \in Entry PROVE Append(directories, name) \in Seq(Entry)
    BY <2>2, AppendProperties
  <2> QED BY <2>1, <2>2, <2>3
<1>3. FlagsNext BY <1>1, Now DEF Compile, FlagsNext, Statuses
<1>4. CASE status' = "overflow" /\ UNCHANGED <<units, ctrl>>
  BY <1>1, <1>2, <1>3, <1>4, StepHalts
<1>5. CASE units' = Append(units, NewUnit(p, lang)) /\ ctrl' = Append(Advanced, m)
  <2>1. /\ AdvancedLevel \in Level /\ Alike(Top, AdvancedLevel)
        /\ Advanced = Replaced(AdvancedLevel)
    BY AdvancedWaits
  <2>2. units \in Seq(UnitRecord) /\ WellLinked(units) /\ fs \in FileSystems BY <1>1, Now
  <2>3. /\ Grows(units, units') /\ WellLinked(units') /\ Len(units') = v
        /\ units'[v].path = p /\ units'[v].lang = lang
    <3>1. Makes(units, p, lang, units') BY <1>5 DEF Makes
    <3> QED BY <2>2, <3>1, MadeUnit
  <2>4. Len(units) \in Nat /\ v \in Nat /\ v \in 1 .. v BY <2>2, LenProperties
  <2>5. /\ m \in Level /\ m.kind = "unit" /\ m.unit = v /\ m.pc = 0 /\ m.by = by
        /\ m.stage = "analysis"
    BY <2>4 DEF UnitOf, Level, UnitLevel, Reasons
  <2>6. Pushes(ctrl', AdvancedLevel, m) BY <1>5, <2>1 DEF Pushes
  <2> HIDE DEF m
  <2>7. /\ ctrl'[n] = AdvancedLevel /\ ctrl'[n + 1] = m /\ Len(ctrl') = n + 1
        /\ \A j \in 1 .. n - 1 : ctrl'[j] = ctrl[j]
    BY <1>1, <2>1, <2>5, <2>6, PushedTop
  <2>8. n \in Nat /\ n \in 1 .. n /\ n < n + 1 /\ n + 1 > 1 /\ n + 1 - 1 = n BY <1>1, TopOf
  <2>9. TheStep.do = "import" => Compiles(ctrl', units', n, TheStep.path)
    BY <2>3, <2>5, <2>7, <2>8 DEF Compiles, Above
  <2>10. Waits(ctrl', units', n) BY <2>3, <2>7, <2>9, AdvancedWaits
  <2>11. Waits(ctrl', units', n + 1)
    <3>1. ctrl'[n + 1 - 1].kind = "unit" /\ ctrl'[n + 1 - 1].stage = "analysis"
      <4>1. Top \in UnitLevel BY UnitTop
      <4> QED BY <2>7, <2>8, <4>1 DEF AdvancedLevel, UnitLevel
    <3>2. 0 <= Len(fs[p].steps) /\ \A j : j \notin 1 .. 0
      <4>1. fs[p].steps \in Seq(Step) BY <2>2, FileTyped
      <4> QED BY <4>1, LenProperties
    <3>3. by # "root" OBVIOUS
    <3>4. UnitWaits(ctrl', units', n + 1)
      <4> DEFINE k == n + 1
      <4>1. /\ ctrl'[k].unit = v /\ ctrl'[k].pc = 0 /\ ctrl'[k].by # "root"
            /\ ctrl'[k].stage = "analysis" /\ k > 1 /\ units'[v].path = p
            /\ ctrl'[k - 1].kind = "unit" /\ ctrl'[k - 1].stage = "analysis"
        BY <2>3, <2>5, <2>7, <2>8, <3>1, <3>3
      <4> HIDE DEF k, v
      <4>2. UnitWaits(ctrl', units', k) BY <3>2, <4>1 DEF UnitWaits
      <4> QED BY <4>2 DEF k
    <3> QED BY <2>3, <2>4, <2>5, <2>7, <3>4 DEF Waits
  <2>12. \/ ~(m.kind = "unit" /\ m.by = "subdir") /\ directories' = directories
         \/ /\ m.kind = "unit" /\ m.by = "subdir"
            /\ \E name \in Entry : \E f : /\ directories' = Append(directories, name)
                                          /\ units'[m.unit].path = Append(directories', f)
    BY <2>3, <2>5
  <2> QED BY <1>1, <1>3, <2>1, <2>3, <2>5, <2>6, <2>10, <2>11, <2>12, StepEnters
<1> QED BY <1>4, <1>5 DEF Compile, UnitOf

\* Semantic analysis calls back.
LEMMA AtStepFacts ==
  ASSUME IInv, NEW do, NEW lang, AtStep(do, lang)
  PROVE  /\ Running("unit") /\ Top.stage = "analysis" /\ StepsLeft
         /\ status = "running" /\ ctrl # <<>> /\ TheStep \in Step /\ TheStep.do = do
         /\ Top.unit \in 1 .. Len(units)
<1>1. Running("unit") /\ Top.stage = "analysis" /\ StepsLeft /\ TheStep.do = do
  BY DEF AtStep, Analysing
<1>2. status = "running" /\ ctrl # <<>> BY <1>1 DEF Running
<1> QED BY <1>1, <1>2, AdvancedWaits, TopOf

LEMMA ImportKept == ASSUME IInv, NEW lang \in Languages, Import(lang) PROVE Kept
<1> DEFINE p == TheStep.path
<1>1. AtStep("import", lang) /\ UNCHANGED <<fs, directories, caches, builtins, fatal>>
  BY DEF Import
<1>2. /\ Running("unit") /\ Top.stage = "analysis" /\ StepsLeft
      /\ status = "running" /\ ctrl # <<>> /\ TheStep \in Step /\ TheStep.do = "import"
      /\ Top.unit \in 1 .. Len(units)
  BY <1>1, AtStepFacts
<1>3. p \in Path BY <1>2 DEF Step
<1>4. /\ units \in Seq(UnitRecord) /\ WellLinked(units) /\ fs \in FileSystems
      /\ HoldsModules(exported, units)
  BY <1>2, Now
<1>5. CASE /\ Imported(p)
           /\ status' = IF lang = "dcmsl" /\ declarative[p] = None THEN "asserted"
                        ELSE IF Redeclares(p) THEN "failed" ELSE "running"
           /\ ctrl' = Advanced /\ units' = Linked(Top.unit, p, exported[p])
  <2>1. Module(units, exported[p], p) BY <1>3, <1>4, <1>5 DEF HoldsModules, Imported
  <2>2. Links(units, Top.unit, p, exported[p], units') BY <1>5 DEF Linked, Links
  <2>3. /\ Grows(units, units') /\ WellLinked(units')
        /\ units'[Top.unit].links[p] = exported[p]
    BY <1>2, <1>3, <1>4, <2>1, <2>2, LinkedUnit
  <2>4. Grows(units, units') /\ WellLinked(units') /\ units'[Top.unit].links[p] # None
    BY <1>5, <2>3 DEF Imported
  <2>5. FlagsNext BY <1>1, <1>2, <1>5, Now DEF FlagsNext, Statuses
  <2> QED BY <1>1, <1>2, <1>5, <2>4, <2>5, AdvanceKept
<1>6. CASE status' = "failed" /\ UNCHANGED <<ctrl, units>>
  <2>1. FlagsNext /\ directories' \in Seq(Entry) BY <1>1, <1>2, <1>6, Now DEF FlagsNext, Statuses
  <2> QED BY <1>1, <1>2, <1>6, <2>1, StepHalts
<1>7. CASE Exists(p) /\ Compile(Advanced, p, lang, "import")
  <2>1. p \in DOMAIN fs BY <1>7 DEF Exists
  <2> QED BY <1>1, <1>2, <1>7, <2>1, CompileKept
<1> QED BY <1>5, <1>6, <1>7 DEF Import

LEMMA HandleAddSubdirectoryKept == ASSUME IInv, HandleAddSubdirectory PROVE Kept
<1> DEFINE name == TheStep.name
           inside == Append(directories, TheStep.name)
<1>1. AtStep("subdir", "cmsl") /\ UNCHANGED <<fs, caches, builtins, fatal>>
  BY DEF HandleAddSubdirectory
<1>2. /\ Running("unit") /\ Top.stage = "analysis" /\ StepsLeft
      /\ status = "running" /\ ctrl # <<>> /\ TheStep \in Step /\ TheStep.do = "subdir"
      /\ Top.unit \in 1 .. Len(units)
  BY <1>1, AtStepFacts
<1>3. name \in Entry BY <1>2 DEF Step
<1>4. inside \in Seq(Entry) BY <1>2, <1>3, Now, AppendProperties
<1>5. units \in Seq(UnitRecord) /\ WellLinked(units) /\ fs \in FileSystems /\ DOMAIN fs \subseteq Path
  BY <1>2, Now
<1> HIDE DEF inside
<1>6. CASE status' = "failed" /\ directories' = inside /\ UNCHANGED <<ctrl, units>>
  <2>1. FlagsNext BY <1>1, <1>2, <1>6, Now DEF FlagsNext, Statuses
  <2> QED BY <1>1, <1>2, <1>4, <1>6, <2>1, StepHalts
<1>7. CASE ctrl' = Advanced /\ UNCHANGED <<units, directories, status>>
  <2>1. FlagsNext BY <1>1, <1>2, <1>7, Now DEF FlagsNext
  <2>2. Grows(units, units') /\ WellLinked(units') BY <1>5, <1>7, GrowsNot
  <2> QED BY <1>1, <1>2, <1>7, <2>1, <2>2, AdvanceKept
<1>8. CASE /\ Exists(Script(inside)) /\ CachedScript(inside) # None
           /\ ctrl' = Advanced /\ units' = WithScript(Top.unit, name, CachedScript(inside))
           /\ status' = IF Declares(inside) \/ HasMain(Script(inside)) THEN "running" ELSE "crashed"
           /\ UNCHANGED directories
  <2> DEFINE v == CachedScript(inside)
             p == Script(inside)
  <2>1. p \in Path BY <1>5, <1>8 DEF Exists
  <2>2. FlagsNext BY <1>1, <1>2, <1>8, Now DEF FlagsNext, Statuses
  <2>3. /\ Complete(units, v)
        /\ Declares(inside) => units[v].lang = "dcmsl"
        /\ ~Declares(inside) => units[v].path = p
    <3>1. CASE Declares(inside)
      <4>1. v = declarative[p] BY <3>1 DEF CachedScript
      <4> QED BY <1>2, <1>8, <2>1, <3>1, <4>1, Now DEF HoldsDeclarative
    <3>2. CASE ~Declares(inside)
      <4>1. v = compiled[p] BY <3>2 DEF CachedScript
      <4> QED BY <1>2, <1>8, <2>1, <3>2, <4>1, Now DEF HoldsComplete, CacheOK
    <3> QED BY <3>1, <3>2
  <2>4. status' = "running" => Callable(units, v) BY <1>8, <2>3 DEF Callable
  <2>5. v \in Nat BY <1>5, <2>3, LenProperties DEF Complete
  <2>6. units' = [units EXCEPT ![Top.unit].scripts[name] = v] BY <1>8 DEF WithScript
  <2> HIDE DEF v
  <2>7. Grows(units, units') /\ (Callable(units, v) => WellLinked(units'))
    BY <1>2, <1>5, <2>5, <2>6, ScriptedUnit
  <2>8. CASE status' = "running"
    BY <1>1, <1>2, <1>8, <2>2, <2>4, <2>7, <2>8, AdvanceKept
  <2>9. CASE status' # "running"
    <3>1. CachesNext BY <1>1, <1>2, <2>7, CachesUnchanged
    <3>2. /\ AdvancedLevel \in Level /\ Alike(Top, AdvancedLevel)
          /\ ctrl' = Replaced(AdvancedLevel)
      BY <1>2, <1>8, AdvancedWaits
    <3>3. ctrl' \in Seq(Level) BY <1>2, <3>2, ReplacedTop
    <3>4. Typed BY <1>2, <1>8, <2>2, <3>1, <3>3, Now DEF Typed, CachesNext, FlagsNext
    <3> QED BY <1>1, <2>7, <2>9, <3>4, StepKept
  <2> QED BY <2>8, <2>9
<1>9. CASE /\ Exists(Script(inside)) /\ directories' = inside
           /\ Compile(Advanced, Script(inside), ScriptLang(inside), "subdir")
  <2> DEFINE p == Script(inside)
  <2>1. p \in DOMAIN fs BY <1>9 DEF Exists
  <2>2. ScriptLang(inside) \in Languages BY DEF ScriptLang, Languages
  <2>3. \E n \in Entry : \E f : directories' = Append(directories, n) /\ p = Append(directories', f)
    BY <1>3, <1>9 DEF Script, inside
  <2> HIDE DEF p
  <2>4. Compile(Advanced, p, ScriptLang(inside), "subdir") BY <1>9 DEF p
  <2> QED BY <1>1, <1>2, <2>1, <2>2, <2>3, <2>4, CompileKept
<1> QED BY <1>6, <1>7, <1>8, <1>9 DEF HandleAddSubdirectory, inside

LEMMA HandleAddDeclarativeFileKept == ASSUME IInv, HandleAddDeclarativeFile PROVE Kept
<1> DEFINE p == Append(directories, TheStep.name)
<1>1. AtStep("file", "cmsl") /\ UNCHANGED <<fs, directories, caches, builtins, fatal>>
  BY DEF HandleAddDeclarativeFile
<1>2. /\ Running("unit") /\ Top.stage = "analysis" /\ StepsLeft
      /\ status = "running" /\ ctrl # <<>> /\ TheStep \in Step /\ TheStep.do = "file"
      /\ Top.unit \in 1 .. Len(units)
  BY <1>1, AtStepFacts
<1>3. units \in Seq(UnitRecord) /\ WellLinked(units) /\ fs \in FileSystems /\ DOMAIN fs \subseteq Path
  BY <1>2, Now
<1> HIDE DEF p
<1>4. CASE status' = "failed" /\ UNCHANGED <<ctrl, units>>
  <2>1. FlagsNext /\ directories' \in Seq(Entry) BY <1>1, <1>2, <1>4, Now DEF FlagsNext, Statuses
  <2> QED BY <1>1, <1>2, <1>4, <2>1, StepHalts
<1>5. CASE /\ Exists(p) /\ declarative[p] # None /\ ctrl' = Advanced
           /\ units' = WithScript(Top.unit, TheStep.name, declarative[p]) /\ UNCHANGED status
  <2>1. p \in Path BY <1>3, <1>5 DEF Exists
  <2>2. Callable(units, declarative[p])
    BY <1>2, <1>5, <2>1, Now DEF HoldsDeclarative, Callable
  <2>3. declarative[p] \in Nat BY <1>3, <2>2, LenProperties DEF Callable, Complete
  <2>4. units' = [units EXCEPT ![Top.unit].scripts[TheStep.name] = declarative[p]]
    BY <1>5 DEF WithScript
  <2>5. Grows(units, units') /\ (Callable(units, declarative[p]) => WellLinked(units'))
    BY <1>2, <1>3, <2>3, <2>4, ScriptedUnit
  <2>6. FlagsNext BY <1>1, <1>2, <1>5, Now DEF FlagsNext
  <2> QED BY <1>1, <1>2, <1>5, <2>2, <2>5, <2>6, AdvanceKept
<1>6. CASE Exists(p) /\ Compile(Advanced, p, "dcmsl", "file")
  <2>1. p \in DOMAIN fs /\ "dcmsl" \in Languages BY <1>6 DEF Exists, Languages
  <2> QED BY <1>1, <1>2, <1>6, <2>1, CompileKept
<1> QED BY <1>4, <1>5, <1>6 DEF HandleAddDeclarativeFile, p

LEMMA ExecuteRootKept == ASSUME IInv, ExecuteRoot PROVE Kept
<1> DEFINE p == Script(directories)
           lang == ScriptLang(directories)
           m == UnitOf(1, "root")
<1>1. /\ status = "running" /\ units = <<>> /\ UNCHANGED <<fs, directories, caches, builtins, fatal>>
  BY DEF ExecuteRoot
<1>2. FlagsNext /\ directories' \in Seq(Entry)
  BY <1>1, Now DEF ExecuteRoot, Compile, FlagsNext, Statuses
<1>3. Len(units) = 0 /\ \A i : i \notin 1 .. 0 BY <1>1
<1>4. Len(ctrl) = 0
  <2>1. Len(ctrl) # 0 => Len(ctrl) \in 1 .. Len(ctrl) BY <1>1, Now, LenProperties
  <2> QED BY <1>1, <1>3, <2>1, Now DEF Stack, Waits
<1>5. ctrl = <<>> BY <1>1, <1>4, Now, EmptySeq
<1>6. directories = <<>>
  <2>1. Spelled(ctrl, units, 0, directories) BY <1>1, <1>4, Now DEF Directory
  <2> QED BY <1>3, <2>1 DEF Spelled
<1>7. CASE status' # "running" /\ UNCHANGED <<ctrl, units>>
  BY <1>1, <1>2, <1>7, StepHalts
<1>8. CASE Exists(p) /\ units' = Append(units, NewUnit(p, lang)) /\ ctrl' = << m >>
  <2>1. p \in DOMAIN fs /\ lang \in Languages BY <1>8 DEF Exists, ScriptLang, Languages
  <2>2. Makes(units, p, lang, units') BY <1>8 DEF Makes
  <2> HIDE DEF p, lang
  <2>3. /\ Grows(units, units') /\ WellLinked(units') /\ Len(units') = Len(units) + 1
        /\ units'[Len(units) + 1].path = p
    <3>1. units \in Seq(UnitRecord) /\ WellLinked(units) /\ fs \in FileSystems BY <1>1, Now
    <3> QED BY <2>1, <2>2, <3>1, MadeUnit
  <2>4. Len(units') = 1 /\ units'[1].path = p BY <1>3, <2>3
  <2>5. /\ m \in Level /\ m.kind = "unit" /\ m.unit = 1 /\ m.pc = 0 /\ m.by = "root"
        /\ m.stage = "analysis"
    BY DEF UnitOf, Level, UnitLevel, Reasons
  <2> HIDE DEF m
  <2>6. ctrl' \in Seq(Level) /\ Len(ctrl') = 1 /\ ctrl'[1] = m BY <1>8, <2>5
  <2>7. CachesNext BY <1>1, <2>3, CachesUnchanged
  <2>8. Typed BY <1>2, <2>6, <2>7 DEF Typed, CachesNext, FlagsNext
  <2>9. \A i \in 1 .. 1 : i = 1 OBVIOUS
  <2>10. Waits(ctrl', units', 1)
    <3>1. 0 <= Len(fs[p].steps)
      <4>1. fs[p].steps \in Seq(Step) BY <1>1, <2>1, Now, FileTyped
      <4> QED BY <4>1, LenProperties
    <3>2. UnitWaits(ctrl', units', 1) BY <1>3, <2>4, <2>5, <2>6, <3>1 DEF UnitWaits
    <3> QED BY <2>4, <2>5, <2>6, <3>2 DEF Waits
  <2>11. Stack(ctrl', units') BY <2>6, <2>9, <2>10 DEF Stack
  <2>12. ~Adds(ctrl', 1) BY <2>5, <2>6 DEF Adds
  <2>13. Directory(ctrl', units', directories')
    BY <1>1, <1>6, <2>6, <2>9, <2>12 DEF Directory, Spelled, Entered
  <2>14. SoundNext BY <2>3, <2>7, <2>11, <2>13 DEF SoundNext, CachesNext
  <2> QED BY <1>1, <2>3, <2>8, <2>14, StepKept
<1>9. Append(<<>>, m) = << m >> /\ Len(units) + 1 = 1 BY <1>3
<1> QED BY <1>5, <1>7, <1>8, <1>9 DEF ExecuteRoot, Compile, UnitOf
----------------------------------------------------------------------------
\* The end of a compilation.
LEMMA InitializeModuleKept == ASSUME IInv, InitializeModule PROVE Kept
<1> DEFINE n == Len(ctrl)
           u == Top.unit
           l == [Top EXCEPT !.stage = "initialization"]
           m == Statics(Top.unit, "import")
<1>1. /\ Running("unit") /\ Top.stage = "analysis" /\ ~StepsLeft /\ Top.by = "import"
      /\ UNCHANGED <<fs, units, directories, caches, builtins, fatal>>
  BY DEF InitializeModule, Analysed, Analysing
<1>2. status = "running" /\ ctrl # <<>> /\ Top \in UnitLevel /\ Top.kind = "unit"
  BY <1>1, UnitTop DEF Running
<1>3. FlagsNext BY <1>1, <1>2, Now DEF InitializeModule, FlagsNext, Statuses
<1>4. CASE status' = "overflow" /\ UNCHANGED ctrl
  BY <1>1, <1>2, <1>3, <1>4, Now, StepHalts
<1>5. CASE ctrl' = Append(Replaced(l), m)
  <2>1. Complete(units, u) BY <1>1, AnalysedUnit
  <2>2. /\ u \in 1 .. Len(units) /\ units[u].path \in DOMAIN fs /\ fs \in FileSystems
        /\ Len(units) \in Nat
    BY <1>2, TopOf, Now, LenProperties
  <2>3. /\ l \in UnitLevel /\ l.kind = "unit" /\ l.unit = u /\ l.by = "import"
        /\ l.stage = "initialization"
    BY <1>1, <1>2 DEF UnitLevel
  <2>4. /\ m \in Level /\ m.kind = "statics" /\ m.unit = u /\ m.pc = 0 /\ m.own = {}
        /\ m.by = "import"
    BY <2>2 DEF Statics, Level, StaticsLevel
  <2>5. Pushes(ctrl', l, m) BY <1>5 DEF Pushes
  <2> HIDE DEF l, m
  <2>6. l \in Level /\ Alike(Top, l) BY <1>1, <1>2, <2>3 DEF Level, Alike
  <2>7. /\ ctrl'[n] = l /\ ctrl'[n + 1] = m /\ Len(ctrl') = n + 1
        /\ \A j \in 1 .. n - 1 : ctrl'[j] = ctrl[j]
    BY <1>2, <2>4, <2>5, <2>6, PushedTop
  <2>8. n \in Nat /\ n < n + 1 /\ (n > 1 => n - 1 \in 1 .. n - 1) BY <1>2, TopOf
  <2>9. n > 1 /\ ctrl[n - 1].kind = "unit" /\ ctrl[n - 1].stage = "analysis"
    BY <1>1, UnitTop
  <2>10. Waits(ctrl', units', n)
    <3>1. ctrl'[n - 1].kind = "unit" /\ ctrl'[n - 1].stage = "analysis" BY <2>7, <2>8, <2>9
    <3>2. Above(ctrl', n, "statics") /\ ctrl'[n + 1].unit = u /\ ctrl'[n + 1].by # "program"
      BY <2>4, <2>7, <2>8 DEF Above
    <3>3. UnitWaits(ctrl', units', n)
      BY <1>1, <2>1, <2>3, <2>7, <2>9, <3>1, <3>2 DEF UnitWaits
    <3> QED BY <1>1, <2>2, <2>3, <2>7, <3>3 DEF Waits
  <2>11. Waits(ctrl', units', n + 1)
    <3>1. 0 <= Len(fs[units[u].path].statics)
      <4>1. fs[units[u].path].statics \in Seq(Static) BY <2>2, FileTyped
      <4> QED BY <4>1, LenProperties
    <3>2. m.own = DeclaredUpTo(fs[units[u].path].statics, m.pc) BY <2>4, DeclaredNone
    <3>3. StaticsWait(ctrl', units', n + 1)
      BY <1>1, <2>1, <2>4, <2>7, <3>1, <3>2 DEF StaticsWait
    <3> QED BY <1>1, <2>2, <2>4, <2>7, <3>3 DEF Waits
  <2>12. Grows(units, units') /\ WellLinked(units') BY <1>1, <1>2, Now, GrowsNot
  <2> QED BY <1>1, <1>2, <1>3, <2>4, <2>5, <2>6, <2>10, <2>11, <2>12, StepEnters
<1> QED BY <1>4, <1>5 DEF InitializeModule

\* What the caches hold when the finished unit was offered to them.
LEMMA CachesStored ==
  ASSUME IInv, status = "running", ctrl # <<>>, Grows(units, units'), Complete(units, Top.unit),
         compiled' \in {compiled, Emplaced(compiled, ThePath, Top.unit)},
         trees' \in {trees, Emplaced(trees, ThePath, Top.unit)},
         \/ declarative' = declarative
         \/ /\ units[Top.unit].lang = "dcmsl"
            /\ declarative' = Emplaced(declarative, ThePath, Top.unit),
         \/ exported' = exported
         \/ /\ Module(units, Top.unit, ThePath)
            /\ exported' = Emplaced(exported, ThePath, Top.unit)
  PROVE  CachesNext
<1>1. /\ units \in Seq(UnitRecord) /\ Filed(units) /\ fs \in FileSystems
      /\ Top.unit \in 1 .. Len(units) /\ ThePath \in Path /\ units[Top.unit].path = ThePath
  BY Now, TopOf DEF ThePath
<1>2. /\ CacheOK(compiled, units) /\ HoldsComplete(compiled, units)
      /\ CacheOK(trees, units) /\ HoldsComplete(trees, units)
      /\ CacheOK(declarative, units) /\ HoldsDeclarative(declarative, units)
      /\ CacheOK(exported, units) /\ HoldsModules(exported, units)
  BY Now
<1>3. CacheOK(compiled', units) /\ HoldsComplete(compiled', units) BY <1>1, <1>2, CacheEmplaced
<1>4. CacheOK(trees', units) /\ HoldsComplete(trees', units) BY <1>1, <1>2, CacheEmplaced
<1>5. CacheOK(declarative', units) /\ HoldsDeclarative(declarative', units)
  BY <1>1, <1>2, CacheEmplaced
<1>6. CacheOK(exported', units) /\ HoldsModules(exported', units) BY <1>1, <1>2, CacheEmplaced
<1>7. CacheOK(compiled', units') /\ HoldsComplete(compiled', units') BY <1>1, <1>3, CacheKept
<1>8. CacheOK(trees', units') /\ HoldsComplete(trees', units') BY <1>1, <1>4, CacheKept
<1>9. CacheOK(declarative', units') /\ HoldsDeclarative(declarative', units')
  BY <1>1, <1>5, CacheKept
<1>10. CacheOK(exported', units') /\ HoldsModules(exported', units') BY <1>1, <1>6, CacheKept
<1> QED BY <1>7, <1>8, <1>9, <1>10 DEF CachesNext

LEMMA DestroyedUnits ==
  ASSUME IInv, status = "running", ctrl # <<>>, NEW cache, NEW p
  PROVE  LET us == Destroyed(cache, p, Top.unit)
         IN Grows(units, us) /\ WellLinked(us) /\ us \in Seq(UnitRecord) /\ Len(us) = Len(units)
<1>1. /\ units \in Seq(UnitRecord) /\ WellLinked(units) /\ fs \in FileSystems
      /\ Top.unit \in 1 .. Len(units)
  BY Now, TopOf
<1>2. Destroyed(cache, p, Top.unit) = [units EXCEPT ![Top.unit].dead = (cache[p] # None)]
  BY DEF Destroyed
<1>3. (cache[p] # None) \in BOOLEAN OBVIOUS
<1> DEFINE dead == cache[p] # None
           us == Destroyed(cache, p, Top.unit)
<1>4. Marks(units, Top.unit, dead, us) BY <1>2 DEF Marks
<1> HIDE DEF dead, us
<1>5. dead \in BOOLEAN BY DEF dead
<1>6. Grows(units, us) /\ WellLinked(us) /\ Len(us) = Len(units) BY <1>1, <1>4, <1>5, MarkedUnit
<1> QED BY <1>6 DEF Grows, us

\* The importer or the adding script that waits below a compilation.
LEMMA ImporterOf ==
  ASSUME IInv, Running("unit"), Top.by # "root"
  PROVE  /\ Importer \in 1 .. Len(units) /\ Len(ctrl) > 1 /\ Len(ctrl) \in Nat
         /\ ctrl[Len(ctrl) - 1].unit = Importer
<1>1. /\ status = "running" /\ ctrl # <<>> /\ Len(ctrl) > 1 BY UnitTop
<1>2. Len(ctrl) \in Nat /\ Len(ctrl) - 1 \in 1 .. Len(ctrl) BY <1>1, TopOf
<1>3. Waits(ctrl, units, Len(ctrl) - 1) BY <1>1, <1>2, Now DEF Stack
<1> QED BY <1>1, <1>2, <1>3 DEF Waits, Importer, Caller

LEMMA LinkImporter ==
  ASSUME IInv, Running("unit"), Top.by # "root", Module(units, Top.unit, ThePath), NEW cache,
         units' = [Destroyed(cache, ThePath, Top.unit) EXCEPT ![Importer].links[ThePath] = Top.unit]
  PROVE  /\ Grows(units, units') /\ WellLinked(units')
         /\ units'[ctrl[Len(ctrl) - 1].unit].links[units[Top.unit].path] # None
<1> DEFINE us == Destroyed(cache, ThePath, Top.unit)
<1>1. status = "running" /\ ctrl # <<>> BY DEF Running
<1>2. /\ units \in Seq(UnitRecord) /\ Filed(units) /\ fs \in FileSystems /\ ThePath \in Path
      /\ Top.unit \in 1 .. Len(units)
  BY <1>1, Now, TopOf DEF ThePath
<1>3. Grows(units, us) /\ WellLinked(us) /\ us \in Seq(UnitRecord) /\ Len(us) = Len(units)
  BY <1>1, DestroyedUnits
<1>4. Links(us, Importer, ThePath, Top.unit, units') BY DEF Links
<1> HIDE DEF us
<1>5. Module(us, Top.unit, ThePath) BY <1>2, <1>3, GrownUnits
<1>6. Importer \in 1 .. Len(us) BY <1>3, ImporterOf
<1>7. Grows(us, units') /\ WellLinked(units') /\ units'[Importer].links[ThePath] = Top.unit
  <2>1. ASSUME NEW us2, Links(us, Importer, ThePath, Top.unit, us2)
        PROVE  Grows(us, us2) /\ WellLinked(us2) /\ us2[Importer].links[ThePath] = Top.unit
    BY <1>2, <1>3, <1>5, <1>6, <2>1, LinkedUnit
  <2> QED BY <1>4, <2>1
<1>8. Grows(units, units') BY <1>2, <1>3, <1>7, GrowsTwice
<1>9. Top.unit # None BY <1>2 DEF None
<1> QED BY <1>7, <1>8, <1>9, ImporterOf DEF ThePath

LEMMA ScriptImporter ==
  ASSUME IInv, Running("unit"), Top.by # "root", Callable(units, Top.unit), NEW cache, NEW name,
         units' = [Destroyed(cache, ThePath, Top.unit) EXCEPT ![Importer].scripts[name] = Top.unit]
  PROVE  Grows(units, units') /\ WellLinked(units')
<1> DEFINE us == Destroyed(cache, ThePath, Top.unit)
<1>1. status = "running" /\ ctrl # <<>> BY DEF Running
<1>2. /\ units \in Seq(UnitRecord) /\ Filed(units) /\ fs \in FileSystems
      /\ Top.unit \in 1 .. Len(units)
  BY <1>1, Now, TopOf
<1>3. Grows(units, us) /\ WellLinked(us) /\ us \in Seq(UnitRecord) /\ Len(us) = Len(units)
  BY <1>1, DestroyedUnits
<1>4. units' = [us EXCEPT ![Importer].scripts[name] = Top.unit] OBVIOUS
<1> HIDE DEF us
<1>5. Callable(us, Top.unit) BY <1>2, <1>3, GrownUnits
<1>6. Importer \in 1 .. Len(us) /\ Top.unit \in Nat BY <1>2, <1>3, ImporterOf, LenProperties
<1>7. Grows(us, units') /\ WellLinked(units')
  BY <1>2, <1>3, <1>4, <1>5, <1>6, ScriptedUnit
<1> QED BY <1>2, <1>3, <1>7, GrowsTwice

LEMMA StoreModuleKept == ASSUME IInv, StoreModule PROVE Kept
<1>1. /\ Running("unit") /\ Top.stage = "initialization" /\ ctrl' = Below
      /\ UNCHANGED <<fs, directories, declarative, builtins, fatal, status>>
  BY DEF StoreModule
<1>2. /\ status = "running" /\ ctrl # <<>> /\ Top.by = "import" /\ Top.kind = "unit"
      /\ Complete(units, Top.unit) /\ Initialized(units, Top.unit)
  BY <1>1, UnitTop DEF Running
<1>3. Module(units, Top.unit, ThePath) BY <1>2 DEF Module, ThePath
<1>4. /\ Grows(units, units') /\ WellLinked(units')
      /\ units'[ctrl[Len(ctrl) - 1].unit].links[units[Top.unit].path] # None
  BY <1>1, <1>2, <1>3, LinkImporter DEF StoreModule
<1>5. CachesNext BY <1>1, <1>2, <1>3, <1>4, CachesStored DEF StoreModule
<1>6. FlagsNext BY <1>1, <1>2, Now DEF FlagsNext
<1>7. Below # <<>> => Waits(ctrl', units', Len(ctrl) - 1)
  <2>1. ASSUME NEW k, k = Len(ctrl) - 1, k # 0 PROVE Waits(ctrl', units', k)
    BY <1>1, <1>2, <1>4, <2>1, PopWaits
  <2> QED BY <1>2, <2>1, BelowEmpty
<1>8. directories' = IF Adds(ctrl, Len(ctrl)) THEN LeaveDirectory ELSE directories
  BY <1>1, <1>2 DEF Adds, Top
<1> QED BY <1>1, <1>2, <1>4, <1>5, <1>6, <1>7, <1>8, StepReturns

LEMMA AnalysedFacts ==
  ASSUME IInv, NEW lang, NEW by, Analysed(lang, by)
  PROVE  /\ Running("unit") /\ status = "running" /\ ctrl # <<>>
         /\ Top.kind = "unit" /\ Top.by = by /\ units[Top.unit].lang = lang
         /\ Complete(units, Top.unit)
         /\ lang = "dcmsl" => Module(units, Top.unit, ThePath)
<1>1. /\ Running("unit") /\ Top.stage = "analysis" /\ ~StepsLeft /\ Parses(Top.unit)
      /\ Top.by = by /\ units[Top.unit].lang = lang
  BY DEF Analysed, Analysing
<1>2. status = "running" /\ ctrl # <<>> /\ Top.kind = "unit" BY <1>1 DEF Running
<1>3. Complete(units, Top.unit) BY <1>1, AnalysedUnit
<1>4. ASSUME lang = "dcmsl" PROVE Module(units, Top.unit, ThePath)
  <2> DEFINE f == fs[units[Top.unit].path]
  <2>1. "dcmsl" \in f.parses BY <1>1, <1>4 DEF Parses, FileOf
  <2>2. \A i \in 1 .. Len(f.statics) : f.statics[i].do # "variable"
    BY <1>2, <2>1, TopOf, Now, AnalysisAssumption
  <2>3. Declared(f.statics) = {} BY <2>2 DEF Declared, DeclaredUpTo
  <2> QED BY <1>3, <2>3 DEF Module, Initialized, ThePath
<1> QED BY <1>1, <1>2, <1>3, <1>4

LEMMA StoreDeclarativeModuleKept == ASSUME IInv, StoreDeclarativeModule PROVE Kept
<1>1. /\ Analysed("dcmsl", "import") /\ ctrl' = Below
      /\ UNCHANGED <<fs, directories, compiled, trees, builtins, fatal, status>>
  BY DEF StoreDeclarativeModule
<1>2. /\ Running("unit") /\ status = "running" /\ ctrl # <<>> /\ Top.kind = "unit"
      /\ Top.by = "import" /\ units[Top.unit].lang = "dcmsl"
      /\ Complete(units, Top.unit) /\ Module(units, Top.unit, ThePath)
  BY <1>1, AnalysedFacts
<1>3. /\ Grows(units, units') /\ WellLinked(units')
      /\ units'[ctrl[Len(ctrl) - 1].unit].links[units[Top.unit].path] # None
  BY <1>2, LinkImporter DEF StoreDeclarativeModule
<1>4. CachesNext BY <1>1, <1>2, <1>3, CachesStored DEF StoreDeclarativeModule
<1>5. FlagsNext BY <1>1, <1>2, Now DEF FlagsNext
<1>6. Below # <<>> => Waits(ctrl', units', Len(ctrl) - 1)
  <2>1. ASSUME NEW k, k = Len(ctrl) - 1, k # 0 PROVE Waits(ctrl', units', k)
    BY <1>1, <1>2, <1>3, <2>1, PopWaits
  <2> QED BY <1>2, <2>1, BelowEmpty
<1>7. directories' = IF Adds(ctrl, Len(ctrl)) THEN LeaveDirectory ELSE directories
  BY <1>1, <1>2 DEF Adds, Top
<1> QED BY <1>1, <1>2, <1>3, <1>4, <1>5, <1>6, <1>7, StepReturns

\* A script that is not imported goes back to the one that adds it.
LEMMA ScriptReturns ==
  ASSUME IInv, Running("unit"), Top.by \notin {"root", "import"}, ctrl' = Below, fs' = fs,
         Grows(units, units'), WellLinked(units'), CachesNext, FlagsNext,
         directories' = IF Top.by = "subdir" THEN LeaveDirectory ELSE directories
  PROVE  Kept
<1>1. status = "running" /\ ctrl # <<>> /\ Top.kind = "unit" BY DEF Running
<1>2. Below # <<>> => Waits(ctrl', units', Len(ctrl) - 1)
  <2>1. ASSUME NEW k, k = Len(ctrl) - 1, k # 0 PROVE Waits(ctrl', units', k)
    BY <1>1, <2>1, PopWaits
  <2> QED BY <1>1, <2>1, BelowEmpty
<1>3. directories' = IF Adds(ctrl, Len(ctrl)) THEN LeaveDirectory ELSE directories
  BY <1>1 DEF Adds, Top
<1> QED BY <1>1, <1>2, <1>3, StepReturns

LEMMA StoreSubdirectoryKept == ASSUME IInv, StoreSubdirectory PROVE Kept
<1>1. /\ Analysed("cmsl", "subdir")
      /\ UNCHANGED <<fs, declarative, exported, builtins, fatal>>
      /\ trees' = Emplaced(trees, ThePath, Top.unit)
  BY DEF StoreSubdirectory
<1>2. /\ Running("unit") /\ status = "running" /\ ctrl # <<>> /\ Top.by = "subdir"
      /\ Complete(units, Top.unit)
  BY <1>1, AnalysedFacts
<1>3. CASE HasMain(ThePath)
  <2>1. /\ compiled' = Emplaced(compiled, ThePath, Top.unit)
        /\ units' = [Destroyed(compiled, ThePath, Top.unit)
                       EXCEPT ![Importer].scripts[directories[Len(directories)]] = Top.unit]
        /\ directories' = LeaveDirectory /\ ctrl' = Below
        /\ status' \in {"running", "crashed"}
    BY <1>3 DEF StoreSubdirectory
  <2>2. Callable(units, Top.unit) BY <1>2, <1>3 DEF Callable, ThePath
  <2>3. Grows(units, units') /\ WellLinked(units') BY <1>2, <2>1, <2>2, ScriptImporter
  <2>4. CachesNext BY <1>1, <1>2, <2>1, <2>3, CachesStored
  <2>5. FlagsNext BY <1>1, <1>2, <2>1, Now DEF FlagsNext, Statuses
  <2> QED BY <1>1, <1>2, <2>1, <2>3, <2>4, <2>5, ScriptReturns
<1>4. CASE ~HasMain(ThePath)
  <2>1. status' = "crashed" /\ UNCHANGED <<ctrl, units, directories, compiled>>
    BY <1>4 DEF StoreSubdirectory
  <2>2. Grows(units, units') BY <1>2, <2>1, Now, GrowsNot
  <2>3. CachesNext BY <1>1, <1>2, <2>1, <2>2, CachesStored
  <2>4. FlagsNext /\ directories' \in Seq(Entry) BY <1>1, <1>2, <2>1, Now DEF FlagsNext, Statuses
  <2> QED BY <1>1, <1>2, <2>1, <2>3, <2>4, StepHaltsStoring
<1> QED BY <1>3, <1>4

LEMMA StoreDeclarativeScriptKept == ASSUME IInv, StoreDeclarativeScript PROVE Kept
<1>1. PICK by \in {"subdir", "file"} :
        /\ Analysed("dcmsl", by)
        /\ directories' = IF by = "subdir" THEN LeaveDirectory ELSE directories
  BY DEF StoreDeclarativeScript
<1>2. /\ ctrl' = Below /\ UNCHANGED <<fs, compiled, trees, exported, builtins, fatal, status>>
      /\ declarative' = Emplaced(declarative, ThePath, Top.unit)
  BY DEF StoreDeclarativeScript
<1>3. PICK name : units' = [Destroyed(declarative, ThePath, Top.unit)
                              EXCEPT ![Importer].scripts[name] = Top.unit]
  BY DEF StoreDeclarativeScript
<1>4. /\ Running("unit") /\ status = "running" /\ ctrl # <<>> /\ Top.by = by
      /\ units[Top.unit].lang = "dcmsl" /\ Complete(units, Top.unit)
  BY <1>1, AnalysedFacts
<1>5. Callable(units, Top.unit) BY <1>4 DEF Callable
<1>6. Grows(units, units') /\ WellLinked(units') BY <1>1, <1>3, <1>4, <1>5, ScriptImporter
<1>7. CachesNext BY <1>2, <1>4, <1>6, CachesStored
<1>8. FlagsNext BY <1>2, <1>4, Now DEF FlagsNext
<1> QED BY <1>1, <1>2, <1>4, <1>6, <1>7, <1>8, ScriptReturns

LEMMA ExecuteProgramKept == ASSUME IInv, ExecuteProgram PROVE Kept
<1> DEFINE m == Statics(Top.unit, "program")
<1>1. /\ Analysed("cmsl", "root") /\ UNCHANGED <<fs, directories, declarative, exported, fatal>>
      /\ trees' = Emplaced(trees, ThePath, Top.unit)
  BY DEF ExecuteProgram
<1>2. /\ Running("unit") /\ status = "running" /\ ctrl # <<>> /\ Top.by = "root"
      /\ Complete(units, Top.unit)
  BY <1>1, AnalysedFacts
<1>3. CASE HasMain(ThePath)
  <2>1. /\ compiled' = Emplaced(compiled, ThePath, Top.unit)
        /\ units' = Destroyed(compiled, ThePath, Top.unit)
        /\ builtins' = TRUE /\ ctrl' = << m >> /\ UNCHANGED status
    BY <1>3 DEF ExecuteProgram
  <2>2. Grows(units, units') /\ WellLinked(units') BY <1>2, <2>1, DestroyedUnits
  <2>3. CachesNext BY <1>1, <1>2, <2>1, <2>2, CachesStored
  <2>4. FlagsNext BY <1>1, <1>2, <2>1, Now DEF FlagsNext
  <2>5. Len(ctrl) = 1 /\ ~Adds(ctrl, 1) BY <1>2, UnitTop DEF Adds, Top
  <2>6. /\ Top.unit \in 1 .. Len(units) /\ Filed(units) /\ fs \in FileSystems
        /\ units \in Seq(UnitRecord) /\ units[Top.unit].path \in DOMAIN fs
        /\ Len(units) \in Nat
    BY <1>2, TopOf, Now, LenProperties
  <2>7. /\ m \in Level /\ m.kind = "statics" /\ m.unit = Top.unit /\ m.pc = 0 /\ m.own = {}
        /\ m.by = "program"
    BY <2>6 DEF Statics, Level, StaticsLevel
  <2> HIDE DEF m
  <2>8. ASSUME NEW c, c[1] = m PROVE Waits(c, units', 1)
    <3>1. Complete(units', Top.unit) /\ Top.unit \in 1 .. Len(units')
      BY <1>2, <2>2, <2>6, GrownUnits
    <3>2. units'[Top.unit].path = ThePath BY <2>2, <2>6 DEF Grows, ThePath
    <3>3. 0 <= Len(fs[ThePath].statics)
      <4>1. fs[ThePath].statics \in Seq(Static) BY <2>6, FileTyped DEF ThePath
      <4> QED BY <4>1, LenProperties
    <3>4. m.own = DeclaredUpTo(fs[ThePath].statics, m.pc) BY <2>7, DeclaredNone
    <3>5. StaticsWait(c, units', 1)
      BY <1>3, <2>7, <2>8, <3>1, <3>2, <3>3, <3>4 DEF StaticsWait
    <3> QED BY <2>7, <2>8, <3>1, <3>5 DEF Waits
  <2> QED BY <1>1, <1>2, <2>1, <2>2, <2>3, <2>4, <2>5, <2>7, <2>8, StepBottom
<1>4. CASE ~HasMain(ThePath)
  <2>1. status' = "crashed" /\ UNCHANGED <<ctrl, units, compiled, builtins>>
    BY <1>4 DEF ExecuteProgram
  <2>2. Grows(units, units') BY <1>2, <2>1, Now, GrowsNot
  <2>3. CachesNext BY <1>1, <1>2, <2>1, <2>2, CachesStored
  <2>4. FlagsNext /\ directories' \in Seq(Entry) BY <1>1, <1>2, <2>1, Now DEF FlagsNext, Statuses
  <2> QED BY <1>1, <1>2, <2>1, <2>3, <2>4, StepHaltsStoring
<1> QED BY <1>3, <1>4

LEMMA ExecuteDeclarativeProgramKept == ASSUME IInv, ExecuteDeclarativeProgram PROVE Kept
<1>1. /\ Analysed("dcmsl", "root") /\ ctrl' = Below /\ status' \in {"done", "crashed"}
      /\ UNCHANGED <<fs, units, directories, compiled, trees, exported, builtins, fatal>>
      /\ declarative' = Emplaced(declarative, ThePath, Top.unit)
  BY DEF ExecuteDeclarativeProgram
<1>2. /\ Running("unit") /\ status = "running" /\ ctrl # <<>> /\ Top.by = "root"
      /\ units[Top.unit].lang = "dcmsl" /\ Complete(units, Top.unit)
  BY <1>1, AnalysedFacts
<1>3. Grows(units, units') /\ WellLinked(units') BY <1>1, <1>2, Now, GrowsNot
<1>4. CachesNext BY <1>1, <1>2, <1>3, CachesStored
<1>5. FlagsNext BY <1>1, <1>2, Now DEF FlagsNext, Statuses
<1>6. directories' = IF Adds(ctrl, Len(ctrl)) THEN LeaveDirectory ELSE directories
  BY <1>1, <1>2 DEF Adds, Top
<1> QED BY <1>1, <1>2, <1>3, <1>4, <1>5, <1>6, StepReturns
----------------------------------------------------------------------------
(***************************************************************************)
(* The invariant and what follows from it.                                 *)
(***************************************************************************)

LEMMA InitSound == Init => IInv
<1> SUFFICES ASSUME Init PROVE IInv OBVIOUS
<1>1. /\ fs \in FileSystems /\ ctrl = <<>> /\ units = <<>> /\ directories = <<>>
      /\ builtins = FALSE /\ fatal = FALSE /\ status = "running"
      /\ compiled = [p \in Path |-> None] /\ declarative = compiled
      /\ trees = compiled /\ exported = compiled
  BY DEF Init
<1>2. Len(ctrl) = 0 /\ Len(units) = 0 /\ \A i : i \notin 1 .. 0 BY <1>1
<1>3. /\ compiled \in [Path -> 0 .. Len(units)] /\ \A p \in Path : compiled[p] = None
  BY <1>1, <1>2 DEF None
<1>4. TypeOK
  <2>1. DOMAIN fs \subseteq Path BY <1>1, FileAssumption
  <2>2. ctrl \in Seq(Level) /\ units \in Seq(UnitRecord) /\ directories \in Seq(Entry) BY <1>1
  <2> QED BY <1>1, <1>3, <2>1, <2>2 DEF TypeOK, Level
<1>5. WellLinked(units) BY <1>2 DEF WellLinked, Filed
<1>6. WellStored(units)
  BY <1>1, <1>3 DEF WellStored, HoldsComplete, HoldsDeclarative, HoldsModules
<1>7. Stack(ctrl, units) BY <1>2 DEF Stack
<1>8. Directory(ctrl, units, directories) BY <1>1, <1>2 DEF Directory, Spelled
<1> QED BY <1>1, <1>4, <1>5, <1>6, <1>7, <1>8 DEF IInv, Sound

LEMMA NothingKept == ASSUME IInv, UNCHANGED vars PROVE Kept
<1>1. /\ fs' = fs /\ ctrl' = ctrl /\ units' = units /\ directories' = directories
      /\ compiled' = compiled /\ declarative' = declarative /\ trees' = trees
      /\ exported' = exported /\ builtins' = builtins /\ fatal' = fatal /\ status' = status
  BY DEF vars, caches
<1>2. Grows(units, units') BY <1>1, GrowsNot DEF IInv, TypeOK
<1>3. Typed BY <1>1 DEF Typed, IInv, TypeOK, CacheOK, Statuses, Level
<1>4. ASSUME status' = "running" PROVE SoundNext
  BY <1>1, <1>4, Now DEF SoundNext
<1> QED BY <1>1, <1>2, <1>3, <1>4, StepKept

LEMMA NextKept == ASSUME IInv, [Next]_vars PROVE Kept
<1>1. CASE Analysis
  <2>1. CASE ExecuteRoot BY <2>1, ExecuteRootKept
  <2>2. CASE ParseError \/ SemanticError BY <2>2, ParseErrorKept
  <2>3. CASE HandleImport \/ HandleDeclarativeImport
    BY <2>3, ImportKept DEF HandleImport, HandleDeclarativeImport, Languages
  <2>4. CASE HandleAddSubdirectory BY <2>4, HandleAddSubdirectoryKept
  <2>5. CASE HandleAddDeclarativeFile BY <2>5, HandleAddDeclarativeFileKept
  <2>6. CASE InitializeModule BY <2>6, InitializeModuleKept
  <2>7. CASE StoreModule BY <2>7, StoreModuleKept
  <2>8. CASE StoreDeclarativeModule BY <2>8, StoreDeclarativeModuleKept
  <2>9. CASE StoreSubdirectory BY <2>9, StoreSubdirectoryKept
  <2>10. CASE StoreDeclarativeScript BY <2>10, StoreDeclarativeScriptKept
  <2>11. CASE ExecuteProgram BY <2>11, ExecuteProgramKept
  <2>12. CASE ExecuteDeclarativeProgram BY <2>12, ExecuteDeclarativeProgramKept
  <2> QED BY <1>1, <2>1, <2>2, <2>3, <2>4, <2>5, <2>6, <2>7, <2>8, <2>9, <2>10, <2>11, <2>12
          DEF Analysis
<1>2. CASE Initialization
  BY <1>2, InitializeImportKept, EndVariableKept, EndStaticsKept DEF Initialization
<1>3. CASE Execution
  BY <1>3, ReadVariableKept, ReadBuiltinKept, WriteVariableKept, RaiseFatalKept,
     CallFunctionKept, AddSubdirectoryKept, CreateComponentKept, AddOldScriptKept,
     EndFunctionKept DEF Execution
<1>4. CASE UNCHANGED vars BY <1>4, NothingKept
<1> QED BY <1>1, <1>2, <1>3, <1>4 DEF Next, Stopped

\* While the loader runs, every activation of its nested compilations, initializers
\* and functions waits for what the one above it brings, and nothing that can be
\* named has names that are not resolved: the inductive invariant.
THEOREM LoaderInductive == Spec => []IInv
<1>1. IInv /\ [Next]_vars => IInv' BY NextKept DEF Kept
<1> QED BY <1>1, InitSound, PTL DEF Spec

\* The stack, the units and the caches of sources keep their types, and a cache
\* holds under a path nothing but what was compiled from it (global_executor.cpp).
THEOREM LoaderTyped == Spec => []TypeOK
<1>1. IInv => TypeOK BY DEF IInv
<1> QED BY <1>1, LoaderInductive, PTL

\* Whatever imports and subdirectories are nested, m_directories spells the directory
\* of the innermost script that is being added, and nothing when main runs.
THEOREM DirectoriesSpelled == Spec => []DirectoriesOfScript
<1> DEFINE n == Len(ctrl)
           Last(i) == AddedScript(i) /\ \A j \in i + 1 .. Len(ctrl) : ~AddedScript(j)
           Plain == \A i \in 1 .. Len(ctrl) : ~AddedScript(i)
           Innermost == LET i == CHOOSE i \in 1 .. Len(ctrl) : Last(i)
                            path == units[ctrl[i].unit].path
                        IN SubSeq(path, 1, Len(path) - 1)
<1>1. ASSUME IInv, status = "running"
      PROVE  Spelled(ctrl, units, n, directories) /\ directories \in Seq(Entry) /\ n \in Nat
  BY <1>1, Now, LenProperties DEF Directory
<1>2. \A i : AddedScript(i) <=> Adds(ctrl, i) BY DEF AddedScript, Adds
<1>3. ASSUME IInv, status = "running", Plain PROVE directories = <<>>
  <2>1. ~ \E i \in 1 .. n : Adds(ctrl, i) BY <1>2, <1>3
  <2> QED BY <1>1, <1>3, <2>1 DEF Spelled
<1>4. ASSUME IInv, status = "running", ~Plain PROVE directories = Innermost
  <2>1. ~ \A i \in 1 .. n : ~Adds(ctrl, i) BY <1>2, <1>4
  <2>2. PICK k \in 1 .. n : /\ Adds(ctrl, k) /\ (\A j \in k + 1 .. n : ~Adds(ctrl, j))
                            /\ \E x : units[ctrl[k].unit].path = Append(directories, x)
    BY <1>1, <1>4, <2>1 DEF Spelled
  <2>3. Last(k) BY <1>2, <2>2
  <2>4. ASSUME NEW i \in 1 .. n, Last(i) PROVE i = k
    <3>1. i = k \/ i \in k + 1 .. n \/ k \in i + 1 .. n BY <1>1, <1>4
    <3> QED BY <2>3, <2>4, <3>1
  <2>5. (CHOOSE i \in 1 .. n : Last(i)) = k BY <2>3, <2>4
  <2>6. PICK x : units[ctrl[k].unit].path = Append(directories, x) BY <2>2
  <2>7. LET path == units[ctrl[k].unit].path
        IN SubSeq(path, 1, Len(path) - 1) = directories
    BY <1>1, <1>4, <2>6, FrontOfAppend
  <2> QED BY <2>5, <2>7, Zenon
<1>5. DirectoriesOfScript <=> (status = "running" => directories = IF Plain THEN <<>> ELSE Innermost)
  BY Zenon DEF DirectoriesOfScript
<1>6. IInv => DirectoriesOfScript
  <2> HIDE DEF Plain, Innermost
  <2> QED BY <1>3, <1>4, <1>5
<1> QED BY <1>6, LoaderInductive, PTL

\* By the time any function of a file runs, called by main or by an initializer in the
\* middle of a compilation, the imports of the file were made and their variables exist.
THEOREM ImportsMade == Spec => []ImportsReady
<1>1. ASSUME IInv, Running("function"), NEW i \in 1 .. Len(TheStatics), TheStatics[i].do = "import"
      PROVE  LET module == units[Top.unit].links[TheStatics[i].path]
             IN /\ module # None
                /\ \A n \in Variables(module) : units[module].statics[n] # "absent"
  <2> DEFINE p == units[Top.unit].path
             q == TheStatics[i].path
             module == units[Top.unit].links[q]
  <2>1. status = "running" /\ ctrl # <<>> /\ Top.kind = "function" BY <1>1 DEF Running
  <2>2. /\ Waits(ctrl, units, Len(ctrl)) /\ Top.unit \in 1 .. Len(units)
        /\ p \in DOMAIN fs /\ fs \in FileSystems /\ WellLinked(units)
    BY <1>1, <2>1, TopOf, Now
  <2>3. Complete(units, Top.unit) BY <2>1, <2>2 DEF Waits, FunctionWaits, Top
  <2>4. TheStatics = fs[p].statics BY DEF TheStatics, FileOf
  <2>5. q \in Imports(fs[p].statics) BY <1>1, <2>4 DEF Imports
  <2>6. q \in Imports(fs[p].steps) /\ q \in Path BY <2>2, <2>5, AnalysisAssumption, FileTyped
  <2>7. module # None BY <2>3, <2>6 DEF Complete
  <2>8. Module(units, module, q) BY <2>2, <2>6, <2>7 DEF WellLinked
  <2>9. Variables(module) = Declared(fs[units[module].path].statics)
    BY DEF Variables, Declared, DeclaredUpTo, FileOf
  <2> QED BY <2>7, <2>8, <2>9 DEF Module, Initialized
<1>2. IInv => ImportsReady BY <1>1 DEF ImportsReady
<1> QED BY <1>2, LoaderInductive, PTL

\* However often a module is initialized again, an instance of a static variable does
\* not vanish and what was written to it is not initialized away.
THEOREM ValuesKept == Spec => KeepsValues
<1> DEFINE Keeps == \A u \in 1 .. Len(units) : \A n \in Var :
                      LET old == units[u]
                          new == units'[u]
                      IN /\ new.statics[n] = "absent" => old.statics[n] = "absent"
                         /\ old.statics[n] = "written" => new.statics[n] = "written"
                         /\ old.globals[n] = "written" => new.globals[n] = "written"
<1>1. IInv /\ [Next]_vars => Keeps BY NextKept DEF Kept, Grows
<1>2. IInv /\ [Next]_vars => [Keeps]_vars BY <1>1
<1> QED BY <1>2, LoaderInductive, PTL DEF Spec, KeepsValues
----------------------------------------------------------------------------
(***************************************************************************)
(* Tidy projects: one unit of each path, and none is destroyed.            *)
(***************************************************************************)
\* Every unit lives, names come from what is exported now, scripts from units.
Settled(us, ex) ==
  \A u \in 1 .. Len(us) : /\ ~us[u].dead
                          /\ \A p \in Path : us[u].links[p] \in {None, ex[p]}
                          /\ \A n \in Entry : us[u].scripts[n] \in 0 .. Len(us)

\* The compilations, at the bottom of the stack: each is needed by the one below
\* it, and what it makes is not in the cache that it goes to.
PathAt(c, us, i) == us[c[i].unit].path
Needs(p, by, q) == IF by = "import" THEN q \in Imports(fs[p].steps)
                   ELSE q \in AddedTo(fs, fs[p].steps)
Chained(c, us) ==
  \A i \in 1 .. Len(c) : c[i].kind = "unit" =>
    \A k \in 1 .. i : /\ c[k].kind = "unit"
                      /\ k > 1 => Needs(PathAt(c, us, k - 1), c[k].by, PathAt(c, us, k))
Missing(us, u, by, com, dec, ex) ==
  LET p == us[u].path
  IN IF by = "import" THEN ex[p] = None
     ELSE IF us[u].lang = "cmsl" THEN com[p] = None ELSE dec[p] = None
AllMissing(c, us, com, dec, ex) ==
  \A i \in 1 .. Len(c) : c[i].kind = "unit" => Missing(us, c[i].unit, c[i].by, com, dec, ex)
\* A file that is imported by some is exported as soon as it is compiled.
Compiling(c) == Len(c) # 0 /\ c[1].kind = "unit"
Shared(com, dec, ex) ==
  \A q \in DOMAIN fs : \A p \in Imports(fs[q].steps) :
    com[p] # None \/ dec[p] # None => ex[p] # None
Tended(c, us, com, dec, ex) == /\ Chained(c, us) /\ AllMissing(c, us, com, dec, ex)
                               /\ Compiling(c) => Shared(com, dec, ex)
TidyInv == fs \notin Mistaken =>
          /\ Settled(units, exported)
          /\ status = "running" => Tended(ctrl, units, compiled, declarative, exported)

LEMMA StepTended ==
  ASSUME fs' = fs, fs \notin Mistaken => Settled(units', exported'),
         fs \notin Mistaken /\ status' = "running" =>
           Tended(ctrl', units', compiled', declarative', exported')
  PROVE  TidyInv'
<1>1. ASSUME Settled(units', exported') PROVE Settled(units, exported)' BY <1>1 DEF Settled
<1>2. ASSUME Tended(ctrl', units', compiled', declarative', exported')
      PROVE  Tended(ctrl, units, compiled, declarative, exported)'
  <2>1. Chained(ctrl, units)'
    BY <1>2 DEF Tended, Chained, PathAt, Needs
  <2>2. AllMissing(ctrl, units, compiled, declarative, exported)'
    BY <1>2 DEF Tended, AllMissing, Missing
  <2>3. (Compiling(ctrl) => Shared(compiled, declarative, exported))'
    BY <1>2 DEF Tended, Compiling, Shared
  <2> QED BY <2>1, <2>2, <2>3 DEF Tended
<1> QED BY <1>1, <1>2 DEF TidyInv

LEMMA NowTended ==
  ASSUME IInv, TidyInv, status = "running", fs \notin Mistaken
  PROVE  /\ Settled(units, exported) /\ Chained(ctrl, units)
         /\ AllMissing(ctrl, units, compiled, declarative, exported)
         /\ Compiling(ctrl) => Shared(compiled, declarative, exported)
BY DEF TidyInv, Tended
----------------------------------------------------------------------------
\* The compilations are left alone.
Follows(c, c2) ==
  \A i \in 1 .. Len(c2) : c2[i].kind = "unit" =>
    i <= Len(c) /\ \A k \in 1 .. i : Alike(c[k], c2[k])

LEMMA FollowsTended ==
  ASSUME NEW c \in Seq(Level), NEW c2 \in Seq(Level), NEW us, NEW us2, Grows(us, us2), Stack(c, us),
         Follows(c, c2), NEW com, NEW dec, NEW ex, Tended(c, us, com, dec, ex)
  PROVE  Tended(c2, us2, com, dec, ex)
<1>1. ASSUME NEW i \in 1 .. Len(c2), c2[i].kind = "unit", NEW k \in 1 .. i
      PROVE  /\ k \in 1 .. Len(c) /\ i \in 1 .. Len(c) /\ c[i].kind = "unit"
             /\ c[k].kind = c2[k].kind /\ c[k].unit = c2[k].unit
             /\ (c[k].kind # "function" => c[k].by = c2[k].by)
             /\ us2[c2[k].unit].path = us[c[k].unit].path
             /\ us2[c2[k].unit].lang = us[c[k].unit].lang
  <2>1. Len(c) \in Nat /\ Len(c2) \in Nat BY LenProperties
  <2>2. i <= Len(c) /\ Alike(c[k], c2[k]) /\ Alike(c[i], c2[i]) BY <1>1, <2>1 DEF Follows
  <2>3. k \in 1 .. Len(c) /\ i \in 1 .. Len(c) BY <2>1, <2>2
  <2>4. c[k].unit \in 1 .. Len(us) BY <2>3 DEF Stack, Waits
  <2> QED BY <1>1, <2>2, <2>3, <2>4 DEF Alike, Grows
<1>2. Chained(c2, us2)
  <2> SUFFICES ASSUME NEW i \in 1 .. Len(c2), c2[i].kind = "unit", NEW k \in 1 .. i
               PROVE  /\ c2[k].kind = "unit"
                      /\ k > 1 => Needs(PathAt(c2, us2, k - 1), c2[k].by, PathAt(c2, us2, k))
    BY DEF Chained
  <2>1. /\ c[k].kind = "unit" /\ (k > 1 => Needs(PathAt(c, us, k - 1), c[k].by, PathAt(c, us, k)))
    BY <1>1 DEF Tended, Chained
  <2>2. c2[k].kind = "unit" /\ c2[k].by = c[k].by /\ PathAt(c2, us2, k) = PathAt(c, us, k)
    BY <1>1, <2>1 DEF PathAt
  <2>3. ASSUME k > 1 PROVE PathAt(c2, us2, k - 1) = PathAt(c, us, k - 1)
    <3>1. k - 1 \in 1 .. i BY <2>3
    <3> QED BY <1>1, <3>1 DEF PathAt
  <2> QED BY <2>1, <2>2, <2>3
<1>3. AllMissing(c2, us2, com, dec, ex)
  <2> SUFFICES ASSUME NEW i \in 1 .. Len(c2), c2[i].kind = "unit"
               PROVE  Missing(us2, c2[i].unit, c2[i].by, com, dec, ex)
    BY DEF AllMissing
  <2>1. i \in 1 .. i OBVIOUS
  <2>2. Missing(us, c[i].unit, c[i].by, com, dec, ex) BY <1>1, <2>1 DEF Tended, AllMissing
  <2> QED BY <1>1, <2>1, <2>2 DEF Missing
<1>4. ASSUME Compiling(c2) PROVE Shared(com, dec, ex)
  <2>1. 1 \in 1 .. Len(c2) /\ 1 \in 1 .. 1 BY <1>4, LenProperties DEF Compiling
  <2>2. 1 \in 1 .. Len(c) /\ c[1].kind = "unit" BY <1>1, <1>4, <2>1 DEF Compiling
  <2>3. Len(c) # 0 BY <2>2
  <2> QED BY <2>2, <2>3 DEF Tended, Compiling
<1> QED BY <1>2, <1>3, <1>4 DEF Tended

\* How the stack changes when nothing starts to be compiled.
LEMMA ReplacedFollows ==
  ASSUME IInv, status = "running", ctrl # <<>>, NEW l, l.kind # "unit" \/ Alike(Top, l)
  PROVE  /\ Follows(ctrl, Replaced(l))
         /\ \A m : m.kind # "unit" => Follows(ctrl, Append(Replaced(l), m))
<1> DEFINE n == Len(ctrl)
           r == Replaced(l)
           S == Level \union {l}
<1>1. n \in Nat /\ n \in 1 .. n BY TopOf
<1>2. ctrl \in Seq(S) /\ l \in S BY Now, SeqMonotonic
<1> HIDE DEF S
<1>3. /\ r \in Seq(S) /\ Len(r) = n /\ r[n] = l /\ \A j \in 1 .. n - 1 : r[j] = ctrl[j]
  BY <1>1, <1>2, ExceptSeq DEF Replaced
<1> HIDE DEF r
<1>4. \A i \in 1 .. n : r[i].kind = "unit" => \A k \in 1 .. i : Alike(ctrl[k], r[k])
  <2> SUFFICES ASSUME NEW i \in 1 .. n, r[i].kind = "unit", NEW k \in 1 .. i
               PROVE  Alike(ctrl[k], r[k])
    OBVIOUS
  <2>1. CASE k = n
    <3>1. i = n BY <1>1, <2>1
    <3> QED BY <1>3, <2>1, <3>1 DEF Top
  <2>2. CASE k # n
    <3>1. k \in 1 .. n - 1 BY <1>1, <2>2
    <3> QED BY <1>3, <3>1 DEF Alike
  <2> QED BY <2>1, <2>2
<1>5. Follows(ctrl, r) BY <1>1, <1>3, <1>4 DEF Follows
<1>6. ASSUME NEW m, m.kind # "unit" PROVE Follows(ctrl, Append(r, m))
  <2> DEFINE T == S \union {m}
             c == Append(r, m)
  <2>1. r \in Seq(T) /\ m \in T BY <1>3, SeqMonotonic
  <2> HIDE DEF T
  <2>2. Len(c) = n + 1 /\ c[n + 1] = m /\ \A j \in 1 .. n : c[j] = r[j]
    BY <1>3, <2>1, AppendProperties
  <2> HIDE DEF c
  <2>3. ASSUME NEW i \in 1 .. n + 1, c[i].kind = "unit", NEW k \in 1 .. i
        PROVE  i <= n /\ Alike(ctrl[k], c[k])
    <3>1. i # n + 1 BY <1>6, <2>2, <2>3
    <3>2. i \in 1 .. n /\ k \in 1 .. n BY <1>1, <3>1
    <3> QED BY <1>4, <2>2, <2>3, <3>2
  <2>4. Follows(ctrl, c) BY <2>2, <2>3 DEF Follows
  <2> QED BY <2>4 DEF c
<1> QED BY <1>5, <1>6 DEF r

LEMMA PoppedFollows ==
  ASSUME IInv, status = "running", ctrl # <<>> PROVE Follows(ctrl, Below)
<1>1. /\ Len(Below) = Len(ctrl) - 1 /\ Len(ctrl) \in Nat
      /\ \A j \in 1 .. Len(Below) : Below[j] = ctrl[j]
  BY PoppedTop, TopOf
<1>2. ASSUME NEW i \in 1 .. Len(Below), NEW k \in 1 .. i
      PROVE  i <= Len(ctrl) /\ Alike(ctrl[k], Below[k])
  <2>1. k \in 1 .. Len(Below) /\ i <= Len(ctrl) BY <1>1
  <2> QED BY <1>1, <2>1 DEF Alike
<1> QED BY <1>2 DEF Follows

LEMMA FollowsSelf == ASSUME IInv, status = "running" PROVE Follows(ctrl, ctrl)
<1>1. \A i \in 1 .. Len(ctrl) : i <= Len(ctrl) BY Now, LenProperties
<1> QED BY <1>1 DEF Follows, Alike

LEMMA BottomFollows == ASSUME NEW m, m.kind # "unit", NEW c PROVE Follows(c, << m >>)
<1>1. Len(<< m >>) = 1 /\ << m >>[1] = m /\ \A i \in 1 .. 1 : i = 1 OBVIOUS
<1> QED BY <1>1 DEF Follows
----------------------------------------------------------------------------
\* What becomes of the units.
Spares(us, us2) ==
  /\ Len(us2) = Len(us)
  /\ \A u \in 1 .. Len(us) : /\ us2[u].dead = us[u].dead /\ us2[u].links = us[u].links
                             /\ us2[u].scripts = us[u].scripts
LEMMA SparesSettled ==
  ASSUME NEW us, NEW us2, Spares(us, us2), NEW ex, Settled(us, ex) PROVE Settled(us2, ex)
BY DEF Spares, Settled

LEMMA OneBecomes ==
  ASSUME NEW us \in Seq(UnitRecord), NEW u \in 1 .. Len(us), NEW r \in UnitRecord,
         NEW us2, Becomes(us, u, r, us2)
  PROVE  /\ us2 \in Seq(UnitRecord) /\ Len(us2) = Len(us) /\ Len(us) \in Nat
         /\ \A v \in 1 .. Len(us) : us2[v] = IF v = u THEN r ELSE us[v]
BY ExceptSeq, LenProperties DEF Becomes

LEMMA VariablesSpared ==
  ASSUME NEW us \in Seq(UnitRecord), NEW u \in 1 .. Len(us), NEW s, NEW us2,
         us2 = [us EXCEPT ![u].statics = s] \/ us2 = [us EXCEPT ![u].globals = s]
  PROVE  Spares(us, us2)
<1>1. us[u] \in UnitRecord BY ElementOfSeq
<1>2. PICK r : /\ us2 = [us EXCEPT ![u] = r]
               /\ r.dead = us[u].dead /\ r.links = us[u].links /\ r.scripts = us[u].scripts
  <2>1. CASE us2 = [us EXCEPT ![u].statics = s]
    <3> DEFINE r == [us[u] EXCEPT !.statics = s]
    <3>1. us2 = [us EXCEPT ![u] = r] BY <2>1
    <3>2. r.dead = us[u].dead /\ r.links = us[u].links /\ r.scripts = us[u].scripts
      BY <1>1 DEF UnitRecord
    <3> QED BY <3>1, <3>2
  <2>2. CASE us2 = [us EXCEPT ![u].globals = s]
    <3> DEFINE r == [us[u] EXCEPT !.globals = s]
    <3>1. us2 = [us EXCEPT ![u] = r] BY <2>2
    <3>2. r.dead = us[u].dead /\ r.links = us[u].links /\ r.scripts = us[u].scripts
      BY <1>1 DEF UnitRecord
    <3> QED BY <3>1, <3>2
  <2> QED BY <2>1, <2>2
<1>3. Len(us2) = Len(us) /\ \A v \in 1 .. Len(us) : us2[v] = IF v = u THEN r ELSE us[v]
  <2> DEFINE S == UnitRecord \union {r}
  <2>1. us \in Seq(S) /\ r \in S BY SeqMonotonic
  <2> HIDE DEF S
  <2> QED BY <1>2, <2>1, ExceptSeq
<1> QED BY <1>2, <1>3 DEF Spares

LEMMA LinkedSettled ==
  ASSUME NEW us \in Seq(UnitRecord), NEW u \in 1 .. Len(us), NEW p \in Path, NEW v \in Nat,
         NEW us2, Links(us, u, p, v, us2), NEW ex, Settled(us, ex), NEW ex2, ex2[p] = v,
         ex[p] \in {None, v}, \A q \in Path : q # p => ex2[q] = ex[q]
  PROVE  Settled(us2, ex2)
<1> DEFINE r == [us[u] EXCEPT !.links[p] = v]
<1>1. us[u] \in UnitRecord BY ElementOfSeq
<1>2. /\ r \in UnitRecord /\ r.dead = us[u].dead /\ r.scripts = us[u].scripts
      /\ \A q \in Path : r.links[q] = IF q = p THEN v ELSE us[u].links[q]
  BY <1>1 DEF UnitRecord
<1>3. Becomes(us, u, r, us2) BY DEF Becomes, Links
<1> HIDE DEF r
<1>4. /\ Len(us2) = Len(us)
      /\ \A w \in 1 .. Len(us) : us2[w] = IF w = u THEN r ELSE us[w]
  BY <1>2, <1>3, OneBecomes
<1>5. \A w \in 1 .. Len(us) : \A q \in Path : us[w].links[q] \in {None, ex2[q]} BY DEF Settled
<1>6. ASSUME NEW w \in 1 .. Len(us2)
      PROVE  /\ ~us2[w].dead
             /\ \A q \in Path : us2[w].links[q] \in {None, ex2[q]}
             /\ \A n \in Entry : us2[w].scripts[n] \in 0 .. Len(us2)
  <2>1. CASE w = u BY <1>2, <1>4, <1>5, <2>1 DEF Settled
  <2>2. CASE w # u BY <1>4, <1>5, <2>2 DEF Settled
  <2> QED BY <2>1, <2>2
<1> QED BY <1>6 DEF Settled

ScriptOf(us, u, n, v, us2) == us2 = [us EXCEPT ![u].scripts[n] = v]
LEMMA ScriptedSettled ==
  ASSUME NEW us \in Seq(UnitRecord), NEW u \in 1 .. Len(us), NEW n, NEW v \in 0 .. Len(us),
         NEW us2, ScriptOf(us, u, n, v, us2), NEW ex, Settled(us, ex)
  PROVE  Settled(us2, ex)
<1> DEFINE r == [us[u] EXCEPT !.scripts[n] = v]
<1>1. us[u] \in UnitRecord /\ v \in Nat BY ElementOfSeq
<1>2. /\ r \in UnitRecord /\ r.dead = us[u].dead /\ r.links = us[u].links
      /\ \A m \in Entry : r.scripts[m] \in {v, us[u].scripts[m]}
  BY <1>1 DEF UnitRecord
<1>3. Becomes(us, u, r, us2) BY DEF Becomes, ScriptOf
<1> HIDE DEF r
<1>4. /\ Len(us2) = Len(us)
      /\ \A w \in 1 .. Len(us) : us2[w] = IF w = u THEN r ELSE us[w]
  BY <1>2, <1>3, OneBecomes
<1>5. ASSUME NEW w \in 1 .. Len(us2)
      PROVE  /\ ~us2[w].dead
             /\ \A q \in Path : us2[w].links[q] \in {None, ex[q]}
             /\ \A m \in Entry : us2[w].scripts[m] \in 0 .. Len(us2)
  <2>1. CASE w = u BY <1>2, <1>4, <2>1 DEF Settled
  <2>2. CASE w # u BY <1>4, <2>2 DEF Settled
  <2> QED BY <2>1, <2>2
<1> QED BY <1>5 DEF Settled

\* A unit that its cache takes in is not destroyed.
LEMMA KeptAlive ==
  ASSUME IInv, status = "running", ctrl # <<>>, NEW cache, NEW p, cache[p] = None,
         NEW ex, Settled(units, ex)
  PROVE  LET us == Destroyed(cache, p, Top.unit)
         IN us \in Seq(UnitRecord) /\ Len(us) = Len(units) /\ Settled(us, ex)
<1> DEFINE u == Top.unit
           r == [units[u] EXCEPT !.dead = FALSE]
           us == Destroyed(cache, p, u)
<1>1. /\ units \in Seq(UnitRecord) /\ u \in 1 .. Len(units) /\ units[u] \in UnitRecord
  BY Now, TopOf
<1>2. /\ r \in UnitRecord /\ ~r.dead /\ r.links = units[u].links /\ r.scripts = units[u].scripts
  BY <1>1 DEF UnitRecord
<1>3. us = [units EXCEPT ![u].dead = FALSE] BY DEF Destroyed
<1>4. Becomes(units, u, r, us) BY <1>3 DEF Becomes
<1> HIDE DEF r, us
<1>5. /\ us \in Seq(UnitRecord) /\ Len(us) = Len(units)
      /\ \A w \in 1 .. Len(units) : us[w] = IF w = u THEN r ELSE units[w]
  BY <1>1, <1>2, <1>4, OneBecomes
<1>6. Settled(us, ex) BY <1>2, <1>5 DEF Settled
<1> QED BY <1>5, <1>6 DEF us

LEMMA MadeSettled ==
  ASSUME NEW us \in Seq(UnitRecord), NEW p \in Path, NEW lang \in Languages,
         NEW us2, Makes(us, p, lang, us2), NEW ex, Settled(us, ex)
  PROVE  /\ Settled(us2, ex) /\ Len(us2) = Len(us) + 1 /\ Len(us) \in Nat
         /\ us2[Len(us) + 1].path = p /\ us2[Len(us) + 1].lang = lang
<1> DEFINE r == NewUnit(p, lang)
<1>1. /\ r \in UnitRecord /\ r.path = p /\ r.lang = lang /\ ~r.dead
      /\ \A q \in Path : r.links[q] = None
      /\ \A n \in Entry : r.scripts[n] = None
  BY DEF UnitRecord, NewUnit, None, States
<1> HIDE DEF r
<1>2. us2 = Append(us, r) BY DEF r, Makes
<1>3. /\ Len(us2) = Len(us) + 1 /\ us2[Len(us) + 1] = r
      /\ \A v \in 1 .. Len(us) : us2[v] = us[v]
      /\ Len(us) \in Nat
  BY <1>1, <1>2, AppendProperties, LenProperties
<1>4. ASSUME NEW w \in 1 .. Len(us2)
      PROVE  /\ ~us2[w].dead
             /\ \A q \in Path : us2[w].links[q] \in {None, ex[q]}
             /\ \A m \in Entry : us2[w].scripts[m] \in 0 .. Len(us2)
  <2>1. CASE w = Len(us) + 1 BY <1>1, <1>3, <2>1 DEF None
  <2>2. CASE w # Len(us) + 1
    <3>1. w \in 1 .. Len(us) BY <1>3, <2>2
    <3>2. \A m \in Entry : us[w].scripts[m] \in 0 .. Len(us) BY <3>1 DEF Settled
    <3>3. \A x \in 0 .. Len(us) : x \in 0 .. Len(us2) BY <1>3
    <3> QED BY <1>3, <3>1, <3>2, <3>3 DEF Settled
  <2> QED BY <2>1, <2>2
<1> QED BY <1>1, <1>3, <1>4 DEF Settled
----------------------------------------------------------------------------
\* Steps of initializers and functions.
LEMMA StepFollows ==
  ASSUME IInv, TidyInv, status = "running", Kept, UNCHANGED <<fs, caches>>,
         fs \notin Mistaken => Settled(units', exported),
         status' = "running" => Follows(ctrl, ctrl')
  PROVE  TidyInv'
<1>1. /\ exported' = exported /\ compiled' = compiled /\ declarative' = declarative
  BY DEF caches
<1>2. ASSUME fs \notin Mistaken, status' = "running"
      PROVE  Tended(ctrl', units', compiled', declarative', exported')
  <2>1. /\ ctrl \in Seq(Level) /\ Stack(ctrl, units) /\ Grows(units, units') BY Now DEF Kept
  <2>2. ctrl' \in Seq(Level) BY DEF Kept, IInv, TypeOK, Level
  <2>3. Tended(ctrl, units, compiled, declarative, exported) BY <1>2 DEF TidyInv
  <2> QED BY <1>1, <1>2, <2>1, <2>2, <2>3, FollowsTended
<1> QED BY <1>1, <1>2, StepTended

LEMMA StepSpares ==
  ASSUME IInv, TidyInv, status = "running", Kept, UNCHANGED <<fs, caches>>, Spares(units, units'),
         status' = "running" => Follows(ctrl, ctrl')
  PROVE  TidyInv'
<1>1. fs \notin Mistaken => Settled(units', exported) BY NowTended, SparesSettled
<1> QED BY <1>1, StepFollows

LEMMA SparesSelf == ASSUME NEW us PROVE Spares(us, us) BY DEF Spares

LEMMA OperationFollows ==
  ASSUME IInv, status = "running", ctrl # <<>>, Top.kind \in {"statics", "function"}
  PROVE  /\ Follows(ctrl, Past)
         /\ \A u, name : Follows(ctrl, Append(Past, Function(u, name)))
<1>1. Past = Replaced(PastLevel) /\ Alike(Top, PastLevel) BY PastWaits
<1>2. \A u, name : Function(u, name).kind # "unit" BY DEF Function
<1> QED BY <1>1, <1>2, ReplacedFollows

LEMMA AtOpNow == ASSUME IInv, NEW op, AtOp(op)
  PROVE status = "running" /\ ctrl # <<>> /\ Top.kind \in {"statics", "function"}
BY OperationsTyped

LEMMA OperationTended ==
  ASSUME IInv, TidyInv, NEW op, AtOp(op), ctrl' = Past, Kept, UNCHANGED <<fs, units, caches>>
  PROVE  TidyInv'
<1>1. status = "running" /\ Follows(ctrl, ctrl') BY AtOpNow, OperationFollows
<1>2. Spares(units, units') BY SparesSelf
<1> QED BY <1>1, <1>2, StepSpares

LEMMA EnterTended ==
  ASSUME IInv, TidyInv, NEW op, AtOp(op), NEW u, NEW name, Enter(u, name), Kept,
         UNCHANGED <<fs, units, caches>>
  PROVE  TidyInv'
<1>1. /\ status = "running" /\ Follows(ctrl, ctrl)
      /\ Follows(ctrl, Append(Past, Function(u, name)))
  BY AtOpNow, OperationFollows, FollowsSelf
<1>2. Follows(ctrl, ctrl') BY <1>1 DEF Enter
<1>3. Spares(units, units') BY SparesSelf
<1> QED BY <1>1, <1>2, <1>3, StepSpares

LEMMA WriteVariableTended == ASSUME IInv, TidyInv, WriteVariable, Kept PROVE TidyInv'
<1> DEFINE o == TheOp
           t == Target(TheOp)
<1>1. /\ AtOp("write") /\ ctrl' = Past /\ UNCHANGED <<fs, caches>> BY DEF WriteVariable
<1>2. status = "running" /\ Follows(ctrl, ctrl') BY <1>1, AtOpNow, OperationFollows
<1>3. units \in Seq(UnitRecord) /\ t \in 1 .. Len(units) BY <1>1, <1>2, Now, TargetOf
<1>4. Spares(units, units')
  <2>1. CASE units' = units BY <2>1, SparesSelf
  <2>2. CASE units' = [units EXCEPT ![t].globals[o.name] = "written"]
    <3> DEFINE s == [units[t].globals EXCEPT ![o.name] = "written"]
    <3>1. units' = [units EXCEPT ![t].globals = s] BY <2>2
    <3> HIDE DEF s
    <3> QED BY <1>3, <3>1, VariablesSpared
  <2>3. CASE units' = [units EXCEPT ![t].statics[o.name] = "written"]
    <3> DEFINE s == [units[t].statics EXCEPT ![o.name] = "written"]
    <3>1. units' = [units EXCEPT ![t].statics = s] BY <2>3
    <3> HIDE DEF s
    <3> QED BY <1>3, <3>1, VariablesSpared
  <2> QED BY <2>1, <2>2, <2>3 DEF WriteVariable
<1> QED BY <1>1, <1>2, <1>4, StepSpares

LEMMA ExecutionTended == ASSUME IInv, TidyInv, Execution, Kept PROVE TidyInv'
<1>1. CASE ReadVariable BY <1>1, OperationTended DEF ReadVariable
<1>2. CASE ReadBuiltin BY <1>2, OperationTended DEF ReadBuiltin
<1>3. CASE RaiseFatal BY <1>3, OperationTended DEF RaiseFatal
<1>4. CASE CreateComponent
  <2>1. PICK op \in {"subdir", "file"} : AtOp(op) BY <1>4 DEF CreateComponent
  <2> QED BY <1>4, <2>1, OperationTended DEF CreateComponent
<1>5. CASE AddOldScript BY <1>5, OperationTended DEF AddOldScript
<1>6. CASE WriteVariable BY <1>6, WriteVariableTended
<1>7. CASE CallFunction BY <1>7, EnterTended DEF CallFunction
<1>8. CASE AddSubdirectory BY <1>8, EnterTended DEF AddSubdirectory
<1>9. CASE EndFunction
  <2>1. /\ status = "running" /\ ctrl # <<>> /\ ctrl' = Below /\ UNCHANGED <<fs, units, caches>>
    BY <1>9 DEF EndFunction, Running
  <2>2. Follows(ctrl, ctrl') /\ Spares(units, units') BY <2>1, PoppedFollows, SparesSelf
  <2> QED BY <2>1, <2>2, StepSpares
<1> QED BY <1>1, <1>2, <1>3, <1>4, <1>5, <1>6, <1>7, <1>8, <1>9 DEF Execution

LEMMA InitializationTended == ASSUME IInv, TidyInv, Initialization, Kept PROVE TidyInv'
<1>1. Running("statics") BY DEF Initialization, InitializeImport, EndVariable, EndStatics, AtStatic
<1>2. status = "running" /\ ctrl # <<>> /\ Top \in StaticsLevel BY <1>1, StaticsTop
<1>3. Follows(ctrl, ctrl) /\ Follows(ctrl, Below) BY <1>2, FollowsSelf, PoppedFollows
<1>4. \A u, by : Statics(u, by).kind # "unit" BY DEF Statics
<1>5. CASE InitializeImport
  <2> DEFINE l == [Top EXCEPT !.pc = @ + 1]
  <2>1. l.kind # "unit" BY <1>2 DEF StaticsLevel
  <2>2. Advanced = Replaced(l) BY DEF Advanced
  <2> HIDE DEF l
  <2>3. /\ Follows(ctrl, Advanced)
        /\ \A u, by : Follows(ctrl, Append(Advanced, Statics(u, by)))
    BY <1>2, <1>4, <2>1, <2>2, ReplacedFollows
  <2>4. /\ Follows(ctrl, ctrl') /\ UNCHANGED <<fs, units, caches>>
    BY <1>3, <1>5, <2>3 DEF InitializeImport
  <2>5. Spares(units, units') BY <2>4, SparesSelf
  <2> QED BY <1>2, <2>4, <2>5, StepSpares
<1>6. CASE EndVariable
  <2> DEFINE l == [Top EXCEPT !.pc = @ + 1, !.op = 0, !.own = @ \union {TheStatic.name}]
  <2>1. l.kind # "unit"
    <3> DEFINE own == Top.own \union {TheStatic.name}
               pc == Top.pc + 1
    <3>1. l = [Top EXCEPT !.pc = pc, !.op = 0, !.own = own] OBVIOUS
    <3> HIDE DEF own, pc, l
    <3> QED BY <1>2, <3>1 DEF StaticsLevel
  <2>2. ctrl' = Replaced(l) /\ UNCHANGED <<fs, units, caches>> BY <1>6 DEF EndVariable
  <2> HIDE DEF l
  <2>3. Follows(ctrl, ctrl') BY <1>2, <2>1, <2>2, ReplacedFollows
  <2>4. Spares(units, units') BY <2>2, SparesSelf
  <2> QED BY <1>2, <2>2, <2>3, <2>4, StepSpares
<1>7. CASE EndStatics
  <2>1. UNCHANGED <<fs, caches>> BY <1>7 DEF EndStatics
  <2>2. Function(Top.unit, "main").kind # "unit" BY DEF Function
  <2>3. Follows(ctrl, ctrl') BY <1>3, <1>7, <2>2, BottomFollows DEF EndStatics
  <2>4. units \in Seq(UnitRecord) /\ Top.unit \in 1 .. Len(units) BY <1>2, Now, TopOf
  <2>5. \E s : \/ units' = [units EXCEPT ![Top.unit].globals = s]
               \/ units' = [units EXCEPT ![Top.unit].statics = s]
    BY <1>7 DEF EndStatics
  <2>6. Spares(units, units') BY <2>4, <2>5, VariablesSpared
  <2> QED BY <1>2, <2>1, <2>3, <2>6, StepSpares
<1> QED BY <1>5, <1>6, <1>7 DEF Initialization
----------------------------------------------------------------------------
\* Semantic analysis compiles what a file needs.
LEMMA StackPaths ==
  ASSUME IInv, status = "running", NEW i \in 1 .. Len(ctrl)
  PROVE  PathAt(ctrl, units, i) \in DOMAIN fs /\ PathAt(ctrl, units, i) \in Path
<1>1. ctrl[i].unit \in 1 .. Len(units) BY Now DEF Stack, Waits
<1>2. units[ctrl[i].unit].path \in DOMAIN fs BY <1>1, Now DEF Filed
<1> QED BY <1>2, Now DEF PathAt

\* No file is compiled in the middle of its own compilation.
LEMMA NoPathTwice ==
  ASSUME IInv, TidyInv, status = "running", fs \notin Mistaken,
         NEW j \in 1 .. Len(ctrl), ctrl[j].kind = "unit", NEW i \in 1 .. j - 1
  PROVE  PathAt(ctrl, units, i) # PathAt(ctrl, units, j)
<1> SUFFICES ASSUME PathAt(ctrl, units, i) = PathAt(ctrl, units, j) PROVE FALSE
  OBVIOUS
<1> DEFINE S == { PathAt(ctrl, units, k) : k \in i .. j - 1 }
<1>1. Len(ctrl) \in Nat /\ j \in Nat /\ i \in Nat BY Now, LenProperties
<1>2. \A k \in i .. j - 1 : k \in 1 .. Len(ctrl) /\ k + 1 \in 1 .. j /\ k + 1 > 1 /\ k + 1 - 1 = k
  BY <1>1
<1>3. S \in SUBSET DOMAIN fs BY <1>2, StackPaths
<1>4. PathAt(ctrl, units, i) \in S
  <2>1. i \in i .. j - 1 BY <1>1
  <2> QED BY <2>1
<1>5. Tidy(fs)
  <2>1. fs \in FileSystems BY Now
  <2> QED BY <2>1, TidyAssumption
<1>6. PICK p \in S : Imports(fs[p].steps) \cap S = {} /\ AddedTo(fs, fs[p].steps) \cap S = {}
  <2>1. S # {} BY <1>4
  <2>2. \A q \in S : q \in DOMAIN fs BY <1>3
  <2> HIDE DEF S
  <2> QED BY <1>3, <1>5, <2>1, <2>2 DEF Tidy
<1>7. PICK k \in i .. j - 1 : p = PathAt(ctrl, units, k) BY <1>6
<1>8. Needs(p, ctrl[k + 1].by, PathAt(ctrl, units, k + 1)) BY <1>2, <1>7, NowTended DEF Chained
<1>9. PathAt(ctrl, units, k + 1) \in S
  <2>1. CASE k + 1 = j BY <1>4, <2>1
  <2>2. CASE k + 1 # j
    <3>1. k + 1 \in i .. j - 1 BY <1>1, <2>2
    <3> QED BY <3>1
  <2> QED BY <2>1, <2>2
<1> HIDE DEF S
<1> QED BY <1>6, <1>8, <1>9 DEF Needs

\* While a unit is on top, compilations are all there is.
LEMMA TopCompiles ==
  ASSUME IInv, TidyInv, Running("unit"), fs \notin Mistaken
  PROVE  /\ status = "running" /\ ctrl # <<>> /\ Len(ctrl) \in Nat /\ Len(ctrl) \in 1 .. Len(ctrl)
         /\ \A k \in 1 .. Len(ctrl) : ctrl[k].kind = "unit"
         /\ ThePath = PathAt(ctrl, units, Len(ctrl)) /\ ThePath \in DOMAIN fs /\ ThePath \in Path
         /\ Top.unit \in 1 .. Len(units) /\ Settled(units, exported)
         /\ Missing(units, Top.unit, Top.by, compiled, declarative, exported)
         /\ Shared(compiled, declarative, exported)
         /\ Tidy(fs)
<1> DEFINE n == Len(ctrl)
<1>1. status = "running" /\ ctrl # <<>> /\ Top.kind = "unit" BY DEF Running
<1>2. /\ n \in Nat /\ n \in 1 .. n /\ ctrl[n] = Top /\ Top.unit \in 1 .. Len(units)
      /\ units[Top.unit].path \in DOMAIN fs /\ units[Top.unit].path \in Path
  BY <1>1, TopOf DEF Top
<1>3. /\ Settled(units, exported) /\ Chained(ctrl, units)
      /\ AllMissing(ctrl, units, compiled, declarative, exported)
      /\ Compiling(ctrl) => Shared(compiled, declarative, exported)
  BY <1>1, NowTended
<1>4. \A k \in 1 .. n : ctrl[k].kind = "unit" BY <1>1, <1>2, <1>3 DEF Chained
<1>5. Compiling(ctrl)
  <2>1. 1 \in 1 .. n /\ n # 0 BY <1>2
  <2> QED BY <1>4, <2>1 DEF Compiling
<1>6. Missing(units, Top.unit, Top.by, compiled, declarative, exported)
  BY <1>1, <1>2, <1>3 DEF AllMissing
<1>7. Tidy(fs) BY <1>1, Now, TidyAssumption
<1> QED BY <1>1, <1>2, <1>3, <1>4, <1>5, <1>6, <1>7 DEF ThePath, PathAt

LEMMA CompileTended ==
  ASSUME IInv, TidyInv, Running("unit"), Top.stage = "analysis", StepsLeft, Kept,
         NEW p \in DOMAIN fs, NEW lang \in Languages, NEW by \in {"import", "subdir", "file"},
         Compile(Advanced, p, lang, by), UNCHANGED <<fs, caches>>, Needs(ThePath, by, p),
         fs \notin Mistaken =>
           IF by = "import" THEN exported[p] = None
           ELSE IF lang = "cmsl" THEN compiled[p] = None ELSE declarative[p] = None
  PROVE  TidyInv'
<1> DEFINE n == Len(ctrl)
           v == Len(units) + 1
           m == UnitOf(v, by)
<1>1. /\ exported' = exported /\ compiled' = compiled /\ declarative' = declarative /\ fs' = fs
  BY DEF caches
<1> SUFFICES ASSUME fs \notin Mistaken
             PROVE  /\ Settled(units', exported')
                    /\ status' = "running" =>
                         Tended(ctrl', units', compiled', declarative', exported')
  BY <1>1, StepTended
<1>2. /\ status = "running" /\ ctrl # <<>> /\ n \in Nat /\ n \in 1 .. n
      /\ \A k \in 1 .. n : ctrl[k].kind = "unit"
      /\ ThePath = PathAt(ctrl, units, n) /\ Settled(units, exported)
      /\ Shared(compiled, declarative, exported)
  BY TopCompiles
<1>3. CASE status' = "overflow" /\ UNCHANGED <<units, ctrl>> BY <1>1, <1>2, <1>3
<1>4. CASE units' = Append(units, NewUnit(p, lang)) /\ ctrl' = Append(Advanced, m)
  <2>1. units \in Seq(UnitRecord) /\ p \in Path BY <1>2, Now
  <2>2. Makes(units, p, lang, units') BY <1>4 DEF Makes
  <2>3. /\ Settled(units', exported) /\ Len(units') = v /\ Len(units) \in Nat
        /\ units'[v].path = p /\ units'[v].lang = lang
    BY <1>2, <2>1, <2>2, MadeSettled
  <2>4. /\ AdvancedLevel \in Level /\ Alike(Top, AdvancedLevel) /\ Advanced = Replaced(AdvancedLevel)
    BY AdvancedWaits
  <2>5. m \in Level /\ m.kind = "unit" /\ m.unit = v /\ m.by = by
    BY <2>3 DEF UnitOf, Level, UnitLevel, Reasons
  <2>6. Pushes(ctrl', AdvancedLevel, m) BY <1>4, <2>4 DEF Pushes
  <2> HIDE DEF m, v
  <2>7. /\ Len(ctrl') = n + 1 /\ ctrl'[n] = AdvancedLevel /\ ctrl'[n + 1] = m
        /\ \A j \in 1 .. n - 1 : ctrl'[j] = ctrl[j]
    BY <1>2, <2>4, <2>5, <2>6, PushedTop
  <2>8. \A k \in 1 .. n : Alike(ctrl[k], ctrl'[k])
    <3> SUFFICES ASSUME NEW k \in 1 .. n PROVE Alike(ctrl[k], ctrl'[k]) OBVIOUS
    <3>1. CASE k = n BY <2>4, <2>7, <3>1 DEF Top
    <3>2. CASE k # n
      <4>1. k \in 1 .. n - 1 BY <1>2, <3>2
      <4> QED BY <2>7, <4>1 DEF Alike
    <3> QED BY <3>1, <3>2
  <2>9. \A k \in 1 .. n : /\ ctrl'[k].kind = "unit" /\ ctrl'[k].unit = ctrl[k].unit
                          /\ ctrl'[k].by = ctrl[k].by /\ ctrl[k].unit \in 1 .. Len(units)
                          /\ units'[ctrl[k].unit].path = units[ctrl[k].unit].path
                          /\ units'[ctrl[k].unit].lang = units[ctrl[k].unit].lang
                          /\ PathAt(ctrl', units', k) = PathAt(ctrl, units, k)
    <3> SUFFICES ASSUME NEW k \in 1 .. n
                 PROVE  /\ ctrl'[k].kind = "unit" /\ ctrl'[k].unit = ctrl[k].unit
                        /\ ctrl'[k].by = ctrl[k].by /\ ctrl[k].unit \in 1 .. Len(units)
                        /\ units'[ctrl[k].unit].path = units[ctrl[k].unit].path
                        /\ units'[ctrl[k].unit].lang = units[ctrl[k].unit].lang
                        /\ PathAt(ctrl', units', k) = PathAt(ctrl, units, k)
      OBVIOUS
    <3>1. ctrl[k].unit \in 1 .. Len(units) BY <1>2, Now DEF Stack, Waits
    <3>2. ctrl[k].kind = "unit" /\ Alike(ctrl[k], ctrl'[k]) BY <1>2, <2>8
    <3> QED BY <3>1, <3>2 DEF Alike, Kept, Grows, PathAt
  <2>10. Chained(ctrl', units')
    <3>1. ASSUME NEW k \in 1 .. n + 1
          PROVE  /\ ctrl'[k].kind = "unit"
                 /\ k > 1 => Needs(PathAt(ctrl', units', k - 1), ctrl'[k].by, PathAt(ctrl', units', k))
      <4>1. CASE k = n + 1
        <5>1. k - 1 = n BY <1>2, <4>1
        <5>2. PathAt(ctrl', units', k) = p /\ ctrl'[k].by = by /\ ctrl'[k].kind = "unit"
          BY <2>3, <2>5, <2>7, <4>1 DEF PathAt
        <5>3. PathAt(ctrl', units', k - 1) = ThePath BY <1>2, <2>9, <5>1
        <5> QED BY <5>2, <5>3
      <4>2. CASE k # n + 1
        <5>1. k \in 1 .. n /\ (k > 1 => k - 1 \in 1 .. n) BY <1>2, <4>2
        <5>2. ctrl[n].kind = "unit" /\ Chained(ctrl, units) BY <1>2, NowTended
        <5>3. k > 1 => Needs(PathAt(ctrl, units, k - 1), ctrl[k].by, PathAt(ctrl, units, k))
          BY <1>2, <5>1, <5>2 DEF Chained
        <5> QED BY <2>9, <5>1, <5>3
      <4> QED BY <4>1, <4>2
    <3>2. \A i \in 1 .. n + 1 : \A k \in 1 .. i : k \in 1 .. n + 1 BY <1>2
    <3> QED BY <2>7, <3>1, <3>2 DEF Chained
  <2>11. AllMissing(ctrl', units', compiled, declarative, exported)
    <3>1. ASSUME NEW k \in 1 .. n + 1
          PROVE  Missing(units', ctrl'[k].unit, ctrl'[k].by, compiled, declarative, exported)
      <4>1. CASE k = n + 1 BY <2>3, <2>5, <2>7, <4>1 DEF Missing
      <4>2. CASE k # n + 1
        <5>1. k \in 1 .. n BY <1>2, <4>2
        <5>2. Missing(units, ctrl[k].unit, ctrl[k].by, compiled, declarative, exported)
          BY <1>2, <5>1, NowTended DEF AllMissing
        <5> QED BY <2>9, <5>1, <5>2 DEF Missing
      <4> QED BY <4>1, <4>2
    <3> QED BY <2>7, <3>1 DEF AllMissing
  <2> QED BY <1>1, <1>2, <2>3, <2>10, <2>11 DEF Tended
<1> QED BY <1>3, <1>4 DEF Compile, UnitOf

\* Without a new unit, to the next step.
LEMMA AdvanceTended ==
  ASSUME IInv, TidyInv, Running("unit"), Top.stage = "analysis", StepsLeft, Kept,
         ctrl' = Advanced, UNCHANGED <<fs, caches>>, fs \notin Mistaken => Settled(units', exported)
  PROVE  TidyInv'
<1>1. status = "running" /\ ctrl # <<>> BY DEF Running
<1>2. Alike(Top, AdvancedLevel) /\ Advanced = Replaced(AdvancedLevel) BY AdvancedWaits
<1>3. Follows(ctrl, ctrl') BY <1>1, <1>2, ReplacedFollows
<1> QED BY <1>1, <1>3, StepFollows

LEMMA HaltTended ==
  ASSUME IInv, TidyInv, UNCHANGED <<fs, units, exported>>, status' # "running"
  PROVE  TidyInv'
BY StepTended DEF TidyInv

LEMMA ImportTended == ASSUME IInv, TidyInv, NEW lang \in Languages, Import(lang), Kept PROVE TidyInv'
<1> DEFINE p == TheStep.path
<1>1. AtStep("import", lang) /\ UNCHANGED <<fs, caches>> BY DEF Import
<1>2. /\ Running("unit") /\ Top.stage = "analysis" /\ StepsLeft
      /\ status = "running" /\ ctrl # <<>> /\ TheStep \in Step /\ TheStep.do = "import"
      /\ Top.unit \in 1 .. Len(units)
  BY <1>1, AtStepFacts
<1>3. p \in Path BY <1>2 DEF Step
<1>4. CASE ctrl' = Advanced /\ units' = Linked(Top.unit, p, exported[p])
  <2>1. Links(units, Top.unit, p, exported[p], units') BY <1>4 DEF Linked, Links
  <2>2. units \in Seq(UnitRecord) /\ exported \in [Path -> 0 .. Len(units)] /\ Len(units) \in Nat
    BY <1>2, Now, LenProperties DEF CacheOK
  <2>3. exported[p] \in Nat BY <1>3, <2>2
  <2>4. fs \notin Mistaken => Settled(units', exported)
    BY <1>2, <1>3, <2>1, <2>2, <2>3, NowTended, LinkedSettled
  <2> QED BY <1>1, <1>2, <1>4, <2>4, AdvanceTended
<1>5. CASE status' = "failed" /\ UNCHANGED <<ctrl, units>>
  BY <1>1, <1>5, HaltTended DEF caches
<1>6. CASE ~Imported(p) /\ Exists(p) /\ Compile(Advanced, p, lang, "import")
  <2>1. p \in DOMAIN fs /\ exported[p] = None BY <1>6 DEF Exists, Imported
  <2>2. Needs(ThePath, "import", p)
    <3>1. TheStep = fs[ThePath].steps[Top.pc + 1] /\ Top \in UnitLevel
      BY <1>2, UnitTop DEF TheStep, FileOf, ThePath
    <3>2. Top.pc + 1 \in 1 .. Len(fs[ThePath].steps)
      <4>1. Top.pc < Len(fs[ThePath].steps) BY <1>2 DEF StepsLeft, FileOf, ThePath
      <4>2. Top.pc \in Nat /\ Len(fs[ThePath].steps) \in Nat
        BY <1>2, <3>1, UnitTop DEF UnitLevel, ThePath
      <4> QED BY <4>1, <4>2
    <3> QED BY <1>2, <3>1, <3>2 DEF Needs, Imports
  <2> QED BY <1>1, <1>2, <1>6, <2>1, <2>2, CompileTended
<1> QED BY <1>4, <1>5, <1>6 DEF Import

LEMMA TheStepOf ==
  ASSUME IInv, Running("unit"), Top.stage = "analysis", StepsLeft
  PROVE  \E i \in 1 .. Len(fs[ThePath].steps) : TheStep = fs[ThePath].steps[i]
<1>1. TheStep = fs[ThePath].steps[Top.pc + 1] BY DEF TheStep, FileOf, ThePath
<1>2. Top.pc < Len(fs[ThePath].steps) BY DEF StepsLeft, FileOf, ThePath
<1>3. Top.pc \in Nat /\ Len(fs[ThePath].steps) \in Nat BY UnitTop DEF UnitLevel, ThePath
<1> QED BY <1>1, <1>2, <1>3

LEMMA LastTwo ==
  ASSUME NEW d \in Seq(Entry), NEW e \in Entry, NEW f
  PROVE  LET p == Append(Append(d, e), f)
         IN Len(p) > 1 /\ p[Len(p) - 1] = e /\ p[Len(p)] = f
<1> DEFINE S == Entry \union {f}
           a == Append(d, e)
           p == Append(a, f)
<1>1. d \in Seq(S) /\ e \in S /\ f \in S BY SeqMonotonic
<1> HIDE DEF S
<1>2. a \in Seq(S) /\ Len(a) = Len(d) + 1 /\ a[Len(d) + 1] = e /\ Len(d) \in Nat
  BY <1>1, AppendProperties, LenProperties
<1> HIDE DEF a
<1>3. Len(p) = Len(a) + 1 /\ p[Len(a) + 1] = f /\ \A i \in 1 .. Len(a) : p[i] = a[i]
  BY <1>1, <1>2, AppendProperties
<1> HIDE DEF p
<1>4. Len(p) > 1 /\ Len(p) - 1 = Len(d) + 1 /\ Len(d) + 1 \in 1 .. Len(a) BY <1>2, <1>3
<1>5. p[Len(p) - 1] = e /\ p[Len(p)] = f BY <1>2, <1>3, <1>4
<1> QED BY <1>4, <1>5 DEF p, a

LEMMA HandleAddSubdirectoryTended == ASSUME IInv, TidyInv, HandleAddSubdirectory, Kept PROVE TidyInv'
<1> DEFINE name == TheStep.name
           inside == Append(directories, TheStep.name)
           p == Script(inside)
<1>1. AtStep("subdir", "cmsl") /\ UNCHANGED <<fs, caches>> BY DEF HandleAddSubdirectory
<1>2. /\ Running("unit") /\ Top.stage = "analysis" /\ StepsLeft
      /\ status = "running" /\ ctrl # <<>> /\ TheStep \in Step /\ TheStep.do = "subdir"
      /\ Top.unit \in 1 .. Len(units)
  BY <1>1, AtStepFacts
<1>3. name \in Entry /\ directories \in Seq(Entry) BY <1>2, Now DEF Step
<1>4. units \in Seq(UnitRecord) /\ DOMAIN fs \subseteq Path /\ Len(units) \in Nat BY <1>2, Now, LenProperties
<1>5. CASE status' = "failed" /\ UNCHANGED <<ctrl, units>>
  BY <1>1, <1>5, HaltTended DEF caches
<1>6. CASE ctrl' = Advanced /\ UNCHANGED units
  <2>1. fs \notin Mistaken => Settled(units', exported) BY <1>2, <1>6, NowTended
  <2> QED BY <1>1, <1>2, <1>6, <2>1, AdvanceTended
<1>7. CASE /\ Exists(p) /\ ctrl' = Advanced
           /\ units' = WithScript(Top.unit, name, CachedScript(inside))
  <2>1. p \in Path BY <1>4, <1>7 DEF Exists
  <2>2. compiled[p] \in 0 .. Len(units) /\ declarative[p] \in 0 .. Len(units)
    BY <1>2, <2>1, Now DEF CacheOK
  <2> DEFINE v == CachedScript(inside)
  <2>3. v \in 0 .. Len(units) BY <2>2 DEF CachedScript
  <2>4. ScriptOf(units, Top.unit, name, v, units') BY <1>7 DEF WithScript, ScriptOf
  <2> HIDE DEF v
  <2>5. ASSUME fs \notin Mistaken PROVE Settled(units', exported)
    <3>1. Settled(units, exported) BY <1>2, <2>5, NowTended
    <3> QED BY <1>2, <1>4, <2>3, <2>4, <3>1, ScriptedSettled
  <2> QED BY <1>1, <1>2, <1>7, <2>5, AdvanceTended
<1>8. CASE /\ Exists(p) /\ CachedScript(inside) = None
           /\ Compile(Advanced, p, ScriptLang(inside), "subdir")
  <2>1. p \in DOMAIN fs BY <1>8 DEF Exists
  <2> DEFINE lang == ScriptLang(inside)
             f == p[Len(p)]
  <2>2. lang \in Languages BY DEF ScriptLang, Languages
  <2>3. IF lang = "cmsl" THEN compiled[p] = None ELSE declarative[p] = None
    BY <1>8 DEF CachedScript, ScriptLang
  <2>4. AddsFile(TheStep, p)
    <3>1. PICK g \in SourceNames : p = Append(inside, g)
      BY DEF Script, ScriptNames, SourceNames
    <3>2. Len(p) > 1 /\ p[Len(p) - 1] = name /\ p[Len(p)] = g BY <1>3, <3>1, LastTwo
    <3> QED BY <1>2, <3>2 DEF AddsFile
  <2>5. Needs(ThePath, "subdir", p) BY <1>2, <2>1, <2>4, TheStepOf DEF Needs, AddedTo
  <2>6. Compile(Advanced, p, lang, "subdir") BY <1>8
  <2> HIDE DEF p, lang
  <2> QED BY <1>1, <1>2, <2>1, <2>2, <2>3, <2>5, <2>6, CompileTended
<1> QED BY <1>5, <1>6, <1>7, <1>8 DEF HandleAddSubdirectory

LEMMA HandleAddDeclarativeFileTended ==
  ASSUME IInv, TidyInv, HandleAddDeclarativeFile, Kept PROVE TidyInv'
<1> DEFINE name == TheStep.name
           p == Append(directories, TheStep.name)
<1>1. AtStep("file", "cmsl") /\ UNCHANGED <<fs, caches>> BY DEF HandleAddDeclarativeFile
<1>2. /\ Running("unit") /\ Top.stage = "analysis" /\ StepsLeft
      /\ status = "running" /\ ctrl # <<>> /\ TheStep \in Step /\ TheStep.do = "file"
      /\ Top.unit \in 1 .. Len(units)
  BY <1>1, AtStepFacts
<1>3. name \in Entry /\ directories \in Seq(Entry) BY <1>2, Now DEF Step
<1>4. units \in Seq(UnitRecord) /\ DOMAIN fs \subseteq Path /\ Len(units) \in Nat BY <1>2, Now, LenProperties
<1>5. CASE status' = "failed" /\ UNCHANGED <<ctrl, units>>
  BY <1>1, <1>5, HaltTended DEF caches
<1>6. CASE /\ Exists(p) /\ ctrl' = Advanced
           /\ units' = WithScript(Top.unit, name, declarative[p])
  <2>1. p \in Path BY <1>4, <1>6 DEF Exists
  <2> DEFINE v == declarative[p]
  <2>2. v \in 0 .. Len(units) BY <1>2, <2>1, Now DEF CacheOK
  <2>3. ScriptOf(units, Top.unit, name, v, units') BY <1>6 DEF WithScript, ScriptOf
  <2> HIDE DEF v
  <2>4. ASSUME fs \notin Mistaken PROVE Settled(units', exported)
    <3>1. Settled(units, exported) BY <1>2, <2>4, NowTended
    <3> QED BY <1>2, <1>4, <2>2, <2>3, <3>1, ScriptedSettled
  <2> QED BY <1>1, <1>2, <1>6, <2>4, AdvanceTended
<1>7. CASE Exists(p) /\ declarative[p] = None /\ Compile(Advanced, p, "dcmsl", "file")
  <2>1. p \in DOMAIN fs /\ "dcmsl" \in Languages BY <1>7 DEF Exists, Languages
  <2>2. AddsFile(TheStep, p) BY <1>2, <1>3, FrontOfAppend DEF AddsFile
  <2>3. Needs(ThePath, "file", p) BY <1>2, <2>1, <2>2, TheStepOf DEF Needs, AddedTo
  <2> HIDE DEF p
  <2> QED BY <1>1, <1>2, <1>7, <2>1, <2>3, CompileTended
<1> QED BY <1>5, <1>6, <1>7 DEF HandleAddDeclarativeFile

LEMMA ExecuteRootTended == ASSUME IInv, TidyInv, ExecuteRoot, Kept PROVE TidyInv'
<1> DEFINE p == Script(directories)
           lang == ScriptLang(directories)
           m == UnitOf(1, "root")
<1>1. /\ status = "running" /\ units = <<>> /\ UNCHANGED <<fs, caches>>
  BY DEF ExecuteRoot
<1>2. /\ exported' = exported /\ compiled' = compiled /\ declarative' = declarative /\ fs' = fs
  BY <1>1 DEF caches
<1>3. Len(units) = 0 /\ Len(units) + 1 = 1 /\ \A i : i \notin 1 .. 0 BY <1>1
<1>4. ctrl = <<>>
  <2>1. Len(ctrl) # 0 => Len(ctrl) \in 1 .. Len(ctrl) BY <1>1, Now, LenProperties
  <2>2. Len(ctrl) = 0 BY <1>1, <1>3, <2>1, Now DEF Stack, Waits
  <2> QED BY <1>1, <2>2, Now, EmptySeq
<1>5. \A q \in Path : compiled[q] = None /\ declarative[q] = None /\ exported[q] = None
  BY <1>1, <1>3, Now DEF CacheOK, None
<1>6. CASE status' # "running" /\ UNCHANGED units BY <1>2, <1>6, HaltTended
<1>7. CASE Exists(p) /\ units' = Append(units, NewUnit(p, lang)) /\ ctrl' = << m >>
  <2>1. p \in Path /\ lang \in Languages
    BY <1>1, <1>7, Now DEF Exists, ScriptLang, Languages
  <2>2. Makes(units, p, lang, units') BY <1>7 DEF Makes
  <2> HIDE DEF p, lang
  <2>3. /\ m.kind = "unit" /\ m.unit = 1 /\ m.by = "root" BY DEF UnitOf
  <2> HIDE DEF m
  <2>4. Len(ctrl') = 1 /\ ctrl'[1] = m /\ \A i \in 1 .. 1 : i = 1 BY <1>7
  <2>5. ASSUME fs \notin Mistaken
        PROVE  /\ Settled(units', exported) /\ units'[1].path = p
    <3>1. Settled(units, exported) /\ units \in Seq(UnitRecord) BY <1>1, <2>5, NowTended, Now
    <3>2. Settled(units', exported) /\ units'[Len(units) + 1].path = p
      BY <2>1, <2>2, <3>1, MadeSettled
    <3> QED BY <1>3, <3>2
  <2>6. ASSUME fs \notin Mistaken
        PROVE  Tended(ctrl', units', compiled', declarative', exported')
    <3>1. Chained(ctrl', units') BY <2>3, <2>4 DEF Chained
    <3>2. AllMissing(ctrl', units', compiled, declarative, exported)
      BY <1>5, <2>1, <2>3, <2>4, <2>5, <2>6 DEF AllMissing, Missing
    <3>3. Shared(compiled, declarative, exported)
      <4>1. \A q \in DOMAIN fs : Imports(fs[q].steps) \subseteq Path BY <1>1, Now, FileTyped
      <4> QED BY <1>5, <4>1 DEF Shared
    <3> QED BY <1>2, <3>1, <3>2, <3>3 DEF Tended
  <2> QED BY <1>2, <2>5, <2>6, StepTended
<1>8. Append(<<>>, m) = << m >> OBVIOUS
<1> QED BY <1>3, <1>4, <1>6, <1>7, <1>8 DEF ExecuteRoot, Compile, UnitOf
----------------------------------------------------------------------------
\* The end of a compilation.
LEMMA InitializeModuleTended == ASSUME IInv, TidyInv, InitializeModule, Kept PROVE TidyInv'
<1> DEFINE l == [Top EXCEPT !.stage = "initialization"]
<1>1. Running("unit") /\ UNCHANGED <<fs, units, caches>>
  BY DEF InitializeModule, Analysed, Analysing
<1>2. status = "running" /\ ctrl # <<>> /\ Top \in UnitLevel BY <1>1, UnitTop
<1>3. Alike(Top, l) BY <1>2 DEF Alike, UnitLevel
<1> HIDE DEF l
<1>4. Statics(Top.unit, "import").kind # "unit" BY DEF Statics
<1>5. /\ Follows(ctrl, ctrl) /\ Follows(ctrl, Append(Replaced(l), Statics(Top.unit, "import")))
  BY <1>2, <1>3, <1>4, FollowsSelf, ReplacedFollows
<1>6. Follows(ctrl, ctrl') BY <1>5 DEF InitializeModule, l
<1>7. Spares(units, units') BY <1>1, SparesSelf
<1> QED BY <1>1, <1>2, <1>6, <1>7, StepSpares

\* A unit goes to the caches of its path; the others miss what they missed.
Stores(cache, cache2) == \A p \in Path : p # ThePath => cache2[p] = cache[p]
LEMMA StoreTended ==
  ASSUME IInv, TidyInv, Running("unit"), fs \notin Mistaken, Kept, ctrl' = Below, UNCHANGED fs,
         Stores(compiled, compiled'), Stores(declarative, declarative'), Stores(exported, exported'),
         (\E q \in DOMAIN fs : ThePath \in Imports(fs[q].steps)) => exported'[ThePath] # None
  PROVE  Tended(ctrl', units', compiled', declarative', exported')
<1> DEFINE n == Len(ctrl)
<1>1. /\ status = "running" /\ ctrl # <<>> /\ n \in Nat /\ n \in 1 .. n
      /\ \A k \in 1 .. n : ctrl[k].kind = "unit"
      /\ ThePath = PathAt(ctrl, units, n) /\ Shared(compiled, declarative, exported)
  BY TopCompiles
<1>2. /\ ctrl' \in Seq(Level) /\ Len(ctrl') = n - 1 /\ \A k \in 1 .. Len(ctrl') : ctrl'[k] = ctrl[k]
  BY <1>1, PoppedTop
<1>3. Tended(ctrl', units', compiled, declarative, exported)
  <2>1. Follows(ctrl, ctrl') BY <1>1, PoppedFollows
  <2>2. ctrl \in Seq(Level) /\ Stack(ctrl, units) /\ Grows(units, units') BY <1>1, Now DEF Kept
  <2>3. Tended(ctrl, units, compiled, declarative, exported) BY <1>1 DEF TidyInv
  <2> QED BY <1>2, <2>1, <2>2, <2>3, FollowsTended
<1>4. AllMissing(ctrl', units', compiled', declarative', exported')
  <2> SUFFICES ASSUME NEW i \in 1 .. Len(ctrl')
               PROVE  Missing(units', ctrl'[i].unit, ctrl'[i].by, compiled', declarative', exported')
    BY DEF AllMissing
  <2>1. i \in 1 .. n - 1 /\ i \in 1 .. n BY <1>1, <1>2
  <2>2. PathAt(ctrl, units, i) # ThePath BY <1>1, <2>1, NoPathTwice
  <2>3. PathAt(ctrl, units, i) \in Path BY <1>1, <2>1, StackPaths
  <2>4. units'[ctrl'[i].unit].path = PathAt(ctrl, units, i)
    <3>1. ctrl[i].unit \in 1 .. Len(units) BY <1>1, <2>1, Now DEF Stack, Waits
    <3> QED BY <1>2, <3>1 DEF Kept, Grows, PathAt
  <2>5. Missing(units', ctrl'[i].unit, ctrl'[i].by, compiled, declarative, exported)
    BY <1>1, <1>2, <1>3, <2>1 DEF Tended, AllMissing
  <2> QED BY <2>2, <2>3, <2>4, <2>5 DEF Missing, Stores
<1>5. Shared(compiled', declarative', exported')
  <2> SUFFICES ASSUME NEW q \in DOMAIN fs, NEW p \in Imports(fs[q].steps),
                      compiled'[p] # None \/ declarative'[p] # None
               PROVE  exported'[p] # None
    BY DEF Shared
  <2>1. p \in Path BY <1>1, Now, FileTyped
  <2>2. CASE p = ThePath BY <2>2
  <2>3. CASE p # ThePath BY <1>1, <2>1, <2>3 DEF Shared, Stores
  <2> QED BY <2>2, <2>3
<1> QED BY <1>3, <1>4, <1>5 DEF Tended

\* What is exported is what the importer gets.
LEMMA StoreImported ==
  ASSUME IInv, TidyInv, Running("unit"), Top.by = "import", Kept, ctrl' = Below, UNCHANGED fs,
         \/ /\ compiled' = Emplaced(compiled, ThePath, Top.unit) /\ declarative' = declarative
            /\ units' = [Destroyed(compiled, ThePath, Top.unit) EXCEPT ![Importer].links[ThePath] = Top.unit]
         \/ /\ declarative' = Emplaced(declarative, ThePath, Top.unit) /\ compiled' = compiled
            /\ units' = [Destroyed(declarative, ThePath, Top.unit) EXCEPT ![Importer].links[ThePath] = Top.unit],
         exported' = Emplaced(exported, ThePath, Top.unit)
  PROVE  TidyInv'
<1> SUFFICES ASSUME fs \notin Mistaken
             PROVE  /\ Settled(units', exported')
                    /\ Tended(ctrl', units', compiled', declarative', exported')
  BY StepTended
<1> DEFINE n == Len(ctrl)
           p == ThePath
           u == Top.unit
<1>1. /\ status = "running" /\ ctrl # <<>> /\ n \in Nat /\ n \in 1 .. n
      /\ \A k \in 1 .. n : ctrl[k].kind = "unit"
      /\ p = PathAt(ctrl, units, n) /\ p \in Path /\ u \in 1 .. Len(units)
      /\ Settled(units, exported) /\ Shared(compiled, declarative, exported)
      /\ Missing(units, u, "import", compiled, declarative, exported)
  BY TopCompiles
<1>2. exported[p] = None BY <1>1 DEF Missing, ThePath
<1>3. compiled[p] = None /\ declarative[p] = None
  <2>1. n > 1 /\ n - 1 \in 1 .. n
    <3>1. n > 1 BY ImporterOf
    <3> QED BY <1>1, <3>1
  <2>2. Needs(PathAt(ctrl, units, n - 1), "import", p)
    <3>1. ctrl[n].by = "import" /\ ctrl[n].kind = "unit" BY <1>1 DEF Top
    <3>2. Chained(ctrl, units) BY <1>1, NowTended
    <3> QED BY <1>1, <2>1, <3>1, <3>2 DEF Chained
  <2>3. PathAt(ctrl, units, n - 1) \in DOMAIN fs BY <1>1, <2>1, StackPaths
  <2>4. p \in Imports(fs[PathAt(ctrl, units, n - 1)].steps) BY <2>2 DEF Needs
  <2> HIDE DEF p, n
  <2> QED BY <1>1, <1>2, <2>3, <2>4 DEF Shared
<1>4. /\ exported \in [Path -> 0 .. Len(units)] /\ compiled \in [Path -> 0 .. Len(units)]
      /\ declarative \in [Path -> 0 .. Len(units)] /\ Len(units) \in Nat /\ units \in Seq(UnitRecord)
  BY <1>1, Now, LenProperties DEF CacheOK
<1>5. /\ exported' = [exported EXCEPT ![p] = u]
      /\ exported'[p] = u /\ \A q \in Path : q # p => exported'[q] = exported[q]
  BY <1>1, <1>2, <1>4 DEF Emplaced
<1>6. u # None /\ u \in Nat BY <1>1, <1>4 DEF None
<1>7. Settled(units', exported')
  <2>1. PICK us : /\ us \in Seq(UnitRecord) /\ Len(us) = Len(units) /\ Settled(us, exported)
                  /\ Links(us, Importer, p, u, units')
    <3>1. \A cache : cache[p] = None =>
            LET us == Destroyed(cache, p, u)
            IN us \in Seq(UnitRecord) /\ Len(us) = Len(units) /\ Settled(us, exported)
      BY <1>1, KeptAlive
    <3>2. \/ Links(Destroyed(compiled, p, u), Importer, p, u, units')
          \/ Links(Destroyed(declarative, p, u), Importer, p, u, units')
      BY DEF Links
    <3> QED BY <1>3, <3>1, <3>2
  <2>2. Importer \in 1 .. Len(us) BY <2>1, ImporterOf
  <2> QED BY <1>1, <1>2, <1>5, <1>6, <2>1, <2>2, LinkedSettled
<1>8. /\ Stores(compiled, compiled') /\ Stores(declarative, declarative')
      /\ Stores(exported, exported')
  BY <1>1, <1>4 DEF Stores, Emplaced
<1>9. exported'[p] # None BY <1>5, <1>6
<1>10. Tended(ctrl', units', compiled', declarative', exported') BY <1>8, <1>9, StoreTended
<1> QED BY <1>7, <1>10

LEMMA StoreModuleTended == ASSUME IInv, TidyInv, StoreModule, Kept PROVE TidyInv'
<1>1. Running("unit") /\ Top.by = "import" BY UnitTop DEF StoreModule
<1> QED BY <1>1, StoreImported DEF StoreModule

LEMMA StoreDeclarativeModuleTended == ASSUME IInv, TidyInv, StoreDeclarativeModule, Kept PROVE TidyInv'
<1>1. Running("unit") /\ Top.by = "import"
  BY DEF StoreDeclarativeModule, Analysed, Analysing
<1> QED BY <1>1, StoreImported DEF StoreDeclarativeModule

\* What is added is not imported, so it need not be exported.
LEMMA StoreAdded ==
  ASSUME IInv, TidyInv, Running("unit"), Top.by \in {"subdir", "file"}, Kept, ctrl' = Below,
         UNCHANGED fs, NEW cache, NEW name,
         \/ /\ compiled' = Emplaced(compiled, ThePath, Top.unit) /\ declarative' = declarative
            /\ cache = compiled /\ units[Top.unit].lang = "cmsl"
         \/ /\ declarative' = Emplaced(declarative, ThePath, Top.unit) /\ compiled' = compiled
            /\ cache = declarative /\ units[Top.unit].lang = "dcmsl",
         ScriptOf(Destroyed(cache, ThePath, Top.unit), Importer, name, Top.unit, units'),
         exported' = exported
  PROVE  TidyInv'
<1> SUFFICES ASSUME fs \notin Mistaken
             PROVE  /\ Settled(units', exported')
                    /\ Tended(ctrl', units', compiled', declarative', exported')
  BY StepTended
<1> DEFINE n == Len(ctrl)
           p == ThePath
           u == Top.unit
<1>1. /\ status = "running" /\ ctrl # <<>> /\ n \in Nat /\ n \in 1 .. n
      /\ \A k \in 1 .. n : ctrl[k].kind = "unit"
      /\ p = PathAt(ctrl, units, n) /\ p \in DOMAIN fs /\ u \in 1 .. Len(units)
      /\ Settled(units, exported) /\ Tidy(fs)
      /\ Missing(units, u, Top.by, compiled, declarative, exported)
  BY TopCompiles
<1>2. cache[p] = None BY <1>1 DEF Missing, ThePath
<1>3. ASSUME NEW q \in DOMAIN fs, p \in Imports(fs[q].steps) PROVE FALSE
  <2>1. n > 1 /\ n - 1 \in 1 .. n
    <3>1. n > 1 BY ImporterOf
    <3> QED BY <1>1, <3>1
  <2> DEFINE r == PathAt(ctrl, units, n - 1)
  <2>2. Needs(r, Top.by, p)
    <3>1. ctrl[n].by = Top.by /\ ctrl[n].kind = "unit" BY <1>1 DEF Top
    <3>2. Chained(ctrl, units) BY <1>1, NowTended
    <3> QED BY <1>1, <2>1, <3>1, <3>2 DEF Chained
  <2>3. r \in DOMAIN fs BY <1>1, <2>1, StackPaths
  <2>4. p \in AddedTo(fs, fs[r].steps) BY <2>2 DEF Needs
  <2> HIDE DEF p, r
  <2> QED BY <1>1, <1>3, <2>3, <2>4 DEF Tidy
<1>4. Settled(units', exported)
  <2> DEFINE us == Destroyed(cache, p, u)
  <2>1. us \in Seq(UnitRecord) /\ Len(us) = Len(units) /\ Settled(us, exported)
    BY <1>1, <1>2, KeptAlive
  <2>2. ScriptOf(us, Importer, name, u, units') OBVIOUS
  <2> HIDE DEF us
  <2>3. Importer \in 1 .. Len(us) /\ u \in 0 .. Len(us)
    <3>1. Len(us) \in Nat BY <2>1, LenProperties
    <3> QED BY <1>1, <2>1, <3>1, ImporterOf
  <2> QED BY <2>1, <2>2, <2>3, ScriptedSettled
<1>5. /\ compiled \in [Path -> 0 .. Len(units)] /\ declarative \in [Path -> 0 .. Len(units)]
  BY <1>1, Now DEF CacheOK
<1>6. /\ Stores(compiled, compiled') /\ Stores(declarative, declarative')
      /\ Stores(exported, exported')
  BY <1>5 DEF Stores, Emplaced
<1>7. Tended(ctrl', units', compiled', declarative', exported') BY <1>3, <1>6, StoreTended
<1> QED BY <1>4, <1>7

LEMMA StoreSubdirectoryTended == ASSUME IInv, TidyInv, StoreSubdirectory, Kept PROVE TidyInv'
<1>1. /\ Analysed("cmsl", "subdir") /\ UNCHANGED <<fs, declarative, exported>>
  BY DEF StoreSubdirectory
<1>2. /\ Running("unit") /\ Top.by = "subdir" /\ units[Top.unit].lang = "cmsl"
  BY <1>1, AnalysedFacts
<1>3. CASE HasMain(ThePath)
  <2> DEFINE name == directories[Len(directories)]
  <2>1. /\ compiled' = Emplaced(compiled, ThePath, Top.unit) /\ ctrl' = Below
        /\ ScriptOf(Destroyed(compiled, ThePath, Top.unit), Importer, name, Top.unit, units')
    BY <1>3 DEF StoreSubdirectory, ScriptOf
  <2> QED BY <1>1, <1>2, <2>1, StoreAdded
<1>4. CASE ~HasMain(ThePath)
  <2>1. status' = "crashed" /\ UNCHANGED units BY <1>4 DEF StoreSubdirectory
  <2> QED BY <1>1, <2>1, HaltTended
<1> QED BY <1>3, <1>4

LEMMA StoreDeclarativeScriptTended == ASSUME IInv, TidyInv, StoreDeclarativeScript, Kept PROVE TidyInv'
<1>1. PICK by \in {"subdir", "file"} : Analysed("dcmsl", by) BY DEF StoreDeclarativeScript
<1>2. /\ Running("unit") /\ Top.by = by /\ units[Top.unit].lang = "dcmsl"
  BY <1>1, AnalysedFacts
<1>3. /\ ctrl' = Below /\ UNCHANGED <<fs, compiled, exported>>
      /\ declarative' = Emplaced(declarative, ThePath, Top.unit)
  BY DEF StoreDeclarativeScript
<1>4. PICK name : ScriptOf(Destroyed(declarative, ThePath, Top.unit), Importer, name, Top.unit, units')
  BY DEF StoreDeclarativeScript, ScriptOf
<1> QED BY <1>1, <1>2, <1>3, <1>4, StoreAdded

LEMMA ExecuteProgramTended == ASSUME IInv, TidyInv, ExecuteProgram, Kept PROVE TidyInv'
<1>1. /\ Analysed("cmsl", "root") /\ UNCHANGED <<fs, declarative, exported>> BY DEF ExecuteProgram
<1>2. /\ Running("unit") /\ Top.by = "root" /\ units[Top.unit].lang = "cmsl"
  BY <1>1, AnalysedFacts
<1>3. CASE HasMain(ThePath)
  <2> DEFINE m == Statics(Top.unit, "program")
  <2>1. units' = Destroyed(compiled, ThePath, Top.unit) /\ ctrl' = << m >>
    BY <1>3 DEF ExecuteProgram
  <2>2. m.kind # "unit" BY DEF Statics
  <2> HIDE DEF m
  <2>3. Len(ctrl') = 1 /\ ctrl'[1] = m /\ \A i \in 1 .. 1 : i = 1 BY <2>1
  <2>4. Tended(ctrl', units', compiled', declarative', exported')
    BY <2>2, <2>3 DEF Tended, Chained, AllMissing, Compiling
  <2>5. ASSUME fs \notin Mistaken PROVE Settled(units', exported')
    <3>1. /\ status = "running" /\ ctrl # <<>> /\ Settled(units, exported)
          /\ Missing(units, Top.unit, "root", compiled, declarative, exported)
      BY <1>2, <2>5, TopCompiles
    <3>2. compiled[ThePath] = None BY <1>2, <3>1 DEF Missing, ThePath
    <3> QED BY <1>1, <2>1, <3>1, <3>2, KeptAlive
  <2> QED BY <1>1, <2>4, <2>5, StepTended
<1>4. CASE ~HasMain(ThePath)
  <2>1. status' = "crashed" /\ UNCHANGED units BY <1>4 DEF ExecuteProgram
  <2> QED BY <1>1, <2>1, HaltTended
<1> QED BY <1>3, <1>4

LEMMA AnalysisTended == ASSUME IInv, TidyInv, Analysis, Kept PROVE TidyInv'
<1>1. CASE ParseError \/ SemanticError
  <2>1. status' # "running" /\ UNCHANGED <<fs, units, exported>>
    BY <1>1 DEF ParseError, SemanticError, Fail, caches
  <2> QED BY <2>1, HaltTended
<1>2. CASE HandleImport \/ HandleDeclarativeImport
  BY <1>2, ImportTended DEF HandleImport, HandleDeclarativeImport, Languages
<1>3. CASE ExecuteDeclarativeProgram
  <2>1. status' # "running" /\ UNCHANGED <<fs, units, exported>>
    BY <1>3 DEF ExecuteDeclarativeProgram
  <2> QED BY <2>1, HaltTended
<1> QED BY <1>1, <1>2, <1>3, ExecuteRootTended, HandleAddSubdirectoryTended,
           HandleAddDeclarativeFileTended, InitializeModuleTended, StoreModuleTended,
           StoreDeclarativeModuleTended, StoreSubdirectoryTended, StoreDeclarativeScriptTended,
           ExecuteProgramTended
    DEF Analysis

LEMMA NextTended == ASSUME IInv, TidyInv, [Next]_vars PROVE TidyInv'
<1>1. Kept BY NextKept
<1>2. CASE UNCHANGED vars
  <2>1. /\ fs' = fs /\ ctrl' = ctrl /\ units' = units /\ status' = status
        /\ compiled' = compiled /\ declarative' = declarative /\ exported' = exported
    BY <1>2 DEF vars, caches
  <2> QED BY <2>1, StepTended DEF TidyInv
<1> QED BY <1>1, <1>2, AnalysisTended, InitializationTended, ExecutionTended DEF Next, Stopped

LEMMA InitTended == Init => TidyInv
<1> SUFFICES ASSUME Init PROVE TidyInv OBVIOUS
<1>1. Len(ctrl) = 0 /\ Len(units) = 0 /\ \A i : i \notin 1 .. 0 BY DEF Init
<1> QED BY <1>1 DEF TidyInv, Settled, Tended, Chained, AllMissing, Compiling

\* In a tidy project a path is not compiled again while a unit of it is
\* known, whatever imports and subdirectories are nested: the inductive invariant.
THEOREM TidyInductive == Spec => [](IInv /\ TidyInv)
<1>1. IInv /\ TidyInv /\ [Next]_vars => IInv' /\ TidyInv' BY NextKept, NextTended DEF Kept
<1>2. Init => IInv /\ TidyInv BY InitSound, InitTended
<1> QED BY <1>1, <1>2, PTL DEF Spec

\* Whoever imports a path gets the names of the same unit, so that a module has one
\* instance of each of its variables (m_exported_qualified_contextes).
THEOREM OneInstance == Spec => []OneInstancePerModule
<1>1. TidyInv => OneInstancePerModule
  <2> SUFFICES ASSUME TidyInv, fs \notin Mistaken, NEW u \in 1 .. Len(units),
                      NEW v \in 1 .. Len(units), NEW p \in Path,
                      units[u].links[p] # None, units[v].links[p] # None
               PROVE  units[u].links[p] = units[v].links[p]
    BY DEF OneInstancePerModule
  <2>1. Settled(units, exported) BY DEF TidyInv
  <2> QED BY <2>1 DEF Settled
<1> QED BY <1>1, TidyInductive, PTL

\* No cache and no resolved name leads to a unit whose trees went with the map of
\* compiled sources that did not take it in.
THEOREM AllLive == Spec => []NothingDangles
<1>1. ASSUME IInv, TidyInv, fs \notin Mistaken, NEW u \in Used \ {None} PROVE ~units[u].dead
  <2>1. Settled(units, exported) BY <1>1 DEF TidyInv
  <2>2. /\ \A cache \in {compiled, declarative, trees, exported} : cache \in [Path -> 0 .. Len(units)]
        /\ units \in Seq(UnitRecord)
    BY <1>1 DEF IInv, TypeOK
  <2>3. Len(units) \in Nat BY <2>2, LenProperties
  <2>4. u \in 0 .. Len(units)
    <3>1. CASE \E cache \in {compiled, declarative, trees, exported} : \E p \in Path : u = cache[p]
      BY <2>2, <3>1
    <3>2. CASE \E v \in 1 .. Len(units) : \E p \in Path : u = units[v].links[p]
      <4>1. \A p \in Path : exported[p] \in 0 .. Len(units) BY <2>2
      <4> QED BY <1>1, <2>1, <3>2, <4>1 DEF Settled
    <3>3. CASE \E v \in 1 .. Len(units) : \E n \in Entry : u = units[v].scripts[n]
      BY <2>1, <3>3 DEF Settled
    <3>4. \/ \E S \in { { cache[p] : p \in Path } : cache \in {compiled, declarative, trees, exported} } :
                u \in S
          \/ \E S \in { { units[v].links[p] : p \in Path } \union { units[v].scripts[n] : n \in Entry } :
                          v \in 1 .. Len(units) } : u \in S
      BY <1>1, Zenon DEF Used
    <3>5. \/ \E cache \in {compiled, declarative, trees, exported} : u \in { cache[p] : p \in Path }
          \/ \E v \in 1 .. Len(units) :
               u \in { units[v].links[p] : p \in Path } \union { units[v].scripts[n] : n \in Entry }
      BY <3>4, Zenon
    <3> QED BY <3>1, <3>2, <3>3, <3>5, Zenon
  <2>5. u \in 1 .. Len(units) BY <1>1, <2>3, <2>4 DEF None
  <2> QED BY <2>1, <2>5 DEF Settled
<1>2. IInv /\ TidyInv => NothingDangles BY <1>1 DEF NothingDangles
<1> QED BY <1>2, TidyInductive, PTL
====
