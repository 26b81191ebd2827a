---- MODULE TypingProofs ----
(***************************************************************************)
(* What semantic analysis lets through can be evaluated, in every careful  *)
(* script: the alternative a handler of builtin_function_caller reads is   *)
(* the one that the variant holds, variables and expressions hold values   *)
(* of their static types, and references outlive what they are bound to.   *)
(* The tables of declarations and of handlers agree, family by family; a   *)
(* sound expression stays sound in every step of an evaluation.            *)
(***************************************************************************)
EXTENDS Typing, TLAPS

(* ----- shapes of types ------------------------------------------------- *)
Builtins == {"void", "bool", "int", "double", "string", "version", "library", "executable", "project",
  "option", "cxx_compiler_info", "system_info", "cxx_compiler_id", "cxx_standard_value", "visibility",
  "system_id"}
Tokens == STRING \union Builtins \union {"list", "extern"}
Places == STRING \union {"builtin"}
Shapes == [name : Seq(Tokens), scope : Places, ref : {FALSE}]

LEMMA Singleton ==
  ASSUME NEW S, NEW x \in S
  PROVE  <<x>> \in Seq(S) /\ <<x>>[1] = x
OBVIOUS

LEMMA ShapeIs ==
  ASSUME NEW n \in Seq(Tokens), NEW p \in Places
  PROVE  [name |-> n, scope |-> p, ref |-> FALSE] \in Shapes
BY Zenon DEF Shapes

LEMMA FieldsOfType ==
  ASSUME NEW n, NEW p, NEW r, NEW T, T = [name |-> n, scope |-> p, ref |-> r]
  PROVE  T.name = n /\ T.scope = p /\ T.ref = r
OBVIOUS

LEMMA NamedShape ==
  ASSUME NEW n \in Tokens
  PROVE  /\ Named(<<n>>) \in Shapes
         /\ Named(<<n>>).name = <<n>> /\ Named(<<n>>).name[1] = n /\ Named(<<n>>).scope = "builtin"
<1> DEFINE s == <<n>>
<1>1. s \in Seq(Tokens) /\ s[1] = n BY Singleton
<1> HIDE DEF s
<1>2. Named(s) \in Shapes /\ Named(s).name = s /\ Named(s).scope = "builtin"
  <2>1. Named(s) = [name |-> s, scope |-> "builtin", ref |-> FALSE] BY DEF Named
  <2>2. Named(s).name = s /\ Named(s).scope = "builtin" BY <2>1
  <2>3. "builtin" \in Places BY DEF Places
  <2> QED BY <1>1, <2>1, <2>2, <2>3, ShapeIs
<1> QED BY <1>1, <1>2 DEF s

LEMMA Changed ==
  ASSUME NEW n, NEW p, NEW r, NEW x, NEW T, T = [name |-> n, scope |-> p, ref |-> r]
  PROVE  /\ [T EXCEPT !.name = x] = [name |-> x, scope |-> p, ref |-> r]
         /\ [T EXCEPT !.ref = x] = [name |-> n, scope |-> p, ref |-> x]
OBVIOUS

LEMMA Referred ==
  ASSUME NEW n, NEW p, NEW r, NEW T, T = [name |-> n, scope |-> p, ref |-> r]
  PROVE  /\ Ref(T) = [name |-> n, scope |-> p, ref |-> TRUE]
         /\ Decayed(T) = [name |-> n, scope |-> p, ref |-> FALSE]
<1>1. \A x : [T EXCEPT !.ref = x] = [name |-> n, scope |-> p, ref |-> x] BY Changed
<1> QED BY <1>1, Zenon DEF Ref, Decayed

LEMMA RefOfShape ==
  ASSUME NEW T \in Shapes
  PROVE  /\ ~T.ref /\ Decayed(T) = T
         /\ Ref(T).ref /\ Ref(T).name = T.name /\ Decayed(Ref(T)) = T
<1> DEFINE n == T.name
           p == T.scope
<1>1. T = [name |-> n, scope |-> p, ref |-> FALSE] BY DEF Shapes
<1> HIDE DEF n, p
<1>2. Ref(T) = [name |-> n, scope |-> p, ref |-> TRUE] BY <1>1, Referred
<1>3. Decayed(T) = [name |-> n, scope |-> p, ref |-> FALSE] BY <1>1, Referred
<1>4. Decayed(Ref(T)) = [name |-> n, scope |-> p, ref |-> FALSE] BY <1>2, Referred
<1>5. ~T.ref /\ T.name = n BY <1>1, FieldsOfType, Zenon
<1>6. Ref(T).ref /\ Ref(T).name = n BY <1>2
<1> QED BY <1>1, <1>3, <1>4, <1>5, <1>6

LEMMA TailOfPrepended ==
  ASSUME NEW S, NEW x \in S, NEW s \in Seq(S)
  PROVE  /\ <<x>> \o s \in Seq(S) /\ (<<x>> \o s)[1] = x /\ Tail(<<x>> \o s) = s
<1> DEFINE n == <<x>> \o s
<1>1. n \in Seq(S) /\ Len(n) = Len(s) + 1 /\ n[1] = x /\ \A i \in 1..Len(s) : n[i + 1] = s[i]
  OBVIOUS
<1>2. n # <<>> /\ Len(s) \in Nat BY <1>1
<1>3. Tail(n) \in Seq(S) /\ Len(Tail(n)) = Len(s) /\ \A i \in 1..Len(s) : Tail(n)[i] = n[i + 1]
  BY <1>1, <1>2
<1>4. s = [i \in 1..Len(s) |-> s[i]] /\ Tail(n) = [i \in 1..Len(s) |-> Tail(n)[i]]
  BY <1>3
<1> QED BY <1>1, <1>3, <1>4

LEMMA PrefixedShape ==
  ASSUME NEW T \in Shapes, NEW token \in Tokens,
         NEW L, L = [T EXCEPT !.name = <<token>> \o @]
  PROVE  L \in Shapes /\ L.name[1] = token /\ ValueType(L) = T
<1> DEFINE m == T.name
           p == T.scope
           n == <<token>> \o m
<1>1. m \in Seq(Tokens) /\ p \in Places BY DEF Shapes
<1>2. n \in Seq(Tokens) /\ n[1] = token /\ Tail(n) = m BY <1>1, TailOfPrepended
<1>3. T = [name |-> m, scope |-> p, ref |-> FALSE] BY DEF Shapes
<1>4. L = [T EXCEPT !.name = n] OBVIOUS
<1> HIDE DEF m, p, n
<1>5. L = [name |-> n, scope |-> p, ref |-> FALSE] BY <1>3, <1>4, Changed
<1>6. ValueType(L) = [L EXCEPT !.name = m]
  <2>1. L.name = n BY <1>5
  <2> QED BY <2>1, <1>2 DEF ValueType
<1>7. ValueType(L) = T BY <1>3, <1>5, <1>6, Changed
<1>8. L \in Shapes BY <1>1, <1>2, <1>5, ShapeIs
<1>9. L.name[1] = token
  <2>1. L.name = n BY <1>5
  <2> QED BY <2>1, <1>2
<1> QED BY <1>7, <1>8, <1>9

(* ----- the types of a script ------------------------------------------- *)
UserTypes == DOMAIN Classes \union DOMAIN UserEnums

LEMMA KnownCases ==
  ASSUME NEW T \in KnownTypes
  PROVE  \/ \E n \in Builtins : T = Named(<<n>>)
         \/ T \in UserTypes
         \/ \E U \in ElementTypes \union {String} : T = List(U)
         \/ \E U \in ExternTypes : T = Extern(U)
<1>1. CASE T \in {Bool, Int, Double, String, Version, Library, Executable, Project, Option, Void,
                  CompilerInfo, SystemInfo} \union BuiltinEnums
  <2>1. \E n \in Builtins : T = Named(<<n>>)
    BY <1>1 DEF Bool, Int, Double, String, Version, Library, Executable, Project, Option, Void,
                CompilerInfo, SystemInfo, BuiltinEnums, CompilerId, StandardValue, Visibility, SystemId,
                Builtins
  <2> QED BY <2>1
<1> QED BY <1>1 DEF KnownTypes, Types, Enums, UserTypes, Strings

LEMMA BuiltinShape ==
  ASSUME NEW n \in Builtins
  PROVE  /\ Named(<<n>>) \in Shapes
         /\ Named(<<n>>).name[1] = n /\ Named(<<n>>).scope = "builtin"
         /\ Named(<<n>>) \notin UserTypes
<1>1. n \in Tokens BY DEF Tokens
<1>2. Named(<<n>>) \in Shapes /\ Named(<<n>>).name[1] = n /\ Named(<<n>>).scope = "builtin"
  BY <1>1, NamedShape
<1> QED BY <1>2, TypingAssumption DEF UserTypes

LEMMA UserShape ==
  ASSUME NEW T \in UserTypes
  PROVE  /\ T \in Shapes /\ T.scope # "builtin" /\ T.name = <<T.name[1]>>
         /\ T.name[1] \notin Keywords \union Operators
<1> DEFINE n == T.name[1]
           p == T.scope
<1>1. /\ T = UserType(n, p) /\ n \in STRING /\ p \in STRING /\ p # "builtin"
      /\ n \notin Keywords \union Operators
  BY TypingAssumption DEF UserTypes
<1>2. n \in Tokens /\ p \in Places BY <1>1 DEF Tokens, Places
<1> DEFINE s == <<n>>
<1>3. s \in Seq(Tokens) BY <1>2, Singleton
<1>4. T = [name |-> s, scope |-> p, ref |-> FALSE] BY <1>1 DEF UserType
<1> HIDE DEF s, p
<1>5. T \in Shapes BY <1>2, <1>3, <1>4, ShapeIs
<1>6. T.name = s BY <1>4
<1> USE DEF s, p
<1> QED BY <1>1, <1>5, <1>6

LEMMA ElementShape ==
  ASSUME NEW U \in ElementTypes \union {String} \union ExternTypes
  PROVE  U \in Shapes
<1>1. String \in Shapes /\ Bool \in Shapes /\ Int \in Shapes /\ Double \in Shapes
  BY BuiltinShape DEF String, Bool, Int, Double, Builtins
<1>2. ASSUME U \in ElementTypes PROVE U \in Shapes
  <2> DEFINE n == U.name
             p == U.scope
  <2>1. U \in [name : Seq(STRING), scope : STRING, ref : {FALSE}] BY <1>2, TypingAssumption
  <2>2. U = [name |-> n, scope |-> p, ref |-> FALSE] /\ n \in Seq(STRING) /\ p \in STRING
    BY <2>1
  <2>3. n \in Seq(Tokens) /\ p \in Places BY <2>2 DEF Tokens, Places
  <2> QED BY <2>2, <2>3, ShapeIs
<1> QED BY <1>1, <1>2 DEF ExternTypes

LEMMA ListShape ==
  ASSUME NEW U \in ElementTypes \union {String}
  PROVE  /\ List(U) \in Shapes /\ List(U).name[1] = "list" /\ ValueType(List(U)) = U
         /\ List(U) \notin UserTypes
<1>1. U \in Shapes /\ "list" \in Tokens BY ElementShape DEF Tokens
<1>2. List(U) \in Shapes /\ List(U).name[1] = "list" /\ ValueType(List(U)) = U
  BY <1>1, PrefixedShape DEF List
<1> QED BY <1>2, UserShape DEF Keywords

LEMMA ExternShape ==
  ASSUME NEW U \in ExternTypes
  PROVE  /\ Extern(U) \in Shapes /\ Extern(U).name[1] = "extern" /\ ValueType(Extern(U)) = U
         /\ Extern(U) \notin UserTypes
<1>1. U \in Shapes /\ "extern" \in Tokens BY ElementShape DEF Tokens
<1>2. Extern(U) \in Shapes /\ Extern(U).name[1] = "extern" /\ ValueType(Extern(U)) = U
  BY <1>1, PrefixedShape DEF Extern
<1> QED BY <1>2, UserShape DEF Keywords

LEMMA KnownShape ==
  ASSUME NEW T \in KnownTypes
  PROVE  T \in Shapes
BY KnownCases, BuiltinShape, UserShape, ListShape, ExternShape

(* ----- the alternative that instances of a type hold ------------------- *)
LEMMA BuiltinsDiffer ==
  ASSUME NEW n \in Builtins, NEW m \in Builtins, Named(<<n>>) = Named(<<m>>)
  PROVE  n = m
BY BuiltinShape

LEMMA MembersOfTypes ==
  /\ \A C \in DOMAIN Classes : MembersOf(C) = Classes[C]
  /\ MembersOf(CompilerInfo) = {CompilerId} /\ MembersOf(SystemInfo) = {SystemId}
  /\ \A T : T \notin DOMAIN Classes \union {CompilerInfo, SystemInfo} => MembersOf(T) = {}
<1>1. /\ CompilerInfo = Named(<<"cxx_compiler_info">>) /\ SystemInfo = Named(<<"system_info">>)
      /\ "cxx_compiler_info" \in Builtins /\ "system_info" \in Builtins
  BY DEF CompilerInfo, SystemInfo, Builtins
<1>2. CompilerInfo # SystemInfo BY <1>1, BuiltinsDiffer
<1>3. CompilerInfo \notin DOMAIN Classes /\ SystemInfo \notin DOMAIN Classes
  BY <1>1, BuiltinShape DEF UserTypes
<1> QED BY <1>2, <1>3 DEF MembersOf

LEMMA HeldByUserTypes ==
  ASSUME Careful
  PROVE  /\ \A C \in DOMAIN Classes : HeldBy(C) = "members"
         /\ \A E \in DOMAIN UserEnums : HeldBy(E) = "enum" /\ ~IsComplex(E)
<1>1. ASSUME NEW C \in DOMAIN Classes PROVE HeldBy(C) = "members"
  <2>1. C \notin BuiltinEnums
    <3>1. C.scope # "builtin" BY UserShape DEF UserTypes
    <3>2. \A E \in BuiltinEnums : E.scope = "builtin"
      BY BuiltinShape DEF BuiltinEnums, CompilerId, StandardValue, Visibility, SystemId, Builtins
    <3> QED BY <3>1, <3>2
  <2>2. C \notin DOMAIN UserEnums BY DEF Careful, TypesApart
  <2>3. C # Void BY BuiltinShape DEF Void, Builtins, UserTypes
  <2> QED BY <2>1, <2>2, <2>3 DEF HeldBy, Enums
<1>2. ASSUME NEW E \in DOMAIN UserEnums PROVE HeldBy(E) = "enum" /\ ~IsComplex(E)
  <2>1. E \notin DOMAIN Classes BY DEF Careful, TypesApart
  <2>2. E # CompilerInfo /\ E # SystemInfo /\ E # Void
    BY BuiltinShape DEF CompilerInfo, SystemInfo, Void, Builtins, UserTypes
  <2>3. ~IsComplex(E) BY <2>1, <2>2, MembersOfTypes DEF IsComplex
  <2> QED BY <2>1, <2>2, <2>3 DEF HeldBy, Enums
<1> QED BY <1>1, <1>2

LEMMA BuiltinEnumNames ==
  \A E \in BuiltinEnums : \E n \in {"cxx_compiler_id", "cxx_standard_value", "visibility", "system_id"} :
    E = Named(<<n>>)
BY DEF BuiltinEnums, CompilerId, StandardValue, Visibility, SystemId

LEMMA HeldByBuiltins ==
  ASSUME NEW n \in Builtins
  PROVE  LET T == Named(<<n>>) IN
         /\ n \in {"bool", "int", "double", "string", "version", "library", "executable", "project", "option"}
            => HeldBy(T) = n /\ ~IsComplex(T)
         /\ n \in {"cxx_compiler_id", "cxx_standard_value", "visibility", "system_id"}
            => HeldBy(T) = "enum" /\ ~IsComplex(T)
         /\ n = "void" => HeldBy(T) = "bool" /\ ~IsComplex(T)
         /\ n \in {"cxx_compiler_info", "system_info"} => HeldBy(T) = "members" /\ IsComplex(T)
<1> DEFINE T == Named(<<n>>)
<1>1. T \notin UserTypes /\ T.name[1] = n BY BuiltinShape
<1>2. T = CompilerInfo <=> n = "cxx_compiler_info"
  BY BuiltinsDiffer DEF CompilerInfo, Builtins
<1>3. T = SystemInfo <=> n = "system_info"
  BY BuiltinsDiffer DEF SystemInfo, Builtins
<1>4. T = Void <=> n = "void"
  BY BuiltinsDiffer DEF Void, Builtins
<1>5. T \in BuiltinEnums <=> n \in {"cxx_compiler_id", "cxx_standard_value", "visibility", "system_id"}
  <2>1. n \in {"cxx_compiler_id", "cxx_standard_value", "visibility", "system_id"} => T \in BuiltinEnums
    BY DEF BuiltinEnums, CompilerId, StandardValue, Visibility, SystemId
  <2>2. T \in BuiltinEnums => n \in {"cxx_compiler_id", "cxx_standard_value", "visibility", "system_id"}
    BY BuiltinEnumNames, BuiltinsDiffer DEF Builtins
  <2> QED BY <2>1, <2>2
<1>6. IsComplex(T) <=> n \in {"cxx_compiler_info", "system_info"}
  BY <1>1, <1>2, <1>3, MembersOfTypes DEF IsComplex, UserTypes
<1> HIDE DEF T
<1>7. T \in Enums <=> n \in {"cxx_compiler_id", "cxx_standard_value", "visibility", "system_id"}
  BY <1>1, <1>5 DEF Enums, UserTypes
<1>8. n \in {"bool", "int", "double", "string", "version", "library", "executable", "project", "option"}
      => HeldBy(T) = n
  BY <1>1, <1>4, <1>6, <1>7 DEF HeldBy, UserTypes
<1>9. n \in {"cxx_compiler_id", "cxx_standard_value", "visibility", "system_id"} => HeldBy(T) = "enum"
  BY <1>1, <1>4, <1>6, <1>7 DEF HeldBy, UserTypes
<1>10. n = "void" => HeldBy(T) = "bool"
  BY <1>1, <1>4, <1>6, <1>7 DEF HeldBy, UserTypes
<1>11. n \in {"cxx_compiler_info", "system_info"} => HeldBy(T) = "members"
  BY <1>1, <1>4, <1>6, <1>7 DEF HeldBy, UserTypes
<1> QED BY <1>6, <1>8, <1>9, <1>10, <1>11 DEF T

\* What the tables of functions and handlers say, in the terms of their types.
LEMMA Alternatives ==
  /\ HeldBy(Bool) = "bool" /\ HeldBy(Int) = "int" /\ HeldBy(Double) = "double"
  /\ HeldBy(String) = "string" /\ HeldBy(Version) = "version" /\ HeldBy(Library) = "library"
  /\ HeldBy(Executable) = "executable" /\ HeldBy(Project) = "project" /\ HeldBy(Option) = "option"
  /\ HeldBy(Void) = "bool" /\ HeldBy(Visibility) = "enum"
  /\ HeldBy(CompilerInfo) = "members" /\ HeldBy(SystemInfo) = "members"
BY HeldByBuiltins DEF Bool, Int, Double, String, Version, Library, Executable, Project, Option, Void,
                      Visibility, CompilerInfo, SystemInfo, Builtins

LEMMA HeldByPrefixed ==
  /\ \A U \in ElementTypes \union {String} : HeldBy(List(U)) = "list" /\ ~IsComplex(List(U))
  /\ \A U \in ExternTypes : HeldBy(Extern(U)) = "extern" /\ ~IsComplex(Extern(U))
<1>1. ASSUME NEW T, T \notin UserTypes, T.name[1] \in {"list", "extern"}
      PROVE  HeldBy(T) = T.name[1] /\ ~IsComplex(T)
  <2>1. \A n \in Builtins : T # Named(<<n>>) BY <1>1, BuiltinShape DEF Builtins
  <2>2. T \notin BuiltinEnums /\ T # Void /\ T # CompilerInfo /\ T # SystemInfo
    BY <2>1, BuiltinEnumNames DEF Void, CompilerInfo, SystemInfo, Builtins
  <2>3. ~IsComplex(T) BY <1>1, <2>2, MembersOfTypes DEF IsComplex, UserTypes
  <2> QED BY <1>1, <2>2, <2>3 DEF HeldBy, Enums, UserTypes
<1> QED BY <1>1, ListShape, ExternShape

(* ----- the tables ------------------------------------------------------ *)
\* The fields of the entries of both tables.
LEMMA Fields ==
  /\ \A k, n, p, r : /\ Fn(k, n, p, r).kind = k /\ Fn(k, n, p, r).name = n
                     /\ Fn(k, n, p, r).params = p /\ Fn(k, n, p, r).result = r
  /\ \A r, ks, rd, a, st : LET h == Returning(r, ks, rd, a, st) IN
       h.kinds = ks /\ h.reads = rd /\ h.args = a /\ h.stores = st /\ h.result = r
  /\ \A ks, a, st : LET h == Constructing(ks, a, st) IN
       h.kinds = ks /\ h.reads = "any" /\ h.args = a /\ h.stores = st /\ h.result = "receiver"
  /\ \A ks, rd, a, st : LET h == Changing(ks, rd, a, st) IN
       /\ h.kinds = ks /\ h.reads = rd /\ h.args = a /\ h.stores = st
       /\ h.result = "reference_to_receiver"
  /\ \A r, ks, rd, a : LET h == Making(r, ks, rd, a) IN
       h.kinds = ks /\ h.reads = rd /\ h.args = a /\ h.stores = "same" /\ h.result = r
  /\ \A ks, rd, a : LET h == Acting(ks, rd, a) IN
       h.kinds = ks /\ h.reads = rd /\ h.args = a /\ h.stores = "same" /\ h.result = "bool"
<1>1. \A k, n, p, r : /\ Fn(k, n, p, r).kind = k /\ Fn(k, n, p, r).name = n
                      /\ Fn(k, n, p, r).params = p /\ Fn(k, n, p, r).result = r
  BY DEF Fn
<1>2. \A r, ks, rd, a, st : LET h == Returning(r, ks, rd, a, st) IN
        h.kinds = ks /\ h.reads = rd /\ h.args = a /\ h.stores = st /\ h.result = r
  BY DEF Returning
<1>3. \A ks, a, st : LET h == Constructing(ks, a, st) IN
        h.kinds = ks /\ h.reads = "any" /\ h.args = a /\ h.stores = st /\ h.result = "receiver"
  BY <1>2 DEF Constructing
<1>4. \A ks, rd, a, st : LET h == Changing(ks, rd, a, st) IN
        /\ h.kinds = ks /\ h.reads = rd /\ h.args = a /\ h.stores = st
        /\ h.result = "reference_to_receiver"
  BY <1>2 DEF Changing
<1>5. \A r, ks, rd, a : LET h == Making(r, ks, rd, a) IN
        h.kinds = ks /\ h.reads = rd /\ h.args = a /\ h.stores = "same" /\ h.result = r
  BY <1>2 DEF Making
<1>6. \A ks, rd, a : LET h == Acting(ks, rd, a) IN
        h.kinds = ks /\ h.reads = rd /\ h.args = a /\ h.stores = "same" /\ h.result = "bool"
  BY <1>5 DEF Acting
<1> QED BY <1>1, <1>2, <1>3, <1>4, <1>5, <1>6

\* The kinds of functions, by the type they are of.
BoolKinds == {
  "bool_ctor", "bool_ctor_bool", "bool_ctor_int", "bool_operator_equal",
  "bool_operator_equal_equal", "bool_operator_pipe_pipe", "bool_operator_amp_amp",
  "bool_operator_unary_exclaim", "bool_to_string"}
IntKinds == {
  "int_ctor", "int_ctor_bool", "int_ctor_int", "int_ctor_double", "int_to_string",
  "int_operator_plus", "int_operator_unary_plusplus", "int_operator_minus",
  "int_operator_unary_minus", "int_operator_unary_minusminus", "int_operator_star",
  "int_operator_slash", "int_operator_equal", "int_operator_plus_equal",
  "int_operator_minus_equal", "int_operator_star_equal", "int_operator_slash_equal",
  "int_operator_less", "int_operator_less_equal", "int_operator_greater",
  "int_operator_greater_equal", "int_operator_equal_equal"}
DoubleKinds == {
  "double_ctor", "double_ctor_double", "double_ctor_int", "double_operator_plus",
  "double_operator_unary_plusplus", "double_operator_minus", "double_operator_unary_minus",
  "double_operator_unary_minusminus", "double_operator_star", "double_operator_slash",
  "double_operator_equal", "double_operator_plus_equal", "double_operator_minus_equal",
  "double_operator_star_equal", "double_operator_slash_equal", "double_operator_less",
  "double_operator_less_equal", "double_operator_greater", "double_operator_greater_equal",
  "double_to_string"}
StringKinds == {
  "string_ctor", "string_ctor_string", "string_ctor_string_count", "string_empty",
  "string_size", "string_operator_equal_equal", "string_operator_not_equal",
  "string_operator_less", "string_operator_less_equal", "string_operator_greater",
  "string_operator_greater_equal", "string_operator_plus", "string_operator_plus_equal",
  "string_operator_slash", "string_operator_slash_equal", "string_clear",
  "string_insert_pos_str", "string_erase_pos", "string_erase_pos_count", "string_starts_with",
  "string_ends_with", "string_replace_pos_count_str", "string_substr_pos",
  "string_substr_pos_count", "string_resize_newsize", "string_resize_newsize_fill",
  "string_find_str", "string_find_str_pos", "string_find_not_of_str",
  "string_find_not_of_str_pos", "string_find_last_str", "string_find_last_not_of_str",
  "string_contains", "string_lower", "string_make_lower", "string_upper", "string_make_upper"}
VersionKinds == {
  "version_ctor_major", "version_ctor_major_minor", "version_ctor_major_minor_patch",
  "version_ctor_major_minor_patch_tweak", "version_operator_equal_equal",
  "version_operator_not_equal", "version_operator_less", "version_operator_less_equal",
  "version_operator_greater", "version_operator_greater_equal", "version_major",
  "version_minor", "version_patch", "version_tweak", "version_to_string"}
LibraryKinds == {
  "library_name", "library_link_to", "library_link_to_visibility",
  "library_include_directories", "library_include_directories_visibility",
  "library_compile_definitions", "library_compile_definitions_visibility",
  "library_compile_options", "library_compile_options_visibility", "library_add_sources",
  "library_add_sources_visibility"}
ExecutableKinds == {
  "executable_name", "executable_link_to", "executable_link_to_visibility",
  "executable_include_directories", "executable_include_directories_visibility",
  "executable_compile_definitions", "executable_compile_definitions_visibility",
  "executable_compile_options", "executable_compile_options_visibility",
  "executable_add_sources", "executable_add_sources_visibility"}
ProjectKinds == {
  "project_ctor_name", "project_name", "project_add_executable", "project_add_library",
  "project_find_library"}
OptionKinds == {
  "option_ctor_description", "option_ctor_description_value", "option_value"}
EnumKinds == {
  "enum_to_string", "enum_operator_equalequal", "enum_operator_exclaimequal",
  "enum_operator_equal"}
ExternKinds == {
  "extern_constructor_name", "extern_has_value", "extern_value"}
ListKinds == {
  "list_ctor", "list_push_back_value", "list_push_back_list", "list_push_front_value",
  "list_push_front_list", "list_pop_back", "list_pop_front", "list_at", "list_front",
  "list_back", "list_insert_pos_value", "list_insert_pos_list", "list_erase_pos",
  "list_erase_pos_count", "list_remove_value", "list_remove_value_count",
  "list_remove_last_value_count", "list_clear", "list_resize", "list_sort", "list_reverse",
  "list_min", "list_max", "list_sublist_pos", "list_sublist_pos_count", "list_size",
  "list_empty", "list_find_value", "list_find_value_pos", "list_operator_plus_value",
  "list_operator_plus_list", "list_operator_plus_equal_value", "list_operator_plus_equal_list"}
ClassKinds == {
  "user_type_operator_equal"}
CMakeKinds == {
  "cmake_minimum_required", "cmake_message", "cmake_warning", "cmake_error",
  "cmake_fatal_error", "cmake_get_cxx_compiler_info", "cmake_install_executable",
  "cmake_install_executable_destination", "cmake_install_library",
  "cmake_install_library_destination", "cmake_enable_ctest", "cmake_add_test",
  "cmake_root_source_dir", "cmake_current_binary_dir", "cmake_current_source_dir",
  "cmake_add_custom_command", "cmake_make_directory", "cmake_set_old_style_variable",
  "cmake_get_old_style_variable", "cmake_get_system_info", "cmake_add_custom_target",
  "cmake_ctest_command"}

LEMMA FamiliesDiffer ==
  /\ BoolKinds \intersect (IntKinds \union DoubleKinds \union StringKinds \union VersionKinds
                           \union LibraryKinds \union ExecutableKinds \union ProjectKinds \union
                           OptionKinds \union EnumKinds \union ExternKinds \union ListKinds \union
                           ClassKinds \union CMakeKinds) = {}
  /\ IntKinds \intersect (DoubleKinds \union StringKinds \union VersionKinds \union LibraryKinds
                          \union ExecutableKinds \union ProjectKinds \union OptionKinds \union
                          EnumKinds \union ExternKinds \union ListKinds \union ClassKinds \union
                          CMakeKinds) = {}
  /\ DoubleKinds \intersect (StringKinds \union VersionKinds \union LibraryKinds \union
                             ExecutableKinds \union ProjectKinds \union OptionKinds \union
                             EnumKinds \union ExternKinds \union ListKinds \union ClassKinds
                             \union CMakeKinds) = {}
  /\ StringKinds \intersect (VersionKinds \union LibraryKinds \union ExecutableKinds \union
                             ProjectKinds \union OptionKinds \union EnumKinds \union ExternKinds
                             \union ListKinds \union ClassKinds \union CMakeKinds) = {}
  /\ VersionKinds \intersect (LibraryKinds \union ExecutableKinds \union ProjectKinds \union
                              OptionKinds \union EnumKinds \union ExternKinds \union ListKinds
                              \union ClassKinds \union CMakeKinds) = {}
  /\ LibraryKinds \intersect (ExecutableKinds \union ProjectKinds \union OptionKinds \union
                              EnumKinds \union ExternKinds \union ListKinds \union ClassKinds
                              \union CMakeKinds) = {}
  /\ ExecutableKinds \intersect (ProjectKinds \union OptionKinds \union EnumKinds \union
                                 ExternKinds \union ListKinds \union ClassKinds \union CMakeKinds)
                                 = {}
  /\ ProjectKinds \intersect (OptionKinds \union EnumKinds \union ExternKinds \union ListKinds
                              \union ClassKinds \union CMakeKinds) = {}
  /\ OptionKinds \intersect (EnumKinds \union ExternKinds \union ListKinds \union ClassKinds
                             \union CMakeKinds) = {}
  /\ EnumKinds \intersect (ExternKinds \union ListKinds \union ClassKinds \union CMakeKinds) = {}
  /\ ExternKinds \intersect (ListKinds \union ClassKinds \union CMakeKinds) = {}
  /\ ListKinds \intersect (ClassKinds \union CMakeKinds) = {}
  /\ ClassKinds \intersect (CMakeKinds) = {}
<1>1. BoolKinds \intersect (IntKinds \union DoubleKinds \union StringKinds \union VersionKinds
                            \union LibraryKinds \union ExecutableKinds \union ProjectKinds \union
                            OptionKinds \union EnumKinds \union ExternKinds \union ListKinds
                            \union ClassKinds \union CMakeKinds) = {}
  BY DEF BoolKinds, IntKinds, DoubleKinds, StringKinds, VersionKinds, LibraryKinds,
         ExecutableKinds, ProjectKinds, OptionKinds, EnumKinds, ExternKinds, ListKinds,
         ClassKinds, CMakeKinds
<1>2. IntKinds \intersect (DoubleKinds \union StringKinds \union VersionKinds \union LibraryKinds
                           \union ExecutableKinds \union ProjectKinds \union OptionKinds \union
                           EnumKinds \union ExternKinds \union ListKinds \union ClassKinds \union
                           CMakeKinds) = {}
  BY DEF IntKinds, DoubleKinds, StringKinds, VersionKinds, LibraryKinds, ExecutableKinds,
         ProjectKinds, OptionKinds, EnumKinds, ExternKinds, ListKinds, ClassKinds, CMakeKinds
<1>3. DoubleKinds \intersect (StringKinds \union VersionKinds \union LibraryKinds \union
                              ExecutableKinds \union ProjectKinds \union OptionKinds \union
                              EnumKinds \union ExternKinds \union ListKinds \union ClassKinds
                              \union CMakeKinds) = {}
  BY DEF DoubleKinds, StringKinds, VersionKinds, LibraryKinds, ExecutableKinds, ProjectKinds,
         OptionKinds, EnumKinds, ExternKinds, ListKinds, ClassKinds, CMakeKinds
<1>4. StringKinds \intersect (VersionKinds \union LibraryKinds \union ExecutableKinds \union
                              ProjectKinds \union OptionKinds \union EnumKinds \union ExternKinds
                              \union ListKinds \union ClassKinds \union CMakeKinds) = {}
  BY DEF StringKinds, VersionKinds, LibraryKinds, ExecutableKinds, ProjectKinds, OptionKinds,
         EnumKinds, ExternKinds, ListKinds, ClassKinds, CMakeKinds
<1>5. VersionKinds \intersect (LibraryKinds \union ExecutableKinds \union ProjectKinds \union
                               OptionKinds \union EnumKinds \union ExternKinds \union ListKinds
                               \union ClassKinds \union CMakeKinds) = {}
  BY DEF VersionKinds, LibraryKinds, ExecutableKinds, ProjectKinds, OptionKinds, EnumKinds,
         ExternKinds, ListKinds, ClassKinds, CMakeKinds
<1>6. LibraryKinds \intersect (ExecutableKinds \union ProjectKinds \union OptionKinds \union
                               EnumKinds \union ExternKinds \union ListKinds \union ClassKinds
                               \union CMakeKinds) = {}
  BY DEF LibraryKinds, ExecutableKinds, ProjectKinds, OptionKinds, EnumKinds, ExternKinds,
         ListKinds, ClassKinds, CMakeKinds
<1>7. ExecutableKinds \intersect (ProjectKinds \union OptionKinds \union EnumKinds \union
                                  ExternKinds \union ListKinds \union ClassKinds \union
                                  CMakeKinds) = {}
  BY DEF ExecutableKinds, ProjectKinds, OptionKinds, EnumKinds, ExternKinds, ListKinds,
         ClassKinds, CMakeKinds
<1>8. ProjectKinds \intersect (OptionKinds \union EnumKinds \union ExternKinds \union ListKinds
                               \union ClassKinds \union CMakeKinds) = {}
  BY DEF ProjectKinds, OptionKinds, EnumKinds, ExternKinds, ListKinds, ClassKinds, CMakeKinds
<1>9. OptionKinds \intersect (EnumKinds \union ExternKinds \union ListKinds \union ClassKinds
                              \union CMakeKinds) = {}
  BY DEF OptionKinds, EnumKinds, ExternKinds, ListKinds, ClassKinds, CMakeKinds
<1>10. EnumKinds \intersect (ExternKinds \union ListKinds \union ClassKinds \union CMakeKinds) =
                             {}
  BY DEF EnumKinds, ExternKinds, ListKinds, ClassKinds, CMakeKinds
<1>11. ExternKinds \intersect (ListKinds \union ClassKinds \union CMakeKinds) = {}
  BY DEF ExternKinds, ListKinds, ClassKinds, CMakeKinds
<1>12. ListKinds \intersect (ClassKinds \union CMakeKinds) = {}
  BY DEF ListKinds, ClassKinds, CMakeKinds
<1>13. ClassKinds \intersect (CMakeKinds) = {}
  BY DEF ClassKinds, CMakeKinds
<1> QED BY <1>1, <1>2, <1>3, <1>4, <1>5, <1>6, <1>7, <1>8, <1>9, <1>10, <1>11, <1>12, <1>13

\* The cases of a family are for its functions, which have cases of their own.
LEMMA BoolCases ==
  /\ \A h \in CallBool : h.kinds \subseteq BoolKinds
  /\ \A f \in OfBool : f.kind \in BoolKinds
  /\ \A f \in OfBool :
       f.kind \notin NotHandled => \E h \in CallBool : f.kind \in h.kinds
<1>1. \A h \in CallBool : h.kinds \subseteq BoolKinds
  BY Fields DEF CallBool, BoolKinds
<1>2. \A f \in OfBool : f.kind \in BoolKinds
  BY Fields DEF OfBool, BoolKinds
<1>3. \A f \in OfBool :
        f.kind \notin NotHandled => \E h \in CallBool : f.kind \in h.kinds
  BY Fields DEF OfBool, NotHandled, CallBool
<1> QED BY <1>1, <1>2, <1>3

LEMMA IntCases ==
  /\ \A h \in CallInt \union CompareInt : h.kinds \subseteq IntKinds
  /\ \A f \in OfInt : f.kind \in IntKinds
  /\ \A f \in OfInt :
       f.kind \notin NotHandled => \E h \in CallInt \union CompareInt : f.kind \in h.kinds
<1>1. \A h \in CallInt : h.kinds \subseteq IntKinds
  BY Fields DEF CallInt, IntKinds
<1>2. \A h \in CompareInt : h.kinds \subseteq IntKinds
  BY Fields DEF CompareInt, IntKinds
<1>3. \A f \in OfInt : f.kind \in IntKinds
  BY Fields DEF OfInt, IntKinds
<1>4. \A f \in OfInt :
        f.kind \notin NotHandled => \E h \in CallInt \union CompareInt : f.kind \in h.kinds
  BY Fields DEF OfInt, NotHandled, CallInt, CompareInt
<1> QED BY <1>1, <1>2, <1>3, <1>4

LEMMA DoubleCases ==
  /\ \A h \in CallDouble : h.kinds \subseteq DoubleKinds
  /\ \A f \in OfDouble : f.kind \in DoubleKinds
  /\ \A f \in OfDouble :
       f.kind \notin NotHandled => \E h \in CallDouble : f.kind \in h.kinds
<1>1. \A h \in CallDouble : h.kinds \subseteq DoubleKinds
  BY Fields DEF CallDouble, DoubleKinds
<1>2. \A f \in OfDouble : f.kind \in DoubleKinds
  BY Fields DEF OfDouble, DoubleKinds
<1>3. \A f \in OfDouble :
        f.kind \notin NotHandled => \E h \in CallDouble : f.kind \in h.kinds
  BY Fields DEF OfDouble, NotHandled, CallDouble
<1> QED BY <1>1, <1>2, <1>3

LEMMA StringCases ==
  /\ \A h \in ReadString \union ChangeString \union SearchString \union ConvertString :
       h.kinds \subseteq StringKinds
  /\ \A f \in ChangesOfString \union SearchesOfString : f.kind \in StringKinds
  /\ \A f \in ChangesOfString \union SearchesOfString :
       f.kind \notin NotHandled =>
         \E h \in ReadString \union ChangeString \union SearchString \union ConvertString : f.kind \in h.kinds
<1>1. \A h \in ReadString : h.kinds \subseteq StringKinds
  BY Fields DEF ReadString, StringKinds, StringComparisons
<1>2. \A h \in ChangeString : h.kinds \subseteq StringKinds
  BY Fields DEF ChangeString, StringKinds
<1>3. \A h \in SearchString : h.kinds \subseteq StringKinds
  BY Fields DEF SearchString, StringKinds
<1>4. \A h \in ConvertString : h.kinds \subseteq StringKinds
  BY Fields DEF ConvertString, StringKinds
<1>5. \A f \in ChangesOfString : f.kind \in StringKinds
  BY Fields DEF ChangesOfString, StringKinds
<1>6. \A f \in SearchesOfString : f.kind \in StringKinds
  BY Fields DEF SearchesOfString, StringKinds
<1>7. \A f \in ChangesOfString :
        f.kind \notin NotHandled =>
          \E h \in ReadString \union ChangeString \union SearchString \union ConvertString : f.kind \in h.kinds
  BY Fields DEF ChangesOfString, NotHandled, ReadString, ChangeString, SearchString,
                ConvertString, StringComparisons
<1>8. \A f \in SearchesOfString :
        f.kind \notin NotHandled =>
          \E h \in ReadString \union ChangeString \union SearchString \union ConvertString : f.kind \in h.kinds
  BY Fields DEF SearchesOfString, NotHandled, ReadString, ChangeString, SearchString,
                ConvertString, StringComparisons
<1> QED BY <1>1, <1>2, <1>3, <1>4, <1>5, <1>6, <1>7, <1>8

LEMMA VersionCases ==
  /\ \A h \in CallVersion : h.kinds \subseteq VersionKinds
  /\ \A f \in OfVersion : f.kind \in VersionKinds
  /\ \A f \in OfVersion :
       f.kind \notin NotHandled => \E h \in CallVersion : f.kind \in h.kinds
<1>1. \A h \in CallVersion : h.kinds \subseteq VersionKinds
  BY Fields DEF CallVersion, VersionKinds
<1>2. \A f \in OfVersion : f.kind \in VersionKinds
  BY Fields DEF OfVersion, VersionKinds
<1>3. \A f \in OfVersion :
        f.kind \notin NotHandled => \E h \in CallVersion : f.kind \in h.kinds
  BY Fields DEF OfVersion, NotHandled, CallVersion
<1> QED BY <1>1, <1>2, <1>3

LEMMA LibraryCases ==
  /\ \A h \in CallLibrary : h.kinds \subseteq LibraryKinds
  /\ \A f \in OfLibrary : f.kind \in LibraryKinds
  /\ \A f \in OfLibrary :
       f.kind \notin NotHandled => \E h \in CallLibrary : f.kind \in h.kinds
<1>1. \A h \in CallLibrary : h.kinds \subseteq LibraryKinds
  BY Fields DEF CallLibrary, LibraryKinds
<1>2. \A f \in OfLibrary : f.kind \in LibraryKinds
  BY Fields DEF OfLibrary, LibraryKinds
<1>3. \A f \in OfLibrary :
        f.kind \notin NotHandled => \E h \in CallLibrary : f.kind \in h.kinds
  BY Fields DEF OfLibrary, NotHandled, CallLibrary
<1> QED BY <1>1, <1>2, <1>3

LEMMA ExecutableCases ==
  /\ \A h \in CallExecutable : h.kinds \subseteq ExecutableKinds
  /\ \A f \in OfExecutable : f.kind \in ExecutableKinds
  /\ \A f \in OfExecutable :
       f.kind \notin NotHandled => \E h \in CallExecutable : f.kind \in h.kinds
<1>1. \A h \in CallExecutable : h.kinds \subseteq ExecutableKinds
  BY Fields DEF CallExecutable, ExecutableKinds
<1>2. \A f \in OfExecutable : f.kind \in ExecutableKinds
  BY Fields DEF OfExecutable, ExecutableKinds
<1>3. \A f \in OfExecutable :
        f.kind \notin NotHandled => \E h \in CallExecutable : f.kind \in h.kinds
  BY Fields DEF OfExecutable, NotHandled, CallExecutable
<1> QED BY <1>1, <1>2, <1>3

LEMMA ProjectCases ==
  /\ \A h \in CallProject : h.kinds \subseteq ProjectKinds
  /\ \A f \in OfProject : f.kind \in ProjectKinds
  /\ \A f \in OfProject :
       f.kind \notin NotHandled => \E h \in CallProject : f.kind \in h.kinds
<1>1. \A h \in CallProject : h.kinds \subseteq ProjectKinds
  BY Fields DEF CallProject, ProjectKinds
<1>2. \A f \in OfProject : f.kind \in ProjectKinds
  BY Fields DEF OfProject, ProjectKinds
<1>3. \A f \in OfProject :
        f.kind \notin NotHandled => \E h \in CallProject : f.kind \in h.kinds
  BY Fields DEF OfProject, NotHandled, CallProject
<1> QED BY <1>1, <1>2, <1>3

LEMMA OptionCases ==
  /\ \A h \in CallOption : h.kinds \subseteq OptionKinds
  /\ \A f \in OfOption : f.kind \in OptionKinds
  /\ \A f \in OfOption :
       f.kind \notin NotHandled => \E h \in CallOption : f.kind \in h.kinds
<1>1. \A h \in CallOption : h.kinds \subseteq OptionKinds
  BY Fields DEF CallOption, OptionKinds
<1>2. \A f \in OfOption : f.kind \in OptionKinds
  BY Fields DEF OfOption, OptionKinds
<1>3. \A f \in OfOption :
        f.kind \notin NotHandled => \E h \in CallOption : f.kind \in h.kinds
  BY Fields DEF OfOption, NotHandled, CallOption
<1> QED BY <1>1, <1>2, <1>3

LEMMA EnumCases ==
  /\ \A h \in CallEnum : h.kinds \subseteq EnumKinds
  /\ \A E : \A f \in OfEnum(E) : f.kind \in EnumKinds
  /\ \A E : \A f \in OfEnum(E) :
       f.kind \notin NotHandled => \E h \in CallEnum : f.kind \in h.kinds
<1>1. \A h \in CallEnum : h.kinds \subseteq EnumKinds
  BY Fields DEF CallEnum, EnumKinds
<1>2. \A E : \A f \in OfEnum(E) : f.kind \in EnumKinds
  BY Fields DEF OfEnum, EnumKinds
<1>3. \A E : \A f \in OfEnum(E) :
        f.kind \notin NotHandled => \E h \in CallEnum : f.kind \in h.kinds
  BY Fields DEF OfEnum, NotHandled, CallEnum
<1> QED BY <1>1, <1>2, <1>3

LEMMA ExternCases ==
  /\ \A h \in CallExtern : h.kinds \subseteq ExternKinds
  /\ \A X : \A f \in OfExtern(X) : f.kind \in ExternKinds
  /\ \A X : \A f \in OfExtern(X) :
       f.kind \notin NotHandled => \E h \in CallExtern : f.kind \in h.kinds
<1>1. \A h \in CallExtern : h.kinds \subseteq ExternKinds
  BY Fields DEF CallExtern, ExternKinds
<1>2. \A X : \A f \in OfExtern(X) : f.kind \in ExternKinds
  BY Fields DEF OfExtern, ExternKinds
<1>3. \A X : \A f \in OfExtern(X) :
        f.kind \notin NotHandled => \E h \in CallExtern : f.kind \in h.kinds
  BY Fields DEF OfExtern, NotHandled, CallExtern
<1> QED BY <1>1, <1>2, <1>3

LEMMA ListCases ==
  /\ \A h \in AddToList \union ChangeList \union SearchList : h.kinds \subseteq ListKinds
  /\ \A L : \A f \in ElementsOfList(L) \union SearchesOfList(L) : f.kind \in ListKinds
  /\ \A L : \A f \in ElementsOfList(L) \union SearchesOfList(L) :
       f.kind \notin NotHandled =>
         \E h \in AddToList \union ChangeList \union SearchList : f.kind \in h.kinds
<1>1. \A h \in AddToList : h.kinds \subseteq ListKinds
  BY Fields DEF AddToList, ListKinds
<1>2. \A h \in ChangeList : h.kinds \subseteq ListKinds
  BY Fields DEF ChangeList, ListKinds
<1>3. \A h \in SearchList : h.kinds \subseteq ListKinds
  BY Fields DEF SearchList, ListKinds
<1>4. \A L : \A f \in ElementsOfList(L) : f.kind \in ListKinds
  BY Fields DEF ElementsOfList, ListKinds
<1>5. \A L : \A f \in SearchesOfList(L) : f.kind \in ListKinds
  BY Fields DEF SearchesOfList, ListKinds
<1>6. \A L : \A f \in ElementsOfList(L) :
        f.kind \notin NotHandled =>
          \E h \in AddToList \union ChangeList \union SearchList : f.kind \in h.kinds
  BY Fields DEF ElementsOfList, NotHandled, AddToList, ChangeList, SearchList
<1>7. \A L : \A f \in SearchesOfList(L) :
        f.kind \notin NotHandled =>
          \E h \in AddToList \union ChangeList \union SearchList : f.kind \in h.kinds
  BY Fields DEF SearchesOfList, NotHandled, AddToList, ChangeList, SearchList
<1> QED BY <1>1, <1>2, <1>3, <1>4, <1>5, <1>6, <1>7

LEMMA ClassCases ==
  /\ \A h \in CallClass : h.kinds \subseteq ClassKinds
  /\ \A C : \A f \in OfClass(C) : f.kind \in ClassKinds
  /\ \A C : \A f \in OfClass(C) :
       f.kind \notin NotHandled => \E h \in CallClass : f.kind \in h.kinds
<1>1. \A h \in CallClass : h.kinds \subseteq ClassKinds
  BY Fields DEF CallClass, ClassKinds
<1>2. \A C : \A f \in OfClass(C) : f.kind \in ClassKinds
  BY Fields DEF OfClass, ClassKinds
<1>3. \A C : \A f \in OfClass(C) :
        f.kind \notin NotHandled => \E h \in CallClass : f.kind \in h.kinds
  BY Fields DEF OfClass, NotHandled, CallClass
<1> QED BY <1>1, <1>2, <1>3

LEMMA CMakeCases ==
  /\ \A h \in CallCMake \union CallCMakeFiles : h.kinds \subseteq CMakeKinds
  /\ \A f \in OfCMake : f.kind \in CMakeKinds
  /\ \A f \in OfCMake :
       f.kind \notin NotHandled => \E h \in CallCMake \union CallCMakeFiles : f.kind \in h.kinds
<1>1. \A h \in CallCMake : h.kinds \subseteq CMakeKinds
  BY Fields DEF CallCMake, CMakeKinds
<1>2. \A h \in CallCMakeFiles : h.kinds \subseteq CMakeKinds
  BY Fields DEF CallCMakeFiles, CMakeKinds
<1>3. \A f \in OfCMake : f.kind \in CMakeKinds
  BY Fields DEF OfCMake, CMakeKinds
<1>4. \A f \in OfCMake :
        f.kind \notin NotHandled => \E h \in CallCMake \union CallCMakeFiles : f.kind \in h.kinds
  BY Fields DEF OfCMake, NotHandled, CallCMake, CallCMakeFiles
<1> QED BY <1>1, <1>2, <1>3, <1>4

(* What the evaluator takes from an argument is there, what it makes is of *)
(* the type that semantic analysis was told of, and a reference just when  *)
(* that is the type of one.                                                *)
Accepts(P, alternative, T) ==
  \/ alternative = "members" /\ P = Ref(T) /\ T \in DOMAIN Classes
  \/ /\ P \in KnownTypes
     /\ \/ alternative = "any"
        \/ alternative = "like" /\ P = ValueType(T) /\ HeldBy(P) \in Comparable
        \/ alternative = HeldBy(P) /\ alternative \notin {"any", "like", "members"}

Yields(f, h, T) ==
  \/ h.result = "receiver" /\ f.result = T /\ h.stores \in {"same", HeldBy(T)}
  \/ h.result = "reference_to_receiver" /\ f.result = Ref(T) /\ h.stores \in {"same", HeldBy(T)}
  \/ h.result = "its_value" /\ f.result = ValueType(T) /\ T \in {Extern(U) : U \in ExternTypes}
  \/ h.result = "list" /\ f.result = T /\ HeldBy(T) = "list"
  \/ h.result = "bool" /\ f.result = Void
  \/ h.result = "cxx_compiler_info" /\ f.result = CompilerInfo
  \/ h.result = "system_info" /\ f.result = SystemInfo
  \/ /\ h.result \in {"bool", "int", "double", "string", "library", "executable"}
     /\ f.result = Named(<<h.result>>)

Agrees(f, h, T) ==
  /\ DOMAIN h.args = DOMAIN f.params
  /\ h.reads \in {"any", HeldBy(T)}
  /\ \A i \in DOMAIN f.params : Accepts(f.params[i], h.args[i], T)
  /\ Yields(f, h, T)

LEMMA BuiltinsKnown ==
  {Void, Bool, Int, Double, String, Version, Library, Executable, Project, Option, CompilerInfo,
   SystemInfo, Visibility, Strings} \subseteq KnownTypes
BY DEF KnownTypes, Types, Enums, BuiltinEnums

LEMMA NamedTypes ==
  /\ Bool = Named(<<"bool">>) /\ Int = Named(<<"int">>) /\ Double = Named(<<"double">>)
  /\ String = Named(<<"string">>) /\ Library = Named(<<"library">>)
  /\ Executable = Named(<<"executable">>)
BY DEF Bool, Int, Double, String, Library, Executable

LEMMA StringsHold == HeldBy(Strings) = "list"
BY HeldByPrefixed DEF Strings

LEMMA EnumsHold ==
  ASSUME Careful, NEW E \in Enums
  PROVE  HeldBy(E) = "enum" /\ E \in KnownTypes
BY HeldByUserTypes, BuiltinEnumNames, HeldByBuiltins DEF Enums, Builtins, KnownTypes, Types

LEMMA ListsHold ==
  ASSUME Careful, NEW U \in ElementTypes \union {String}
  PROVE  /\ HeldBy(List(U)) = "list" /\ ValueType(List(U)) = U
         /\ List(U) \in KnownTypes /\ U \in KnownTypes
         /\ HeldBy(U) \in Comparable \/ CompareElements \subseteq Avoided
<1>1. List(U) \in KnownTypes /\ U \in KnownTypes
  BY BuiltinsKnown, TypingAssumption DEF KnownTypes, Types, Strings
<1> QED BY <1>1, HeldByPrefixed, ListShape, Alternatives DEF Careful, Comparable

LEMMA OfBoolByCallBool ==
  ASSUME Careful,
         NEW f \in OfBool, f.kind \notin Avoided, NEW h \in CallBool, f.kind \in h.kinds
  PROVE  Agrees(f, h, Bool)
<1>1. DOMAIN h.args = DOMAIN f.params
  BY Fields DEF OfBool, CallBool
<1>2. h.reads \in {"any", HeldBy(Bool)}
  BY Fields, Alternatives, NamedTypes, BuiltinsKnown DEF OfBool, CallBool, Careful,
     ReturnReferences, NotHandled
<1>3. \A i \in DOMAIN f.params : Accepts(f.params[i], h.args[i], Bool)
  BY Fields, Alternatives, NamedTypes, BuiltinsKnown DEF OfBool, CallBool, Accepts, Careful,
     ReturnReferences, NotHandled
<1>4. Yields(f, h, Bool)
  BY Fields, Alternatives, NamedTypes, BuiltinsKnown DEF OfBool, CallBool, Yields, Careful,
     ReturnReferences, NotHandled
<1> QED BY <1>1, <1>2, <1>3, <1>4 DEF Agrees

LEMMA OfIntByCallInt ==
  ASSUME Careful,
         NEW f \in OfInt, f.kind \notin Avoided, NEW h \in CallInt, f.kind \in h.kinds
  PROVE  Agrees(f, h, Int)
<1>1. DOMAIN h.args = DOMAIN f.params
  BY Fields DEF OfInt, CallInt
<1>2. h.reads \in {"any", HeldBy(Int)}
  BY Fields, Alternatives, NamedTypes, BuiltinsKnown DEF OfInt, CallInt, Careful,
     ReturnReferences, NotHandled
<1>3. \A i \in DOMAIN f.params : Accepts(f.params[i], h.args[i], Int)
  BY Fields, Alternatives, NamedTypes, BuiltinsKnown DEF OfInt, CallInt, Accepts, Careful,
     ReturnReferences, NotHandled
<1>4. Yields(f, h, Int)
  BY Fields, Alternatives, NamedTypes, BuiltinsKnown DEF OfInt, CallInt, Yields, Careful,
     ReturnReferences, NotHandled
<1> QED BY <1>1, <1>2, <1>3, <1>4 DEF Agrees

LEMMA OfIntByCompareInt ==
  ASSUME Careful,
         NEW f \in OfInt, f.kind \notin Avoided, NEW h \in CompareInt, f.kind \in h.kinds
  PROVE  Agrees(f, h, Int)
<1>1. DOMAIN h.args = DOMAIN f.params
  BY Fields DEF OfInt, CompareInt
<1>2. h.reads \in {"any", HeldBy(Int)}
  BY Fields, Alternatives, NamedTypes, BuiltinsKnown DEF OfInt, CompareInt, Careful,
     ReturnReferences, NotHandled
<1>3. \A i \in DOMAIN f.params : Accepts(f.params[i], h.args[i], Int)
  BY Fields, Alternatives, NamedTypes, BuiltinsKnown DEF OfInt, CompareInt, Accepts, Careful,
     ReturnReferences, NotHandled
<1>4. Yields(f, h, Int)
  BY Fields, Alternatives, NamedTypes, BuiltinsKnown DEF OfInt, CompareInt, Yields, Careful,
     ReturnReferences, NotHandled
<1> QED BY <1>1, <1>2, <1>3, <1>4 DEF Agrees

LEMMA OfDoubleByCallDouble ==
  ASSUME Careful,
         NEW f \in OfDouble, f.kind \notin Avoided, NEW h \in CallDouble, f.kind \in h.kinds
  PROVE  Agrees(f, h, Double)
<1>1. DOMAIN h.args = DOMAIN f.params
  BY Fields DEF OfDouble, CallDouble
<1>2. h.reads \in {"any", HeldBy(Double)}
  BY Fields, Alternatives, NamedTypes, BuiltinsKnown DEF OfDouble, CallDouble, Careful,
     ReturnReferences, NotHandled
<1>3. \A i \in DOMAIN f.params : Accepts(f.params[i], h.args[i], Double)
  BY Fields, Alternatives, NamedTypes, BuiltinsKnown DEF OfDouble, CallDouble, Accepts, Careful,
     ReturnReferences, NotHandled
<1>4. Yields(f, h, Double)
  BY Fields, Alternatives, NamedTypes, BuiltinsKnown DEF OfDouble, CallDouble, Yields, Careful,
     ReturnReferences, NotHandled
<1> QED BY <1>1, <1>2, <1>3, <1>4 DEF Agrees

LEMMA ChangesOfStringByReadString ==
  ASSUME Careful,
         NEW f \in ChangesOfString, f.kind \notin Avoided, NEW h \in ReadString, f.kind \in h.kinds
  PROVE  Agrees(f, h, String)
<1>1. DOMAIN h.args = DOMAIN f.params
  BY Fields DEF ChangesOfString, ReadString, StringComparisons
<1>2. h.reads \in {"any", HeldBy(String)}
  BY Fields, Alternatives, NamedTypes, BuiltinsKnown DEF ChangesOfString, ReadString,
     StringComparisons, Careful, ReturnReferences, NotHandled
<1>3. \A i \in DOMAIN f.params : Accepts(f.params[i], h.args[i], String)
  BY Fields, Alternatives, NamedTypes, BuiltinsKnown, SMTT(30) DEF ChangesOfString, ReadString,
     StringComparisons, Accepts, Careful, ReturnReferences, NotHandled
<1>4. Yields(f, h, String)
  BY Fields, Alternatives, NamedTypes, BuiltinsKnown DEF ChangesOfString, ReadString,
     StringComparisons, Yields, Careful, ReturnReferences, NotHandled
<1> QED BY <1>1, <1>2, <1>3, <1>4 DEF Agrees

LEMMA ChangesOfStringByChangeString ==
  ASSUME Careful,
         NEW f \in ChangesOfString, f.kind \notin Avoided, NEW h \in ChangeString, f.kind \in h.kinds
  PROVE  Agrees(f, h, String)
<1>1. DOMAIN h.args = DOMAIN f.params
  BY Fields DEF ChangesOfString, ChangeString
<1>2. h.reads \in {"any", HeldBy(String)}
  BY Fields, Alternatives, NamedTypes, BuiltinsKnown DEF ChangesOfString, ChangeString, Careful,
     ReturnReferences, NotHandled
<1>3. \A i \in DOMAIN f.params : Accepts(f.params[i], h.args[i], String)
  BY Fields, Alternatives, NamedTypes, BuiltinsKnown, SMTT(30) DEF ChangesOfString, ChangeString,
     Accepts, Careful, ReturnReferences, NotHandled
<1>4. Yields(f, h, String)
  BY Fields, Alternatives, NamedTypes, BuiltinsKnown DEF ChangesOfString, ChangeString, Yields,
     Careful, ReturnReferences, NotHandled
<1> QED BY <1>1, <1>2, <1>3, <1>4 DEF Agrees

LEMMA ChangesOfStringBySearchString ==
  ASSUME Careful,
         NEW f \in ChangesOfString, f.kind \notin Avoided, NEW h \in SearchString, f.kind \in h.kinds
  PROVE  Agrees(f, h, String)
<1>1. DOMAIN h.args = DOMAIN f.params
  BY Fields DEF ChangesOfString, SearchString
<1>2. h.reads \in {"any", HeldBy(String)}
  BY Fields, Alternatives, NamedTypes, BuiltinsKnown DEF ChangesOfString, SearchString, Careful,
     ReturnReferences, NotHandled
<1>3. \A i \in DOMAIN f.params : Accepts(f.params[i], h.args[i], String)
  BY Fields, Alternatives, NamedTypes, BuiltinsKnown, SMTT(30) DEF ChangesOfString, SearchString,
     Accepts, Careful, ReturnReferences, NotHandled
<1>4. Yields(f, h, String)
  BY Fields, Alternatives, NamedTypes, BuiltinsKnown DEF ChangesOfString, SearchString, Yields,
     Careful, ReturnReferences, NotHandled
<1> QED BY <1>1, <1>2, <1>3, <1>4 DEF Agrees

LEMMA ChangesOfStringByConvertString ==
  ASSUME Careful,
         NEW f \in ChangesOfString, f.kind \notin Avoided, NEW h \in ConvertString, f.kind \in h.kinds
  PROVE  Agrees(f, h, String)
<1>1. DOMAIN h.args = DOMAIN f.params
  BY Fields DEF ChangesOfString, ConvertString
<1>2. h.reads \in {"any", HeldBy(String)}
  BY Fields, Alternatives, NamedTypes, BuiltinsKnown DEF ChangesOfString, ConvertString, Careful,
     ReturnReferences, NotHandled
<1>3. \A i \in DOMAIN f.params : Accepts(f.params[i], h.args[i], String)
  BY Fields, Alternatives, NamedTypes, BuiltinsKnown, SMTT(30) DEF ChangesOfString, ConvertString,
     Accepts, Careful, ReturnReferences, NotHandled
<1>4. Yields(f, h, String)
  BY Fields, Alternatives, NamedTypes, BuiltinsKnown DEF ChangesOfString, ConvertString, Yields,
     Careful, ReturnReferences, NotHandled
<1> QED BY <1>1, <1>2, <1>3, <1>4 DEF Agrees

LEMMA SearchesOfStringByReadString ==
  ASSUME Careful,
         NEW f \in SearchesOfString, f.kind \notin Avoided, NEW h \in ReadString, f.kind \in h.kinds
  PROVE  Agrees(f, h, String)
<1>1. DOMAIN h.args = DOMAIN f.params
  BY Fields DEF SearchesOfString, ReadString, StringComparisons
<1>2. h.reads \in {"any", HeldBy(String)}
  BY Fields, Alternatives, NamedTypes, BuiltinsKnown DEF SearchesOfString, ReadString,
     StringComparisons, Careful, ReturnReferences, NotHandled
<1>3. \A i \in DOMAIN f.params : Accepts(f.params[i], h.args[i], String)
  BY Fields, Alternatives, NamedTypes, BuiltinsKnown, SMTT(30) DEF SearchesOfString, ReadString,
     StringComparisons, Accepts, Careful, ReturnReferences, NotHandled
<1>4. Yields(f, h, String)
  BY Fields, Alternatives, NamedTypes, BuiltinsKnown DEF SearchesOfString, ReadString,
     StringComparisons, Yields, Careful, ReturnReferences, NotHandled
<1> QED BY <1>1, <1>2, <1>3, <1>4 DEF Agrees

LEMMA SearchesOfStringByChangeString ==
  ASSUME Careful,
         NEW f \in SearchesOfString, f.kind \notin Avoided, NEW h \in ChangeString, f.kind \in h.kinds
  PROVE  Agrees(f, h, String)
<1>1. DOMAIN h.args = DOMAIN f.params
  BY Fields DEF SearchesOfString, ChangeString
<1>2. h.reads \in {"any", HeldBy(String)}
  BY Fields, Alternatives, NamedTypes, BuiltinsKnown DEF SearchesOfString, ChangeString, Careful,
     ReturnReferences, NotHandled
<1>3. \A i \in DOMAIN f.params : Accepts(f.params[i], h.args[i], String)
  BY Fields, Alternatives, NamedTypes, BuiltinsKnown, SMTT(30) DEF SearchesOfString, ChangeString,
     Accepts, Careful, ReturnReferences, NotHandled
<1>4. Yields(f, h, String)
  BY Fields, Alternatives, NamedTypes, BuiltinsKnown DEF SearchesOfString, ChangeString, Yields,
     Careful, ReturnReferences, NotHandled
<1> QED BY <1>1, <1>2, <1>3, <1>4 DEF Agrees

LEMMA SearchesOfStringBySearchString ==
  ASSUME Careful,
         NEW f \in SearchesOfString, f.kind \notin Avoided, NEW h \in SearchString, f.kind \in h.kinds
  PROVE  Agrees(f, h, String)
<1>1. DOMAIN h.args = DOMAIN f.params
  BY Fields DEF SearchesOfString, SearchString
<1>2. h.reads \in {"any", HeldBy(String)}
  BY Fields, Alternatives, NamedTypes, BuiltinsKnown DEF SearchesOfString, SearchString, Careful,
     ReturnReferences, NotHandled
<1>3. \A i \in DOMAIN f.params : Accepts(f.params[i], h.args[i], String)
  BY Fields, Alternatives, NamedTypes, BuiltinsKnown, SMTT(30) DEF SearchesOfString, SearchString,
     Accepts, Careful, ReturnReferences, NotHandled
<1>4. Yields(f, h, String)
  BY Fields, Alternatives, NamedTypes, BuiltinsKnown DEF SearchesOfString, SearchString, Yields,
     Careful, ReturnReferences, NotHandled
<1> QED BY <1>1, <1>2, <1>3, <1>4 DEF Agrees

LEMMA SearchesOfStringByConvertString ==
  ASSUME Careful,
         NEW f \in SearchesOfString, f.kind \notin Avoided, NEW h \in ConvertString, f.kind \in h.kinds
  PROVE  Agrees(f, h, String)
<1>1. DOMAIN h.args = DOMAIN f.params
  BY Fields DEF SearchesOfString, ConvertString
<1>2. h.reads \in {"any", HeldBy(String)}
  BY Fields, Alternatives, NamedTypes, BuiltinsKnown DEF SearchesOfString, ConvertString, Careful,
     ReturnReferences, NotHandled
<1>3. \A i \in DOMAIN f.params : Accepts(f.params[i], h.args[i], String)
  BY Fields, Alternatives, NamedTypes, BuiltinsKnown, SMTT(30) DEF SearchesOfString,
     ConvertString, Accepts, Careful, ReturnReferences, NotHandled
<1>4. Yields(f, h, String)
  BY Fields, Alternatives, NamedTypes, BuiltinsKnown DEF SearchesOfString, ConvertString, Yields,
     Careful, ReturnReferences, NotHandled
<1> QED BY <1>1, <1>2, <1>3, <1>4 DEF Agrees

LEMMA OfVersionByCallVersion ==
  ASSUME Careful,
         NEW f \in OfVersion, f.kind \notin Avoided, NEW h \in CallVersion, f.kind \in h.kinds
  PROVE  Agrees(f, h, Version)
<1>1. DOMAIN h.args = DOMAIN f.params
  BY Fields DEF OfVersion, CallVersion
<1>2. h.reads \in {"any", HeldBy(Version)}
  BY Fields, Alternatives, NamedTypes, BuiltinsKnown DEF OfVersion, CallVersion, Careful,
     ReturnReferences, NotHandled
<1>3. \A i \in DOMAIN f.params : Accepts(f.params[i], h.args[i], Version)
  BY Fields, Alternatives, NamedTypes, BuiltinsKnown DEF OfVersion, CallVersion, Accepts, Careful,
     ReturnReferences, NotHandled
<1>4. Yields(f, h, Version)
  BY Fields, Alternatives, NamedTypes, BuiltinsKnown DEF OfVersion, CallVersion, Yields, Careful,
     ReturnReferences, NotHandled
<1> QED BY <1>1, <1>2, <1>3, <1>4 DEF Agrees

LEMMA OfLibraryByCallLibrary ==
  ASSUME Careful,
         NEW f \in OfLibrary, f.kind \notin Avoided, NEW h \in CallLibrary, f.kind \in h.kinds
  PROVE  Agrees(f, h, Library)
<1>1. DOMAIN h.args = DOMAIN f.params
  BY Fields DEF OfLibrary, CallLibrary
<1>2. h.reads \in {"any", HeldBy(Library)}
  BY Fields, Alternatives, NamedTypes, BuiltinsKnown, StringsHold DEF OfLibrary, CallLibrary,
     Careful, ReturnReferences, NotHandled
<1>3. \A i \in DOMAIN f.params : Accepts(f.params[i], h.args[i], Library)
  BY Fields, Alternatives, NamedTypes, BuiltinsKnown, StringsHold DEF OfLibrary, CallLibrary,
     Accepts, Careful, ReturnReferences, NotHandled
<1>4. Yields(f, h, Library)
  BY Fields, Alternatives, NamedTypes, BuiltinsKnown, StringsHold DEF OfLibrary, CallLibrary,
     Yields, Careful, ReturnReferences, NotHandled
<1> QED BY <1>1, <1>2, <1>3, <1>4 DEF Agrees

LEMMA OfExecutableByCallExecutable ==
  ASSUME Careful,
         NEW f \in OfExecutable, f.kind \notin Avoided, NEW h \in CallExecutable, f.kind \in h.kinds
  PROVE  Agrees(f, h, Executable)
<1>1. DOMAIN h.args = DOMAIN f.params
  BY Fields DEF OfExecutable, CallExecutable
<1>2. h.reads \in {"any", HeldBy(Executable)}
  BY Fields, Alternatives, NamedTypes, BuiltinsKnown, StringsHold DEF OfExecutable,
     CallExecutable, Careful, ReturnReferences, NotHandled
<1>3. \A i \in DOMAIN f.params : Accepts(f.params[i], h.args[i], Executable)
  BY Fields, Alternatives, NamedTypes, BuiltinsKnown, StringsHold DEF OfExecutable,
     CallExecutable, Accepts, Careful, ReturnReferences, NotHandled
<1>4. Yields(f, h, Executable)
  BY Fields, Alternatives, NamedTypes, BuiltinsKnown, StringsHold DEF OfExecutable,
     CallExecutable, Yields, Careful, ReturnReferences, NotHandled
<1> QED BY <1>1, <1>2, <1>3, <1>4 DEF Agrees

LEMMA OfProjectByCallProject ==
  ASSUME Careful,
         NEW f \in OfProject, f.kind \notin Avoided, NEW h \in CallProject, f.kind \in h.kinds
  PROVE  Agrees(f, h, Project)
<1>1. DOMAIN h.args = DOMAIN f.params
  BY Fields DEF OfProject, CallProject
<1>2. h.reads \in {"any", HeldBy(Project)}
  BY Fields, Alternatives, NamedTypes, BuiltinsKnown, StringsHold DEF OfProject, CallProject,
     Careful, ReturnReferences, NotHandled
<1>3. \A i \in DOMAIN f.params : Accepts(f.params[i], h.args[i], Project)
  BY Fields, Alternatives, NamedTypes, BuiltinsKnown, StringsHold DEF OfProject, CallProject,
     Accepts, Careful, ReturnReferences, NotHandled
<1>4. Yields(f, h, Project)
  BY Fields, Alternatives, NamedTypes, BuiltinsKnown, StringsHold DEF OfProject, CallProject,
     Yields, Careful, ReturnReferences, NotHandled
<1> QED BY <1>1, <1>2, <1>3, <1>4 DEF Agrees

LEMMA OfOptionByCallOption ==
  ASSUME Careful,
         NEW f \in OfOption, f.kind \notin Avoided, NEW h \in CallOption, f.kind \in h.kinds
  PROVE  Agrees(f, h, Option)
<1>1. DOMAIN h.args = DOMAIN f.params
  BY Fields DEF OfOption, CallOption
<1>2. h.reads \in {"any", HeldBy(Option)}
  BY Fields, Alternatives, NamedTypes, BuiltinsKnown DEF OfOption, CallOption, Careful,
     ReturnReferences, NotHandled
<1>3. \A i \in DOMAIN f.params : Accepts(f.params[i], h.args[i], Option)
  BY Fields, Alternatives, NamedTypes, BuiltinsKnown DEF OfOption, CallOption, Accepts, Careful,
     ReturnReferences, NotHandled
<1>4. Yields(f, h, Option)
  BY Fields, Alternatives, NamedTypes, BuiltinsKnown DEF OfOption, CallOption, Yields, Careful,
     ReturnReferences, NotHandled
<1> QED BY <1>1, <1>2, <1>3, <1>4 DEF Agrees

LEMMA OfEnumByCallEnum ==
  ASSUME Careful, NEW E \in Enums,
         NEW f \in OfEnum(E), f.kind \notin Avoided, NEW h \in CallEnum, f.kind \in h.kinds
  PROVE  Agrees(f, h, E)
<1>0. HeldBy(E) = "enum" /\ E \in KnownTypes BY EnumsHold
<1>1. DOMAIN h.args = DOMAIN f.params
  BY Fields DEF OfEnum, CallEnum
<1>2. h.reads \in {"any", HeldBy(E)}
  BY <1>0, Fields, Alternatives, NamedTypes, BuiltinsKnown DEF OfEnum, CallEnum, Careful,
     ReturnReferences, NotHandled
<1>3. \A i \in DOMAIN f.params : Accepts(f.params[i], h.args[i], E)
  BY <1>0, Fields, Alternatives, NamedTypes, BuiltinsKnown DEF OfEnum, CallEnum, Accepts, Careful,
     ReturnReferences, NotHandled
<1>4. Yields(f, h, E)
  BY <1>0, Fields, Alternatives, NamedTypes, BuiltinsKnown DEF OfEnum, CallEnum, Yields, Careful,
     ReturnReferences, NotHandled
<1> QED BY <1>1, <1>2, <1>3, <1>4 DEF Agrees

LEMMA OfExternByCallExtern ==
  ASSUME Careful, NEW U \in ExternTypes,
         NEW f \in OfExtern(Extern(U)), f.kind \notin Avoided, NEW h \in CallExtern, f.kind \in h.kinds
  PROVE  Agrees(f, h, Extern(U))
<1>0. HeldBy(Extern(U)) = "extern" /\ ValueType(Extern(U)) = U BY HeldByPrefixed, ExternShape
<1>1. DOMAIN h.args = DOMAIN f.params
  BY Fields DEF OfExtern, CallExtern
<1>2. h.reads \in {"any", HeldBy(Extern(U))}
  BY <1>0, Fields, Alternatives, NamedTypes, BuiltinsKnown DEF OfExtern, CallExtern, Careful,
     ReturnReferences, NotHandled
<1>3. \A i \in DOMAIN f.params : Accepts(f.params[i], h.args[i], Extern(U))
  BY <1>0, Fields, Alternatives, NamedTypes, BuiltinsKnown DEF OfExtern, CallExtern, Accepts,
     Careful, ReturnReferences, NotHandled
<1>4. Yields(f, h, Extern(U))
  BY <1>0, Fields, Alternatives, NamedTypes, BuiltinsKnown DEF OfExtern, CallExtern, Yields,
     Careful, ReturnReferences, NotHandled
<1> QED BY <1>1, <1>2, <1>3, <1>4 DEF Agrees

LEMMA ElementsOfListByAddToList ==
  ASSUME Careful, NEW U \in ElementTypes \union {String},
         NEW f \in ElementsOfList(List(U)), f.kind \notin Avoided, NEW h \in AddToList, f.kind \in h.kinds
  PROVE  Agrees(f, h, List(U))
<1>0. /\ HeldBy(List(U)) = "list" /\ ValueType(List(U)) = U
      /\ List(U) \in KnownTypes /\ U \in KnownTypes
      /\ HeldBy(U) \in Comparable \/ CompareElements \subseteq Avoided
  BY ListsHold
<1>1. DOMAIN h.args = DOMAIN f.params
  BY Fields DEF ElementsOfList, AddToList
<1>2. h.reads \in {"any", HeldBy(List(U))}
  BY <1>0, Fields, Alternatives, NamedTypes, BuiltinsKnown DEF ElementsOfList, AddToList, Careful,
     ReturnReferences, NotHandled
<1>3. \A i \in DOMAIN f.params : Accepts(f.params[i], h.args[i], List(U))
  BY <1>0, Fields, Alternatives, NamedTypes, BuiltinsKnown DEF ElementsOfList, AddToList, Accepts,
     Careful, ReturnReferences, NotHandled, CompareElements
<1>4. Yields(f, h, List(U))
  BY <1>0, Fields, Alternatives, NamedTypes, BuiltinsKnown DEF ElementsOfList, AddToList, Yields,
     Careful, ReturnReferences, NotHandled
<1> QED BY <1>1, <1>2, <1>3, <1>4 DEF Agrees

LEMMA ElementsOfListByChangeList ==
  ASSUME Careful, NEW U \in ElementTypes \union {String},
         NEW f \in ElementsOfList(List(U)), f.kind \notin Avoided, NEW h \in ChangeList, f.kind \in h.kinds
  PROVE  Agrees(f, h, List(U))
<1>0. /\ HeldBy(List(U)) = "list" /\ ValueType(List(U)) = U
      /\ List(U) \in KnownTypes /\ U \in KnownTypes
      /\ HeldBy(U) \in Comparable \/ CompareElements \subseteq Avoided
  BY ListsHold
<1>1. DOMAIN h.args = DOMAIN f.params
  BY Fields DEF ElementsOfList, ChangeList
<1>2. h.reads \in {"any", HeldBy(List(U))}
  BY <1>0, Fields, Alternatives, NamedTypes, BuiltinsKnown DEF ElementsOfList, ChangeList,
     Careful, ReturnReferences, NotHandled
<1>3. \A i \in DOMAIN f.params : Accepts(f.params[i], h.args[i], List(U))
  BY <1>0, Fields, Alternatives, NamedTypes, BuiltinsKnown DEF ElementsOfList, ChangeList,
     Accepts, Careful, ReturnReferences, NotHandled, CompareElements
<1>4. Yields(f, h, List(U))
  BY <1>0, Fields, Alternatives, NamedTypes, BuiltinsKnown DEF ElementsOfList, ChangeList, Yields,
     Careful, ReturnReferences, NotHandled
<1> QED BY <1>1, <1>2, <1>3, <1>4 DEF Agrees

LEMMA ElementsOfListBySearchList ==
  ASSUME Careful, NEW U \in ElementTypes \union {String},
         NEW f \in ElementsOfList(List(U)), f.kind \notin Avoided, NEW h \in SearchList, f.kind \in h.kinds
  PROVE  Agrees(f, h, List(U))
<1>0. /\ HeldBy(List(U)) = "list" /\ ValueType(List(U)) = U
      /\ List(U) \in KnownTypes /\ U \in KnownTypes
      /\ HeldBy(U) \in Comparable \/ CompareElements \subseteq Avoided
  BY ListsHold
<1>1. DOMAIN h.args = DOMAIN f.params
  BY Fields DEF ElementsOfList, SearchList
<1>2. h.reads \in {"any", HeldBy(List(U))}
  BY <1>0, Fields, Alternatives, NamedTypes, BuiltinsKnown DEF ElementsOfList, SearchList,
     Careful, ReturnReferences, NotHandled
<1>3. \A i \in DOMAIN f.params : Accepts(f.params[i], h.args[i], List(U))
  BY <1>0, Fields, Alternatives, NamedTypes, BuiltinsKnown DEF ElementsOfList, SearchList,
     Accepts, Careful, ReturnReferences, NotHandled, CompareElements
<1>4. Yields(f, h, List(U))
  BY <1>0, Fields, Alternatives, NamedTypes, BuiltinsKnown DEF ElementsOfList, SearchList, Yields,
     Careful, ReturnReferences, NotHandled
<1> QED BY <1>1, <1>2, <1>3, <1>4 DEF Agrees

LEMMA SearchesOfListByAddToList ==
  ASSUME Careful, NEW U \in ElementTypes \union {String},
         NEW f \in SearchesOfList(List(U)), f.kind \notin Avoided, NEW h \in AddToList, f.kind \in h.kinds
  PROVE  Agrees(f, h, List(U))
<1>0. /\ HeldBy(List(U)) = "list" /\ ValueType(List(U)) = U
      /\ List(U) \in KnownTypes /\ U \in KnownTypes
      /\ HeldBy(U) \in Comparable \/ CompareElements \subseteq Avoided
  BY ListsHold
<1>1. DOMAIN h.args = DOMAIN f.params
  BY Fields DEF SearchesOfList, AddToList
<1>2. h.reads \in {"any", HeldBy(List(U))}
  BY <1>0, Fields, Alternatives, NamedTypes, BuiltinsKnown DEF SearchesOfList, AddToList, Careful,
     ReturnReferences, NotHandled
<1>3. \A i \in DOMAIN f.params : Accepts(f.params[i], h.args[i], List(U))
  BY <1>0, Fields, Alternatives, NamedTypes, BuiltinsKnown DEF SearchesOfList, AddToList, Accepts,
     Careful, ReturnReferences, NotHandled, CompareElements
<1>4. Yields(f, h, List(U))
  BY <1>0, Fields, Alternatives, NamedTypes, BuiltinsKnown DEF SearchesOfList, AddToList, Yields,
     Careful, ReturnReferences, NotHandled
<1> QED BY <1>1, <1>2, <1>3, <1>4 DEF Agrees

LEMMA SearchesOfListByChangeList ==
  ASSUME Careful, NEW U \in ElementTypes \union {String},
         NEW f \in SearchesOfList(List(U)), f.kind \notin Avoided, NEW h \in ChangeList, f.kind \in h.kinds
  PROVE  Agrees(f, h, List(U))
<1>0. /\ HeldBy(List(U)) = "list" /\ ValueType(List(U)) = U
      /\ List(U) \in KnownTypes /\ U \in KnownTypes
      /\ HeldBy(U) \in Comparable \/ CompareElements \subseteq Avoided
  BY ListsHold
<1>1. DOMAIN h.args = DOMAIN f.params
  BY Fields DEF SearchesOfList, ChangeList
<1>2. h.reads \in {"any", HeldBy(List(U))}
  BY <1>0, Fields, Alternatives, NamedTypes, BuiltinsKnown DEF SearchesOfList, ChangeList,
     Careful, ReturnReferences, NotHandled
<1>3. \A i \in DOMAIN f.params : Accepts(f.params[i], h.args[i], List(U))
  BY <1>0, Fields, Alternatives, NamedTypes, BuiltinsKnown DEF SearchesOfList, ChangeList,
     Accepts, Careful, ReturnReferences, NotHandled, CompareElements
<1>4. Yields(f, h, List(U))
  BY <1>0, Fields, Alternatives, NamedTypes, BuiltinsKnown DEF SearchesOfList, ChangeList, Yields,
     Careful, ReturnReferences, NotHandled
<1> QED BY <1>1, <1>2, <1>3, <1>4 DEF Agrees

LEMMA SearchesOfListBySearchList ==
  ASSUME Careful, NEW U \in ElementTypes \union {String},
         NEW f \in SearchesOfList(List(U)), f.kind \notin Avoided, NEW h \in SearchList, f.kind \in h.kinds
  PROVE  Agrees(f, h, List(U))
<1>0. /\ HeldBy(List(U)) = "list" /\ ValueType(List(U)) = U
      /\ List(U) \in KnownTypes /\ U \in KnownTypes
      /\ HeldBy(U) \in Comparable \/ CompareElements \subseteq Avoided
  BY ListsHold
<1>1. DOMAIN h.args = DOMAIN f.params
  BY Fields DEF SearchesOfList, SearchList
<1>2. h.reads \in {"any", HeldBy(List(U))}
  BY <1>0, Fields, Alternatives, NamedTypes, BuiltinsKnown DEF SearchesOfList, SearchList,
     Careful, ReturnReferences, NotHandled
<1>3. \A i \in DOMAIN f.params : Accepts(f.params[i], h.args[i], List(U))
  BY <1>0, Fields, Alternatives, NamedTypes, BuiltinsKnown DEF SearchesOfList, SearchList,
     Accepts, Careful, ReturnReferences, NotHandled, CompareElements
<1>4. Yields(f, h, List(U))
  BY <1>0, Fields, Alternatives, NamedTypes, BuiltinsKnown DEF SearchesOfList, SearchList, Yields,
     Careful, ReturnReferences, NotHandled
<1> QED BY <1>1, <1>2, <1>3, <1>4 DEF Agrees

LEMMA OfClassByCallClass ==
  ASSUME Careful, NEW C \in DOMAIN Classes,
         NEW f \in OfClass(C), f.kind \notin Avoided, NEW h \in CallClass, f.kind \in h.kinds
  PROVE  Agrees(f, h, C)
<1>0. HeldBy(C) = "members" BY HeldByUserTypes
<1>1. DOMAIN h.args = DOMAIN f.params
  BY Fields DEF OfClass, CallClass
<1>2. h.reads \in {"any", HeldBy(C)}
  BY <1>0, Fields, Alternatives, NamedTypes, BuiltinsKnown DEF OfClass, CallClass, Careful,
     ReturnReferences, NotHandled
<1>3. \A i \in DOMAIN f.params : Accepts(f.params[i], h.args[i], C)
  BY <1>0, Fields, Alternatives, NamedTypes, BuiltinsKnown DEF OfClass, CallClass, Accepts,
     Careful, ReturnReferences, NotHandled
<1>4. Yields(f, h, C)
  BY <1>0, Fields, Alternatives, NamedTypes, BuiltinsKnown DEF OfClass, CallClass, Yields,
     Careful, ReturnReferences, NotHandled
<1> QED BY <1>1, <1>2, <1>3, <1>4 DEF Agrees

LEMMA OfCMakeByCallCMake ==
  ASSUME Careful,
         NEW f \in OfCMake, f.kind \notin Avoided, NEW h \in CallCMake, f.kind \in h.kinds
  PROVE  Agrees(f, h, Void)
<1>1. DOMAIN h.args = DOMAIN f.params
  BY Fields DEF OfCMake, CallCMake
<1>2. h.reads \in {"any", HeldBy(Void)}
  BY Fields, Alternatives, NamedTypes, BuiltinsKnown, StringsHold DEF OfCMake, CallCMake, Careful,
     ReturnReferences, NotHandled
<1>3. \A i \in DOMAIN f.params : Accepts(f.params[i], h.args[i], Void)
  BY Fields, Alternatives, NamedTypes, BuiltinsKnown, StringsHold DEF OfCMake, CallCMake, Accepts,
     Careful, ReturnReferences, NotHandled
<1>4. Yields(f, h, Void)
  BY Fields, Alternatives, NamedTypes, BuiltinsKnown, StringsHold DEF OfCMake, CallCMake, Yields,
     Careful, ReturnReferences, NotHandled
<1> QED BY <1>1, <1>2, <1>3, <1>4 DEF Agrees

LEMMA OfCMakeByCallCMakeFiles ==
  ASSUME Careful,
         NEW f \in OfCMake, f.kind \notin Avoided, NEW h \in CallCMakeFiles, f.kind \in h.kinds
  PROVE  Agrees(f, h, Void)
<1>1. DOMAIN h.args = DOMAIN f.params
  BY Fields DEF OfCMake, CallCMakeFiles
<1>2. h.reads \in {"any", HeldBy(Void)}
  BY Fields, Alternatives, NamedTypes, BuiltinsKnown, StringsHold DEF OfCMake, CallCMakeFiles,
     Careful, ReturnReferences, NotHandled
<1>3. \A i \in DOMAIN f.params : Accepts(f.params[i], h.args[i], Void)
  BY Fields, Alternatives, NamedTypes, BuiltinsKnown, StringsHold DEF OfCMake, CallCMakeFiles,
     Accepts, Careful, ReturnReferences, NotHandled
<1>4. Yields(f, h, Void)
  BY Fields, Alternatives, NamedTypes, BuiltinsKnown, StringsHold DEF OfCMake, CallCMakeFiles,
     Yields, Careful, ReturnReferences, NotHandled
<1> QED BY <1>1, <1>2, <1>3, <1>4 DEF Agrees

(* ----- calls ----------------------------------------------------------- *)
\* A case for a kind is in the table of the kind's family.
LEMMA CasesApart ==
  ASSUME NEW h \in Handlers, NEW k \in h.kinds
  PROVE  /\ k \in BoolKinds => h \in CallBool
         /\ k \in IntKinds => h \in CallInt \union CompareInt
         /\ k \in DoubleKinds => h \in CallDouble
         /\ k \in StringKinds => h \in ReadString \union ChangeString \union SearchString \union ConvertString
         /\ k \in VersionKinds => h \in CallVersion
         /\ k \in LibraryKinds => h \in CallLibrary
         /\ k \in ExecutableKinds => h \in CallExecutable
         /\ k \in ProjectKinds => h \in CallProject
         /\ k \in OptionKinds => h \in CallOption
         /\ k \in EnumKinds => h \in CallEnum
         /\ k \in ExternKinds => h \in CallExtern
         /\ k \in ListKinds => h \in AddToList \union ChangeList \union SearchList
         /\ k \in ClassKinds => h \in CallClass
         /\ k \in CMakeKinds => h \in CallCMake \union CallCMakeFiles
<1>1. \/ h \in CallBool /\ k \in BoolKinds
      \/ h \in CallInt \union CompareInt /\ k \in IntKinds
      \/ h \in CallDouble /\ k \in DoubleKinds
      \/ h \in ReadString \union ChangeString \union SearchString \union ConvertString /\ k \in StringKinds
      \/ h \in CallVersion /\ k \in VersionKinds
      \/ h \in CallLibrary /\ k \in LibraryKinds
      \/ h \in CallExecutable /\ k \in ExecutableKinds
      \/ h \in CallProject /\ k \in ProjectKinds
      \/ h \in CallOption /\ k \in OptionKinds
      \/ h \in CallEnum /\ k \in EnumKinds
      \/ h \in CallExtern /\ k \in ExternKinds
      \/ h \in AddToList \union ChangeList \union SearchList /\ k \in ListKinds
      \/ h \in CallClass /\ k \in ClassKinds
      \/ h \in CallCMake \union CallCMakeFiles /\ k \in CMakeKinds
  BY BoolCases, IntCases, DoubleCases, StringCases, VersionCases, LibraryCases, ExecutableCases,
     ProjectCases, OptionCases, EnumCases, ExternCases, ListCases, ClassCases, CMakeCases DEF
     Handlers
<1> QED BY <1>1, FamiliesDiffer

LEMMA FunctionsOfBuiltins ==
  ASSUME NEW n \in Builtins, NEW T, T = Named(<<n>>), NEW F, F = FunctionsOf(T)
  PROVE  \/ T = Bool /\ F = OfBool
         \/ T = Int /\ F = OfInt
         \/ T = Double /\ F = OfDouble
         \/ T = String /\ F = OfString
         \/ T = Version /\ F = OfVersion
         \/ T = Library /\ F = OfLibrary
         \/ T = Executable /\ F = OfExecutable
         \/ T = Project /\ F = OfProject
         \/ T = Option /\ F = OfOption
         \/ T \in Enums /\ F = OfEnum(T)
         \/ F = {}
<1>1. T \notin UserTypes /\ T.name[1] = n BY BuiltinShape
<1>2. /\ T = Bool <=> n = "bool"
      /\ T = Int <=> n = "int"
      /\ T = Double <=> n = "double"
      /\ T = String <=> n = "string"
      /\ T = Version <=> n = "version"
      /\ T = Library <=> n = "library"
      /\ T = Executable <=> n = "executable"
      /\ T = Project <=> n = "project"
      /\ T = Option <=> n = "option"
  BY BuiltinsDiffer DEF Bool, Int, Double, String, Version, Library, Executable, Project, Option, Builtins
<1>3. T \in Enums => n \in {"cxx_compiler_id", "cxx_standard_value", "visibility", "system_id"}
  BY <1>1, BuiltinEnumNames, BuiltinsDiffer DEF Enums, UserTypes, Builtins
<1>4. T \notin DOMAIN Classes /\ T.name[1] # "list" /\ T.name[1] # "extern"
  BY <1>1 DEF UserTypes, Builtins
<1>5. T = Bool => F = OfBool BY <1>2, <1>3, <1>4 DEF FunctionsOf
<1>6. T = Int => F = OfInt BY <1>2, <1>3, <1>4 DEF FunctionsOf
<1>7. T = Double => F = OfDouble BY <1>2, <1>3, <1>4 DEF FunctionsOf
<1>8. T = String => F = OfString BY <1>2, <1>3, <1>4 DEF FunctionsOf
<1>9. T = Version => F = OfVersion BY <1>2, <1>3, <1>4 DEF FunctionsOf
<1>10. T = Library => F = OfLibrary BY <1>2, <1>3, <1>4 DEF FunctionsOf
<1>11. T = Executable => F = OfExecutable BY <1>2, <1>3, <1>4 DEF FunctionsOf
<1>12. T = Project => F = OfProject BY <1>2, <1>3, <1>4 DEF FunctionsOf
<1>13. T = Option => F = OfOption BY <1>2, <1>3, <1>4 DEF FunctionsOf
<1>14. T \in Enums => F = OfEnum(T) BY <1>2, <1>3, <1>4 DEF FunctionsOf
<1>15. \/ T = Bool \/ T = Int \/ T = Double \/ T = String \/ T = Version \/ T = Library
       \/ T = Executable \/ T = Project \/ T = Option \/ T \in Enums \/ F = {}
  BY <1>4 DEF FunctionsOf
<1>16. CASE T = Bool BY <1>5, <1>16
<1>17. CASE T = Int BY <1>6, <1>17
<1>18. CASE T = Double BY <1>7, <1>18
<1>19. CASE T = String BY <1>8, <1>19
<1>20. CASE T = Version BY <1>9, <1>20
<1>21. CASE T = Library BY <1>10, <1>21
<1>22. CASE T = Executable BY <1>11, <1>22
<1>23. CASE T = Project BY <1>12, <1>23
<1>24. CASE T = Option BY <1>13, <1>24
<1>25. CASE T \in Enums BY <1>14, <1>25
<1>26. CASE F = {} BY <1>26
<1> QED
  BY <1>15, <1>16, <1>17, <1>18, <1>19, <1>20, <1>21, <1>22, <1>23, <1>24, <1>25, <1>26

LEMMA FunctionsOfOthers ==
  ASSUME Careful, NEW T \in KnownTypes, \A n \in Builtins : T # Named(<<n>>), NEW F, F = FunctionsOf(T)
  PROVE  \/ T \in Enums /\ F = OfEnum(T)
         \/ T \in DOMAIN Classes /\ F = OfClass(T)
         \/ \E U \in ElementTypes \union {String} : T = List(U) /\ F = OfList(T)
         \/ \E U \in ExternTypes : T = Extern(U) /\ F = OfExtern(T)
<1>1. /\ T # Bool /\ T # Int /\ T # Double /\ T # String /\ T # Version /\ T # Library
      /\ T # Executable /\ T # Project /\ T # Option /\ T \notin BuiltinEnums
  BY BuiltinEnumNames DEF Bool, Int, Double, String, Version, Library, Executable, Project, Option,
                          Builtins
<1>2. CASE T \in UserTypes
  <2>1. T.name[1] # "list" /\ T.name[1] # "extern" BY <1>2, UserShape DEF Keywords
  <2>2. T \in Enums <=> T \notin DOMAIN Classes
    BY <1>1, <1>2 DEF Careful, TypesApart, Enums, UserTypes
  <2>3. T \in Enums => F = OfEnum(T) BY <1>1, <2>1, <2>2 DEF FunctionsOf
  <2>4. T \in DOMAIN Classes => F = OfClass(T) BY <1>1, <2>1, <2>2 DEF FunctionsOf
  <2> QED BY <2>2, <2>3, <2>4
<1>3. CASE \E U \in ElementTypes \union {String} : T = List(U)
  <2>1. T.name[1] = "list" /\ T \notin UserTypes BY <1>3, ListShape
  <2>2. T \notin Enums /\ T \notin DOMAIN Classes BY <1>1, <2>1 DEF Enums, UserTypes
  <2>3. F = OfList(T) BY <1>1, <2>1, <2>2 DEF FunctionsOf
  <2> QED BY <1>3, <2>3
<1>4. CASE \E U \in ExternTypes : T = Extern(U)
  <2>1. T.name[1] = "extern" /\ T \notin UserTypes BY <1>4, ExternShape
  <2>2. T \notin Enums /\ T \notin DOMAIN Classes BY <1>1, <2>1 DEF Enums, UserTypes
  <2>3. F = OfExtern(T) BY <1>1, <2>1, <2>2 DEF FunctionsOf
  <2> QED BY <1>4, <2>3
<1> QED BY <1>2, <1>3, <1>4, KnownCases

LEMMA FunctionCases ==
  ASSUME Careful, NEW T \in KnownTypes, NEW f \in FunctionsOf(T)
  PROVE  \/ T = Bool /\ f \in OfBool
         \/ T = Int /\ f \in OfInt
         \/ T = Double /\ f \in OfDouble
         \/ T = String /\ f \in OfString
         \/ T = Version /\ f \in OfVersion
         \/ T = Library /\ f \in OfLibrary
         \/ T = Executable /\ f \in OfExecutable
         \/ T = Project /\ f \in OfProject
         \/ T = Option /\ f \in OfOption
         \/ T \in Enums /\ f \in OfEnum(T)
         \/ T \in DOMAIN Classes /\ f \in OfClass(T)
         \/ \E U \in ElementTypes \union {String} : T = List(U) /\ f \in OfList(T)
         \/ \E U \in ExternTypes : T = Extern(U) /\ f \in OfExtern(T)
BY FunctionsOfBuiltins, FunctionsOfOthers

\* Every function that a script may call has a case, and it agrees with its declaration.
Answered(f, T) ==
  /\ \E h \in Handlers : f.kind \in h.kinds
  /\ \A h \in Handlers : f.kind \in h.kinds => Agrees(f, h, T)

LEMMA BoolAnswered ==
  ASSUME Careful, NEW f \in OfBool, f.kind \notin Avoided
  PROVE  Answered(f, Bool)
<1>1. f.kind \in BoolKinds /\ \E h \in CallBool : f.kind \in h.kinds
  BY BoolCases DEF Careful
<1>2. \E h \in Handlers : f.kind \in h.kinds
  BY <1>1 DEF Handlers
<1>3. ASSUME NEW h \in Handlers, f.kind \in h.kinds PROVE Agrees(f, h, Bool)
  <2>1. h \in CallBool BY <1>1, <1>3, CasesApart
  <2> QED
    BY <1>3, <2>1, OfBoolByCallBool
<1> QED BY <1>2, <1>3 DEF Answered

LEMMA IntAnswered ==
  ASSUME Careful, NEW f \in OfInt, f.kind \notin Avoided
  PROVE  Answered(f, Int)
<1>1. f.kind \in IntKinds /\ \E h \in CallInt \union CompareInt : f.kind \in h.kinds
  BY IntCases DEF Careful
<1>2. \E h \in Handlers : f.kind \in h.kinds
  BY <1>1 DEF Handlers
<1>3. ASSUME NEW h \in Handlers, f.kind \in h.kinds PROVE Agrees(f, h, Int)
  <2>1. h \in CallInt \union CompareInt BY <1>1, <1>3, CasesApart
  <2> QED
    BY <1>3, <2>1, OfIntByCallInt, OfIntByCompareInt
<1> QED BY <1>2, <1>3 DEF Answered

LEMMA DoubleAnswered ==
  ASSUME Careful, NEW f \in OfDouble, f.kind \notin Avoided
  PROVE  Answered(f, Double)
<1>1. f.kind \in DoubleKinds /\ \E h \in CallDouble : f.kind \in h.kinds
  BY DoubleCases DEF Careful
<1>2. \E h \in Handlers : f.kind \in h.kinds
  BY <1>1 DEF Handlers
<1>3. ASSUME NEW h \in Handlers, f.kind \in h.kinds PROVE Agrees(f, h, Double)
  <2>1. h \in CallDouble BY <1>1, <1>3, CasesApart
  <2> QED
    BY <1>3, <2>1, OfDoubleByCallDouble
<1> QED BY <1>2, <1>3 DEF Answered

LEMMA StringAnswered ==
  ASSUME Careful, NEW f \in OfString, f.kind \notin Avoided
  PROVE  Answered(f, String)
<1>1. /\ f.kind \in StringKinds
      /\ \E h \in ReadString \union ChangeString \union SearchString \union ConvertString : f.kind \in h.kinds
  BY StringCases DEF Careful, OfString
<1>2. \E h \in Handlers : f.kind \in h.kinds
  BY <1>1 DEF Handlers
<1>3. ASSUME NEW h \in Handlers, f.kind \in h.kinds PROVE Agrees(f, h, String)
  <2>1. h \in ReadString \union ChangeString \union SearchString \union ConvertString
    BY <1>1, <1>3, CasesApart
  <2> QED
    BY <1>3, <2>1, ChangesOfStringByReadString, ChangesOfStringByChangeString,
       ChangesOfStringBySearchString, ChangesOfStringByConvertString,
       SearchesOfStringByReadString, SearchesOfStringByChangeString,
       SearchesOfStringBySearchString, SearchesOfStringByConvertString DEF OfString
<1> QED BY <1>2, <1>3 DEF Answered

LEMMA VersionAnswered ==
  ASSUME Careful, NEW f \in OfVersion, f.kind \notin Avoided
  PROVE  Answered(f, Version)
<1>1. f.kind \in VersionKinds /\ \E h \in CallVersion : f.kind \in h.kinds
  BY VersionCases DEF Careful
<1>2. \E h \in Handlers : f.kind \in h.kinds
  BY <1>1 DEF Handlers
<1>3. ASSUME NEW h \in Handlers, f.kind \in h.kinds PROVE Agrees(f, h, Version)
  <2>1. h \in CallVersion BY <1>1, <1>3, CasesApart
  <2> QED
    BY <1>3, <2>1, OfVersionByCallVersion
<1> QED BY <1>2, <1>3 DEF Answered

LEMMA LibraryAnswered ==
  ASSUME Careful, NEW f \in OfLibrary, f.kind \notin Avoided
  PROVE  Answered(f, Library)
<1>1. f.kind \in LibraryKinds /\ \E h \in CallLibrary : f.kind \in h.kinds
  BY LibraryCases DEF Careful
<1>2. \E h \in Handlers : f.kind \in h.kinds
  BY <1>1 DEF Handlers
<1>3. ASSUME NEW h \in Handlers, f.kind \in h.kinds PROVE Agrees(f, h, Library)
  <2>1. h \in CallLibrary BY <1>1, <1>3, CasesApart
  <2> QED
    BY <1>3, <2>1, OfLibraryByCallLibrary
<1> QED BY <1>2, <1>3 DEF Answered

LEMMA ExecutableAnswered ==
  ASSUME Careful, NEW f \in OfExecutable, f.kind \notin Avoided
  PROVE  Answered(f, Executable)
<1>1. f.kind \in ExecutableKinds /\ \E h \in CallExecutable : f.kind \in h.kinds
  BY ExecutableCases DEF Careful
<1>2. \E h \in Handlers : f.kind \in h.kinds
  BY <1>1 DEF Handlers
<1>3. ASSUME NEW h \in Handlers, f.kind \in h.kinds PROVE Agrees(f, h, Executable)
  <2>1. h \in CallExecutable BY <1>1, <1>3, CasesApart
  <2> QED
    BY <1>3, <2>1, OfExecutableByCallExecutable
<1> QED BY <1>2, <1>3 DEF Answered

LEMMA ProjectAnswered ==
  ASSUME Careful, NEW f \in OfProject, f.kind \notin Avoided
  PROVE  Answered(f, Project)
<1>1. f.kind \in ProjectKinds /\ \E h \in CallProject : f.kind \in h.kinds
  BY ProjectCases DEF Careful
<1>2. \E h \in Handlers : f.kind \in h.kinds
  BY <1>1 DEF Handlers
<1>3. ASSUME NEW h \in Handlers, f.kind \in h.kinds PROVE Agrees(f, h, Project)
  <2>1. h \in CallProject BY <1>1, <1>3, CasesApart
  <2> QED
    BY <1>3, <2>1, OfProjectByCallProject
<1> QED BY <1>2, <1>3 DEF Answered

LEMMA OptionAnswered ==
  ASSUME Careful, NEW f \in OfOption, f.kind \notin Avoided
  PROVE  Answered(f, Option)
<1>1. f.kind \in OptionKinds /\ \E h \in CallOption : f.kind \in h.kinds
  BY OptionCases DEF Careful
<1>2. \E h \in Handlers : f.kind \in h.kinds
  BY <1>1 DEF Handlers
<1>3. ASSUME NEW h \in Handlers, f.kind \in h.kinds PROVE Agrees(f, h, Option)
  <2>1. h \in CallOption BY <1>1, <1>3, CasesApart
  <2> QED
    BY <1>3, <2>1, OfOptionByCallOption
<1> QED BY <1>2, <1>3 DEF Answered

LEMMA EnumAnswered ==
  ASSUME Careful, NEW E \in Enums, NEW f \in OfEnum(E), f.kind \notin Avoided
  PROVE  Answered(f, E)
<1>1. f.kind \in EnumKinds /\ \E h \in CallEnum : f.kind \in h.kinds
  BY EnumCases DEF Careful
<1>2. \E h \in Handlers : f.kind \in h.kinds
  BY <1>1 DEF Handlers
<1>3. ASSUME NEW h \in Handlers, f.kind \in h.kinds PROVE Agrees(f, h, E)
  <2>1. h \in CallEnum BY <1>1, <1>3, CasesApart
  <2> QED
    BY <1>3, <2>1, OfEnumByCallEnum
<1> QED BY <1>2, <1>3 DEF Answered

LEMMA ExternAnswered ==
  ASSUME Careful, NEW U \in ExternTypes, NEW f \in OfExtern(Extern(U)), f.kind \notin Avoided
  PROVE  Answered(f, Extern(U))
<1>1. f.kind \in ExternKinds /\ \E h \in CallExtern : f.kind \in h.kinds
  BY ExternCases DEF Careful
<1>2. \E h \in Handlers : f.kind \in h.kinds
  BY <1>1 DEF Handlers
<1>3. ASSUME NEW h \in Handlers, f.kind \in h.kinds PROVE Agrees(f, h, Extern(U))
  <2>1. h \in CallExtern BY <1>1, <1>3, CasesApart
  <2> QED
    BY <1>3, <2>1, OfExternByCallExtern
<1> QED BY <1>2, <1>3 DEF Answered

LEMMA ListAnswered ==
  ASSUME Careful, NEW U \in ElementTypes \union {String}, NEW f \in OfList(List(U)), f.kind \notin Avoided
  PROVE  Answered(f, List(U))
<1>1. f.kind \in ListKinds /\ \E h \in AddToList \union ChangeList \union SearchList : f.kind \in h.kinds
  BY ListCases DEF Careful, OfList
<1>2. \E h \in Handlers : f.kind \in h.kinds
  BY <1>1 DEF Handlers
<1>3. ASSUME NEW h \in Handlers, f.kind \in h.kinds PROVE Agrees(f, h, List(U))
  <2>1. h \in AddToList \union ChangeList \union SearchList BY <1>1, <1>3, CasesApart
  <2> QED
    BY <1>3, <2>1, ElementsOfListByAddToList, ElementsOfListByChangeList,
       ElementsOfListBySearchList, SearchesOfListByAddToList, SearchesOfListByChangeList,
       SearchesOfListBySearchList DEF OfList
<1> QED BY <1>2, <1>3 DEF Answered

LEMMA ClassAnswered ==
  ASSUME Careful, NEW C \in DOMAIN Classes, NEW f \in OfClass(C), f.kind \notin Avoided
  PROVE  Answered(f, C)
<1>1. f.kind \in ClassKinds /\ \E h \in CallClass : f.kind \in h.kinds
  BY ClassCases DEF Careful
<1>2. \E h \in Handlers : f.kind \in h.kinds
  BY <1>1 DEF Handlers
<1>3. ASSUME NEW h \in Handlers, f.kind \in h.kinds PROVE Agrees(f, h, C)
  <2>1. h \in CallClass BY <1>1, <1>3, CasesApart
  <2> QED
    BY <1>3, <2>1, OfClassByCallClass
<1> QED BY <1>2, <1>3 DEF Answered

LEMMA CMakeAnswered ==
  ASSUME Careful, NEW f \in OfCMake, f.kind \notin Avoided
  PROVE  Answered(f, Void)
<1>1. f.kind \in CMakeKinds /\ \E h \in CallCMake \union CallCMakeFiles : f.kind \in h.kinds
  BY CMakeCases DEF Careful
<1>2. \E h \in Handlers : f.kind \in h.kinds
  BY <1>1 DEF Handlers
<1>3. ASSUME NEW h \in Handlers, f.kind \in h.kinds PROVE Agrees(f, h, Void)
  <2>1. h \in CallCMake \union CallCMakeFiles BY <1>1, <1>3, CasesApart
  <2> QED
    BY <1>3, <2>1, OfCMakeByCallCMake, OfCMakeByCallCMakeFiles
<1> QED BY <1>2, <1>3 DEF Answered

LEMMA EveryFunctionAnswered ==
  ASSUME Careful, NEW T \in KnownTypes, NEW f \in FunctionsOf(T), f.kind \notin Avoided
  PROVE  Answered(f, T)
BY FunctionCases, BoolAnswered, IntAnswered, DoubleAnswered, StringAnswered, VersionAnswered,
   LibraryAnswered, ExecutableAnswered, ProjectAnswered, OptionAnswered, EnumAnswered,
   ExternAnswered, ListAnswered, ClassAnswered

(* ----- denotations ----------------------------------------------------- *)
\* The instances that a value of the type may be: what create_void makes is a bool.
ValuesOf(T) == {Whole(T)} \union {v \in {Instance(Bool, "bool")} : T = Void}

(* An expression of the type T, or a reference to one: its instance has a  *)
(* value of the type, it is an instance_reference just when its type is    *)
(* one, and a temporary is neither a reference nor lives on.               *)
Of(T, e) ==
  /\ e.instance \in ValuesOf(T)
  /\ \/ e = Denotes(T, TRUE, FALSE, "statement", e.instance)
     \/ e = Denotes(T, FALSE, FALSE, e.lives, e.instance)
     \/ e = Denotes(Ref(T), FALSE, TRUE, e.lives, e.instance)
Sound(e) == \E T \in KnownTypes : Of(T, e)

LEMMA DenotesChanged ==
  ASSUME NEW t, NEW m, NEW r, NEW l, NEW i, NEW e, e = Denotes(t, m, r, l, i), NEW x
  PROVE  /\ [e EXCEPT !.temporary = x] = Denotes(t, x, r, l, i)
         /\ [e EXCEPT !.instance = x] = Denotes(t, m, r, l, x)
<1>1. [e EXCEPT !.temporary = x] = Denotes(t, x, r, l, i) BY DEF Denotes
<1>2. [e EXCEPT !.instance = x] = Denotes(t, m, r, l, x) BY DEF Denotes
<1> QED BY <1>1, <1>2

LEMMA InstanceFields ==
  ASSUME NEW T, NEW a
  PROVE  Instance(T, a).of = T /\ Instance(T, a).holds = a
BY DEF Instance

LEMMA TemporaryIs ==
  ASSUME NEW T, NEW i \in ValuesOf(T), NEW e, e = Denotes(T, TRUE, FALSE, "statement", i)
  PROVE  Of(T, e) /\ e.type = T /\ ~e.reference
<1>1. e.instance = i /\ e.type = T /\ ~e.reference BY DEF Denotes
<1> QED BY <1>1 DEF Of

LEMMA ValueIs ==
  ASSUME NEW T, NEW i \in ValuesOf(T), NEW l, NEW e, e = Denotes(T, FALSE, FALSE, l, i)
  PROVE  Of(T, e) /\ e.type = T /\ ~e.reference
<1>1. e.instance = i /\ e.lives = l /\ e.type = T /\ ~e.reference BY DEF Denotes
<1> QED BY <1>1 DEF Of

LEMMA ReferenceIs ==
  ASSUME NEW T, NEW i \in ValuesOf(T), NEW l, NEW e, e = Denotes(Ref(T), FALSE, TRUE, l, i)
  PROVE  Of(T, e) /\ e.type = Ref(T) /\ e.lives = l
<1>1. e.instance = i /\ e.lives = l /\ e.type = Ref(T) BY DEF Denotes
<1> QED BY <1>1 DEF Of

\* What every use of an expression of a type depends on.
LEMMA OfHas ==
  ASSUME NEW T \in KnownTypes, NEW e, Of(T, e)
  PROVE  /\ T \in Shapes
         /\ Decayed(e.type) = T
         /\ \/ e.type = T /\ ~e.reference /\ ~e.type.ref
            \/ e.type = Ref(T) /\ e.reference /\ e.type.ref /\ ~e.temporary
         /\ e.temporary => e.lives = "statement"
         /\ e.instance.holds = HeldBy(T)
         /\ T = Void \/ e.instance = Whole(T)
         /\ e.instance.of = T \/ (T = Void /\ e.instance.of = Bool)
<1>1. T \in Shapes BY KnownShape
<1>2. /\ ~T.ref /\ Decayed(T) = T /\ Ref(T).ref /\ Decayed(Ref(T)) = T BY <1>1, RefOfShape
<1>3. \/ e.type = T /\ ~e.reference
      \/ e.type = Ref(T) /\ e.reference /\ ~e.temporary
  BY DEF Of, Denotes
<1>4. e.temporary => e.lives = "statement" BY DEF Of, Denotes
<1>5. e.instance \in ValuesOf(T) BY DEF Of
<1>6. e.instance = Whole(T) \/ (T = Void /\ e.instance = Instance(Bool, "bool"))
  BY <1>5 DEF ValuesOf
<1>7. e.instance.holds = HeldBy(T) BY <1>6, InstanceFields, Alternatives DEF Whole
<1>8. e.instance.of = T \/ (T = Void /\ e.instance.of = Bool) BY <1>6, InstanceFields DEF Whole
<1> QED BY <1>1, <1>2, <1>3, <1>4, <1>6, <1>7, <1>8

LEMMA WholeIsValue ==
  ASSUME NEW T
  PROVE  Whole(T) \in ValuesOf(T)
BY DEF ValuesOf

LEMMA FreshIs ==
  ASSUME NEW T \in KnownTypes
  PROVE  Of(T, Fresh(T)) /\ Fresh(T).type = T /\ ~Fresh(T).reference
BY WholeIsValue, TemporaryIs DEF Fresh

LEMMA ComplexTypes ==
  ASSUME Careful, NEW T, IsComplex(T)
  PROVE  HeldBy(T) = "members" /\ T \notin {Void, Executable} \union DOMAIN UserEnums
<1>1. T \in DOMAIN Classes \union {CompilerInfo, SystemInfo} BY MembersOfTypes DEF IsComplex
<1>2. HeldBy(T) = "members" BY <1>1, HeldByUserTypes, Alternatives
<1>3. T \notin {Void, Executable} BY <1>2, Alternatives
<1>4. T \notin DOMAIN UserEnums BY <1>2, HeldByUserTypes
<1> QED BY <1>2, <1>3, <1>4

\* create() makes a value of every type but these.
LEMMA CreatedIsWhole ==
  ASSUME Careful, NEW T \in KnownTypes, T \notin {Void, Executable} \union DOMAIN UserEnums
  PROVE  Created(T) = Whole(T)
<1>1. CASE IsComplex(T) BY <1>1, ComplexTypes DEF Created, Whole
<1>2. CASE T \in DOMAIN Classes
  <2>1. ~IsBuiltin(T) /\ HeldBy(T) = "members" BY <1>2, HeldByUserTypes DEF IsBuiltin
  <2> QED BY <2>1 DEF Created, Whole
<1>3. CASE ~IsComplex(T) /\ T \notin DOMAIN Classes
  <2>1. IsBuiltin(T) BY <1>3 DEF IsBuiltin
  <2> QED BY <1>3, <2>1 DEF Created, Whole
<1> QED BY <1>1, <1>2, <1>3

LEMMA CopyIs ==
  ASSUME Careful, NEW T \in KnownTypes, NEW e, Of(T, e), e.instance.of \notin DOMAIN UserEnums
  PROVE  Of(T, CopyOf(e)) /\ CopyOf(e).type = T /\ ~CopyOf(e).reference
<1>1. Decayed(e.type) = T /\ e.instance \in ValuesOf(T)
  BY OfHas DEF Of
<1>2. e.instance.of = T \/ (T = Void /\ e.instance.of = Bool)
  BY OfHas
<1> DEFINE copy == CopyOf(e)
<1>0. ASSUME NEW i \in ValuesOf(T), copy = Denotes(T, FALSE, FALSE, "statement", i)
      PROVE  Of(T, copy) /\ copy.type = T /\ ~copy.reference
  <2> HIDE DEF copy
  <2> QED BY <1>0, ValueIs
<1>3. CASE IsBuiltin(e.instance.of) /\ ~IsComplex(e.instance.of)
  <2>1. copy = Denotes(T, FALSE, FALSE, "statement", e.instance) BY <1>1, <1>3 DEF CopyOf
  <2> HIDE DEF copy
  <2>2. Of(T, copy) /\ copy.type = T /\ ~copy.reference BY <1>0, <1>1, <2>1
  <2> QED BY <2>2 DEF copy
<1>4. CASE ~(IsBuiltin(e.instance.of) /\ ~IsComplex(e.instance.of))
  <2>1. copy = Denotes(T, FALSE, FALSE, "statement", Created(e.instance.of))
    BY <1>1, <1>4 DEF CopyOf
  <2>2. IsBuiltin(Void) /\ IsBuiltin(Bool) /\ IsBuiltin(Executable)
    BY BuiltinShape DEF Void, Bool, Executable, Builtins, IsBuiltin, UserTypes
  <2>3. ~IsComplex(Void) /\ ~IsComplex(Bool) /\ ~IsComplex(Executable)
    BY ComplexTypes, Alternatives
  <2>4. e.instance.of \notin {Void, Bool, Executable} BY <1>4, <2>2, <2>3
  <2>5. e.instance.of = T /\ T \notin {Void, Executable} \union DOMAIN UserEnums BY <1>2, <2>4
  <2>6. Created(e.instance.of) = Whole(T) BY <2>5, CreatedIsWhole
  <2> HIDE DEF copy
  <2>7. Of(T, copy) /\ copy.type = T /\ ~copy.reference BY <1>0, <2>1, <2>6, WholeIsValue
  <2> QED BY <2>7 DEF copy
<1> QED BY <1>3, <1>4

LEMMA NamesOfKnown ==
  ASSUME NEW T \in KnownTypes
  PROVE  /\ ~T.ref /\ Ref(T).ref /\ T.name = Ref(T).name
         /\ Decayed(T) = T /\ Decayed(Ref(T)) = T
BY KnownShape, RefOfShape

LEMMA CastIs ==
  ASSUME Careful, NEW T \in KnownTypes, NEW e, Of(T, e), NEW P \in {T, Ref(T)}, ~CastAvoided(P, e)
  PROVE  /\ Of(T, Cast(P, e)) /\ Cast(P, e).type = P
         /\ P = Ref(T) => Cast(P, e).lives = e.lives
<1>1. /\ e.type = T \/ e.type = Ref(T)
      /\ e.instance \in ValuesOf(T)
  BY OfHas DEF Of
<1>2. Same(P, e.type) <=> P = e.type BY <1>1, NamesOfKnown DEF Same
<1>3. CASE P = e.type BY <1>2, <1>3 DEF Cast
<1>4. CASE P # e.type /\ P = Ref(T)
  <2>1. Cast(P, e) = Denotes(Ref(T), FALSE, TRUE, e.lives, e.instance)
    BY <1>2, <1>4, NamesOfKnown DEF Cast
  <2>2. Of(T, Cast(P, e)) BY <1>1, <2>1, ReferenceIs
  <2>3. Cast(P, e).type = Ref(T) BY <2>1 DEF Denotes
  <2>4. Cast(P, e).lives = e.lives BY <2>1 DEF Denotes
  <2> QED BY <1>4, <2>2, <2>3, <2>4
<1>5. CASE P # e.type /\ P = T
  <2>1. Cast(P, e) = CopyOf(e) BY <1>2, <1>5, NamesOfKnown DEF Cast
  <2>2. e.instance.of \notin DOMAIN UserEnums
    BY <1>2, <1>5, NamesOfKnown DEF CastAvoided, Careful, Statements
  <2>3. Ref(T) # T BY NamesOfKnown
  <2> QED BY <1>5, <2>1, <2>2, <2>3, CopyIs
<1> QED BY <1>3, <1>4, <1>5

\* What semantic analysis lets initialize a type is of that type.
LEMMA InitializersAre ==
  ASSUME Careful, NEW T \in KnownTypes, NEW P \in {T, Ref(T)}, NEW U \in KnownTypes, NEW e, Of(U, e),
         CanInitialize(P, e)
  PROVE  U = T /\ (P = Ref(T) => ~e.temporary)
<1>1. Decayed(e.type) = U /\ (e.type = U \/ (e.type = Ref(U) /\ ~e.temporary))
  BY OfHas
<1>2. /\ T.name = P.name /\ Decayed(P) = T /\ U.name = e.type.name
      /\ P = Ref(T) => P.ref
      /\ e.type = U => ~e.type.ref
  BY <1>1, NamesOfKnown
<1>3. T.name = U.name BY <1>1, <1>2 DEF CanInitialize, Same
<1>4. U = T BY <1>3 DEF Careful, TypesApart
<1>5. P = Ref(T) => ~e.temporary BY <1>1, <1>2 DEF CanInitialize, Same
<1> QED BY <1>4, <1>5

(* ----- arguments and results ------------------------------------------- *)
\* An argument that semantic analysis has let through.
Fits(P, a) ==
  /\ \E T \in KnownTypes : P \in {T, Ref(T)} /\ Of(T, a)
  /\ ~CastAvoided(P, a)
  /\ P.ref => ~a.reference

LEMMA ReadsValue ==
  ASSUME NEW P \in KnownTypes, NEW a, Of(P, a), NEW receiver, NEW alternative,
         \/ alternative = "any"
         \/ alternative = "like" /\ HeldBy(P) \in Comparable
         \/ alternative = HeldBy(P) /\ alternative \notin {"any", "like", "members"}
  PROVE  Reads(alternative, receiver, a)
<1>1. a.instance.holds = HeldBy(P) BY OfHas
<1>2. CASE alternative = "any" BY <1>2 DEF Reads
<1>3. CASE alternative = "like" /\ HeldBy(P) \in Comparable BY <1>1, <1>3 DEF Reads
<1>4. CASE alternative = HeldBy(P) /\ alternative \notin {"any", "like", "members"}
  BY <1>1, <1>4 DEF Reads
<1> QED BY <1>2, <1>3, <1>4

LEMMA ReadsArgument ==
  ASSUME Careful, NEW T, NEW P, NEW alternative, Accepts(P, alternative, T),
         NEW a, Fits(P, a), NEW receiver
  PROVE  /\ Reads(alternative, receiver, a)
         /\ T \notin DOMAIN Classes => Reads(alternative, receiver, Cast(P, a))
<1>1. PICK U \in KnownTypes : P \in {U, Ref(U)} /\ Of(U, a) BY DEF Fits
<1>2. CASE alternative = "members" /\ P = Ref(T) /\ T \in DOMAIN Classes
  <2>1. T \in KnownTypes BY <1>2 DEF KnownTypes, Types
  <2>2. P = Ref(U) /\ U = T BY <1>1, <1>2, <2>1, NamesOfKnown
  <2>3. a.instance.holds = "members" BY <1>1, <1>2, <2>2, OfHas, HeldByUserTypes
  <2>4. ~a.reference BY <1>2, <2>1, NamesOfKnown DEF Fits
  <2>5. Reads(alternative, receiver, a) BY <1>2, <2>3, <2>4 DEF Reads
  <2> QED BY <1>2, <2>5
<1>3. CASE /\ P \in KnownTypes
           /\ \/ alternative = "any"
              \/ alternative = "like" /\ P = ValueType(T) /\ HeldBy(P) \in Comparable
              \/ alternative = HeldBy(P) /\ alternative \notin {"any", "like", "members"}
  <2>1. U = P BY <1>1, <1>3, NamesOfKnown
  <2>2. Of(P, a) /\ ~CastAvoided(P, a) BY <1>1, <2>1 DEF Fits
  <2>3. Of(P, Cast(P, a)) BY <1>3, <2>2, CastIs
  <2> QED BY <1>3, <2>2, <2>3, ReadsValue
<1> QED BY <1>2, <1>3 DEF Accepts

LEMMA OperandsAndCasts ==
  ASSUME NEW f, NEW args, DOMAIN args = DOMAIN f.params
  PROVE  /\ DOMAIN Passed(f, args) = DOMAIN args
         /\ f.name \in Operators => Passed(f, args) = args
         /\ f.name \notin Operators => \A i \in DOMAIN args : Passed(f, args)[i] = Cast(f.params[i], args[i])
BY DEF Passed

LEMMA CallIsHandled ==
  ASSUME Careful, NEW T \in KnownTypes, NEW receiver, Of(T, receiver), NEW f,
         T \in DOMAIN Classes => f.name \in Operators,
         NEW h, f.kind \in h.kinds, Agrees(f, h, T),
         NEW args, DOMAIN args = DOMAIN f.params,
         \A i \in DOMAIN args : Fits(f.params[i], args[i])
  PROVE  Handles(h, f, receiver, Passed(f, args))
<1> DEFINE passed == Passed(f, args)
<1>1. DOMAIN passed = DOMAIN args /\ DOMAIN h.args = DOMAIN args BY OperandsAndCasts DEF Agrees
<1>2. h.reads \in {"any", receiver.instance.holds} BY OfHas DEF Agrees
<1>3. ASSUME NEW i \in DOMAIN args PROVE Reads(h.args[i], receiver, passed[i])
  <2>1. Accepts(f.params[i], h.args[i], T) BY <1>3 DEF Agrees
  <2>2. Fits(f.params[i], args[i]) BY <1>3
  <2>3. /\ Reads(h.args[i], receiver, args[i])
        /\ T \notin DOMAIN Classes => Reads(h.args[i], receiver, Cast(f.params[i], args[i]))
    BY <2>1, <2>2, ReadsArgument
  <2>4. CASE f.name \in Operators BY <1>3, <2>3, <2>4, OperandsAndCasts
  <2>5. CASE f.name \notin Operators BY <1>3, <2>3, <2>5, OperandsAndCasts
  <2> QED BY <2>4, <2>5
<1> HIDE DEF passed
<1>4. Handles(h, f, receiver, passed) BY <1>1, <1>2, <1>3 DEF Handles
<1> QED BY <1>4 DEF passed

\* No element is a reference: an argument of a call is cast to the value that is its
\* parameter, and the operand of an operator is none in a careful script.
LEMMA NothingGathered ==
  ASSUME Careful, NEW T, NEW f, NEW h \in Handlers, f.kind \in h.kinds, Agrees(f, h, T),
         NEW args, DOMAIN args = DOMAIN f.params,
         \A i \in DOMAIN args : Fits(f.params[i], args[i]),
         ~OperandAvoided(f, Passed(f, args))
  PROVE  ~Gathers(h, Passed(f, args))
<1>1. CASE f.name \in Operators BY <1>1 DEF OperandAvoided, Careful, Statements
<1>2. CASE f.name \notin Operators
  <2>1. ASSUME NEW i \in DOMAIN args, h.args[i] = "any" PROVE ~Cast(f.params[i], args[i]).reference
    <3> DEFINE P == f.params[i]
               a == args[i]
    <3>1. P \in KnownTypes BY <2>1 DEF Agrees, Accepts
    <3>2. Fits(P, a) BY <2>1
    <3> HIDE DEF P, a
    <3>3. Of(P, a) /\ ~CastAvoided(P, a) BY <3>1, <3>2, NamesOfKnown DEF Fits
    <3>4. Of(P, Cast(P, a)) /\ Cast(P, a).type = P BY <3>1, <3>3, CastIs
    <3>5. ~Cast(P, a).reference BY <3>1, <3>4, OfHas, NamesOfKnown
    <3> QED BY <3>5 DEF P, a
  <2> QED BY <1>2, <2>1, OperandsAndCasts DEF Gathers
<1> QED BY <1>1, <1>2

LEMMA StoresKeep ==
  ASSUME NEW T, NEW v \in ValuesOf(T), NEW s \in {"same", HeldBy(T)}
  PROVE  [v EXCEPT !.holds = IF s = "same" THEN @ ELSE s] = v
<1>1. v = [of |-> T, holds |-> HeldBy(T)] \/ (T = Void /\ v = [of |-> Bool, holds |-> "bool"])
  BY DEF ValuesOf, Whole, Instance
<1>2. \E U : v = [of |-> U, holds |-> HeldBy(T)] BY <1>1, Alternatives
<1>3. PICK U : v = [of |-> U, holds |-> HeldBy(T)] BY <1>2
<1>4. v.holds = HeldBy(T) BY <1>3
<1>5. (IF s = "same" THEN v.holds ELSE s) = HeldBy(T) BY <1>4
<1>6. [v EXCEPT !.holds = HeldBy(T)] = v BY <1>3
<1> QED BY <1>5, <1>6

LEMMA ResultIs ==
  ASSUME Careful, NEW T \in KnownTypes, NEW receiver, Of(T, receiver), NEW f, NEW h, Agrees(f, h, T),
         NEW args, ~Gathers(h, args)
  PROVE  Sound(Returned(f, h, receiver, args))
<1> DEFINE result == Returned(f, h, receiver, args)
<1>1. receiver.instance \in ValuesOf(T) BY DEF Of
<1>2. ~T.ref /\ Ref(T).ref BY NamesOfKnown
<1>3. ASSUME NEW U \in KnownTypes, f.result = U,
             h.result \notin {"receiver", "reference_to_receiver", "reference_to_element"},
             NEW v \in ValuesOf(U), Made(h.result, receiver) = v
      PROVE  Sound(result)
  <2>1. ~U.ref BY NamesOfKnown
  <2> DEFINE m == ~f.result.ref
             r == h.result \in {"reference_to_receiver", "reference_to_element"}
  <2>2. (IF r THEN receiver.lives ELSE "statement") = "statement" BY <1>3
  <2>3. result = Denotes(U, m, r, "statement", v) BY <1>3, <2>2 DEF Returned
  <2>4. m = TRUE /\ r = FALSE BY <1>3, <2>1
  <2> HIDE DEF m, r, result
  <2>5. result = Denotes(U, TRUE, FALSE, "statement", v) BY <2>3, <2>4
  <2>6. Of(U, result) BY <2>5, TemporaryIs
  <2> QED BY <2>6 DEF Sound
<1>4. CASE h.result = "receiver" /\ f.result = T /\ h.stores \in {"same", HeldBy(T)}
  <2>1. [receiver.instance EXCEPT !.holds = IF h.stores = "same" THEN @ ELSE h.stores]
        = receiver.instance
    BY <1>1, <1>4, StoresKeep
  <2> DEFINE m == ~f.result.ref
             r == h.result \in {"reference_to_receiver", "reference_to_element"}
  <2>2. (IF r THEN receiver.lives ELSE "statement") = "statement" BY <1>4
  <2>3. result = Denotes(T, m, r, "statement", receiver.instance) BY <1>4, <2>1, <2>2 DEF Returned
  <2>4. m = TRUE /\ r = FALSE BY <1>2, <1>4
  <2> HIDE DEF m, r, result
  <2>5. result = Denotes(T, TRUE, FALSE, "statement", receiver.instance) BY <2>3, <2>4
  <2>6. Of(T, result) BY <1>1, <2>5, TemporaryIs
  <2> QED BY <2>6 DEF Sound, result
<1>5. CASE h.result = "reference_to_receiver" /\ f.result = Ref(T) /\ h.stores \in {"same", HeldBy(T)}
  <2>1. [receiver.instance EXCEPT !.holds = IF h.stores = "same" THEN @ ELSE h.stores]
        = receiver.instance
    BY <1>1, <1>5, StoresKeep
  <2>2. result = Denotes(Ref(T), FALSE, TRUE, receiver.lives, receiver.instance)
    BY <1>2, <1>5, <2>1 DEF Returned
  <2>3. Of(T, result) BY <1>1, <2>2, ReferenceIs
  <2> QED BY <2>3 DEF Sound
<1>6. CASE h.result = "its_value" /\ f.result = ValueType(T) /\ T \in {Extern(U) : U \in ExternTypes}
  <2>1. PICK U \in ExternTypes : T = Extern(U) BY <1>6
  <2>2. ValueType(T) = U /\ U \in KnownTypes
    BY <2>1, ExternShape, BuiltinsKnown DEF ExternTypes
  <2>3. T # Void BY <2>1, HeldByPrefixed, Alternatives
  <2>4. receiver.instance.of = T BY <2>3, OfHas
  <2>5. Made(h.result, receiver) = Whole(U) BY <1>6, <2>2, <2>4 DEF Made
  <2> QED BY <1>3, <1>6, <2>2, <2>5, WholeIsValue
<1>7. CASE h.result = "list" /\ f.result = T /\ HeldBy(T) = "list"
  <2>1. receiver.instance.of = T BY <1>7, OfHas, Alternatives
  <2>2. Made(h.result, receiver) = Whole(T) BY <1>7, <2>1 DEF Made, Whole
  <2> QED BY <1>3, <1>7, <2>2, WholeIsValue
<1>8. CASE h.result = "bool" /\ f.result = Void
  <2>1. Made(h.result, receiver) = Instance(Bool, "bool") BY <1>8 DEF Made, Bool
  <2>2. Instance(Bool, "bool") \in ValuesOf(Void) BY DEF ValuesOf
  <2> QED BY <1>3, <1>8, <2>1, <2>2, BuiltinsKnown
<1>9. CASE \/ h.result = "cxx_compiler_info" /\ f.result = CompilerInfo
           \/ h.result = "system_info" /\ f.result = SystemInfo
  <2>1. CompilerInfo \in KnownTypes /\ SystemInfo \in KnownTypes BY BuiltinsKnown
  <2>2. /\ CompilerInfo \notin {Void, Executable} \union DOMAIN UserEnums
        /\ SystemInfo \notin {Void, Executable} \union DOMAIN UserEnums
    BY Alternatives, HeldByUserTypes
  <2>3. Created(CompilerInfo) = Whole(CompilerInfo) /\ Created(SystemInfo) = Whole(SystemInfo)
    BY <2>1, <2>2, CreatedIsWhole
  <2>4. Made(h.result, receiver) = Created(f.result) BY <1>9 DEF Made, CompilerInfo, SystemInfo
  <2> QED BY <1>3, <1>9, <2>1, <2>3, <2>4, WholeIsValue
<1>10. CASE /\ h.result \in {"bool", "int", "double", "string", "library", "executable"}
            /\ f.result = Named(<<h.result>>)
  <2>1. f.result \in KnownTypes /\ HeldBy(f.result) = h.result
    BY <1>10, NamedTypes, Alternatives, BuiltinsKnown
  <2>2. Made(h.result, receiver) = Whole(f.result) BY <1>10, <2>1 DEF Made, Whole
  <2> QED BY <1>3, <1>10, <2>1, <2>2, WholeIsValue
<1> QED BY <1>4, <1>5, <1>6, <1>7, <1>8, <1>9, <1>10 DEF Agrees, Yields

\* A call that semantic analysis lets through works, and its result is what it said.
LEMMA CallWorks ==
  ASSUME Careful, NEW T \in KnownTypes, NEW receiver, Of(T, receiver), NEW f, Answered(f, T),
         T \in DOMAIN Classes => f.name \in Operators,
         NEW args, DOMAIN args = DOMAIN f.params,
         \A i \in DOMAIN args : Fits(f.params[i], args[i]),
         Call(f, receiver, Passed(f, args))
  PROVE  /\ UNCHANGED <<scope, failed>>
         /\ \E e : Sound(e) /\ expr' = <<e>>
<1> DEFINE passed == Passed(f, args)
<1>1. PICK h \in Handlers : f.kind \in h.kinds BY DEF Answered
<1>2. \A g \in Handlers : f.kind \in g.kinds => Agrees(f, g, T) BY DEF Answered
<1>3. Handles(h, f, receiver, passed) BY <1>1, <1>2, CallIsHandled
<1> HIDE DEF passed
<1>4. UNCHANGED scope BY DEF Call, passed
<1>5. \E g \in Handlers : Handles(g, f, receiver, passed)
                          /\ expr' = <<Returned(f, g, receiver, passed)>> /\ UNCHANGED failed
  BY <1>1, <1>3 DEF Call, passed
<1>6. \A g \in Handlers : f.kind \in g.kinds => ~Gathers(g, passed)
  <2>1. ~OperandAvoided(f, passed) BY DEF Call, passed
  <2> QED BY <1>2, <2>1, NothingGathered DEF passed
<1>7. PICK g \in Handlers : Handles(g, f, receiver, passed)
                          /\ expr' = <<Returned(f, g, receiver, passed)>> /\ UNCHANGED failed
  BY <1>5
<1>8. Sound(Returned(f, g, receiver, passed)) BY <1>2, <1>6, <1>7, ResultIs DEF Handles
<1> QED BY <1>4, <1>7, <1>8

(* ----- what is called, and with what ----------------------------------- *)
VariablesOf(T) ==
  {[type |-> T, reference |-> FALSE, lives |-> "scope", instance |-> i] : i \in ValuesOf(T)}
  \union {[type |-> Ref(T), reference |-> TRUE, lives |-> "scope", instance |-> i] : i \in ValuesOf(T)}
SoundVariables == UNION {VariablesOf(T) : T \in KnownTypes}

LEMMA VariablesAreSound ==
  ASSUME scope \in Seq(SoundVariables), NEW v \in Variables
  PROVE  Sound(v)
<1>1. CASE v \in BuiltinVariables
  <2>1. PICK T \in {Strings, StandardValue} : v = Denotes(T, FALSE, FALSE, "scope", Whole(T))
    BY <1>1 DEF BuiltinVariables
  <2>2. T \in KnownTypes BY BuiltinsKnown DEF KnownTypes, Types, Enums, BuiltinEnums
  <2>3. Of(T, v) BY <2>1, WholeIsValue, ValueIs
  <2> QED BY <2>2, <2>3 DEF Sound
<1>2. ASSUME NEW k \in DOMAIN scope, v = Variable(k) PROVE Sound(v)
  <2>1. scope[k] \in SoundVariables OBVIOUS
  <2>2. PICK T \in KnownTypes : scope[k] \in VariablesOf(T) BY <2>1 DEF SoundVariables
  <2>3. CASE \E i \in ValuesOf(T) :
               scope[k] = [type |-> T, reference |-> FALSE, lives |-> "scope", instance |-> i]
    <3>1. PICK i \in ValuesOf(T) :
            scope[k] = [type |-> T, reference |-> FALSE, lives |-> "scope", instance |-> i]
      BY <2>3
    <3>2. v = Denotes(T, FALSE, FALSE, "scope", i) BY <1>2, <3>1 DEF Variable
    <3>3. Of(T, v) BY <3>2, ValueIs
    <3> QED BY <3>3 DEF Sound
  <2>4. CASE \E i \in ValuesOf(T) :
               scope[k] = [type |-> Ref(T), reference |-> TRUE, lives |-> "scope", instance |-> i]
    <3>1. PICK i \in ValuesOf(T) :
            scope[k] = [type |-> Ref(T), reference |-> TRUE, lives |-> "scope", instance |-> i]
      BY <2>4
    <3>2. v = Denotes(Ref(T), FALSE, TRUE, "scope", i) BY <1>2, <3>1 DEF Variable
    <3>3. Of(T, v) BY <3>2, ReferenceIs
    <3> QED BY <3>3 DEF Sound
  <2> QED BY <2>2, <2>3, <2>4 DEF VariablesOf
<1> QED BY <1>1, <1>2 DEF Variables

LEMMA ArgumentFits ==
  ASSUME Careful, NEW T \in KnownTypes, NEW P \in {T, Ref(T)}, NEW a, Sound(a), SuitsCall(P, a)
  PROVE  Fits(P, a)
<1>1. PICK U \in KnownTypes : Of(U, a) BY DEF Sound
<1>2. U = T BY <1>1, InitializersAre DEF SuitsCall, Suits
<1>3. P.ref => ~a.reference BY DEF SuitsCall, Careful, Statements
<1> QED BY <1>1, <1>2, <1>3 DEF Fits, SuitsCall, Suits

LEMMA TemporaryFits ==
  ASSUME NEW T \in KnownTypes, NEW P \in {T, Ref(T)}
  PROVE  Fits(P, Fresh(Decayed(P)))
<1>1. Decayed(P) = T BY NamesOfKnown
<1>2. Of(T, Fresh(T)) /\ Fresh(T).type = T /\ ~Fresh(T).reference BY FreshIs
<1>3. ~CastAvoided(P, Fresh(T)) BY <1>2, NamesOfKnown DEF CastAvoided, Same
<1> QED BY <1>1, <1>2, <1>3 DEF Fits

KnownParameters(params) == \A i \in DOMAIN params : \E T \in KnownTypes : params[i] \in {T, Ref(T)}

LEMMA ParametersAreKnown ==
  ASSUME NEW T, NEW f, Answered(f, T)
  PROVE  KnownParameters(f.params)
<1>1. PICK h \in Handlers : Agrees(f, h, T) BY DEF Answered
<1>2. ASSUME NEW i \in DOMAIN f.params PROVE \E U \in KnownTypes : f.params[i] \in {U, Ref(U)}
  <2>1. Accepts(f.params[i], h.args[i], T) BY <1>1, <1>2 DEF Agrees
  <2>2. T \in DOMAIN Classes => T \in KnownTypes BY DEF KnownTypes, Types
  <2> QED BY <2>1, <2>2 DEF Accepts
<1> QED BY <1>2 DEF KnownParameters

LEMMA OneGiven ==
  ASSUME NEW params, KnownParameters(params), NEW k, NEW a,
         k \in DOMAIN params => Fits(params[k], a),
         NEW args, args = [Temporaries(params) EXCEPT ![k] = a]
  PROVE  DOMAIN args = DOMAIN params /\ \A i \in DOMAIN args : Fits(params[i], args[i])
<1>1. DOMAIN args = DOMAIN params BY DEF Temporaries
<1>2. ASSUME NEW i \in DOMAIN params PROVE Fits(params[i], args[i])
  <2>1. PICK T \in KnownTypes : params[i] \in {T, Ref(T)} BY DEF KnownParameters
  <2>2. CASE i = k BY <2>2 DEF Temporaries
  <2>3. CASE i # k
    <3>1. args[i] = Fresh(Decayed(params[i])) BY <2>3 DEF Temporaries
    <3> QED BY <2>1, <3>1, TemporaryFits
  <2> QED BY <2>2, <2>3
<1> QED BY <1>1, <1>2

LEMMA ArgumentsFit ==
  ASSUME Careful, scope \in Seq(SoundVariables), NEW params, KnownParameters(params),
         NEW args \in Arguments(params)
  PROVE  DOMAIN args = DOMAIN params /\ \A i \in DOMAIN args : Fits(params[i], args[i])
<1>1. CASE params = <<>> BY <1>1 DEF Arguments
<1>3. ASSUME NEW k, NEW a, k \in DOMAIN params => Fits(params[k], a),
             args = [Temporaries(params) EXCEPT ![k] = a]
      PROVE  DOMAIN args = DOMAIN params /\ \A i \in DOMAIN args : Fits(params[i], args[i])
  BY <1>3, OneGiven
<1>2. CASE params # <<>>
  <2>1. PICK a \in Variables \union {Fresh(Decayed(params[1]))} :
          SuitsCall(params[1], a) /\ args = [Temporaries(params) EXCEPT ![1] = a]
    BY <1>2 DEF Arguments
  <2>2. ASSUME 1 \in DOMAIN params PROVE Fits(params[1], a)
    <3>1. PICK T \in KnownTypes : params[1] \in {T, Ref(T)} BY <2>2 DEF KnownParameters
    <3>2. Decayed(params[1]) = T BY <3>1, NamesOfKnown
    <3>3. Sound(a) BY <2>1, <3>2, VariablesAreSound, FreshIs DEF Sound
    <3> QED BY <2>1, <3>1, <3>3, ArgumentFits
  <2>3. 1 \in DOMAIN params => Fits(params[1], a) BY <2>2
  <2> QED BY <1>3, <2>1, <2>3
<1> QED BY <1>1, <1>2

\* A value and a function that it can be called on.
Callable(receiver, f) ==
  \E T \in KnownTypes : /\ Of(T, receiver) /\ Answered(f, T)
                        /\ T \in DOMAIN Classes => f.name \in Operators

LEMMA FunctionsAnswer ==
  ASSUME Careful, NEW T \in KnownTypes, NEW f \in FunctionsOf(T), f.kind \notin Avoided
  PROVE  Answered(f, T) /\ (T \in DOMAIN Classes => f.name \in Operators)
<1>1. Answered(f, T) BY EveryFunctionAnswered
<1>2. ASSUME T \in DOMAIN Classes PROVE f.name \in Operators
  <2>1. \A n \in Builtins : T # Named(<<n>>) BY <1>2, BuiltinShape DEF UserTypes
  <2>2. HeldBy(T) = "members" BY <1>2, HeldByUserTypes
  <2>3. T \notin Enums BY <2>2, EnumsHold
  <2>4. /\ ~\E U \in ElementTypes \union {String} : T = List(U)
        /\ ~\E U \in ExternTypes : T = Extern(U)
    BY <2>2, HeldByPrefixed
  <2>5. f \in OfClass(T) BY <2>1, <2>3, <2>4, FunctionsOfOthers
  <2> QED BY <2>5, Fields DEF OfClass, Operators
<1> QED BY <1>1, <1>2

LEMMA MethodsAreCallable ==
  ASSUME Careful, NEW T \in KnownTypes, NEW receiver, Of(T, receiver), NEW f \in Methods(T)
  PROVE  Callable(receiver, f)
BY FunctionsAnswer DEF Methods, Callable

LEMMA ConstructedTypes ==
  ASSUME Careful, NEW T \in KnownTypes, NEW f \in Constructors(T)
  PROVE  T \notin {Void, Executable} \union DOMAIN UserEnums
<1>1. f \in FunctionsOf(T) /\ f.name = T.name[1] BY DEF Constructors, IsConstructor
<1>2. \A E \in Enums : HeldBy(E) = "enum" BY EnumsHold
<1>3. T # Void
  <2>1. "void" \in Builtins BY DEF Builtins
  <2>2. Void = Named(<<"void">>) BY DEF Void
  <2>3. /\ Void # Bool /\ Void # Int /\ Void # Double /\ Void # String /\ Void # Version
        /\ Void # Library /\ Void # Executable /\ Void # Project /\ Void # Option
    BY BuiltinsDiffer DEF Void, Bool, Int, Double, String, Version, Library, Executable, Project,
                          Option, Builtins
  <2>4. Void \notin Enums BY <1>2, Alternatives
  <2> QED BY <1>1, <2>1, <2>2, <2>3, <2>4, FunctionsOfBuiltins
<1>4. T # Executable
  <2>1. ASSUME T = Executable PROVE FALSE
    <3>1. "executable" \in Builtins /\ Executable = Named(<<"executable">>) BY DEF Builtins, Executable
    <3>2. T.name[1] = "executable" BY <2>1, <3>1, BuiltinShape
    <3>3. Executable \notin Enums BY <1>2, Alternatives
    <3>4. f \in OfExecutable
      BY <1>1, <2>1, <3>1, <3>3, FunctionsOfBuiltins, Alternatives
    <3>5. f.name # "executable" BY <3>4, Fields DEF OfExecutable
    <3> QED BY <1>1, <3>2, <3>5
  <2> QED BY <2>1
<1>5. T \notin DOMAIN UserEnums
  <2>1. ASSUME T \in DOMAIN UserEnums PROVE FALSE
    <3>1. /\ T.name = <<T.name[1]>> /\ T.name[1] \notin Operators
          /\ \A n \in Builtins : T # Named(<<n>>)
      BY <2>1, UserShape, BuiltinShape DEF UserTypes
    <3>2. T.name[1] # "to_string" BY <2>1, <3>1 DEF Careful, TypesApart
    <3>3. HeldBy(T) = "enum" /\ T \in Enums BY <2>1, EnumsHold DEF Enums
    <3>4. f \in OfEnum(T)
      BY <1>1, <3>1, <3>3, FunctionsOfOthers, HeldByUserTypes, HeldByPrefixed
    <3>5. f.name \in Operators \union {"to_string"} BY <3>4, Fields DEF OfEnum, Operators
    <3> QED BY <1>1, <3>1, <3>2, <3>5
  <2> QED BY <2>1
<1> QED BY <1>3, <1>4, <1>5

LEMMA CalleesAreCallable ==
  ASSUME Careful, NEW c \in Callees
  PROVE  Callable(c[1], c[2])
<1> DEFINE built == UNION {{<<New(T), f>> : f \in Constructors(T)} : T \in Types}
           named == {<<Nobody, f>> : f \in {g \in OfCMake : g.kind \notin Avoided}}
<1>0. Callees = built \union named BY DEF Callees
<1>1. CASE c \in built
  <2>1. PICK T \in Types : \E f \in Constructors(T) : c = <<New(T), f>> BY <1>1
  <2>2. PICK f \in Constructors(T) : c = <<New(T), f>> BY <2>1
  <2>3. T \in KnownTypes BY DEF KnownTypes
  <2>4. Created(T) = Whole(T) BY <2>3, ConstructedTypes, CreatedIsWhole
  <2>5. New(T) = Fresh(T)
    <3>1. \E t, m, r, l : Fresh(T) = Denotes(t, m, r, l, Whole(T)) BY DEF Fresh
    <3>2. PICK t, m, r, l : Fresh(T) = Denotes(t, m, r, l, Whole(T)) BY <3>1
    <3>3. [Fresh(T) EXCEPT !.instance = Whole(T)] = Denotes(t, m, r, l, Whole(T))
      BY <3>2 DEF Denotes
    <3> QED BY <2>4, <3>2, <3>3 DEF New
  <2>6. Of(T, New(T)) BY <2>3, <2>5, FreshIs
  <2>7. Answered(f, T) /\ (T \in DOMAIN Classes => f.name \in Operators)
    BY <2>3, FunctionsAnswer DEF Constructors
  <2>8. c[1] = New(T) /\ c[2] = f BY <2>2
  <2> QED BY <2>3, <2>6, <2>7, <2>8 DEF Callable
<1>2. CASE c \in named
  <2>1. PICK f \in OfCMake : f.kind \notin Avoided /\ c = <<Nobody, f>> BY <1>2
  <2>2. Void \in KnownTypes BY BuiltinsKnown
  <2>3. Of(Void, Nobody) BY <2>2, FreshIs DEF Nobody
  <2>4. Void \notin DOMAIN Classes BY BuiltinShape DEF Void, Builtins, UserTypes
  <2>5. Answered(f, Void) BY <2>1, CMakeAnswered
  <2>6. c[1] = Nobody /\ c[2] = f BY <2>1
  <2> QED BY <2>2, <2>3, <2>4, <2>5, <2>6 DEF Callable
<1> HIDE DEF built, named
<1> QED BY <1>0, <1>1, <1>2

LEMMA ReceiversAreCallable ==
  ASSUME Careful, scope \in Seq(SoundVariables), NEW c \in Receivers \union VariableReceivers
  PROVE  Callable(c[1], c[2])
<1>1. CASE c \in Receivers
  <2>1. PICK T \in Types : \E f \in Methods(T) : c = <<Fresh(T), f>> BY <1>1 DEF Receivers
  <2>2. PICK f \in Methods(T) : c = <<Fresh(T), f>> BY <2>1
  <2>3. T \in KnownTypes BY DEF KnownTypes
  <2>4. Callable(Fresh(T), f) BY <2>3, FreshIs, MethodsAreCallable
  <2> QED BY <2>2, <2>4
<1>2. CASE c \in VariableReceivers
  <2>1. PICK v \in Variables : \E f \in Methods(Decayed(v.type)) : c = <<v, f>>
    BY <1>2 DEF VariableReceivers
  <2>2. PICK f \in Methods(Decayed(v.type)) : c = <<v, f>> BY <2>1
  <2>3. PICK T \in KnownTypes : Of(T, v) BY VariablesAreSound DEF Sound
  <2>4. Decayed(v.type) = T BY <2>3, OfHas
  <2>5. Callable(v, f) BY <2>3, <2>4, MethodsAreCallable
  <2> QED BY <2>2, <2>5
<1> QED BY <1>1, <1>2

\* A call with arguments that fit evaluates.
Evaluated == UNCHANGED failed /\ \E e : Sound(e) /\ expr' = <<e>>

LEMMA CallEvaluates ==
  ASSUME Careful, NEW receiver, NEW f, Callable(receiver, f), NEW args, DOMAIN args = DOMAIN f.params,
         \A i \in DOMAIN args : Fits(f.params[i], args[i]),
         Call(f, receiver, Passed(f, args))
  PROVE  UNCHANGED scope /\ Evaluated
<1>1. PICK T \in KnownTypes : /\ Of(T, receiver) /\ Answered(f, T)
                              /\ T \in DOMAIN Classes => f.name \in Operators
  BY DEF Callable
<1> QED BY <1>1, CallWorks DEF Evaluated

(* ----- the steps of an evaluation -------------------------------------- *)
(* The invariant: what the script has declared and what it evaluates are   *)
(* sound, and nothing has failed.                                          *)
Soundness ==
  /\ scope \in Seq(SoundVariables)
  /\ expr = <<>> \/ (\E e \in Result : Sound(e) /\ expr = <<e>>)
  /\ failed = "nothing"

\* The three ways in which steps leave an evaluation: with an expression, or without one.
LEMMA StepsPreserve ==
  ASSUME Soundness
  PROVE  /\ scope' \in {scope, <<>>} /\ Evaluated => Soundness'
         /\ \A e : Becomes(e) /\ Sound(e) => Soundness'
         /\ \A T \in KnownTypes : \A v \in VariablesOf(T) :
              scope' = Append(scope, v) /\ Finished => Soundness'
         /\ scope' \in {scope, <<>>} /\ expr' = <<>> /\ UNCHANGED failed => Soundness'
<1>1. ASSUME NEW e, expr' = <<e>> PROVE e \in Result'
  <2>1. 1 \in DOMAIN expr' /\ expr'[1] = e BY <1>1
  <2> QED BY <2>1 DEF Result
<1>2. ASSUME scope' \in {scope, <<>>}, Evaluated PROVE Soundness'
  <2>1. <<>> \in Seq(SoundVariables) OBVIOUS
  <2>2. scope' \in Seq(SoundVariables) BY <1>2, <2>1 DEF Soundness
  <2> QED BY <1>1, <1>2, <2>2 DEF Soundness, Evaluated
<1>3. \A e : Becomes(e) /\ Sound(e) => Soundness' BY <1>1 DEF Soundness, Becomes
<1>4. ASSUME NEW T \in KnownTypes, NEW v \in VariablesOf(T), scope' = Append(scope, v), Finished
      PROVE  Soundness'
  <2>1. v \in SoundVariables BY DEF SoundVariables
  <2>2. scope' \in Seq(SoundVariables) BY <1>4, <2>1 DEF Soundness
  <2> QED BY <1>4, <2>2 DEF Soundness, Finished
<1>5. ASSUME scope' \in {scope, <<>>}, expr' = <<>>, UNCHANGED failed PROVE Soundness'
  <2>1. <<>> \in Seq(SoundVariables) OBVIOUS
  <2>2. scope' \in Seq(SoundVariables) BY <1>5, <2>1 DEF Soundness
  <2> QED BY <1>5, <2>2 DEF Soundness
<1> QED BY <1>2, <1>3, <1>4, <1>5

LEMMA ResultIsSound ==
  ASSUME Soundness, NEW e \in Result
  PROVE  Sound(e)
<1>1. PICK i \in DOMAIN expr : e = expr[i] BY DEF Result
<1>2. expr # <<>> BY <1>1
<1>3. PICK x \in Result : Sound(x) /\ expr = <<x>> BY <1>2 DEF Soundness
<1>4. e = x BY <1>1, <1>3
<1> QED BY <1>3, <1>4

LEMMA LiteralSteps ==
  ASSUME Careful, Soundness, Literal \/ Id \/ EnumConstantAccess
  PROVE  Soundness'
<1>1. CASE Literal
  <2>1. PICK T \in {Bool, Int, Double, String} : Becomes(Fresh(T)) BY <1>1 DEF Literal
  <2>2. Sound(Fresh(T)) BY BuiltinsKnown, FreshIs DEF Sound
  <2> QED BY <2>1, <2>2, StepsPreserve
<1>2. CASE Id
  <2>1. PICK v \in Variables : Becomes(v) BY <1>2 DEF Id
  <2>2. Sound(v) BY VariablesAreSound DEF Soundness
  <2> QED BY <2>1, <2>2, StepsPreserve
<1>3. CASE EnumConstantAccess
  <2>1. PICK E \in Enums : Becomes(EnumConstant(E)) BY <1>3 DEF EnumConstantAccess
  <2>2. Sound(EnumConstant(E)) BY EnumsHold, WholeIsValue, ValueIs DEF EnumConstant, Sound
  <2> QED BY <2>1, <2>2, StepsPreserve
<1> QED BY <1>1, <1>2, <1>3

LEMMA FunctionCallStep ==
  ASSUME Careful, Soundness, FunctionCall
  PROVE  Soundness'
<1>1. PICK c \in Callees : \E args \in Arguments(c[2].params) : Call(c[2], c[1], Passed(c[2], args))
  BY DEF FunctionCall
<1>2. PICK args \in Arguments(c[2].params) : Call(c[2], c[1], Passed(c[2], args)) BY <1>1
<1>3. Callable(c[1], c[2]) BY CalleesAreCallable
<1>4. KnownParameters(c[2].params) BY <1>3, ParametersAreKnown DEF Callable
<1>5. DOMAIN args = DOMAIN c[2].params /\ \A i \in DOMAIN args : Fits(c[2].params[i], args[i])
  BY <1>4, ArgumentsFit DEF Soundness
<1>6. UNCHANGED scope /\ Evaluated BY <1>2, <1>3, <1>5, CallEvaluates
<1> QED BY <1>6, StepsPreserve

LEMMA MemberFunctionCallStep ==
  ASSUME Careful, Soundness, NEW e \in Result, MemberFunctionCall(e) \/ BinaryOperator(e)
  PROVE  Soundness'
<1>1. PICK T \in KnownTypes : Of(T, e) BY ResultIsSound DEF Sound
<1>2. Decayed(e.type) = T BY <1>1, OfHas
<1>3. \E f \in Methods(T) : \E args \in Arguments(f.params) : Call(f, e, Passed(f, args))
  BY <1>2 DEF MemberFunctionCall, BinaryOperator, Passed
<1>4. PICK f \in Methods(T) : \E args \in Arguments(f.params) : Call(f, e, Passed(f, args)) BY <1>3
<1>5. PICK args \in Arguments(f.params) : Call(f, e, Passed(f, args)) BY <1>4
<1>6. Callable(e, f) BY <1>1, MethodsAreCallable
<1>7. KnownParameters(f.params) BY <1>6, ParametersAreKnown DEF Callable
<1>8. DOMAIN args = DOMAIN f.params /\ \A i \in DOMAIN args : Fits(f.params[i], args[i])
  BY <1>7, ArgumentsFit DEF Soundness
<1>9. UNCHANGED scope /\ Evaluated BY <1>5, <1>6, <1>8, CallEvaluates
<1> QED BY <1>9, StepsPreserve

LEMMA UnaryOperatorStep ==
  ASSUME Careful, Soundness, NEW e \in Result, UnaryOperator(e)
  PROVE  Soundness'
<1>1. PICK T \in KnownTypes : Of(T, e) BY ResultIsSound DEF Sound
<1>2. Decayed(e.type) = T BY <1>1, OfHas
<1>3. PICK f \in Methods(T) : f.name \in Operators /\ f.params = <<>> /\ Call(f, e, <<>>)
  BY <1>2 DEF UnaryOperator
<1> DEFINE args == <<>>
<1>4. /\ DOMAIN args = DOMAIN f.params
      /\ \A i \in DOMAIN args : Fits(f.params[i], args[i])
      /\ Call(f, e, Passed(f, args))
  BY <1>3 DEF Passed
<1> HIDE DEF args
<1>5. Callable(e, f) BY <1>1, MethodsAreCallable
<1>6. UNCHANGED scope /\ Evaluated BY <1>4, <1>5, CallEvaluates
<1> QED BY <1>6, StepsPreserve

LEMMA ArgumentOfCallStep ==
  ASSUME Careful, Soundness, NEW e \in Result, ArgumentOfCall(e)
  PROVE  Soundness'
<1>1. PICK c \in Callees \union Receivers \union VariableReceivers : \E i \in DOMAIN c[2].params :
        /\ SuitsCall(c[2].params[i], e)
        /\ Call(c[2], c[1], Passed(c[2], [Temporaries(c[2].params) EXCEPT ![i] = e]))
  BY DEF ArgumentOfCall
<1>2. PICK i \in DOMAIN c[2].params :
        /\ SuitsCall(c[2].params[i], e)
        /\ Call(c[2], c[1], Passed(c[2], [Temporaries(c[2].params) EXCEPT ![i] = e]))
  BY <1>1
<1> DEFINE f == c[2]
           receiver == c[1]
           args == [Temporaries(c[2].params) EXCEPT ![i] = e]
<1>3. Callable(receiver, f) BY CalleesAreCallable, ReceiversAreCallable DEF Soundness
<1>4. KnownParameters(f.params) BY <1>3, ParametersAreKnown DEF Callable
<1>5. Fits(f.params[i], e)
  <2>1. PICK T \in KnownTypes : f.params[i] \in {T, Ref(T)} BY <1>4 DEF KnownParameters
  <2> QED BY <1>2, <2>1, ResultIsSound, ArgumentFits
<1>6. DOMAIN args = DOMAIN f.params /\ \A j \in DOMAIN args : Fits(f.params[j], args[j])
  BY <1>4, <1>5, OneGiven
<1>7. Call(f, receiver, Passed(f, args)) BY <1>2
<1> HIDE DEF f, receiver, args
<1>8. UNCHANGED scope /\ Evaluated BY <1>3, <1>6, <1>7, CallEvaluates
<1> QED BY <1>8, StepsPreserve

LEMMA ClassMemberAccessStep ==
  ASSUME Careful, Soundness, NEW e \in Result, ClassMemberAccess(e)
  PROVE  Soundness'
<1>1. PICK T \in KnownTypes : Of(T, e) BY ResultIsSound DEF Sound
<1>2. Decayed(e.type) = T /\ e.instance.holds = HeldBy(T) BY <1>1, OfHas
<1>3. PICK M \in MembersOf(T) :
        IF e.instance.holds = "members"
          THEN Becomes(Member(M, e))
          ELSE expr' = <<>> /\ failed' = "no_such_member" /\ UNCHANGED scope
  BY <1>2 DEF ClassMemberAccess
<1>4. HeldBy(T) = "members" BY <1>3, ComplexTypes DEF IsComplex
<1>5. M \in KnownTypes /\ M \notin {Void, Executable} \union DOMAIN UserEnums
  <2>1. CASE T \in DOMAIN Classes
    <3>1. M \in Classes[T] BY <1>3, <2>1, MembersOfTypes
    <3>2. M \in KnownTypes BY <2>1, <3>1, TypingAssumption
    <3>3. M \notin {Void, Executable} \union DOMAIN UserEnums BY <2>1, <3>1 DEF Careful
    <3> QED BY <3>2, <3>3
  <2>2. CASE T \notin DOMAIN Classes
    <3>1. T \in {CompilerInfo, SystemInfo} BY <1>3, <2>2, MembersOfTypes
    <3>2. M \in {CompilerId, SystemId} BY <1>3, <3>1, MembersOfTypes
    <3>3. M \in BuiltinEnums BY <3>2 DEF BuiltinEnums
    <3>4. HeldBy(M) = "enum" /\ M \in KnownTypes BY <3>3, EnumsHold DEF Enums
    <3>5. M \notin UserTypes
      BY <3>2, BuiltinShape DEF CompilerId, SystemId, Builtins
    <3> QED BY <3>4, <3>5, Alternatives DEF UserTypes
  <2> QED BY <2>1, <2>2
<1>6. Member(M, e) = Denotes(M, FALSE, FALSE, e.lives, Whole(M)) BY <1>5, CreatedIsWhole DEF Member
<1>7. Of(M, Member(M, e)) BY <1>6, WholeIsValue, ValueIs
<1>8. Becomes(Member(M, e)) /\ Sound(Member(M, e)) BY <1>2, <1>3, <1>4, <1>5, <1>7 DEF Sound
<1> QED BY <1>8, StepsPreserve

LEMMA InitializerListStep ==
  ASSUME Careful, Soundness, NEW e \in Result, InitializerList(e)
  PROVE  Soundness'
<1>1. PICK T \in KnownTypes : Of(T, e) BY ResultIsSound DEF Sound
<1>2. Decayed(e.type) = T /\ T \in ElementTypes BY <1>1, OfHas DEF InitializerList
<1>3. T \notin {Void} \union DOMAIN UserEnums BY <1>2 DEF Careful
<1> DEFINE value == IF e.temporary THEN e ELSE CopyOf(e)
           result == Denotes(List(T), TRUE, FALSE, "statement", Instance(List(T), "list"))
<1>4. e.instance = Whole(T) /\ e.instance.of = T BY <1>1, <1>3, OfHas
<1>5. Of(T, value) /\ value.type = T /\ ~value.reference /\ value.lives = "statement"
  <2>1. CASE e.temporary BY <1>1, <2>1, OfHas
  <2>2. CASE ~e.temporary
    <3>1. Of(T, CopyOf(e)) /\ CopyOf(e).type = T /\ ~CopyOf(e).reference
      BY <1>1, <1>3, <1>4, CopyIs
    <3>2. CopyOf(e).lives = "statement" BY DEF CopyOf, Denotes
    <3> QED BY <2>2, <3>1, <3>2
  <2> QED BY <2>1, <2>2
<1>6. value.instance = Whole(value.type) BY <1>3, <1>5, OfHas
<1>7. Becomes(result)
  <2> HIDE DEF value
  <2>1. InitializerList(e) <=>
          /\ Decayed(e.type) \in ElementTypes
          /\ LET list == IF value.instance = Whole(value.type) /\ ~value.reference
                           THEN "list" ELSE "elements_of_another_type"
             IN  IF value.lives = "scope" /\ ~value.reference
                   THEN expr' = <<>> /\ failed' = "gathers_what_it_does_not_own" /\ UNCHANGED scope
                   ELSE Becomes(Denotes(List(value.type), TRUE, FALSE, "statement",
                                        Instance(List(value.type), list)))
    BY DEF InitializerList, value
  <2> QED BY <1>5, <1>6, <2>1
<1>8. List(T) \in KnownTypes /\ HeldBy(List(T)) = "list" BY <1>2, ListsHold
<1>9. Instance(List(T), "list") \in ValuesOf(List(T)) BY <1>8 DEF ValuesOf, Whole
<1>10. Of(List(T), result) BY <1>9, TemporaryIs
<1> HIDE DEF result
<1> QED BY <1>7, <1>8, <1>10, StepsPreserve DEF Sound

LEMMA TemporaryOrNot ==
  ASSUME NEW T, NEW e, Of(T, e)
  PROVE  e.temporary \in BOOLEAN
<1>1. CASE e = Denotes(T, TRUE, FALSE, "statement", e.instance)
  <2>1. e.temporary = TRUE BY <1>1 DEF Denotes
  <2> QED BY <2>1
<1>2. CASE e = Denotes(T, FALSE, FALSE, e.lives, e.instance)
  <2>1. e.temporary = FALSE BY <1>2 DEF Denotes
  <2> QED BY <2>1
<1>3. CASE e = Denotes(Ref(T), FALSE, TRUE, e.lives, e.instance)
  <2>1. e.temporary = FALSE BY <1>3 DEF Denotes
  <2> QED BY <2>1
<1> QED BY <1>1, <1>2, <1>3 DEF Of

LEMMA StillTemporary ==
  ASSUME NEW T, NEW p, Of(T, p), NEW q, Of(T, q), p.temporary = q.temporary, NEW x \in {p, q}
  PROVE  Of(T, [x EXCEPT !.temporary = p.temporary \/ q.temporary])
<1> DEFINE b == p.temporary \/ q.temporary
<1>1. p.temporary \in BOOLEAN /\ q.temporary \in BOOLEAN BY TemporaryOrNot
<1>2. b = x.temporary BY <1>1
<1>3. PICK t, m, r, l, i : x = Denotes(t, m, r, l, i) BY DEF Of
<1>4. x.temporary = m BY <1>3 DEF Denotes
<1> HIDE DEF b
<1>5. [x EXCEPT !.temporary = b] = Denotes(t, b, r, l, i) BY <1>3 DEF Denotes
<1>6. [x EXCEPT !.temporary = b] = x BY <1>2, <1>3, <1>4, <1>5
<1>7. Of(T, [x EXCEPT !.temporary = b]) BY <1>6
<1> QED BY <1>7 DEF b

LEMMA ValueOfReference ==
  ASSUME Careful, NEW T \in KnownTypes, NEW x, Of(T, x), x.type.ref, ~CastAvoided(T, x)
  PROVE  Of(T, CopyOf(x)) /\ CopyOf(x).temporary = x.temporary
<1>1. ~Same(T, x.type) /\ ~T.ref BY NamesOfKnown DEF Same
<1>2. Cast(T, x) = CopyOf(x) BY <1>1 DEF Cast
<1>3. Of(T, Cast(T, x)) BY CastIs
<1>4. CopyOf(x).temporary = FALSE BY DEF CopyOf, Denotes
<1>5. x.temporary = FALSE BY OfHas, TemporaryOrNot
<1> QED BY <1>2, <1>3, <1>4, <1>5

LEMMA TernaryStep ==
  ASSUME Careful, Soundness, NEW e \in Result, Ternary(e)
  PROVE  Soundness'
<1>1. PICK T \in KnownTypes : Of(T, e) BY ResultIsSound DEF Sound
<1>2. Decayed(e.type) = T BY <1>1, OfHas
<1> DEFINE Operand(x, mixed) == IF mixed /\ x.type.ref THEN CopyOf(x) ELSE x
<1>3. PICK other \in Variables \union {Fresh(T)} :
        /\ Same(T, Decayed(other.type))
        /\ e.temporary = other.temporary
        /\ e.type.ref # other.type.ref => ~CastAvoided(T, IF e.type.ref THEN e ELSE other)
        /\ \E x \in {Operand(e, e.type.ref # other.type.ref), Operand(other, e.type.ref # other.type.ref)} :
             Becomes([x EXCEPT !.temporary = \/ Operand(e, e.type.ref # other.type.ref).temporary
                                             \/ Operand(other, e.type.ref # other.type.ref).temporary])
  BY <1>2 DEF Ternary, Careful, Statements
<1>4. Of(T, other)
  <2>1. Sound(other) BY VariablesAreSound, FreshIs DEF Sound, Soundness
  <2>2. PICK U \in KnownTypes : Of(U, other) BY <2>1 DEF Sound
  <2>3. T.name = U.name BY <1>3, <2>2, OfHas DEF Same
  <2> QED BY <2>2, <2>3 DEF Careful, TypesApart
<1> DEFINE p == Operand(e, e.type.ref # other.type.ref)
           q == Operand(other, e.type.ref # other.type.ref)
<1>5. PICK x \in {p, q} : Becomes([x EXCEPT !.temporary = p.temporary \/ q.temporary]) BY <1>3
<1>6. Of(T, p) /\ Of(T, q) /\ p.temporary = q.temporary
  <2>1. CASE e.type.ref /\ ~other.type.ref
    <3>1. p = CopyOf(e) /\ q = other BY <2>1
    <3>2. ~CastAvoided(T, e) BY <1>3, <2>1
    <3>3. Of(T, p) /\ p.temporary = e.temporary BY <1>1, <2>1, <3>1, <3>2, ValueOfReference
    <3> QED BY <1>3, <1>4, <3>1, <3>3
  <2>2. CASE ~e.type.ref /\ other.type.ref
    <3>1. p = e /\ q = CopyOf(other) BY <2>2
    <3>2. ~CastAvoided(T, other) BY <1>3, <2>2
    <3>3. Of(T, q) /\ q.temporary = other.temporary BY <1>4, <2>2, <3>1, <3>2, ValueOfReference
    <3> QED BY <1>1, <1>3, <3>1, <3>3
  <2>3. CASE (e.type.ref /\ other.type.ref) \/ (~e.type.ref /\ ~other.type.ref)
    <3>1. p = e /\ q = other BY <2>3
    <3> QED BY <1>1, <1>3, <1>4, <3>1
  <2> QED BY <2>1, <2>2, <2>3
<1> HIDE DEF p, q
<1>7. Of(T, [x EXCEPT !.temporary = p.temporary \/ q.temporary]) BY <1>5, <1>6, StillTemporary
<1> QED BY <1>5, <1>7, StepsPreserve DEF Sound

LEMMA ReferenceOrNot ==
  ASSUME NEW T \in KnownTypes, NEW e, Of(T, e)
  PROVE  /\ e.type = T => e.reference = FALSE
         /\ e.type = Ref(T) => e.reference = TRUE
<1>1. Ref(T) # T BY NamesOfKnown
<1>2. CASE e = Denotes(T, TRUE, FALSE, "statement", e.instance)
  <2>1. e.type = T /\ e.reference = FALSE BY <1>2 DEF Denotes
  <2> QED BY <1>1, <2>1
<1>3. CASE e = Denotes(T, FALSE, FALSE, e.lives, e.instance)
  <2>1. e.type = T /\ e.reference = FALSE BY <1>3 DEF Denotes
  <2> QED BY <1>1, <2>1
<1>4. CASE e = Denotes(Ref(T), FALSE, TRUE, e.lives, e.instance)
  <2>1. e.type = Ref(T) /\ e.reference = TRUE BY <1>4 DEF Denotes
  <2> QED BY <1>1, <2>1
<1> QED BY <1>2, <1>3, <1>4 DEF Of

LEMMA DeclaredIs ==
  ASSUME NEW T \in KnownTypes, NEW P \in {T, Ref(T)}, NEW d, Of(T, d), d.type = P,
         P = Ref(T) => d.lives = "scope"
  PROVE  \E v \in VariablesOf(T) : Declared(P, d) = Append(scope, v)
<1>1. d.instance \in ValuesOf(T) BY DEF Of
<1>2. CASE P = T
  <2>1. d.reference = FALSE BY <1>2, ReferenceOrNot
  <2>2. Declared(P, d)
        = Append(scope, [type |-> T, reference |-> FALSE, lives |-> "scope", instance |-> d.instance])
    BY <1>2, <2>1 DEF Declared
  <2>3. [type |-> T, reference |-> FALSE, lives |-> "scope", instance |-> d.instance] \in VariablesOf(T)
    BY <1>1 DEF VariablesOf
  <2> QED BY <2>2, <2>3
<1>3. CASE P = Ref(T)
  <2>1. d.reference = TRUE BY <1>3, ReferenceOrNot
  <2>2. Declared(P, d)
        = Append(scope, [type |-> Ref(T), reference |-> TRUE, lives |-> "scope", instance |-> d.instance])
    BY <1>3, <2>1 DEF Declared
  <2>3. [type |-> Ref(T), reference |-> TRUE, lives |-> "scope", instance |-> d.instance]
        \in VariablesOf(T)
    BY <1>1 DEF VariablesOf
  <2> QED BY <2>2, <2>3
<1> QED BY <1>2, <1>3

LEMMA DeclarationSteps ==
  ASSUME Careful, Soundness, NEW e \in Result, VariableDeclaration(e) \/ AutoDeclaration(e)
  PROVE  Soundness'
<1>1. PICK T \in KnownTypes : Of(T, e) BY ResultIsSound DEF Sound
<1>2. Decayed(e.type) = T BY <1>1, OfHas
<1>3. "reference_to_a_temporary" \in Avoided BY DEF Careful, Statements
<1>4. PICK P \in {T, Ref(T)} : /\ ~CastAvoided(P, e)
                               /\ P = Ref(T) => e.lives = "scope"
                               /\ scope' = Declared(P, Cast(P, e))
                               /\ Finished
  <2>1. CASE VariableDeclaration(e)
    <3>1. PICK P \in {T, Ref(T)} : /\ Suits(P, e) /\ Binds(P, e)
                                   /\ scope' = Declared(P, Cast(P, e)) /\ Finished
      BY <1>2, <2>1 DEF VariableDeclaration
    <3>2. P = Ref(T) => ~e.temporary BY <1>1, <3>1, InitializersAre DEF Suits
    <3>3. P = Ref(T) => e.lives = "scope" BY <1>3, <3>1, <3>2, NamesOfKnown DEF Binds
    <3> QED BY <3>1, <3>3 DEF Suits
  <2>2. CASE AutoDeclaration(e)
    <3>1. PICK P \in {T, Ref(T)} : /\ BindsAuto(P, e) /\ ~CastAvoided(P, e)
                                   /\ scope' = Declared(P, Cast(P, e)) /\ Finished
      BY <1>2, <2>2 DEF AutoDeclaration
    <3>2. P = Ref(T) => e.lives = "scope" BY <1>3, <3>1, NamesOfKnown DEF BindsAuto
    <3> QED BY <3>1, <3>2
  <2> QED BY <2>1, <2>2
<1>5. /\ Of(T, Cast(P, e)) /\ Cast(P, e).type = P
      /\ P = Ref(T) => Cast(P, e).lives = "scope"
  BY <1>1, <1>4, CastIs
<1>6. PICK v \in VariablesOf(T) : scope' = Append(scope, v) BY <1>4, <1>5, DeclaredIs
<1> QED BY <1>4, <1>6, StepsPreserve

LEMMA DefaultDeclarationStep ==
  ASSUME Careful, Soundness, DefaultDeclaration
  PROVE  Soundness'
<1>1. PICK T \in Types \ ({Void, Executable} \union DOMAIN UserEnums) :
        /\ scope' = Append(scope, [type |-> T, reference |-> FALSE, lives |-> "scope",
                                   instance |-> Created(T)])
        /\ Finished
  BY DEF DefaultDeclaration, Careful, Statements
<1>2. T \in KnownTypes BY DEF KnownTypes
<1>3. Created(T) \in ValuesOf(T) BY <1>2, CreatedIsWhole, WholeIsValue
<1>4. [type |-> T, reference |-> FALSE, lives |-> "scope", instance |-> Created(T)] \in VariablesOf(T)
  BY <1>3 DEF VariablesOf
<1> QED BY <1>1, <1>2, <1>4, StepsPreserve

LEMMA DesignatedInitializersStep ==
  ASSUME Careful, Soundness, NEW e \in Result, DesignatedInitializers(e)
  PROVE  Soundness'
<1>1. PICK T \in KnownTypes : Of(T, e) BY ResultIsSound DEF Sound
<1>2. PICK C \in DOMAIN Classes :
        /\ ~e.type.ref
        /\ \E M \in MembersOf(C) :
             scope' = Append(scope, [type |-> C, reference |-> FALSE, lives |-> "scope",
                                     instance |-> Instance(C, IF e.reference /\ ~M.ref
                                                                THEN "shared_members" ELSE "members")])
        /\ Finished
  BY DEF DesignatedInitializers, Careful, Statements
<1>3. ~e.reference BY <1>1, <1>2, OfHas
<1>4. scope' = Append(scope, [type |-> C, reference |-> FALSE, lives |-> "scope",
                              instance |-> Instance(C, "members")])
  BY <1>2, <1>3
<1>5. Instance(C, "members") \in ValuesOf(C) BY HeldByUserTypes DEF ValuesOf, Whole
<1>6. [type |-> C, reference |-> FALSE, lives |-> "scope", instance |-> Instance(C, "members")]
      \in VariablesOf(C)
  BY <1>5 DEF VariablesOf
<1>7. C \in KnownTypes BY DEF KnownTypes, Types
<1> QED BY <1>2, <1>4, <1>6, <1>7, StepsPreserve

LEMMA ReturnSteps ==
  ASSUME Careful, Soundness, NEW e \in Result, Return(e) \/ AutoReturn(e)
  PROVE  Soundness'
<1>1. PICK T \in KnownTypes : Of(T, e) BY ResultIsSound DEF Sound
<1>2. Decayed(e.type) = T /\ e.type \in {T, Ref(T)} BY <1>1, OfHas
<1>3. "reference_to_a_temporary" \in Avoided BY DEF Careful, Statements
<1>4. PICK P \in {T, Ref(T)} : ReturnAs(P, e) BY <1>2 DEF Return, AutoReturn
<1>5. P = T /\ ~T.ref /\ ~CastAvoided(T, e) BY <1>3, <1>4, NamesOfKnown DEF ReturnAs
<1>6. Of(T, Cast(T, e)) /\ Cast(T, e).type = T BY <1>1, <1>5, CastIs
<1>7. Cast(T, e).instance \in ValuesOf(T) BY <1>6 DEF Of
<1> DEFINE m == ~T.ref
           r == Cast(T, e).reference
           result == Denotes(T, m, r, "statement", Cast(T, e).instance)
<1>8. expr' = <<result>> /\ scope' = <<>> /\ UNCHANGED failed BY <1>4, <1>5 DEF ReturnAs
<1>9. m = TRUE /\ r = FALSE BY <1>5, <1>6, ReferenceOrNot
<1> HIDE DEF m, r
<1>10. result = Denotes(T, TRUE, FALSE, "statement", Cast(T, e).instance) BY <1>9
<1>11. Of(T, result) BY <1>7, <1>10, TemporaryIs
<1> HIDE DEF result
<1>12. scope' \in {scope, <<>>} /\ Evaluated BY <1>8, <1>11 DEF Evaluated, Sound
<1> QED BY <1>12, StepsPreserve

LEMMA OtherSteps ==
  ASSUME Careful, Soundness,
         Discard \/ LeaveScope \/ \E e \in Result : Condition(e)
  PROVE  Soundness'
<1>1. CASE Discard BY <1>1, StepsPreserve DEF Discard, Finished
<1>2. CASE LeaveScope
  <2>1. expr' = <<>> /\ scope' = <<>> /\ UNCHANGED failed BY <1>2 DEF LeaveScope, Starting
  <2> QED BY <2>1, StepsPreserve
<1>3. ASSUME NEW e \in Result, Condition(e) PROVE Soundness'
  <2>1. PICK T \in KnownTypes : Of(T, e) BY ResultIsSound DEF Sound
  <2>2. T = Bool BY <1>3, <2>1, OfHas DEF Condition, Careful, Statements
  <2>3. e.instance.holds = "bool" BY <2>1, <2>2, OfHas, Alternatives
  <2>4. UNCHANGED scope /\ expr' = <<>> /\ UNCHANGED failed BY <1>3, <2>3 DEF Condition
  <2> QED BY <2>4, StepsPreserve
<1> QED BY <1>1, <1>2, <1>3

(* The invariant holds initially, and every step preserves it.             *)
LEMMA SoundnessHolds ==
  ASSUME Careful
  PROVE  /\ Init => Soundness
         /\ Soundness /\ [Next]_vars => Soundness'
<1>1. Init => Soundness
  <2>1. <<>> \in Seq(SoundVariables) OBVIOUS
  <2> QED BY <2>1 DEF Init, Soundness
<1>2. ASSUME Soundness, [Next]_vars PROVE Soundness'
  <2>1. CASE UNCHANGED vars BY <1>2, <2>1 DEF vars, Soundness, Result
  <2>2. CASE Literal \/ Id \/ EnumConstantAccess BY <1>2, <2>2, LiteralSteps
  <2>3. CASE FunctionCall BY <1>2, <2>3, FunctionCallStep
  <2>4. CASE DefaultDeclaration BY <1>2, <2>4, DefaultDeclarationStep
  <2>5. CASE Discard \/ LeaveScope BY <1>2, <2>5, OtherSteps
  <2>6. ASSUME NEW e \in Result, MemberFunctionCall(e) \/ BinaryOperator(e) PROVE Soundness'
    BY <1>2, <2>6, MemberFunctionCallStep
  <2>7. ASSUME NEW e \in Result, UnaryOperator(e) PROVE Soundness' BY <1>2, <2>7, UnaryOperatorStep
  <2>8. ASSUME NEW e \in Result, ArgumentOfCall(e) PROVE Soundness' BY <1>2, <2>8, ArgumentOfCallStep
  <2>9. ASSUME NEW e \in Result, ClassMemberAccess(e) PROVE Soundness'
    BY <1>2, <2>9, ClassMemberAccessStep
  <2>10. ASSUME NEW e \in Result, InitializerList(e) PROVE Soundness'
    BY <1>2, <2>10, InitializerListStep
  <2>11. ASSUME NEW e \in Result, Ternary(e) PROVE Soundness' BY <1>2, <2>11, TernaryStep
  <2>12. ASSUME NEW e \in Result, VariableDeclaration(e) \/ AutoDeclaration(e) PROVE Soundness'
    BY <1>2, <2>12, DeclarationSteps
  <2>13. ASSUME NEW e \in Result, DesignatedInitializers(e) PROVE Soundness'
    BY <1>2, <2>13, DesignatedInitializersStep
  <2>14. ASSUME NEW e \in Result, Return(e) \/ AutoReturn(e) PROVE Soundness'
    BY <1>2, <2>14, ReturnSteps
  <2>15. ASSUME NEW e \in Result, Condition(e) PROVE Soundness' BY <1>2, <2>15, OtherSteps
  <2> QED
    BY <1>2, <2>1, <2>2, <2>3, <2>4, <2>5, <2>6, <2>7, <2>8, <2>9, <2>10, <2>11, <2>12, <2>13, <2>14,
       <2>15 DEF Next
<1> QED BY <1>1, <1>2

LEMMA SoundVariable ==
  ASSUME NEW v \in SoundVariables
  PROVE  /\ v.instance.holds = HeldBy(Decayed(v.type))
         /\ v.instance.of = Decayed(v.type) \/ Decayed(v.type) = Void
         /\ v.reference = v.type.ref /\ v.lives = "scope"
<1>1. PICK T \in KnownTypes : v \in VariablesOf(T) BY DEF SoundVariables
<1>2. PICK i \in ValuesOf(T) :
        \/ v = [type |-> T, reference |-> FALSE, lives |-> "scope", instance |-> i]
        \/ v = [type |-> Ref(T), reference |-> TRUE, lives |-> "scope", instance |-> i]
  BY <1>1 DEF VariablesOf
<1>3. Decayed(v.type) = T /\ v.instance = i /\ v.lives = "scope" BY <1>2, NamesOfKnown
<1>4. i = Whole(T) \/ (T = Void /\ i = Instance(Bool, "bool")) BY DEF ValuesOf
<1>5. i.holds = HeldBy(T) /\ (i.of = T \/ T = Void) BY <1>4, InstanceFields, Alternatives DEF Whole
<1>6. v.reference = v.type.ref
  <2>1. CASE v = [type |-> T, reference |-> FALSE, lives |-> "scope", instance |-> i]
    <3>1. v.reference = FALSE /\ v.type = T BY <2>1
    <3>2. T.ref = FALSE BY KnownShape DEF Shapes
    <3> QED BY <3>1, <3>2
  <2>2. CASE v = [type |-> Ref(T), reference |-> TRUE, lives |-> "scope", instance |-> i]
    <3>1. v.reference = TRUE /\ v.type = Ref(T) BY <2>2
    <3>2. Ref(T).ref = TRUE
      <4>1. T \in Shapes BY KnownShape
      <4>2. T = [name |-> T.name, scope |-> T.scope, ref |-> FALSE] BY <4>1 DEF Shapes
      <4>3. Ref(T) = [name |-> T.name, scope |-> T.scope, ref |-> TRUE] BY <4>2, Referred
      <4> QED BY <4>3
    <3> QED BY <3>1, <3>2
  <2> QED BY <1>2, <2>1, <2>2
<1> QED BY <1>3, <1>5, <1>6

LEMMA SoundImplies ==
  ASSUME Soundness
  PROVE  ReadsWhatIsHeld /\ HoldsItsType /\ ReferencesLive
<1>1. ASSUME NEW k \in DOMAIN scope PROVE scope[k] \in SoundVariables BY DEF Soundness
<1>2. ASSUME NEW d \in {expr[i] : i \in DOMAIN expr}
      PROVE  /\ d.instance.holds = HeldBy(Decayed(d.type))
             /\ d.instance.of = Decayed(d.type) \/ Decayed(d.type) = Void
  <2>1. PICK T \in KnownTypes : Of(T, d) BY <1>2, ResultIsSound DEF Result, Sound
  <2> QED BY <2>1, OfHas
<1>3. HoldsItsType BY <1>1, <1>2, SoundVariable DEF HoldsItsType
<1>4. ReferencesLive BY <1>1, SoundVariable DEF ReferencesLive
<1> QED BY <1>3, <1>4 DEF ReadsWhatIsHeld, Soundness

(* ----- overloads ------------------------------------------------------- *)
\* What makes two functions overloads of each other, and what tells their calls apart.
Overload(f, g) == f # g /\ f.name = g.name /\ Len(f.params) = Len(g.params) /\ f.params # <<>>
Apart(f, g) == \E k \in DOMAIN f.params \intersect DOMAIN g.params :
  f.params[k] \in KnownTypes /\ g.params[k] \in KnownTypes /\ f.params[k] # g.params[k]
Unambiguous(F) == \A f, g \in F : Overload(f, g) => Apart(f, g)

LEMMA ParametersDiffer ==
  /\ {Bool, Int, Double, Library, Executable} \subseteq KnownTypes
  /\ Bool # Int /\ Bool # Double /\ Int # Double /\ Executable # Library
BY BuiltinsKnown, BuiltinsDiffer DEF Bool, Int, Double, Executable, Library, Builtins

LEMMA NumbersUnambiguous ==
  Unambiguous(OfBool) /\ Unambiguous(OfInt) /\ Unambiguous(OfDouble)
<1>1. Unambiguous(OfBool) BY Fields, ParametersDiffer DEF OfBool, Overload, Apart, Unambiguous
<1>2. Unambiguous(OfInt) BY Fields, ParametersDiffer DEF OfInt, Overload, Apart, Unambiguous
<1>3. Unambiguous(OfDouble) BY Fields, ParametersDiffer DEF OfDouble, Overload, Apart, Unambiguous
<1> QED BY <1>1, <1>2, <1>3

LEMMA ChangesOfStringUnambiguous == Unambiguous(ChangesOfString)
<1> SUFFICES ASSUME NEW f \in ChangesOfString, NEW g \in ChangesOfString PROVE Overload(f,
  g) => Apart(f, g)
  BY DEF Unambiguous
<1>1. CASE f.kind = "string_ctor_string"
  <2>0. f = Fn("string_ctor_string", "string", <<String>>, String) BY <1>1, Fields DEF ChangesOfString
  <2>1. f.params = <<String>> /\ f.name = "string" BY <2>0, Fields
  <2>2. CASE g.kind = "string_ctor_string_count"
    <3>1. g = Fn("string_ctor_string_count", "string", <<String, Int>>, String)
      BY <2>2, Fields DEF ChangesOfString
    <3>2. g.params = <<String, Int>> BY <3>1, Fields
    <3> QED BY <2>1, <3>2 DEF Overload
  <2>3. CASE g.kind \notin {"string_ctor_string_count"}
    <3>1. g.kind = "string_ctor_string" => g = f BY <2>0, Fields DEF ChangesOfString
    <3>2. g.kind # "string_ctor_string" /\ g.params # <<>> => g.name # "string"
      BY <2>3, Fields DEF ChangesOfString
    <3>3. g.params = <<>> => Len(f.params) # Len(g.params) BY <2>1
    <3> QED BY <2>1, <3>1, <3>2, <3>3 DEF Overload
  <2> QED BY <2>2, <2>3
<1>2. CASE f.kind = "string_ctor_string_count"
  <2>0. f = Fn("string_ctor_string_count", "string", <<String, Int>>, String)
    BY <1>2, Fields DEF ChangesOfString
  <2>1. f.params = <<String, Int>> /\ f.name = "string" BY <2>0, Fields
  <2>2. CASE g.kind = "string_ctor_string"
    <3>1. g = Fn("string_ctor_string", "string", <<String>>, String) BY <2>2, Fields DEF ChangesOfString
    <3>2. g.params = <<String>> BY <3>1, Fields
    <3> QED BY <2>1, <3>2 DEF Overload
  <2>3. CASE g.kind \notin {"string_ctor_string"}
    <3>1. g.kind = "string_ctor_string_count" => g = f BY <2>0, Fields DEF ChangesOfString
    <3>2. g.kind # "string_ctor_string_count" /\ g.params # <<>> => g.name # "string"
      BY <2>3, Fields DEF ChangesOfString
    <3>3. g.params = <<>> => Len(f.params) # Len(g.params) BY <2>1
    <3> QED BY <2>1, <3>1, <3>2, <3>3 DEF Overload
  <2> QED BY <2>2, <2>3
<1>3. CASE f.kind = "string_operator_equal_equal" BY <1>3, Fields DEF ChangesOfString, Overload
<1>4. CASE f.kind = "string_operator_not_equal" BY <1>4, Fields DEF ChangesOfString, Overload
<1>5. CASE f.kind = "string_operator_less" BY <1>5, Fields DEF ChangesOfString, Overload
<1>6. CASE f.kind = "string_operator_less_equal" BY <1>6, Fields DEF ChangesOfString, Overload
<1>7. CASE f.kind = "string_operator_greater" BY <1>7, Fields DEF ChangesOfString, Overload
<1>8. CASE f.kind = "string_operator_greater_equal" BY <1>8, Fields DEF ChangesOfString, Overload
<1>9. CASE f.kind = "string_operator_plus" BY <1>9, Fields DEF ChangesOfString, Overload
<1>10. CASE f.kind = "string_operator_plus_equal" BY <1>10, Fields DEF ChangesOfString, Overload
<1>11. CASE f.kind = "string_operator_slash" BY <1>11, Fields DEF ChangesOfString, Overload
<1>12. CASE f.kind = "string_operator_slash_equal" BY <1>12, Fields DEF ChangesOfString, Overload
<1>13. CASE f.kind = "string_insert_pos_str" BY <1>13, Fields DEF ChangesOfString, Overload
<1>14. CASE f.kind = "string_erase_pos"
  <2>0. f = Fn("string_erase_pos", "erase", <<Int>>, Ref(String)) BY <1>14, Fields DEF ChangesOfString
  <2>1. f.params = <<Int>> /\ f.name = "erase" BY <2>0, Fields
  <2>2. CASE g.kind = "string_erase_pos_count"
    <3>1. g = Fn("string_erase_pos_count", "erase", <<Int, Int>>, Ref(String))
      BY <2>2, Fields DEF ChangesOfString
    <3>2. g.params = <<Int, Int>> BY <3>1, Fields
    <3> QED BY <2>1, <3>2 DEF Overload
  <2>3. CASE g.kind \notin {"string_erase_pos_count"}
    <3>1. g.kind = "string_erase_pos" => g = f BY <2>0, Fields DEF ChangesOfString
    <3>2. g.kind # "string_erase_pos" /\ g.params # <<>> => g.name # "erase"
      BY <2>3, Fields DEF ChangesOfString
    <3>3. g.params = <<>> => Len(f.params) # Len(g.params) BY <2>1
    <3> QED BY <2>1, <3>1, <3>2, <3>3 DEF Overload
  <2> QED BY <2>2, <2>3
<1>15. CASE f.kind = "string_erase_pos_count"
  <2>0. f = Fn("string_erase_pos_count", "erase", <<Int, Int>>, Ref(String))
    BY <1>15, Fields DEF ChangesOfString
  <2>1. f.params = <<Int, Int>> /\ f.name = "erase" BY <2>0, Fields
  <2>2. CASE g.kind = "string_erase_pos"
    <3>1. g = Fn("string_erase_pos", "erase", <<Int>>, Ref(String)) BY <2>2, Fields DEF ChangesOfString
    <3>2. g.params = <<Int>> BY <3>1, Fields
    <3> QED BY <2>1, <3>2 DEF Overload
  <2>3. CASE g.kind \notin {"string_erase_pos"}
    <3>1. g.kind = "string_erase_pos_count" => g = f BY <2>0, Fields DEF ChangesOfString
    <3>2. g.kind # "string_erase_pos_count" /\ g.params # <<>> => g.name # "erase"
      BY <2>3, Fields DEF ChangesOfString
    <3>3. g.params = <<>> => Len(f.params) # Len(g.params) BY <2>1
    <3> QED BY <2>1, <3>1, <3>2, <3>3 DEF Overload
  <2> QED BY <2>2, <2>3
<1>0. CASE f.params = <<>> BY <1>0 DEF Overload
<1> QED BY <1>0, <1>1, <1>2, <1>3, <1>4, <1>5, <1>6, <1>7, <1>8, <1>9, <1>10, <1>11, <1>12, <1>13,
  <1>14, <1>15, Fields DEF ChangesOfString

LEMMA StringUnambiguous == Unambiguous(OfString)
<1>1. \A f, g \in SearchesOfString : ~Overload(f, g) BY Fields DEF SearchesOfString, Overload
<1>2. \A f \in ChangesOfString, g \in SearchesOfString : f.name # g.name
  BY Fields DEF ChangesOfString, SearchesOfString
<1>3. \A f \in ChangesOfString, g \in SearchesOfString : ~Overload(f, g) /\ ~Overload(g, f)
  BY <1>2 DEF Overload
<1> QED BY <1>1, <1>3, ChangesOfStringUnambiguous DEF OfString, Unambiguous

LEMMA OfVersionUnambiguous == Unambiguous(OfVersion)
<1> SUFFICES ASSUME NEW f \in OfVersion, NEW g \in OfVersion PROVE Overload(f, g) => Apart(f, g)
  BY DEF Unambiguous
<1>1. CASE f.kind = "version_ctor_major"
  <2>0. f = Fn("version_ctor_major", "version", <<Int>>, Version) BY <1>1, Fields DEF OfVersion
  <2>1. f.params = <<Int>> /\ f.name = "version" BY <2>0, Fields
  <2>2. CASE g.kind = "version_ctor_major_minor"
    <3>1. g = Fn("version_ctor_major_minor", "version", <<Int, Int>>, Version)
      BY <2>2, Fields DEF OfVersion
    <3>2. g.params = <<Int, Int>> BY <3>1, Fields
    <3> QED BY <2>1, <3>2 DEF Overload
  <2>3. CASE g.kind = "version_ctor_major_minor_patch"
    <3>1. g = Fn("version_ctor_major_minor_patch", "version", <<Int, Int, Int>>, Version)
      BY <2>3, Fields DEF OfVersion
    <3>2. g.params = <<Int, Int, Int>> BY <3>1, Fields
    <3> QED BY <2>1, <3>2 DEF Overload
  <2>4. CASE g.kind = "version_ctor_major_minor_patch_tweak"
    <3>1. g = Fn("version_ctor_major_minor_patch_tweak", "version", <<Int, Int, Int, Int>>, Version)
      BY <2>4, Fields DEF OfVersion
    <3>2. g.params = <<Int, Int, Int, Int>> BY <3>1, Fields
    <3> QED BY <2>1, <3>2 DEF Overload
  <2>5. CASE g.kind \notin {"version_ctor_major_minor", "version_ctor_major_minor_patch",
    "version_ctor_major_minor_patch_tweak"}
    <3>1. g.kind = "version_ctor_major" => g = f BY <2>0, Fields DEF OfVersion
    <3>2. g.kind # "version_ctor_major" /\ g.params # <<>> => g.name # "version"
      BY <2>5, Fields DEF OfVersion
    <3>3. g.params = <<>> => Len(f.params) # Len(g.params) BY <2>1
    <3> QED BY <2>1, <3>1, <3>2, <3>3 DEF Overload
  <2> QED BY <2>2, <2>3, <2>4, <2>5
<1>2. CASE f.kind = "version_ctor_major_minor"
  <2>0. f = Fn("version_ctor_major_minor", "version", <<Int, Int>>, Version)
    BY <1>2, Fields DEF OfVersion
  <2>1. f.params = <<Int, Int>> /\ f.name = "version" BY <2>0, Fields
  <2>2. CASE g.kind = "version_ctor_major"
    <3>1. g = Fn("version_ctor_major", "version", <<Int>>, Version) BY <2>2, Fields DEF OfVersion
    <3>2. g.params = <<Int>> BY <3>1, Fields
    <3> QED BY <2>1, <3>2 DEF Overload
  <2>3. CASE g.kind = "version_ctor_major_minor_patch"
    <3>1. g = Fn("version_ctor_major_minor_patch", "version", <<Int, Int, Int>>, Version)
      BY <2>3, Fields DEF OfVersion
    <3>2. g.params = <<Int, Int, Int>> BY <3>1, Fields
    <3> QED BY <2>1, <3>2 DEF Overload
  <2>4. CASE g.kind = "version_ctor_major_minor_patch_tweak"
    <3>1. g = Fn("version_ctor_major_minor_patch_tweak", "version", <<Int, Int, Int, Int>>, Version)
      BY <2>4, Fields DEF OfVersion
    <3>2. g.params = <<Int, Int, Int, Int>> BY <3>1, Fields
    <3> QED BY <2>1, <3>2 DEF Overload
  <2>5. CASE g.kind \notin {"version_ctor_major", "version_ctor_major_minor_patch",
    "version_ctor_major_minor_patch_tweak"}
    <3>1. g.kind = "version_ctor_major_minor" => g = f BY <2>0, Fields DEF OfVersion
    <3>2. g.kind # "version_ctor_major_minor" /\ g.params # <<>> => g.name # "version"
      BY <2>5, Fields DEF OfVersion
    <3>3. g.params = <<>> => Len(f.params) # Len(g.params) BY <2>1
    <3> QED BY <2>1, <3>1, <3>2, <3>3 DEF Overload
  <2> QED BY <2>2, <2>3, <2>4, <2>5
<1>3. CASE f.kind = "version_ctor_major_minor_patch"
  <2>0. f = Fn("version_ctor_major_minor_patch", "version", <<Int, Int, Int>>, Version)
    BY <1>3, Fields DEF OfVersion
  <2>1. f.params = <<Int, Int, Int>> /\ f.name = "version" BY <2>0, Fields
  <2>2. CASE g.kind = "version_ctor_major"
    <3>1. g = Fn("version_ctor_major", "version", <<Int>>, Version) BY <2>2, Fields DEF OfVersion
    <3>2. g.params = <<Int>> BY <3>1, Fields
    <3> QED BY <2>1, <3>2 DEF Overload
  <2>3. CASE g.kind = "version_ctor_major_minor"
    <3>1. g = Fn("version_ctor_major_minor", "version", <<Int, Int>>, Version)
      BY <2>3, Fields DEF OfVersion
    <3>2. g.params = <<Int, Int>> BY <3>1, Fields
    <3> QED BY <2>1, <3>2 DEF Overload
  <2>4. CASE g.kind = "version_ctor_major_minor_patch_tweak"
    <3>1. g = Fn("version_ctor_major_minor_patch_tweak", "version", <<Int, Int, Int, Int>>, Version)
      BY <2>4, Fields DEF OfVersion
    <3>2. g.params = <<Int, Int, Int, Int>> BY <3>1, Fields
    <3> QED BY <2>1, <3>2 DEF Overload
  <2>5. CASE g.kind \notin {"version_ctor_major", "version_ctor_major_minor",
    "version_ctor_major_minor_patch_tweak"}
    <3>1. g.kind = "version_ctor_major_minor_patch" => g = f BY <2>0, Fields DEF OfVersion
    <3>2. g.kind # "version_ctor_major_minor_patch" /\ g.params # <<>> => g.name # "version"
      BY <2>5, Fields DEF OfVersion
    <3>3. g.params = <<>> => Len(f.params) # Len(g.params) BY <2>1
    <3> QED BY <2>1, <3>1, <3>2, <3>3 DEF Overload
  <2> QED BY <2>2, <2>3, <2>4, <2>5
<1>4. CASE f.kind = "version_ctor_major_minor_patch_tweak"
  <2>0. f = Fn("version_ctor_major_minor_patch_tweak", "version", <<Int, Int, Int, Int>>, Version)
    BY <1>4, Fields DEF OfVersion
  <2>1. f.params = <<Int, Int, Int, Int>> /\ f.name = "version" BY <2>0, Fields
  <2>2. CASE g.kind = "version_ctor_major"
    <3>1. g = Fn("version_ctor_major", "version", <<Int>>, Version) BY <2>2, Fields DEF OfVersion
    <3>2. g.params = <<Int>> BY <3>1, Fields
    <3> QED BY <2>1, <3>2 DEF Overload
  <2>3. CASE g.kind = "version_ctor_major_minor"
    <3>1. g = Fn("version_ctor_major_minor", "version", <<Int, Int>>, Version)
      BY <2>3, Fields DEF OfVersion
    <3>2. g.params = <<Int, Int>> BY <3>1, Fields
    <3> QED BY <2>1, <3>2 DEF Overload
  <2>4. CASE g.kind = "version_ctor_major_minor_patch"
    <3>1. g = Fn("version_ctor_major_minor_patch", "version", <<Int, Int, Int>>, Version)
      BY <2>4, Fields DEF OfVersion
    <3>2. g.params = <<Int, Int, Int>> BY <3>1, Fields
    <3> QED BY <2>1, <3>2 DEF Overload
  <2>5. CASE g.kind \notin {"version_ctor_major", "version_ctor_major_minor",
    "version_ctor_major_minor_patch"}
    <3>1. g.kind = "version_ctor_major_minor_patch_tweak" => g = f BY <2>0, Fields DEF OfVersion
    <3>2. g.kind # "version_ctor_major_minor_patch_tweak" /\ g.params # <<>> => g.name # "version"
      BY <2>5, Fields DEF OfVersion
    <3>3. g.params = <<>> => Len(f.params) # Len(g.params) BY <2>1
    <3> QED BY <2>1, <3>1, <3>2, <3>3 DEF Overload
  <2> QED BY <2>2, <2>3, <2>4, <2>5
<1>5. CASE f.kind = "version_operator_equal_equal" BY <1>5, Fields DEF OfVersion, Overload
<1>6. CASE f.kind = "version_operator_not_equal" BY <1>6, Fields DEF OfVersion, Overload
<1>7. CASE f.kind = "version_operator_less" BY <1>7, Fields DEF OfVersion, Overload
<1>8. CASE f.kind = "version_operator_less_equal" BY <1>8, Fields DEF OfVersion, Overload
<1>9. CASE f.kind = "version_operator_greater" BY <1>9, Fields DEF OfVersion, Overload
<1>10. CASE f.kind = "version_operator_greater_equal" BY <1>10, Fields DEF OfVersion, Overload
<1>0. CASE f.params = <<>> BY <1>0 DEF Overload
<1> QED BY <1>0, <1>1, <1>2, <1>3, <1>4, <1>5, <1>6, <1>7, <1>8, <1>9, <1>10, Fields DEF OfVersion

LEMMA OfCMakeUnambiguous == Unambiguous(OfCMake)
<1> SUFFICES ASSUME NEW f \in OfCMake, NEW g \in OfCMake PROVE Overload(f, g) => Apart(f, g)
  BY DEF Unambiguous
<1>1. CASE f.kind = "cmake_minimum_required" BY <1>1, Fields DEF OfCMake, Overload
<1>2. CASE f.kind = "cmake_message" BY <1>2, Fields DEF OfCMake, Overload
<1>3. CASE f.kind = "cmake_warning" BY <1>3, Fields DEF OfCMake, Overload
<1>4. CASE f.kind = "cmake_error" BY <1>4, Fields DEF OfCMake, Overload
<1>5. CASE f.kind = "cmake_fatal_error" BY <1>5, Fields DEF OfCMake, Overload
<1>6. CASE f.kind = "cmake_install_executable"
  <2>0. f = Fn("cmake_install_executable", "install", <<Executable>>, Void) BY <1>6, Fields DEF OfCMake
  <2>1. f.params = <<Executable>> /\ f.name = "install" BY <2>0, Fields
  <2>2. CASE g.kind = "cmake_install_executable_destination"
    <3>1. g = Fn("cmake_install_executable_destination", "install", <<Executable, String>>, Void)
      BY <2>2, Fields DEF OfCMake
    <3>2. g.params = <<Executable, String>> BY <3>1, Fields
    <3> QED BY <2>1, <3>2 DEF Overload
  <2>3. CASE g.kind = "cmake_install_library"
    <3>1. g = Fn("cmake_install_library", "install", <<Library>>, Void) BY <2>3, Fields DEF OfCMake
    <3>2. g.params = <<Library>> BY <3>1, Fields
    <3> QED BY <2>1, <3>2, ParametersDiffer DEF Apart
  <2>4. CASE g.kind = "cmake_install_library_destination"
    <3>1. g = Fn("cmake_install_library_destination", "install", <<Library, String>>, Void)
      BY <2>4, Fields DEF OfCMake
    <3>2. g.params = <<Library, String>> BY <3>1, Fields
    <3> QED BY <2>1, <3>2 DEF Overload
  <2>5. CASE g.kind \notin {"cmake_install_executable_destination", "cmake_install_library",
    "cmake_install_library_destination"}
    <3>1. g.kind = "cmake_install_executable" => g = f BY <2>0, Fields DEF OfCMake
    <3>2. g.kind # "cmake_install_executable" /\ g.params # <<>> => g.name # "install"
      BY <2>5, Fields DEF OfCMake
    <3>3. g.params = <<>> => Len(f.params) # Len(g.params) BY <2>1
    <3> QED BY <2>1, <3>1, <3>2, <3>3 DEF Overload
  <2> QED BY <2>2, <2>3, <2>4, <2>5
<1>7. CASE f.kind = "cmake_install_executable_destination"
  <2>0. f = Fn("cmake_install_executable_destination", "install", <<Executable, String>>, Void)
    BY <1>7, Fields DEF OfCMake
  <2>1. f.params = <<Executable, String>> /\ f.name = "install" BY <2>0, Fields
  <2>2. CASE g.kind = "cmake_install_executable"
    <3>1. g = Fn("cmake_install_executable", "install", <<Executable>>, Void)
      BY <2>2, Fields DEF OfCMake
    <3>2. g.params = <<Executable>> BY <3>1, Fields
    <3> QED BY <2>1, <3>2 DEF Overload
  <2>3. CASE g.kind = "cmake_install_library"
    <3>1. g = Fn("cmake_install_library", "install", <<Library>>, Void) BY <2>3, Fields DEF OfCMake
    <3>2. g.params = <<Library>> BY <3>1, Fields
    <3> QED BY <2>1, <3>2 DEF Overload
  <2>4. CASE g.kind = "cmake_install_library_destination"
    <3>1. g = Fn("cmake_install_library_destination", "install", <<Library, String>>, Void)
      BY <2>4, Fields DEF OfCMake
    <3>2. g.params = <<Library, String>> BY <3>1, Fields
    <3> QED BY <2>1, <3>2, ParametersDiffer DEF Apart
  <2>5. CASE g.kind \notin {"cmake_install_executable", "cmake_install_library",
    "cmake_install_library_destination"}
    <3>1. g.kind = "cmake_install_executable_destination" => g = f BY <2>0, Fields DEF OfCMake
    <3>2. g.kind # "cmake_install_executable_destination" /\ g.params # <<>> => g.name # "install"
      BY <2>5, Fields DEF OfCMake
    <3>3. g.params = <<>> => Len(f.params) # Len(g.params) BY <2>1
    <3> QED BY <2>1, <3>1, <3>2, <3>3 DEF Overload
  <2> QED BY <2>2, <2>3, <2>4, <2>5
<1>8. CASE f.kind = "cmake_install_library"
  <2>0. f = Fn("cmake_install_library", "install", <<Library>>, Void) BY <1>8, Fields DEF OfCMake
  <2>1. f.params = <<Library>> /\ f.name = "install" BY <2>0, Fields
  <2>2. CASE g.kind = "cmake_install_executable"
    <3>1. g = Fn("cmake_install_executable", "install", <<Executable>>, Void)
      BY <2>2, Fields DEF OfCMake
    <3>2. g.params = <<Executable>> BY <3>1, Fields
    <3> QED BY <2>1, <3>2, ParametersDiffer DEF Apart
  <2>3. CASE g.kind = "cmake_install_executable_destination"
    <3>1. g = Fn("cmake_install_executable_destination", "install", <<Executable, String>>, Void)
      BY <2>3, Fields DEF OfCMake
    <3>2. g.params = <<Executable, String>> BY <3>1, Fields
    <3> QED BY <2>1, <3>2 DEF Overload
  <2>4. CASE g.kind = "cmake_install_library_destination"
    <3>1. g = Fn("cmake_install_library_destination", "install", <<Library, String>>, Void)
      BY <2>4, Fields DEF OfCMake
    <3>2. g.params = <<Library, String>> BY <3>1, Fields
    <3> QED BY <2>1, <3>2 DEF Overload
  <2>5. CASE g.kind \notin {"cmake_install_executable", "cmake_install_executable_destination",
    "cmake_install_library_destination"}
    <3>1. g.kind = "cmake_install_library" => g = f BY <2>0, Fields DEF OfCMake
    <3>2. g.kind # "cmake_install_library" /\ g.params # <<>> => g.name # "install"
      BY <2>5, Fields DEF OfCMake
    <3>3. g.params = <<>> => Len(f.params) # Len(g.params) BY <2>1
    <3> QED BY <2>1, <3>1, <3>2, <3>3 DEF Overload
  <2> QED BY <2>2, <2>3, <2>4, <2>5
<1>9. CASE f.kind = "cmake_install_library_destination"
  <2>0. f = Fn("cmake_install_library_destination", "install", <<Library, String>>, Void)
    BY <1>9, Fields DEF OfCMake
  <2>1. f.params = <<Library, String>> /\ f.name = "install" BY <2>0, Fields
  <2>2. CASE g.kind = "cmake_install_executable"
    <3>1. g = Fn("cmake_install_executable", "install", <<Executable>>, Void)
      BY <2>2, Fields DEF OfCMake
    <3>2. g.params = <<Executable>> BY <3>1, Fields
    <3> QED BY <2>1, <3>2 DEF Overload
  <2>3. CASE g.kind = "cmake_install_executable_destination"
    <3>1. g = Fn("cmake_install_executable_destination", "install", <<Executable, String>>, Void)
      BY <2>3, Fields DEF OfCMake
    <3>2. g.params = <<Executable, String>> BY <3>1, Fields
    <3> QED BY <2>1, <3>2, ParametersDiffer DEF Apart
  <2>4. CASE g.kind = "cmake_install_library"
    <3>1. g = Fn("cmake_install_library", "install", <<Library>>, Void) BY <2>4, Fields DEF OfCMake
    <3>2. g.params = <<Library>> BY <3>1, Fields
    <3> QED BY <2>1, <3>2 DEF Overload
  <2>5. CASE g.kind \notin {"cmake_install_executable", "cmake_install_executable_destination",
    "cmake_install_library"}
    <3>1. g.kind = "cmake_install_library_destination" => g = f BY <2>0, Fields DEF OfCMake
    <3>2. g.kind # "cmake_install_library_destination" /\ g.params # <<>> => g.name # "install"
      BY <2>5, Fields DEF OfCMake
    <3>3. g.params = <<>> => Len(f.params) # Len(g.params) BY <2>1
    <3> QED BY <2>1, <3>1, <3>2, <3>3 DEF Overload
  <2> QED BY <2>2, <2>3, <2>4, <2>5
<1>10. CASE f.kind = "cmake_add_test" BY <1>10, Fields DEF OfCMake, Overload
<1>11. CASE f.kind = "cmake_add_custom_command" BY <1>11, Fields DEF OfCMake, Overload
<1>12. CASE f.kind = "cmake_make_directory" BY <1>12, Fields DEF OfCMake, Overload
<1>13. CASE f.kind = "cmake_set_old_style_variable" BY <1>13, Fields DEF OfCMake, Overload
<1>14. CASE f.kind = "cmake_get_old_style_variable" BY <1>14, Fields DEF OfCMake, Overload
<1>15. CASE f.kind = "cmake_add_custom_target" BY <1>15, Fields DEF OfCMake, Overload
<1>0. CASE f.params = <<>> BY <1>0 DEF Overload
<1> QED BY <1>0, <1>1, <1>2, <1>3, <1>4, <1>5, <1>6, <1>7, <1>8, <1>9, <1>10, <1>11, <1>12, <1>13,
  <1>14, <1>15, Fields DEF OfCMake

LEMMA TargetsUnambiguous ==
  /\ Unambiguous(OfLibrary) /\ Unambiguous(OfExecutable) /\ Unambiguous(OfProject) /\
    Unambiguous(OfOption)
  /\ \A T : Unambiguous(OfEnum(T)) /\ Unambiguous(OfExtern(T)) /\ Unambiguous(OfClass(T))
<1>1. Unambiguous(OfLibrary) BY Fields DEF OfLibrary, Overload, Unambiguous
<1>2. Unambiguous(OfExecutable) BY Fields DEF OfExecutable, Overload, Unambiguous
<1>3. Unambiguous(OfProject) BY Fields DEF OfProject, Overload, Unambiguous
<1>4. Unambiguous(OfOption) BY Fields DEF OfOption, Overload, Unambiguous
<1>5. \A T : Unambiguous(OfEnum(T)) BY Fields DEF OfEnum, Overload, Unambiguous
<1>6. \A T : Unambiguous(OfExtern(T)) BY Fields DEF OfExtern, Overload, Unambiguous
<1>7. \A T : Unambiguous(OfClass(T)) BY Fields DEF OfClass, Overload, Unambiguous
<1> QED BY <1>1, <1>2, <1>3, <1>4, <1>5, <1>6, <1>7

\* A list takes an element or another list: a type is never the type of its lists.
LEMMA ListUnambiguous ==
  ASSUME NEW U \in ElementTypes \union {String}, List(U) \in KnownTypes
  PROVE  Unambiguous(OfList(List(U)))
<1> DEFINE L == List(U)
<1>1. ValueType(L) = U BY ListShape
<1>2. U \in KnownTypes BY TypingAssumption DEF KnownTypes, Types
<1>3. U # L
  <2>1. U \in Shapes BY ElementShape
  <2>2. U = [name |-> U.name, scope |-> U.scope, ref |-> FALSE] /\ U.name \in Seq(Tokens)
    BY <2>1 DEF Shapes
  <2>3. "list" \in Tokens BY DEF Tokens
  <2>4. Len(<<"list">> \o U.name) = Len(U.name) + 1 BY <2>2, <2>3
  <2>5. L.name = <<"list">> \o U.name BY <2>2 DEF List
  <2> QED BY <2>2, <2>4, <2>5
<1> HIDE DEF L
<1>4. L \in KnownTypes BY DEF L
<1>5. \A f, g \in ElementsOfList(L) : Overload(f, g) => Apart(f, g)
  BY <1>1, <1>2, <1>3, <1>4, Fields DEF ElementsOfList, Overload, Apart
<1>6. \A f, g \in SearchesOfList(L) : Overload(f, g) => Apart(f, g)
  BY <1>1, <1>2, <1>3, <1>4, Fields DEF SearchesOfList, Overload, Apart
<1>7. \A f \in ElementsOfList(L), g \in SearchesOfList(L) : f.name # g.name
  BY Fields DEF ElementsOfList, SearchesOfList
<1>8. Unambiguous(OfList(L)) BY <1>5, <1>6, <1>7 DEF OfList, Unambiguous, Overload
<1> QED BY <1>8 DEF L

LEMMA FunctionsUnambiguous ==
  ASSUME Careful, NEW T \in Types
  PROVE  Unambiguous(FunctionsOf(T))
<1> DEFINE F == FunctionsOf(T)
<1>1. T \in KnownTypes BY DEF KnownTypes
<1>2. \/ F \in {OfBool, OfInt, OfDouble, OfString, OfVersion}
      \/ F \in {OfLibrary, OfExecutable, OfProject, OfOption, {}}
      \/ F \in {OfEnum(T), OfClass(T), OfExtern(T)}
      \/ \E U \in ElementTypes \union {String} : T = List(U) /\ F = OfList(T)
  <2>1. CASE \E n \in Builtins : T = Named(<<n>>) BY <2>1, FunctionsOfBuiltins
  <2>2. CASE \A n \in Builtins : T # Named(<<n>>) BY <1>1, <2>2, FunctionsOfOthers
  <2> QED BY <2>1, <2>2
<1>3. \A U \in ElementTypes \union {String} : T = List(U) => Unambiguous(OfList(T))
  BY <1>1, ListUnambiguous
<1>4. Unambiguous({}) BY DEF Unambiguous
<1> HIDE DEF F
<1>5. Unambiguous(F)
  BY <1>2, <1>3, <1>4, NumbersUnambiguous, StringUnambiguous, OfVersionUnambiguous, TargetsUnambiguous
<1> QED BY <1>5 DEF F

LEMMA OnlyOneMatches ==
  ASSUME Careful, Soundness
  PROVE  OneOverloadMatches
<1> SUFFICES ASSUME NEW j \in DOMAIN expr, NEW p \in Overloads, NEW i \in DOMAIN p[1].params,
                    NEW args, args = [Temporaries(p[1].params) EXCEPT ![i] = expr[j]],
                    \A k \in DOMAIN args : CanInitialize(p[1].params[k], args[k]),
                    \A k \in DOMAIN args : CanInitialize(p[2].params[k], args[k])
             PROVE  FALSE
  BY DEF OneOverloadMatches
<1>1. Apart(p[1], p[2])
  <2>1. PICK F \in {FunctionsOf(T) : T \in Types} \union {OfCMake} :
          p \in {q \in F \X F : q[1] # q[2] /\ q[1].name = q[2].name
                               /\ Len(q[1].params) = Len(q[2].params) /\ q[1].params # <<>>}
    BY DEF Overloads
  <2>2. p[1] \in F /\ p[2] \in F /\ Overload(p[1], p[2]) BY <2>1 DEF Overload
  <2>3. Unambiguous(F) BY FunctionsUnambiguous, OfCMakeUnambiguous
  <2> QED BY <2>2, <2>3 DEF Unambiguous
<1>2. PICK k \in DOMAIN p[1].params \intersect DOMAIN p[2].params :
        /\ p[1].params[k] \in KnownTypes /\ p[2].params[k] \in KnownTypes
        /\ p[1].params[k] # p[2].params[k]
  BY <1>1 DEF Apart
<1>3. DOMAIN args = DOMAIN p[1].params BY DEF Temporaries
<1>4. Sound(args[k])
  <2>1. CASE i = k
    <3>1. args[k] = expr[j] BY <2>1, <1>2 DEF Temporaries
    <3> QED BY <3>1, ResultIsSound DEF Result
  <2>2. CASE i # k
    <3>1. args[k] = Fresh(Decayed(p[1].params[k])) BY <2>2, <1>2 DEF Temporaries
    <3>2. Decayed(p[1].params[k]) = p[1].params[k] BY <1>2, NamesOfKnown
    <3> QED BY <1>2, <3>1, <3>2, FreshIs DEF Sound
  <2> QED BY <2>1, <2>2
<1>5. PICK U \in KnownTypes : Of(U, args[k]) BY <1>4 DEF Sound
<1>6. U = p[1].params[k] BY <1>2, <1>3, <1>5, InitializersAre
<1>7. U = p[2].params[k] BY <1>2, <1>3, <1>5, InitializersAre
<1> QED BY <1>2, <1>6, <1>7

\* In a careful script the handlers of builtin_function_caller, which check nothing,
\* read only alternatives that the variants hold, and every call has its case of
\* the switch: whatever passes overload_resolution and
\* variable_initialization_checker can be evaluated.
THEOREM TypeSoundness == Careful => (Spec => []ReadsWhatIsHeld)
<1> SUFFICES ASSUME Careful PROVE Spec => []ReadsWhatIsHeld
  OBVIOUS
<1>1. Init => Soundness BY SoundnessHolds
<1>2. Soundness /\ [Next]_vars => Soundness' BY SoundnessHolds
<1>3. Soundness => ReadsWhatIsHeld BY SoundImplies
<1> QED BY <1>1, <1>2, <1>3, PTL DEF Spec

\* In a careful script variables and expressions hold values of their static types,
\* and a variable is an instance_reference just when it is declared one: casts,
\* copies, members, lists and results of calls all keep to what sema was told.
THEOREM ValuesHoldTheirTypes == Careful => (Spec => []HoldsItsType)
<1> SUFFICES ASSUME Careful PROVE Spec => []HoldsItsType
  OBVIOUS
<1>1. Init => Soundness BY SoundnessHolds
<1>2. Soundness /\ [Next]_vars => Soundness' BY SoundnessHolds
<1>3. Soundness => HoldsItsType BY SoundImplies
<1> QED BY <1>1, <1>2, <1>3, PTL DEF Spec

\* In a careful script no reference is bound to an instance that goes with the
\* statement: produces_temporary_value says enough of each expression for
\* variable_initialization_checker to refuse the others.
THEOREM ReferencesOutlive == Careful => (Spec => []ReferencesLive)
<1> SUFFICES ASSUME Careful PROVE Spec => []ReferencesLive
  OBVIOUS
<1>1. Init => Soundness BY SoundnessHolds
<1>2. Soundness /\ [Next]_vars => Soundness' BY SoundnessHolds
<1>3. Soundness => ReferencesLive BY SoundImplies
<1> QED BY <1>1, <1>2, <1>3, PTL DEF Spec

\* In a careful script overload_resolution, which takes the first match, has one
\* match at most: the order in which builtin_sema_context declares overloads does
\* not change what a call means.
THEOREM OverloadsAreUnambiguous == Careful => (Spec => []OneOverloadMatches)
<1> SUFFICES ASSUME Careful PROVE Spec => []OneOverloadMatches
  OBVIOUS
<1>1. Init => Soundness BY SoundnessHolds
<1>2. Soundness /\ [Next]_vars => Soundness' BY SoundnessHolds
<1>3. Soundness => OneOverloadMatches BY OnlyOneMatches
<1> QED BY <1>1, <1>2, <1>3, PTL DEF Spec

====
