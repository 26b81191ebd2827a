---- MODULE Typing ----
(***************************************************************************)
(* Evaluation of typed expressions: semantic analysis picks a function by  *)
(* the static types, inserts casts and lets the expression through; the    *)
(* evaluator then reads alternatives of variants without asking. The       *)
(* machine evaluates one expression at a time, an operation per step: the  *)
(* operands that are not the expression itself are variables or fresh      *)
(* temporaries. A statement ends the expression.                           *)
(***************************************************************************)
EXTENDS BuiltinTypes, BuiltinCaller

CONSTANTS Classes,        \* classes of the script: the types of their members
          VariableTypes,  \* types of the first variable of a script
          CompanionTypes, \* types of a second one
          Avoided         \* kinds of functions and statements the script does without

VARIABLES scope,    \* the variables, in the order of their declarations
          expr,     \* the expression evaluated so far: at most one
          failed    \* what an evaluation did that no script should make it do
vars == <<scope, expr, failed>>

(* ----- instances ------------------------------------------------------- *)
MembersOf(T) == CASE T \in DOMAIN Classes -> Classes[T]
                  [] T = CompilerInfo -> {CompilerId} [] T = SystemInfo -> {SystemId}
                  [] OTHER -> {}
IsComplex(T) == MembersOf(T) # {}
IsBuiltin(T) == T \notin DOMAIN Classes \union DOMAIN UserEnums

\* The alternative an instance of the type has to hold to be of use.
HeldBy(T) == CASE T \in Enums -> "enum" [] T \in DOMAIN Classes \/ IsComplex(T) -> "members"
               [] T = Void -> "bool" [] OTHER -> T.name[1]
Instance(T, alternative) == [of |-> T, holds |-> alternative]
Whole(T) == Instance(T, HeldBy(T))

(* instance_factory2::create(type): what is not builtin gets members, an   *)
(* enumeration of the script too; create_init_data has no executable.      *)
Created(T) == Instance(T, IF IsComplex(T) \/ ~IsBuiltin(T) THEN "members"
                          ELSE IF T \in {Executable, Void} THEN "unknown_type" ELSE HeldBy(T))

(* What an expression comes to: its static type, what                      *)
(* produces_temporary_value says of it, whether the result is an           *)
(* instance_reference, and how long the instance it is or refers to lives. *)
Denotes(type, temporary, reference, lives, instance) ==
  [type |-> type, temporary |-> temporary, reference |-> reference, lives |-> lives,
   instance |-> instance]
\* The value nodes, and whatever makes an instance for the statement.
Fresh(T) == Denotes(T, TRUE, FALSE, "statement", Whole(T))

\* enum_constant_access_node: a new instance, but no temporary value.
EnumConstant(E) == Denotes(E, FALSE, FALSE, "statement", Whole(E))
\* class_member_access_node: lives as long as the object does.
Member(M, e) == Denotes(M, FALSE, FALSE, e.lives, Created(M))

(* ----- initialization, overloads and casts ----------------------------- *)
CanInitializeByTemporary(T, e) == Same(Decayed(T), Decayed(e.type)) \* mutant
CanInitializeConverting(T, e) == \* mutant
  \/ Same(T, e.type)
  \/ ~T.ref /\ {Decayed(e.type), T} \subseteq {Bool, Int, Double}
  \/ Same(Decayed(T), Decayed(e.type)) /\ (T.ref => ~e.temporary)
\* variable_initialization_checker::check.
CanInitialize(T, e) ==
  \/ Same(T, e.type)
  \/ Same(Decayed(T), Decayed(e.type)) /\ (T.ref => ~e.temporary)

\* cast_to_value: a copy of the value, or a new instance that gets copies of the members.
CopyShared(e) == [e EXCEPT !.type = Decayed(@), !.temporary = FALSE]  \* mutant
CopyOf(e) ==
  Denotes(Decayed(e.type), FALSE, FALSE, "statement",
          IF IsBuiltin(e.instance.of) /\ ~IsComplex(e.instance.of) THEN e.instance
          ELSE Created(e.instance.of))
\* convert_to_cast_node_if_need, and what the node evaluates to.
Cast(T, e) == IF Same(T, e.type) THEN e
              ELSE IF T.ref THEN Denotes(T, FALSE, TRUE, e.lives, e.instance)
              ELSE CopyOf(e)
\* A script knows not to copy an enumeration of its own.
CastAvoided(T, e) == /\ "copy_of_an_enumeration" \in Avoided
                     /\ ~Same(T, e.type) /\ ~T.ref /\ e.instance.of \in DOMAIN UserEnums

FunctionsOf(T) ==
  CASE T = Bool -> OfBool [] T = Int -> OfInt [] T = Double -> OfDouble
    [] T = String -> OfString [] T = Version -> OfVersion [] T = Library -> OfLibrary
    [] T = Executable -> OfExecutable [] T = Project -> OfProject [] T = Option -> OfOption
    [] T \in Enums -> OfEnum(T) [] T \in DOMAIN Classes -> OfClass(T)
    [] T.name[1] = "list" -> OfList(T) [] T.name[1] = "extern" -> OfExtern(T) [] OTHER -> {}
\* The types whose functions scripts call.
Types == {Bool, Int, Double, String, Version, Library, Executable, Project, Option, Void,
          CompilerInfo, SystemInfo}
         \union Enums \union DOMAIN Classes \union {List(T) : T \in ElementTypes}
         \union {Extern(T) : T \in ExternTypes}
IsConstructor(T, f) == f.name = T.name[1]
Methods(T) == {f \in FunctionsOf(T) : ~IsConstructor(T, f) /\ f.kind \notin Avoided}
Constructors(T) == {f \in FunctionsOf(T) : IsConstructor(T, f) /\ f.kind \notin Avoided}

\* An operator's function is found by the token.
Operators == {"=", "==", "!=", "||", "&&", "!", "+", "++", "-", "--", "*", "/", "+=", "-=", "*=", "/=",
              "<", "<=", ">", ">="}

(* ----- scripts --------------------------------------------------------- *)
(* What a script names is an identifier, and its types are in no builtin   *)
(* namespace; the types of members and elements are types that it has.     *)
KnownTypes == Types \union {Strings}
Keywords == {"void", "int", "double", "bool", "string", "version", "list", "extern", "library",
             "executable", "project", "option"}
ASSUME TypingAssumption ==
  /\ \A T \in DOMAIN Classes \union DOMAIN UserEnums :
       /\ T = UserType(T.name[1], T.scope)
       /\ T.name[1] \in STRING /\ T.name[1] \notin Keywords \union Operators
       /\ T.scope \in STRING /\ T.scope # "builtin"
  /\ \A C \in DOMAIN Classes : Classes[C] \subseteq KnownTypes
  /\ ElementTypes \subseteq KnownTypes \intersect [name : Seq(STRING), scope : STRING, ref : {FALSE}]

\* Values that instance_value_variant compares.
Comparable == {"bool", "int", "double", "enum", "string", "version", "list"}

(* A careful script: its types are told apart by their names alone, it does *)
(* without what evaluation gets wrong, keeps what create() makes no value   *)
(* of out of members and elements, and has lists find what can be compared. *)
TypesApart ==
  /\ \A T, U \in KnownTypes : T.name = U.name => T = U
  /\ \A E \in DOMAIN UserEnums : E \notin DOMAIN Classes /\ E.name # <<"to_string">>
ReturnReferences == {"int_operator_equal", "string_clear", "string_resize_newsize",
  "string_resize_newsize_fill", "string_lower", "string_upper", "list_ctor", "list_at", "list_front",
  "list_back", "list_operator_plus_equal_value", "list_operator_plus_equal_list"}
NotHandled == {"bool_to_string", "double_to_string"}
Statements == {"reference_to_a_temporary", "default_value", "copy_of_an_enumeration",
  "ternary_of_a_variable_and_a_temporary", "designated_by_a_reference", "condition_that_is_no_bool",
  "class_from_a_reference", "list_with_a_reference"}
CompareElements == {"list_remove_value", "list_remove_value_count", "list_remove_last_value_count",
  "list_find_value", "list_find_value_pos"}
Careful ==
  /\ TypesApart
  /\ ReturnReferences \union NotHandled \union Statements \subseteq Avoided
  /\ \A C \in DOMAIN Classes : Classes[C] \intersect ({Void, Executable} \union DOMAIN UserEnums) = {}
  /\ ElementTypes \intersect ({Void} \union DOMAIN UserEnums) = {}
  /\ \/ \A T \in ElementTypes : HeldBy(T) \in Comparable
     \/ CompareElements \subseteq Avoided

(* ----- builtin functions ----------------------------------------------- *)
\* The argument is read as the handler reads it.
Reads(alternative, receiver, e) ==
  CASE alternative = "any" -> TRUE
    [] alternative = "like" -> e.instance.holds = HeldBy(ValueType(receiver.instance.of))
                               => e.instance.holds \in Comparable
    [] alternative = "members" -> e.instance.holds = "members" /\ ~e.reference
    [] OTHER -> e.instance.holds = alternative

\* The case is that of the function and reads what the values hold.
Handles(h, f, receiver, args) ==
  /\ f.kind \in h.kinds
  /\ DOMAIN h.args = DOMAIN args
  /\ h.reads \in {"any", receiver.instance.holds}
  /\ \A i \in DOMAIN args : Reads(h.args[i], receiver, args[i])

\* create(value) knows the types of these; other instances come with their type.
Made(alternative, receiver) ==
  CASE alternative = "its_value" -> Whole(ValueType(receiver.instance.of))
    [] alternative = "list" -> Instance(receiver.instance.of, "list")
    [] alternative \in {"cxx_compiler_info", "system_info"} -> Created(Named(<<alternative>>))
    [] OTHER -> Instance(Named(<<alternative>>), alternative)

\* An argument that becomes an element as it is, the copy of a reference being another one.
Gathers(h, args) == \E i \in DOMAIN args : h.args[i] = "any" /\ args[i].reference
\* A script adds no reference to a list by an operator.
OperandAvoided(f, args) ==
  /\ "list_with_a_reference" \in Avoided /\ f.name \in Operators
  /\ \E h \in Handlers : f.kind \in h.kinds /\ Gathers(h, args)

Returned(f, h, receiver, args) ==
  LET instance == CASE h.result \in {"receiver", "reference_to_receiver"} ->
                         [receiver.instance EXCEPT !.holds =
                            IF Gathers(h, args) THEN "elements_of_another_type"
                            ELSE IF h.stores = "same" THEN @ ELSE h.stores]
                    [] h.result = "list" /\ Gathers(h, args) ->
                         Instance(receiver.instance.of, "elements_of_another_type")
                    [] h.result = "reference_to_element" -> Whole(ValueType(receiver.instance.of))
                    [] OTHER -> Made(h.result, receiver)
      refers == h.result \in {"reference_to_receiver", "reference_to_element"}
  IN  Denotes(f.result, ~f.result.ref, refers,
              IF refers THEN receiver.lives ELSE "statement", instance)

(* The expression becomes the result of the call.                          *)
Call(f, receiver, args) ==
  /\ UNCHANGED scope
  /\ ~OperandAvoided(f, args)
  /\ \/ \E h \in Handlers : /\ Handles(h, f, receiver, args)
                            /\ expr' = <<Returned(f, h, receiver, args)>> /\ UNCHANGED failed
     \/ /\ ~\E h \in Handlers : Handles(h, f, receiver, args)
        /\ expr' = <<>> /\ failed' = f.kind

(* ----- operands -------------------------------------------------------- *)
\* Variables of the cmake namespace: module_path, cxx_standard.
BuiltinVariables == {Denotes(T, FALSE, FALSE, "scope", Whole(T)) : T \in {Strings, StandardValue}}
\* id_node: the instance that the context of identifiers has.
Variable(k) == LET v == scope[k] IN Denotes(v.type, FALSE, v.reference, v.lives, v.instance)
Variables == BuiltinVariables \union {Variable(k) : k \in DOMAIN scope}
Nobody == Fresh(Void)
New(T) == [Fresh(T) EXCEPT !.instance = Created(T)]
\* What can be called without the expression being the receiver.
Callees == (UNION {{<<New(T), f>> : f \in Constructors(T)} : T \in Types})
           \union {<<Nobody, f>> : f \in {g \in OfCMake : g.kind \notin Avoided}}
Receivers == UNION {{<<Fresh(T), f>> : f \in Methods(T)} : T \in Types}
VariableReceivers == UNION {{<<v, f>> : f \in Methods(Decayed(v.type))} : v \in Variables}

\* Arguments for the parameters: a variable or a temporary first, then temporaries.
Suits(P, a) == CanInitialize(P, a) /\ ~CastAvoided(P, a)
\* As an argument: a class has only its assignment to take references.
SuitsCall(P, a) == Suits(P, a) /\ ~(P.ref /\ a.reference /\ "class_from_a_reference" \in Avoided)
Temporaries(params) == [i \in DOMAIN params |-> Fresh(Decayed(params[i]))]
Arguments(params) ==
  IF params = <<>> THEN {<<>>}
  ELSE {[Temporaries(params) EXCEPT ![1] = a] :
          a \in {b \in Variables \union {Fresh(Decayed(params[1]))} : SuitsCall(params[1], b)}}
\* Operators take the operands as they are; other calls insert the casts.
Passed(f, args) == IF f.name \in Operators THEN args
                   ELSE [i \in DOMAIN args |-> Cast(f.params[i], args[i])]

(* ----- steps of an evaluation ------------------------------------------ *)
Becomes(e) == expr' = <<e>> /\ UNCHANGED <<scope, failed>>
Starting == expr = <<>> /\ failed = "nothing"
Literal == Starting /\ \E T \in {Bool, Int, Double, String} : Becomes(Fresh(T))
Id == Starting /\ \E v \in Variables : Becomes(v)
EnumConstantAccess == Starting /\ \E E \in Enums :
                        Becomes(EnumConstant(E))
FunctionCall == Starting /\ \E c \in Callees : \E args \in Arguments(c[2].params) :
                  Call(c[2], c[1], Passed(c[2], args))

MemberFunctionCall(e) ==
  \E f \in {g \in Methods(Decayed(e.type)) : g.name \notin Operators} :
    \E args \in Arguments(f.params) : Call(f, e, Passed(f, args))
BinaryOperator(e) ==
  \E f \in {g \in Methods(Decayed(e.type)) : g.name \in Operators /\ Len(g.params) = 1} :
    \E args \in Arguments(f.params) : Call(f, e, args)
UnaryOperator(e) ==
  \E f \in {g \in Methods(Decayed(e.type)) : g.name \in Operators /\ g.params = <<>>} : Call(f, e, <<>>)
\* The expression as an argument, of a constructor, a method or an operator.
ArgumentOfCall(e) ==
  \E c \in Callees \union Receivers \union VariableReceivers : \E i \in DOMAIN c[2].params :
    /\ SuitsCall(c[2].params[i], e)
    /\ Call(c[2], c[1], Passed(c[2], [Temporaries(c[2].params) EXCEPT ![i] = e]))

ClassMemberAccess(e) ==
  \E M \in MembersOf(Decayed(e.type)) :
    IF e.instance.holds = "members"
      THEN Becomes(Member(M, e))
      ELSE expr' = <<>> /\ failed' = "no_such_member" /\ UNCHANGED scope

\* {e}: what does not produce a temporary is copied, the list takes the rest over.
InitializerList(e) ==
  /\ Decayed(e.type) \in ElementTypes
  /\ LET value == IF e.temporary THEN e ELSE CopyOf(e)
         list == IF value.instance = Whole(value.type) /\ ~value.reference
                   THEN "list" ELSE "elements_of_another_type"
     IN  IF value.lives = "scope" /\ ~value.reference
           THEN expr' = <<>> /\ failed' = "gathers_what_it_does_not_own" /\ UNCHANGED scope
           ELSE Becomes(Denotes(List(value.type), TRUE, FALSE, "statement",
                                Instance(List(value.type), list)))

\* condition ? e : other, or the other way round.
Ternary(e) ==
  \E other \in Variables \union {Fresh(Decayed(e.type))} :
    /\ Same(Decayed(e.type), Decayed(other.type))
    /\ "ternary_of_a_variable_and_a_temporary" \in Avoided => e.temporary = other.temporary
    /\ LET mixed == e.type.ref # other.type.ref
           Operand(x) == IF mixed /\ x.type.ref THEN CopyOf(x) ELSE x
       IN  /\ mixed => ~CastAvoided(Decayed(e.type), IF e.type.ref THEN e ELSE other)
           /\ \E x \in {Operand(e), Operand(other)} :
                Becomes([x EXCEPT !.temporary = Operand(e).temporary \/ Operand(other).temporary])

(* ----- statements ------------------------------------------------------ *)
Finished == expr' = <<>> /\ UNCHANGED failed
MayDeclare(T) == \/ scope = <<>> /\ T \in VariableTypes
                 \/ Len(scope) = 1 /\ T \in CompanionTypes
\* copy(): the copy of an instance_reference is another reference to the same instance.
Declared(T, e) == Append(scope, [type |-> T, reference |-> e.reference,
                                 lives |-> IF e.reference THEN e.lives ELSE "scope",
                                 instance |-> e.instance])
\* A script that binds no reference to what goes with the statement and yet passes for
\* no temporary, nor an auto& to a temporary.
Binds(T, e) == T.ref /\ "reference_to_a_temporary" \in Avoided => e.lives = "scope" \/ e.temporary
BindsAuto(T, e) == T.ref /\ "reference_to_a_temporary" \in Avoided => e.lives = "scope"

VariableDeclaration(e) ==
  \E T \in {Decayed(e.type), Ref(Decayed(e.type))} :
    /\ MayDeclare(T) /\ Suits(T, e) /\ Binds(T, e) /\ T # Void
    /\ scope' = Declared(T, Cast(T, e))
    /\ Finished
\* auto and auto&: the initialization is not checked.
AutoDeclaration(e) ==
  \E T \in {Decayed(e.type), Ref(Decayed(e.type))} :
    /\ MayDeclare(T) /\ BindsAuto(T, e) /\ ~CastAvoided(T, e)
    /\ scope' = Declared(T, Cast(T, e))
    /\ Finished
DefaultDeclaration ==
  /\ Starting
  /\ \E T \in Types \ ({Void} \union
                       IF "default_value" \in Avoided THEN {Executable} \union DOMAIN UserEnums ELSE {}) :
       /\ MayDeclare(T)
       /\ scope' = Append(scope, [type |-> T, reference |-> FALSE, lives |-> "scope",
                                  instance |-> Created(T)])
       /\ Finished
\* C c = { .member = e }: each value is copied as it is.
DesignatedInitializers(e) ==
  \E C \in DOMAIN Classes : \E M \in MembersOf(C) :
    /\ CanInitialize(M, e) /\ MayDeclare(C)
    /\ "designated_by_a_reference" \in Avoided => ~e.type.ref
    /\ scope' = Append(scope, [type |-> C, reference |-> FALSE, lives |-> "scope",
                               instance |-> Instance(C, IF e.reference /\ ~M.ref THEN "shared_members"
                                                        ELSE "members")])
    /\ Finished
\* return e: the scope goes, and with it what a reference to it was good for.
ReturnAs(T, e) ==
  /\ ~(T.ref /\ "reference_to_a_temporary" \in Avoided) /\ ~CastAvoided(T, e)
  /\ expr' = <<Denotes(T, ~T.ref, Cast(T, e).reference, "statement", Cast(T, e).instance)>>
  /\ scope' = <<>> /\ UNCHANGED failed
Return(e) == \E T \in {Decayed(e.type), Ref(Decayed(e.type))} : CanInitialize(T, e) /\ ReturnAs(T, e)
\* Of an auto function: the type of the expression it is, a reference too.
AutoReturn(e) == ReturnAs(e.type, e)
\* The condition of if, while and for: nobody checks that it is a bool.
Condition(e) ==
  /\ "condition_that_is_no_bool" \in Avoided => Decayed(e.type) = Bool
  /\ expr' = <<>> /\ UNCHANGED scope
  /\ failed' = IF e.instance.holds = "bool" THEN failed ELSE "condition"
Discard == expr # <<>> /\ Finished /\ UNCHANGED scope
LeaveScope == Starting /\ scope # <<>> /\ scope' = <<>> /\ UNCHANGED <<expr, failed>>

Init == scope = <<>> /\ expr = <<>> /\ failed = "nothing"
Result == {expr[i] : i \in DOMAIN expr}
Next == \/ Literal \/ Id \/ EnumConstantAccess \/ FunctionCall \/ DefaultDeclaration
        \/ Discard \/ LeaveScope
        \/ \E e \in Result : MemberFunctionCall(e)
        \/ \E e \in Result : BinaryOperator(e)
        \/ \E e \in Result : UnaryOperator(e)
        \/ \E e \in Result : ArgumentOfCall(e)
        \/ \E e \in Result : ClassMemberAccess(e)
        \/ \E e \in Result : InitializerList(e)
        \/ \E e \in Result : Ternary(e)
        \/ \E e \in Result : VariableDeclaration(e)
        \/ \E e \in Result : AutoDeclaration(e)
        \/ \E e \in Result : DesignatedInitializers(e)
        \/ \E e \in Result : Return(e)
        \/ \E e \in Result : AutoReturn(e)
        \/ \E e \in Result : Condition(e)
Spec == Init /\ [][Next]_vars

(* ----- properties ------------------------------------------------------ *)
\* What semantic analysis lets through never makes the evaluator read an
\* alternative that the variant does not hold, or call a function that no
\* case of the switch handles: builtin_function_caller checks neither.
ReadsWhatIsHeld == failed = "nothing"

\* Whatever a variable or an expression denotes is an instance of its static
\* type with a value of it, void apart, and a variable is an instance_reference
\* just when it is declared so: two variables of a value type never share.
HoldsItsType ==
  /\ \A d \in {scope[k] : k \in DOMAIN scope} \union {expr[i] : i \in DOMAIN expr} :
       /\ d.instance.holds = HeldBy(Decayed(d.type))
       /\ d.instance.of = Decayed(d.type) \/ Decayed(d.type) = Void
  /\ \A k \in DOMAIN scope : scope[k].reference = scope[k].type.ref

\* overload_resolution takes the first function whose parameters match: no
\* other one does, so that the order of the declarations is of no importance.
Overloads == UNION {{p \in F \X F : p[1] # p[2] /\ p[1].name = p[2].name
                                    /\ Len(p[1].params) = Len(p[2].params) /\ p[1].params # <<>>} :
                    F \in {FunctionsOf(T) : T \in Types} \union {OfCMake}}
OneOverloadMatches ==
  \A j \in DOMAIN expr : \A p \in Overloads : \A i \in DOMAIN p[1].params :
    LET args == [Temporaries(p[1].params) EXCEPT ![i] = expr[j]]
        matches(f) == \A k \in DOMAIN args : CanInitialize(f.params[k], args[k])
    IN  ~(matches(p[1]) /\ matches(p[2]))

\* A reference is never bound to an instance that goes with the statement:
\* semantic analysis refuses initializations by temporary values.
ReferencesLive == \A k \in DOMAIN scope : scope[k].lives = "scope"
====
