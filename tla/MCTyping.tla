---- MODULE MCTyping ----
(* Scripts with a class of two members, an empty class and an enumeration, *)
(* variables of every type, and what they have to avoid.                   *)
EXTENDS Typing, TLC

Color == UserType("color", "script")
Product == UserType("product", "script")
MCUserEnums == Color :> <<"red", "green">>
MCElementTypes == {Int, String}
Tag == UserType("tag", "script")
MCClasses == Product :> {Int, Strings} @@ Tag :> {}

MCVariableTypes ==
  (Types \ {Void}) \union {Ref(T) : T \in Types \ {Void}}
MCCompanionTypes == {Int, Ref(Int), Ref(Color), Ref(Product), Visibility, Ref(Strings), List(Int)}

\* Each of them is necessary: without any one of them a property fails.
MCAvoided == ReturnReferences \union NotHandled \union Statements
ASSUME Careful
====
