---- MODULE TokenStream ----
(* The tokens that a parser walks over (parse::parser_utils). The parsers   *)
(* are recursive functions without state of their own: they pass each other *)
(* what the members of the class hold. A parsing is a record of             *)
(*   tokens, at   the tokens and the index of the current one               *)
(*   null, node   what the last function returned: null, or a tree          *)
(*   class        the name of the class that is being parsed                *)
(*   reported     whether an error was reported                             *)
(*   undefined    whether something was read that does not exist            *)
(*   odd          the constructs met that the runs may have to avoid        *)
(* A tree is a tuple of a kind and subtrees, a token the tuple of itself.   *)
EXTENDS Naturals, Sequences

CONSTANT Names              \* the texts of identifiers; other tokens are named by their type
ASSUME NamesAssumption == "" \notin Names

Parsing(tokens) ==
  [tokens |-> tokens, at |-> 1, null |-> FALSE, node |-> <<>>, class |-> "",
   reported |-> FALSE, undefined |-> FALSE, odd |-> {}]

TypeOf(token) == IF token \in Names THEN "identifier" ELSE token

is_at_end(p) == p.at > Len(p.tokens)
\* "undef" is the type of what follows the last token; no function asks for it.
peek(p, n) == IF p.at + n > Len(p.tokens) THEN "undef" ELSE TypeOf(p.tokens[p.at + n])
curr_type(p) == peek(p, 0)
current_is(p, type) == curr_type(p) = type

\* Builtin types have keywords; so do true, false and auto, which stand among them.
BuiltinTypes == {"void", "int", "double", "bool", "true", "false", "string type", "version", "list",
                 "extern", "library", "executable", "project", "option", "auto"}
UnaryOperators == {"+", "++", "-", "--", "!"}
is_name_of_function_call(type) == type \in BuiltinTypes \union {"identifier"}

Null(p) == [p EXCEPT !.null = TRUE]
Report(p) == [p EXCEPT !.null = TRUE, !.reported = TRUE]
Undefined(p, odd) == [p EXCEPT !.null = TRUE, !.undefined = TRUE, !.odd = @ \union {odd}]
Odd(p, condition, odd) == IF condition THEN [p EXCEPT !.odd = @ \union {odd}] ELSE p

\* eat() takes any token, eat(type) one of the type; both report what they miss.
EatBeyond(p) ==      \* mutant: moves on before it looks
  IF is_at_end(p) THEN [Report(p) EXCEPT !.at = @ + 1] ELSE [p EXCEPT !.at = @ + 1, !.node = <<p.tokens[p.at]>>]
EatAny(p) == IF is_at_end(p) THEN Report(p) ELSE [p EXCEPT !.at = @ + 1, !.node = <<p.tokens[p.at]>>]
eat(p, type) == IF current_is(p, type) THEN EatAny(p) ELSE Report(p)

(* ----- names and types (ast::parser_utils, ast::type_parser) ----------- *)
\* Names separated by ::; no error is reported when one is missing.
RECURSIVE QualifiedNames(_)
QualifiedNames(p) ==
  IF ~is_name_of_function_call(curr_type(p)) THEN Null(p)
  ELSE LET name == [EatAny(p) EXCEPT !.node = Append(p.node, @)]
       IN  IF ~current_is(name, "::") THEN name
           ELSE QualifiedNames([EatAny(name) EXCEPT !.node = Append(name.node, @)])
parse_possibly_qualified_name(p) ==
  IF current_is(p, "::") THEN QualifiedNames([EatAny(p) EXCEPT !.node = <<"name", @>>])
  ELSE QualifiedNames([p EXCEPT !.node = <<"name">>])

\* A type may be followed by the & of a reference.
ReferencedByValue(p) ==      \* mutant: takes the & and makes no reference
  IF p.null \/ ~current_is(p, "&") THEN p ELSE [EatAny(p) EXCEPT !.node = p.node]
Referenced(p) == IF p.null \/ ~current_is(p, "&") THEN p
                 ELSE [EatAny(p) EXCEPT !.node = Append(p.node, @)]
simple_type(p) ==
  LET name == IF curr_type(p) \in BuiltinTypes \union {"identifier", "::"}
                THEN parse_possibly_qualified_name(p) ELSE Null(p)
  IN  IF name.null THEN Report(name) ELSE Referenced([name EXCEPT !.node = <<"type", @>>])

RECURSIVE parse_type(_)
generic_type(p) ==
  LET generic == EatAny(EatAny(p))      \* both were looked at
      nested == parse_type(generic)
      close == eat(nested, ">")
  IN  IF nested.null \/ close.null THEN IF nested.null THEN nested ELSE close
      ELSE Referenced([close EXCEPT !.node = <<"type", <<p.tokens[p.at]>>, <<"<">>, nested.node, <<">">>>>])
generic_type_starts(p) == curr_type(p) \in {"list", "extern"} /\ peek(p, 1) = "<"
parse_type(p) == IF generic_type_starts(p) THEN generic_type(p) ELSE simple_type(p)
====
