---- MODULE ScriptParser ----
(* The parser of scripts (ast::parser), a recursive descent with one token  *)
(* of lookahead that in four places parses ahead to see what begins.        *)
EXTENDS TokenStream, TLC

\* What a symbol of a production stands for: a token to eat or a function of the parser.
RECURSIVE Parse(_, _)

\* The parts of a node one after another, up to the first that fails.
RECURSIVE Parts(_, _)
Parts(p, symbols) ==
  IF symbols = <<>> THEN p
  ELSE LET part == Parse(Head(symbols), p)
       IN  IF part.null THEN part
           ELSE Parts([part EXCEPT !.node = Append(p.node, @)], Tail(symbols))
Node(p, kind, symbols) == Parts([p EXCEPT !.node = <<kind>>], symbols)
\* As many as there are before the node or the token that ends them.
RECURSIVE Repeated(_, _, _)
Repeated(p, symbol, stop) ==
  IF p.null \/ curr_type(p) \in stop THEN p ELSE Repeated(Parts(p, <<symbol>>), symbol, stop)
Nodes(p, kind, symbol, stop) == Repeated([p EXCEPT !.node = <<kind>>], symbol, stop)

(* ----- what begins here ------------------------------------------------ *)
\* A name, qualified or not, and an open parenthesis.
RECURSIVE CallAhead(_, _)
CallAhead(p, n) ==
  /\ is_name_of_function_call(peek(p, n))
  /\ \/ peek(p, n + 1) = "("
     \/ peek(p, n + 1) = "::" /\ CallAhead(p, n + 2)
current_is_function_call(p) == CallAhead(p, IF current_is(p, "::") THEN 1 ELSE 0)
\* The errors of these end in a sink, and so does the position.
TypeAhead(p, type) == LET t == parse_type(p) IN ~t.null /\ current_is(t, type)
current_is_generic_type_constructor_call(p) == TypeAhead(p, "(")
declaration_starts(p) == TypeAhead(p, "identifier")
function_declaration_starts(p) ==
  LET t == parse_type(p) IN ~t.null /\ current_is(t, "identifier") /\ peek(t, 1) = "("

(* ----- expressions ----------------------------------------------------- *)
operators_of_bits_first ==      \* mutant: & binds tighter than ==
  2 :> {"."} @@ 3 :> {"!"} @@ 5 :> {"*", "/", "%"} @@ 6 :> {"+", "-"} @@
  9 :> {"<", "<=", ">", ">="} @@ 10 :> {"&"} @@ 11 :> {"==", "!="} @@ 12 :> {"^"} @@
  13 :> {"|"} @@ 14 :> {"&&"} @@ 15 :> {"||"} @@
  16 :> {"=", "+=", "-=", "*=", "/=", "&=", "^=", "|="}
operators ==
  2 :> {"."} @@ 3 :> {"!"} @@ 5 :> {"*", "/", "%"} @@ 6 :> {"+", "-"} @@
  9 :> {"<", "<=", ">", ">="} @@ 10 :> {"==", "!="} @@ 11 :> {"&"} @@ 12 :> {"^"} @@
  13 :> {"|"} @@ 14 :> {"&&"} @@ 15 :> {"||"} @@
  16 :> {"=", "+=", "-=", "*=", "/=", "&=", "^=", "|="}
k_min_precedence == 2
k_max_precedence == 16
\* The operands of a level are what the next tighter one makes of them: operators group to the left.
NextPrecedence(precedence) ==
  CHOOSE q \in DOMAIN operators : q < precedence /\ \A r \in q + 1..precedence - 1 : r \notin DOMAIN operators

\* A list of expressions. A comma between two of them may be missing, one at the end is an error.
RECURSIVE Expressions(_, _)
Expressions(p, stop) ==
  IF p.null \/ curr_type(p) \in {"undef", stop} THEN p
  ELSE LET one == Parts(p, <<"expr">>)
           comma == eat(one, ",")
       IN  IF one.null \/ ~current_is(one, ",") THEN Expressions(one, stop)
           ELSE IF curr_type(comma) \in {"undef", stop} THEN Report(comma)
           ELSE Expressions([comma EXCEPT !.node = one.node], stop)
comma_separated_expression_list(p, stop) == Expressions([p EXCEPT !.node = <<"expressions">>], stop)
parameter_list(p) == Node(p, "parameters", <<"(", "expressions )", ")">>)

get_member_function_call_values(p) ==
  IF current_is(p, "::") THEN Undefined(p, "member called by a qualified name")   \* *eat_function_call_name()
  ELSE Node(p, "call", <<"any", "parameter_list">>)
get_standalone_function_call_values(p) == Node(p, "call", <<"name", "parameter_list">>)
\* After a dot: any token that does not start a call is the name of a member.
Member(p) ==
  IF current_is_function_call(p) THEN get_member_function_call_values(p)
  ELSE IF is_at_end(p) THEN Undefined(p, "member missing")                        \* *member_name
  ELSE EatAny(p)
\* lhs is the parsing that ended in front of the dot.
MemberOf(lhs) ==
  LET dot == EatAny(lhs)
      member == Member(dot)
  IN  IF member.null THEN member ELSE [member EXCEPT !.node = <<"member", lhs.node, dot.node, @>>]
RECURSIVE Members(_)
Members(p) == IF p.null \/ curr_type(p) \notin operators[k_min_precedence] THEN p ELSE Members(MemberOf(p))

RECURSIVE parse_operator(_, _), Operands(_, _)
Operands(lhs, precedence) ==
  IF lhs.null \/ curr_type(lhs) \notin operators[precedence] THEN lhs
  ELSE LET op == EatAny(lhs)
           rhs == parse_operator(op, NextPrecedence(precedence))
       IN  IF rhs.null THEN rhs
           ELSE Operands([rhs EXCEPT !.node = <<"binary", lhs.node, op.node, @>>], precedence)
parse_operator(p, precedence) ==
  IF precedence = k_min_precedence THEN Members(Parse("factor", p))
  ELSE Operands(parse_operator(p, NextPrecedence(precedence)), precedence)

parse_generic_type_constructor_call(p) ==
  LET global == current_is(p, "::")
      access == IF global THEN EatAny(p) ELSE p
  IN  Node(Odd(access, global, "global access of a type"), "call", <<"type", "parameter_list">>)
RECURSIVE Literals(_)
Literals(p) == IF ~current_is(p, "string") THEN p ELSE Literals([EatAny(p) EXCEPT !.node = Append(p.node, @)])
parse_string(p) == Literals([p EXCEPT !.node = <<"string">>])
fundamental_value(p) == IF current_is(p, "string") THEN parse_string(p) ELSE EatAny(p)
\* The parenthesis is looked for whatever the expression came to, and missed with a report only.
Parenthesized(p) ==
  LET e == Parse("expr", EatAny(p))
      close == eat(e, ")")
  IN  Odd([close EXCEPT !.null = e.null, !.node = e.node], close.null, "parenthesis not closed")
parse_identifier(p) ==
  LET name == parse_possibly_qualified_name(p) IN Odd(name, name.null, "name that ends in ::")
parse_expression_starting_from_brace(p) ==
  IF peek(p, 1) = "." THEN Parse("designated initializers", p) ELSE Parse("initializer list", p)
parse_unary_operator(p) == Node(p, "unary", <<"any", "expr">>)
parse_factor(p) ==
  IF curr_type(p) \in UnaryOperators THEN parse_unary_operator(p)
  ELSE IF current_is_function_call(p) THEN get_standalone_function_call_values(p)
  ELSE IF current_is_generic_type_constructor_call(p) THEN parse_generic_type_constructor_call(p)
  ELSE CASE curr_type(p) \in {"integer", "real", "string", "true", "false"} -> fundamental_value(p)
         [] current_is(p, "(") -> Parenthesized(p)
         [] curr_type(p) \in {"identifier", "::"} -> parse_identifier(p)
         [] current_is(p, "{") -> parse_expression_starting_from_brace(p)
         [] OTHER -> Report(p)

parse_rest_of_ternary_operator(condition) ==
  Parts([EatAny(condition) EXCEPT !.null = FALSE, !.node = <<"ternary", condition.node, @>>],
        <<"expr", ":", "expr">>)
\* A missing operand was reported, and what follows it is parsed all the same.
parse_expr(p) ==
  LET operator_expr == parse_operator(p, k_max_precedence)
      operand == [Odd(operator_expr, operator_expr.null, "operand missing") EXCEPT !.null = FALSE]
  IN  CASE current_is(operator_expr, ".") -> MemberOf(operand)
        [] current_is(operator_expr, "?") -> parse_rest_of_ternary_operator(operand)
        [] OTHER -> operator_expr

RECURSIVE Initializers(_)
Initializers(p) ==
  IF p.null \/ ~current_is(p, ".") THEN p
  ELSE LET one == Parts(p, <<".", "identifier", "=", "expr">>)
           comma == eat(one, ",")
       IN  IF one.null THEN one
           ELSE IF current_is(one, ",")
             THEN IF current_is(comma, ".") THEN Initializers([comma EXCEPT !.node = one.node]) ELSE Report(comma)
             ELSE IF current_is(one, ".") THEN Report(one) ELSE one
parse_designated_initializers(p) == Node(p, "designated", <<"{", "initializers", "}">>)
parse_initializer_list(p) == Node(p, "initializer list", <<"{", "expressions }", "}">>)

(* ----- statements ------------------------------------------------------ *)
parse_return_node(p) == Node(p, "return", <<"return", "expr", ";">>)
parse_break(p) == Node(p, "break", <<"break", ";">>)
get_conditional_node(p) == Node(p, "conditional", <<"(", "expr", ")", "block">>)
parse_while_node(p) == Node(p, "while", <<"while", "conditional">>)
parse_variable_declaration(p) ==
  LET declared == Node(p, "variable", <<"type", "identifier">>)
  IN  IF declared.null \/ ~current_is(declared, "=") THEN declared ELSE Parts(declared, <<"=", "expr">>)
parse_standalone_variable_declaration(p) == Node(p, "declaration", <<"variable", ";">>)

\* else_kw is what the last "else if" left: it is not reset.
RECURSIVE Ifs(_, _)
Ifs(p, else_kw) ==
  IF p.null \/ ~current_is(p, "if") THEN p
  ELSE LET values == Parts([p EXCEPT !.node = <<"if">> \o else_kw], <<"if", "conditional">>)
           one == [Odd(values, current_is(values, "if"), "if after an if") EXCEPT !.node = Append(p.node, @)]
       IN  IF values.null THEN values
           ELSE IF current_is(one, "else") /\ peek(one, 1) = "if"
             THEN Ifs([EatAny(one) EXCEPT !.node = one.node], <<<<"else">>>>)
             ELSE Ifs(one, else_kw)
parse_if_else_node(p) ==
  LET ifs == Ifs([p EXCEPT !.node = <<"if_else">>], <<>>)
  IN  IF ifs.null \/ ~current_is(ifs, "else") THEN ifs ELSE Parts(ifs, <<"else", "block">>)

\* The three parts of the head of a for may be missing.
parse_for_init(p) ==
  IF declaration_starts(p) THEN Parse("variable", p)
  ELSE IF current_is(p, ";") THEN [p EXCEPT !.node = <<"nothing">>] ELSE Parse("expr", p)
parse_for_condition(p) == IF current_is(p, ";") THEN [p EXCEPT !.node = <<"nothing">>] ELSE Parse("expr", p)
parse_for_iteration(p) == IF current_is(p, ")") THEN [p EXCEPT !.node = <<"nothing">>] ELSE Parse("expr", p)
parse_for_node(p) ==
  Node(p, "for", <<"for", "(", "for init", ";", "for condition", ";", "for iteration", ")", "block">>)

\* The semicolon is looked for whatever the expression came to.
ExpressionStatementUnterminated(p) ==      \* mutant: try_eat
  LET e == Parse("expr", p)
      semicolon == IF current_is(e, ";") THEN EatAny(e) ELSE e
  IN  [semicolon EXCEPT !.null = e.null, !.node = <<"expression", e.node>>]
ExpressionStatement(p) ==
  LET e == Parse("expr", p)
      semicolon == eat(e, ";")
  IN  [semicolon EXCEPT !.null = e.null \/ ~current_is(e, ";"), !.node = <<"expression", e.node, @>>]
Statement(p) ==
  CASE current_is(p, "return") -> parse_return_node(p)
    [] declaration_starts(p) -> Parse("declaration", p)
    [] current_is(p, "if") -> parse_if_else_node(p)
    [] current_is(p, "while") -> parse_while_node(p)
    [] current_is(p, "for") -> parse_for_node(p)
    [] current_is(p, "break") -> parse_break(p)
    [] current_is(p, "{") -> Parse("block", p)
    [] OTHER -> ExpressionStatement(p)
parse_block(p) == Node(p, "block", <<"{", "statements", "}">>)

(* ----- declarations ---------------------------------------------------- *)
get_param_declaration(p) == Node(p, "parameter", <<"type", "identifier">>)
\* A comma between two parameters may be missing, one at the end is an error.
prepare_for_next_without_report(p) ==      \* mutant: forgets to raise the error
  LET comma == eat(p, ",")
  IN  IF is_at_end(p) THEN Report(p)
      ELSE IF ~current_is(p, ",") THEN p
      ELSE IF curr_type(comma) \in {"undef", ")"} THEN Null(comma)
      ELSE [comma EXCEPT !.node = p.node]
prepare_for_next_parameter_declaration(p) ==
  LET comma == eat(p, ",")
  IN  IF is_at_end(p) THEN Report(p)
      ELSE IF ~current_is(p, ",") THEN p
      ELSE IF curr_type(comma) \in {"undef", ")"} THEN Report(comma)
      ELSE [comma EXCEPT !.node = p.node]
RECURSIVE ParamDeclarations(_)
ParamDeclarations(p) ==
  IF p.null \/ current_is(p, ")") THEN p
  ELSE IF is_at_end(p) THEN Report(p)
  ELSE LET one == Parts(p, <<"param_declaration">>)
       IN  IF one.null THEN one ELSE ParamDeclarations(prepare_for_next_parameter_declaration(one))
param_declarations(p) == Node(p, "parameters", <<"(", "params", ")">>)
parse_function(p) == Node(p, "function", <<"type", "identifier", "param_declarations", "block">>)
constructor(p) == Node(p, "constructor", <<"identifier", "param_declarations", "block">>)

\* A constructor does not end the round of the loop: a member has to follow it.
RECURSIVE ClassNodes(_)
ClassNodes(p) ==
  IF p.null \/ current_is(p, "}") THEN p
  ELSE IF is_at_end(p) THEN Undefined(p, "class cut short")                       \* current().str()
  ELSE LET constructed == IF p.tokens[p.at] = p.class THEN Parts(p, <<"constructor">>) ELSE p
       IN  IF constructed.null THEN constructed
           ELSE ClassNodes(Parts(constructed,
                  IF function_declaration_starts(constructed) THEN <<"function">> ELSE <<"declaration">>))
parse_class(p) ==
  Node([p EXCEPT !.class = IF is_at_end(p) \/ p.at = Len(p.tokens) THEN "" ELSE p.tokens[p.at + 1]],
       "class", <<"class", "identifier", "{", "class nodes", "}", ";">>)

RECURSIVE Enumerators(_)
Enumerators(p) ==
  IF p.null \/ current_is(p, "}") THEN p
  ELSE LET name == Parts(p, <<"identifier">>)
           comma == eat(name, ",")
       IN  IF name.null \/ ~current_is(name, ",") THEN name
           ELSE IF current_is(comma, "}") THEN Report(comma) ELSE Enumerators([comma EXCEPT !.node = name.node])
parse_enum(p) == Node(p, "enum", <<"enum", "identifier", "{", "enumerators", "}", ";">>)
parse_import(p) == Node(p, "import", <<"import", "string", ";">>)

RECURSIVE NamespaceNames(_)
NamespaceNames(p) ==
  LET name == Parts(p, <<"identifier">>)
  IN  IF name.null \/ ~current_is(name, "::") THEN name ELSE NamespaceNames(Parts(name, <<"::">>))
parse_namespace_declaration_names(p) == NamespaceNames([p EXCEPT !.node = <<"names">>])
parse_namespace(p) == Node(p, "namespace", <<"namespace", "names", "{", "namespace nodes", "}">>)

\* The keyword export may stand in front of everything; namespaces and imports do not get it.
TopLevelNode(p) ==
  LET exported == current_is(p, "export")
      q == IF exported THEN EatAny(p) ELSE p
      node == IF function_declaration_starts(q) THEN Parse("function", q)
              ELSE IF current_is(q, "class") THEN parse_class(q)
              ELSE IF current_is(q, "enum") THEN parse_enum(q)
              ELSE IF current_is(q, "namespace") THEN Parse("nested namespace", q)
              ELSE IF current_is(q, "import") THEN parse_import(q)
              ELSE Parse("declaration", q)
      kept == exported /\ curr_type(q) \notin {"namespace", "import"}
  IN  Odd([node EXCEPT !.node = IF kept THEN <<"exported", <<"export">>, @>> ELSE @], exported /\ ~kept, "export without effect")
parse_translation_unit(p) == Nodes(p, "unit", "top-level node", {"undef"})

(* ----- the functions that productions name ----------------------------- *)
Parse(symbol, p) ==
  CASE symbol = "expr" -> parse_expr(p)
    [] symbol = "factor" -> parse_factor(p)
    [] symbol = "name" -> parse_possibly_qualified_name(p)
    [] symbol = "type" -> parse_type(p)
    [] symbol = "any" -> EatAny(p)
    [] symbol = "expressions )" -> comma_separated_expression_list(p, ")")
    [] symbol = "expressions }" -> comma_separated_expression_list(p, "}")
    [] symbol = "parameter_list" -> parameter_list(p)
    [] symbol = "initializer list" -> parse_initializer_list(p)
    [] symbol = "designated initializers" -> parse_designated_initializers(p)
    [] symbol = "initializers" -> Initializers([p EXCEPT !.node = <<"initializers">>])
    [] symbol = "block" -> parse_block(p)
    [] symbol = "statements" -> Nodes(p, "statements", "statement", {"undef", "}"})
    [] symbol = "statement" -> Statement(p)
    [] symbol = "conditional" -> get_conditional_node(p)
    [] symbol = "variable" -> parse_variable_declaration(p)
    [] symbol = "declaration" -> parse_standalone_variable_declaration(p)
    [] symbol = "for init" -> parse_for_init(p)
    [] symbol = "for condition" -> parse_for_condition(p)
    [] symbol = "for iteration" -> parse_for_iteration(p)
    [] symbol = "params" -> ParamDeclarations([p EXCEPT !.node = <<"params">>])
    [] symbol = "param_declaration" -> get_param_declaration(p)
    [] symbol = "param_declarations" -> param_declarations(p)
    [] symbol = "function" -> parse_function(p)
    [] symbol = "constructor" -> constructor(p)
    [] symbol = "class nodes" -> ClassNodes([p EXCEPT !.node = <<"nodes">>])
    [] symbol = "enumerators" -> Enumerators([p EXCEPT !.node = <<"enumerators">>])
    [] symbol = "names" -> parse_namespace_declaration_names(p)
    [] symbol = "nested namespace" -> parse_namespace(p)
    [] symbol = "namespace nodes" -> Nodes(p, "nodes", "top-level node", {"}"})
    [] symbol = "top-level node" -> TopLevelNode(p)
    [] OTHER -> eat(p, symbol)
====
