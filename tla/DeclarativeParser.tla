---- MODULE DeclarativeParser ----
(* The parser of declarative scripts (decl_ast::parser): components, their  *)
(* properties and imports.                                                  *)
EXTENDS TokenStream

RECURSIVE Parse(_, _), Parts(_, _)
Parts(p, symbols) ==
  IF symbols = <<>> THEN p
  ELSE LET part == Parse(Head(symbols), p)
       IN  IF part.null THEN part
           ELSE Parts([part EXCEPT !.node = Append(p.node, @)], Tail(symbols))
Node(p, kind, symbols) == Parts([p EXCEPT !.node = <<kind>>], symbols)
\* A function that returns null and reports nothing.
Silent(p, odd) == Odd(Null(p), TRUE, odd)

(* ----- values ---------------------------------------------------------- *)
AsTypes == {"as_bool", "as_int", "as_double", "as_string", "as_list"}
parse_cmake_variable_access(p) ==
  LET access == Node(p, "variable", <<"any", ".", "identifier", ".", "identifier">>)
  IN  IF access.null \/ p.tokens[access.at - 1] \in AsTypes THEN access ELSE Report(access)
parse_value(p) ==
  IF curr_type(p) \in {"true", "false", "integer", "real", "string"} THEN EatAny(p)
  ELSE IF current_is(p, "[") THEN Parse("list", p)
  ELSE IF is_at_end(p) THEN Undefined(p, "value cut short")                       \* current().str()
  ELSE IF p.tokens[p.at] = "cmake_variables" THEN parse_cmake_variable_access(p)
  ELSE Silent(p, "no value")

\* Here a comma at the end is fine, and one between two values is required. Behind a value,
\* and behind its comma, the file must go on.
RECURSIVE Values(_)
Values(p) ==
  IF p.null \/ current_is(p, "]") THEN p
  ELSE IF current_is(p, "[") THEN Report(p)
  ELSE LET one == Parts(p, <<"value">>)
           next == IF current_is(one, ",") THEN [EatAny(one) EXCEPT !.node = one.node] ELSE one
       IN  IF one.null THEN one
           ELSE IF curr_type(one) \notin {",", "]"} \/ is_at_end(next) THEN Report(next)
           ELSE Values(next)
parse_list(p) == Node(p, "list", <<"[", "values", "]">>)

(* ----- properties and components --------------------------------------- *)
RECURSIVE PropertyNames(_)
PropertyNames(p) ==
  LET name == Parts(p, <<"identifier">>)
  IN  IF name.null \/ ~current_is(name, ".") THEN name ELSE PropertyNames(Parts(name, <<".">>))
parse_property_access(p) == PropertyNames([p EXCEPT !.node = <<"access">>])
parse_property(p) ==
  LET access == Node(p, "property", <<"access">>)
  IN  IF access.null THEN access
      ELSE Parts(access, IF current_is(access, "=") THEN <<"=", "value">> ELSE <<"+=", "value">>)

component_declaration_starts(p) == current_is(p, "identifier") /\ peek(p, 1) = "{"
property_definition_starts(p) == current_is(p, "identifier")
RECURSIVE ComponentNodes(_)
ComponentNodes(p) ==
  IF p.null \/ current_is(p, "}") THEN p
  ELSE IF component_declaration_starts(p) THEN ComponentNodes(Parts(p, <<"component">>))
  ELSE IF property_definition_starts(p) THEN ComponentNodes(Parts(p, <<"property">>))
  ELSE Report(p)
parse_component_nodes(p) == ComponentNodes([p EXCEPT !.node = <<"nodes">>])
Body(p) == Parts(p, <<"{", "component nodes", "}">>)

parse_component(p) ==
  LET named == Node(p, "component", <<"any">>)
      derived == IF current_is(named, ":") THEN Parts(named, <<":", "identifier">>) ELSE named
  IN  IF curr_type(p) \notin {"identifier", "executable"} THEN Report(named)
      ELSE IF derived.null THEN derived ELSE Body(derived)
parse_component_declaration(p) ==
  LET named == Node(p, "component declaration", <<"identifier", "identifier">>)
      derived == Parts(named, <<":", "any">>)
  IN  IF named.null \/ ~current_is(named, ":") THEN IF named.null THEN named ELSE Body(named)
      ELSE IF derived.null THEN derived
      ELSE IF TypeOf(p.tokens[derived.at - 1]) \notin {"identifier", "executable"}
        THEN Silent(derived, "derived from no name") ELSE Body(derived)

parse_import(p) == Node(p, "import", <<"import", "string", ";">>)
RECURSIVE Units(_)
Units(p) ==
  IF p.null \/ is_at_end(p) THEN p
  ELSE IF p.tokens[p.at] = "component" THEN Units(Parts(p, <<"component declaration">>))
  ELSE IF curr_type(p) \in {"identifier", "executable"} THEN Units(Parts(p, <<"component">>))
  ELSE IF current_is(p, "import") THEN Units(Parts(p, <<"unit import">>))
  ELSE Silent(p, "no component")
parse_translation_unit(p) == Units([p EXCEPT !.node = <<"unit">>])

Parse(symbol, p) ==
  CASE symbol = "any" -> EatAny(p)
    [] symbol = "value" -> parse_value(p)
    [] symbol = "list" -> parse_list(p)
    [] symbol = "values" -> Values([p EXCEPT !.node = <<"values">>])
    [] symbol = "access" -> parse_property_access(p)
    [] symbol = "property" -> parse_property(p)
    [] symbol = "component nodes" -> parse_component_nodes(p)
    [] symbol = "component" -> parse_component(p)
    [] symbol = "component declaration" -> parse_component_declaration(p)
    [] symbol = "unit import" -> parse_import(p)
    [] OTHER -> eat(p, symbol)
====
