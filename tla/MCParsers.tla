---- MODULE MCParsers ----
(* Files that begin in a few ways and go on by any token of their language, *)
(* and others that begin inside a production and go on by what belongs      *)
(* there, for as long as a complete tree with it takes.                     *)
EXTENDS Parsers

MCNames == {"x", "C", "component", "cmake_variables", "as_int"}

Single(types) == {<<t>> : t \in types}
Tokens == Single({"x", "C", "int", "list", "true", "integer", "string", "::", "<", ">", "&", "(", ")", "{", "}", ";", ",", ".", "?",
                  ":", "=", "+", "!", "class", "enum", "namespace", "import", "export", "if", "else", "while", "for", "break",
                  "return"})
DeclarativeTokens == Single({"x", "component", "cmake_variables", "as_int", "executable", "integer", "string", "{", "}", "[", "]",
                             ";", ",", ".", ":", "=", "+=", "import"})
Block == <<"int", "x", "(", ")", "{">>
If == <<"if", "(", "x", ")", "{", "}">>
Statements == {<<"{">>, <<"}">>, <<"else">>, <<"x", ";">>, <<"return", "x", ";">>, If, <<"while", "(", "x", ")", "{", "}">>}
File(l, beginning, phrases, longer) ==
  [language |-> l, beginning |-> beginning, phrases |-> phrases, most |-> Len(beginning) + longer]
Beginnings == [
  any |-> File(Script, <<>>, Tokens, 4),
  anything_in_block |-> File(Script, Block, Tokens, 3),
  short_statements |-> File(Script, Block, Single({"x", "=", "+", "{", ";", "}"}), 5),
  statements |-> File(Script, Block, Statements, 9),
  after_an_if |-> File(Script, Block \o If, Statements, 8),
  expression |-> File(Script, Initializing,
    Single({"x", ";", ".", "(", ")", "!"}) \union {<<"=", "x">>, <<"+", "x">>}, 6),
  conditional |-> File(Script, Initializing, Single({"x", "?", ":", ";"}) \union {<<"(", "x">>, <<")">>, <<"+", "x">>}, 7),
  global_access |-> File(Script, Initializing \o <<"::">>, Single({"x", "::", "&", "(", ")", ".", ";"}), 6),
  operators |-> File(Script, Initializing \o <<"x">>,
    {<<op, "x">> : op \in {"=", "+=", "&&", "&", "==", "<", "+", "*", "!", "."}} \union {<<";">>}, 7),
  class |-> File(Script, <<"class", "C", "{">>, Single({"x", "C", "int", "(", ")", "{", "}", ";", ",", "::"}), 7),
  constructors |-> File(Script, <<"class", "C", "{">>,
    Single({"x", "(", "}", ";"}) \union {<<"C", "(">>, <<"int", "x">>, <<")", "{", "}">>}, 12),
  enumeration |-> File(Script, <<"enum", "C", "{">>, Single({"x", "C", ",", "}", ";", "="}), 7),
  namespaces |-> File(Script, <<"namespace">>,
    Single({"x", "::", "{", "}", "namespace"}) \union {<<"int", "x", ";">>}, 9),
  generic |-> File(Script, <<"list">>, Single({"list", "<", ">", "int", "x", "&", ";"}), 8),
  generic_call |-> File(Script, Initializing \o <<"list">>, Single({"list", "<", ">", "x", "(", ")", ";"}), 7),
  parameters |-> File(Script, <<"int", "x", "(">>,
    Single({"x", "&", ",", ")"}) \union {<<"C", "x">>, <<"{", "}">>}, 9),
  arguments |-> File(Script, Initializing \o <<"x", "(">>,
    Single({"x", ")", ",", ";"}) \union {<<"x", "(">>, <<"(", "x">>}, 8),
  literals |-> File(Script, Initializing, Single({"string", "integer", "true", "x", ";"}) \union {<<"+">>}, 6),
  initializers |-> File(Script, Initializing \o <<"{">>,
    Single({"x", "}", ",", ";"}) \union {<<"{", "x">>, <<"{", "}">>}, 8),
  designated |-> File(Script, Initializing \o <<"{", ".">>, Single({"x", ".", ",", "}", ";"}) \union {<<"x", "=">>}, 10),
  for_loop |-> File(Script, Block \o <<"for", "(">>,
    Single({"x", ";", ")", "}"}) \union {<<"int", "x">>, <<"=", "x">>, <<"{", "}">>}, 10),
  declarations |-> File(Declarative, <<>>, DeclarativeTokens, 4),
  component |-> File(Declarative, <<"x", "{">>, DeclarativeTokens, 5),
  value |-> File(Declarative, <<"x", "{", "x", "=">>, DeclarativeTokens, 5),
  component_declaration |-> File(Declarative, <<"component">>,
    Single({"x", "executable", ":", "{", "}", "+="}) \union {<<"=", "integer">>}, 10),
  nested_components |-> File(Declarative, <<"executable">>,
    Single({"x", ":", ".", "{", "}"}) \union {<<"=", "integer">>, <<"+=", "string">>}, 10),
  lists |-> File(Declarative, <<"x", "{", "x", "+=", "[">>,
    Single({"integer", "string", "x", "[", "]", ",", "}"}) \union {<<"cmake_variables", ".", "x", ".">>, <<"as_int">>}, 9)]

MCFiles == Beginnings     \* evaluated once

MCAvoided == {"operand missing", "parenthesis not closed", "name that ends in ::", "class cut short", "member missing",
              "member called by a qualified name", "global access of a type", "if after an if", "export without effect",
              "value cut short", "no value", "derived from no name", "no component"}
====
