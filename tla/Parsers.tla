---- MODULE Parsers ----
(* What the two parsers make of the tokens of a file. A file is written     *)
(* phrase by phrase and parsed whenever one is added; it is given up when   *)
(* nothing that could follow would change what the parser says of it.       *)
EXTENDS ScriptParser, SequencesExt

D == INSTANCE DeclarativeParser

CONSTANTS
  Files,           \* name -> [language, beginning, phrases, most]: the tokens that a file begins
                   \* with, those that may be added at once, and the bound of its length
  Avoided          \* constructs of which the properties do not speak

VARIABLES file, tokens, outcome
vars == <<file, tokens, outcome>>

Script == "cmsl"
Declarative == "dcmsl"
language == Files[file].language

Outcome(l, text) ==
  IF l = Script THEN parse_translation_unit(Parsing(text)) ELSE D!parse_translation_unit(Parsing(text))

\* The parser, or the look it took ahead, came to the end of the file.
CameToTheEnd(p) == parse_type([p EXCEPT !.null = FALSE]).at > Len(p.tokens)

Init ==
  /\ file \in DOMAIN Files
  /\ tokens = Files[file].beginning
  /\ outcome = Outcome(language, tokens)

Read(phrase) ==
  /\ Len(tokens) + Len(phrase) <= Files[file].most
  /\ tokens' = tokens \o phrase
  /\ outcome' = Outcome(language, tokens')
  /\ UNCHANGED file

ReadScript == language = Script /\ CameToTheEnd(outcome) /\ \E phrase \in Files[file].phrases : Read(phrase)
ReadDeclarations == language = Declarative /\ CameToTheEnd(outcome) /\ \E phrase \in Files[file].phrases : Read(phrase)

Next == ReadScript \/ ReadDeclarations
Spec == Init /\ [][Next]_vars

(* ----- correctness ----------------------------------------------------- *)
TypeOK ==
  /\ file \in DOMAIN Files
  /\ outcome.tokens = tokens
  /\ outcome.at \in 1..Len(tokens) + 1
  /\ outcome.null \in BOOLEAN /\ outcome.reported \in BOOLEAN

\* The file has none of the constructs to avoid.
Ordinary == outcome.odd \cap Avoided = {}

\* Whoever gets null from a parser gets an error with it, and whoever gets a tree can go on
\* with it: the compiler looks at the result, the user at the errors. And no parser reads a
\* token behind the last one or a value that is not there.
TellsWhatItRefuses == Ordinary => (outcome.null <=> outcome.reported) /\ ~outcome.undefined

\* The tree of a file is made of all its tokens in their order. Commas, and parentheses around
\* expressions, have no place in the tree.
EmptyNodes == {"unit", "nodes", "statements", "params", "expressions", "initializers", "enumerators",
               "values", "nothing"}
RECURSIVE Spelling(_)
Spelling(tree) ==
  IF Len(tree) > 1 THEN FlattenSeq([i \in 1..Len(tree) - 1 |-> Spelling(tree[i + 1])])
  ELSE IF tree[1] \in EmptyNodes THEN <<>> ELSE tree
Significant(text) == SelectSeq(text, LAMBDA token : token \notin {",", "(", ")"})
SpellsItsTokens == Ordinary /\ ~outcome.null => Significant(Spelling(outcome.node)) = Significant(tokens)

\* Operators group as in C++, except that assignments group to the left: a reference that
\* splits a flat expression at the last operator of the loosest level.
Looseness == <<{"."}, {"!"}, {"*", "/", "%"}, {"+", "-"}, {"<", "<=", ">", ">="}, {"==", "!="}, {"&"},
               {"^"}, {"|"}, {"&&"}, {"||"}, {"=", "+=", "-=", "*=", "/=", "&=", "^=", "|="}>>
LoosenessOf(op) == CHOOSE level \in DOMAIN Looseness : op \in Looseness[level]
Operand(token) == TypeOf(token) \in {"identifier", "integer"}
Flat(e) ==
  /\ Len(e) % 2 = 1
  /\ \A i \in DOMAIN e : IF i % 2 = 1 THEN Operand(e[i]) ELSE e[i] \in UNION Range(Looseness)
RECURSIVE Grouped(_)
Grouped(e) ==
  IF Len(e) = 1 THEN IF TypeOf(e[1]) = "identifier" THEN <<"name", e>> ELSE e
  ELSE LET ops == {i \in DOMAIN e : i % 2 = 0}
           split == CHOOSE i \in ops : \A j \in ops :
                      \/ LoosenessOf(e[j]) < LoosenessOf(e[i])
                      \/ LoosenessOf(e[j]) = LoosenessOf(e[i]) /\ j <= i
           lhs == Grouped(SubSeq(e, 1, split - 1))
           rest == SubSeq(e, split + 1, Len(e))
       IN  IF e[split] = "." THEN <<"member", lhs, <<".">>, rest>>
           ELSE <<"binary", lhs, <<e[split]>>, Grouped(rest)>>
Initializing == <<"int", "x", "=">>
GroupsByPrecedence ==
  LET e == SubSeq(tokens, 4, Len(tokens) - 1)
  IN  language = Script /\ ~outcome.null /\ Len(tokens) > 4 /\ tokens = Initializing \o e \o <<";">> /\ Flat(e)
        => outcome.node[2][2][5] = Grouped(e)

\* A block is its statements one after another: what stands in front of a statement, or
\* behind it, does not change what it is.
Function(body) == <<"int", "x", "(", ")", "{">> \o body \o <<"}">>
StatementsOf(o) == Tail(o.node[2][5][3])
OneStatement(o) == ~o.null /\ Len(o.node) = 2
Joined(whole, first, second) ==
  OneStatement(first) /\ OneStatement(second) =>
    ~whole.null /\ StatementsOf(whole) = StatementsOf(first) \o StatementsOf(second)
StatementsStandAlone ==
  LET body == SubSeq(tokens, 6, Len(tokens) - 1)
      OfPart(i, j) == Outcome(Script, Function(SubSeq(body, i, j)))
  IN  Ordinary /\ language = Script /\ Len(tokens) > 6 /\ tokens = Function(body) =>
        \A i \in 1..Len(body) - 1 : Joined(outcome, OfPart(1, i), OfPart(i + 1, Len(body)))
====
