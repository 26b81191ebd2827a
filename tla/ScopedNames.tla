---- MODULE ScopedNames ----
(***************************************************************************)
(* What names mean in CMakeSL: declarations are made in a namespace or in  *)
(* a block, exported ones can be imported by another file, into the same   *)
(* namespace there, and a name means the innermost declaration around it.  *)
(* There is no tree: a namespace is the sequence of names that leads to it.*)
(***************************************************************************)
EXTENDS Naturals, SequencesExt

CONSTANTS Files,          \* the files, in the order in which they are analysed
          Names,
          GlobalName,     \* the empty name before a leading ::
          Declarations,   \* what a name can stand for
          BuiltinDeclared, BuiltinNamespaces

VARIABLES file,           \* the position in Files of the one being analysed
          here,           \* the namespace the analysis is in
          blocks,         \* the declarations of the blocks it is in
          namespaces, declared,
          library,        \* what the files analysed before offer to others
          failed          \* an import found a name taken

vars == <<file, here, blocks, namespaces, declared, library, failed>>

Finished == 1 .. (file - 1)
Nothing == [declared |-> {}, namespaces |-> {}]
----------------------------------------------------------------------------
Init == /\ file = 1
        /\ here = <<>> /\ blocks = <<>>
        /\ namespaces = BuiltinNamespaces /\ declared = BuiltinDeclared
        /\ library = [f \in DOMAIN Files |-> Nothing]
        /\ failed = FALSE

OpenNamespace(n) == /\ blocks = <<>> /\ ~failed
                    /\ here' = Append(here, n)
                    /\ namespaces' = namespaces \union {here'}
                    /\ UNCHANGED <<file, blocks, declared, library, failed>>

CloseNamespace == /\ blocks = <<>> /\ here # <<>> /\ ~failed
                  /\ here' = Front(here)
                  /\ UNCHANGED <<file, blocks, namespaces, declared, library, failed>>

OpenBlock == /\ ~failed
             /\ blocks' = Append(blocks, {})
             /\ UNCHANGED <<file, here, namespaces, declared, library, failed>>

CloseBlock == /\ blocks # <<>> /\ ~failed
              /\ blocks' = Front(blocks)
              /\ UNCHANGED <<file, here, namespaces, declared, library, failed>>

Declare(n, what, exported) ==
  /\ ~failed
  /\ \A d \in declared : d.what # what
  /\ IF blocks = <<>>
     THEN /\ declared' = declared \union
                {[at |-> here, name |-> n, what |-> what, exported |-> exported]}
          /\ UNCHANGED blocks
     ELSE /\ ~exported
          /\ blocks' = [blocks EXCEPT ![Len(blocks)] = @ \union {[name |-> n, what |-> what]}]
          /\ UNCHANGED declared
  /\ UNCHANGED <<file, here, namespaces, library, failed>>

\* Import one namespace of a file; what is imported is not exported again.
\* A name that is taken there is not imported, and the analysis fails.
Import(f, at) ==
  LET offered == {d \in library[f].declared : d.at = at}
      taken == {d \in offered : \E old \in declared : old.at = at /\ old.name = d.name}
  IN /\ f \in Finished /\ at \in library[f].namespaces /\ blocks = <<>>
     /\ declared' = declared \union {[d EXCEPT !.exported = FALSE] : d \in offered \ taken}
     /\ namespaces' = namespaces \union {at}
     /\ failed' = (failed \/ taken # {})
     /\ UNCHANGED <<file, here, blocks, library>>

FinishFile ==
  /\ file \in DOMAIN Files /\ here = <<>> /\ blocks = <<>> /\ ~failed
  /\ library' = [library EXCEPT ![file] =
                   [declared |-> {d \in declared : d.exported}, namespaces |-> namespaces]]
  /\ file' = file + 1
  /\ namespaces' = BuiltinNamespaces /\ declared' = BuiltinDeclared
  /\ UNCHANGED <<here, blocks, failed>>

Next == \/ \E n \in Names : OpenNamespace(n)
        \/ CloseNamespace \/ OpenBlock \/ CloseBlock
        \/ \E n \in Names, what \in Declarations, exported \in BOOLEAN :
             Declare(n, what, exported)
        \/ \E f \in DOMAIN Files : \E at \in library[f].namespaces : Import(f, at)
        \/ FinishFile

Spec == Init /\ [][Next]_vars
----------------------------------------------------------------------------
\* What a name means where the analysis is.
Innermost(places) == CHOOSE p \in places : \A q \in places : Len(q) <= Len(p)
Around == Prefixes(here)
DeclaredIn(at, n) == { d.what : d \in {d \in declared : d.at = at /\ d.name = n} }

Meaning(n) ==
  LET inBlock == {i \in DOMAIN blocks : \E d \in blocks[i] : d.name = n}
      block == CHOOSE i \in inBlock : \A j \in inBlock : j <= i
      places == {p \in Around : DeclaredIn(p, n) # {}}
  IN IF inBlock # {} THEN { d.what : d \in {d \in blocks[block] : d.name = n} }
     ELSE IF places # {} THEN DeclaredIn(Innermost(places), n) ELSE {}

\* The first name of q is looked for around, the others inside of it.
QualifiedMeaning(q, n) ==
  LET places == {p \in Around : Append(p, q[1]) \in namespaces}
      at == IF q[1] = GlobalName THEN Tail(q) ELSE Innermost(places) \o q
  IN IF (q[1] = GlobalName \/ places # {}) /\ at \in namespaces
     THEN DeclaredIn(at, n) ELSE {}
====
