---- MODULE DeclaredComponents ----
(***************************************************************************)
(* What declarative scripts mean. A component type is a value: the         *)
(* properties of its base with its own on top. A script declares types,    *)
(* uses them and imports those that other scripts declare; the component   *)
(* that the last script ends with becomes a target, all at once.           *)
(***************************************************************************)
EXTENDS Naturals, Sequences

CONSTANTS Scripts,    \* how many there are; the last one is the one that is added
          Names,      \* what scripts call the types they declare
          Builtins,   \* name of a builtin type -> its name and those of its bases
          Properties, \* property -> what it is when nobody says anything
          Contents,   \* what scripts say that a property is
          Wanted(_)   \* what CMake is to know of a component

VARIABLES script,     \* the script that is read
          offered,    \* what each script that was read declares
          known,      \* name -> component: what it can name, declared by it or another
          own,        \* the names it declared itself
          open,       \* the declaration or use that is read: its name and component, or nothing
          used,       \* the components of the script
          target,     \* what CMake knows
          state
vars == <<script, offered, known, own, open, used, target, state>>

\* A component type: its names and what scripts said of its properties.
Component(type, properties) == [type |-> type, properties |-> properties]
Named == DOMAIN known \union DOMAIN Builtins
Meaning(name) == IF name \in DOMAIN known THEN known[name] ELSE Component(Builtins[name], <<>>)
Nobody == ""
With(f, n, x) == [m \in DOMAIN f \union {n} |-> IF m = n THEN x ELSE f[m]]

Init ==
  /\ script = 1 /\ offered = <<>>
  /\ known = <<>> /\ own = {} /\ open = <<>> /\ used = <<>>
  /\ target = <<>> /\ state = "reading"

Reading == state = "reading" /\ UNCHANGED <<target, state>>
Outside == Reading /\ open = <<>>

Declare(name, base) ==
  /\ Outside /\ name \notin Named
  /\ open' = <<name, Component(<<name>> \o Meaning(base).type, Meaning(base).properties)>>
  /\ UNCHANGED <<script, offered, known, own, used>>
Use(name) ==
  /\ Outside
  /\ open' = <<Nobody, Meaning(name)>>
  /\ UNCHANGED <<script, offered, known, own, used>>
Said(properties, property) ==
  IF property \in DOMAIN properties THEN properties[property] ELSE Properties[property]
Say(property, content) ==
  /\ Reading /\ open # <<>>
  /\ \E said \in {content, Said(open[2].properties, property) \o content} :
       open' = [open EXCEPT ![2].properties = With(@, property, said)]
  /\ UNCHANGED <<script, offered, known, own, used>>
Close ==
  /\ Reading /\ open # <<>>
  /\ open' = <<>>
  /\ \/ open[1] = Nobody /\ used' = Append(used, open[2]) /\ UNCHANGED <<known, own>>
     \/ /\ open[1] # Nobody
        /\ known' = With(known, open[1], open[2]) /\ own' = own \union {open[1]}
        /\ UNCHANGED used
  /\ UNCHANGED <<script, offered>>
Import(s) ==
  /\ Outside /\ DOMAIN offered[s] \intersect DOMAIN known = {}
  /\ known' = [n \in DOMAIN known \union DOMAIN offered[s] |->
                 IF n \in DOMAIN known THEN known[n] ELSE offered[s][n]]
  /\ UNCHANGED <<script, offered, own, open, used>>
EndScript ==
  /\ Outside /\ script < Scripts
  /\ script' = script + 1
  /\ offered' = Append(offered, [n \in own |-> known[n]])
  /\ known' = <<>> /\ own' = {} /\ used' = <<>>
  /\ UNCHANGED open

Refuse ==
  /\ state = "reading" /\ state' = "refused"
  /\ UNCHANGED <<script, offered, known, own, open, used, target>>
Finish ==
  /\ state = "reading" /\ script = Scripts /\ open = <<>>
  /\ state' = "finished"
  /\ target' = IF used = <<>> THEN <<>> ELSE <<Wanted(used[Len(used)])>>
  /\ UNCHANGED <<script, offered, known, own, open, used>>

Next ==
  \/ \E name \in Names, base \in Named : Declare(name, base)
  \/ \E name \in Named : Use(name)
  \/ \E property \in DOMAIN Properties, content \in Contents : Say(property, content)
  \/ \E s \in DOMAIN offered : Import(s)
  \/ Close \/ EndScript \/ Refuse \/ Finish
Spec == Init /\ [][Next]_vars
====
