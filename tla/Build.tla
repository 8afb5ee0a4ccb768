-------------------------------- MODULE Build --------------------------------
(***************************************************************************)
(* What a build of meow promises, whatever runs its commands and in which  *)
(* order: an output is only written from sources and outputs that are      *)
(* current, and a build that reports success leaves every output it was    *)
(* asked for current.                                                      *)
(*                                                                         *)
(* The content of an output is the set of the <<target, version>> pairs it *)
(* was made from, the versions of the sources of its own target and of the *)
(* targets whose outputs its commands read.                                *)
(***************************************************************************)
EXTENDS Naturals

CONSTANTS
  Targets,
  Root          \* the target that is asked for

VARIABLES
  recipe,       \* what the recipe says of each target; it does not change
  version,      \* the version of each target's own sources
  content,      \* what each target's output was made from
  result        \* of the last invocation: "none", "running", "ok", "failed"

vars == <<recipe, version, content, result>>

\* The targets that this machine builds: `when' holds, `only' and `except'
\* let its architecture through.
Active == {t \in Targets : recipe[t].condition = "build"}

\* The targets that have an output: the others are phony.
Files == {t \in Active : recipe[t].file}

DepsOf(t) == {recipe[t].deps[i] : i \in DOMAIN recipe[t].deps}

\* What can be reached from t by following edges: what is in every set that
\* has t and that no edge leaves.
From(t, edges) ==
  LET closed == {S \in SUBSET Targets :
                  t \in S /\ \A y \in S : edges[y] \subseteq S}
  IN  {x \in Targets : \A S \in closed : x \in S}

\* A target's output is made from its sources and from what the outputs of
\* its direct dependencies are made from.
MadeFrom(t) ==
  LET files == Files
  IN  {<<x, version[x]>> : x \in From(t, [y \in Targets |-> DepsOf(y) \cap files])}

Current(t) == content[t] = MadeFrom(t)

\* A target whose condition does not hold is left out with its dependencies.
Wanted ==
  Files \cap From(Root, [y \in Targets |-> IF recipe[y].condition = "off"
                                           THEN {} ELSE DepsOf(y)])

Init == /\ version = [t \in Targets |-> 0]
        /\ content = [t \in Targets |-> {}]
        /\ result = "none"

Edit(t) == /\ result # "running"
           /\ version' = [version EXCEPT ![t] = @ + 1]
           /\ result' = "none"
           /\ UNCHANGED <<recipe, content>>

Begin == /\ result # "running"
         /\ result' = "running"
         /\ UNCHANGED <<recipe, version, content>>

Make(t) == /\ t \in Files
           /\ content' = [content EXCEPT ![t] = MadeFrom(t)]
           /\ \A d \in DepsOf(t) \cap Files : Current(d)
           /\ UNCHANGED <<recipe, version, result>>

Succeed == /\ result = "running"
           /\ result' = "ok"
           /\ \A t \in Wanted : Current(t)
           /\ UNCHANGED <<recipe, version, content>>

Fail == /\ result = "running"
        /\ result' = "failed"
        /\ UNCHANGED <<recipe, version, content>>

Next == \/ Begin \/ Succeed \/ Fail
        \/ \E t \in Targets : Edit(t) \/ Make(t)

Spec == Init /\ [][Next]_vars

\* Success is reported only when every output that was asked for is made from
\* the current sources and commands, however earlier builds ended.
SuccessMeansCurrent == result = "ok" => \A t \in Wanted : Current(t)
==============================================================================
