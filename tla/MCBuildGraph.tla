---------------------------- MODULE MCBuildGraph ----------------------------
(***************************************************************************)
(* Recipes in which several processes reach the same target.               *)
(***************************************************************************)
EXTENDS BuildGraph

MCTargets == {"all", "prog", "lib", "gen"}

Phony(deps) == [deps |-> deps, file |-> FALSE, condition |-> "build",
                parallel |-> 0, abort |-> TRUE]
File(deps) == [Phony(deps) EXCEPT !.file = TRUE]

\* A dependency needs another, which needs a third and lists it twice; the
\* target that needs them is for another machine.
Chain == [all |-> [File(<<"prog", "lib">>) EXCEPT !.condition = "elsewhere"],
          prog |-> File(<<"lib">>),
          lib |-> File(<<"gen", "gen">>),
          gen |-> File(<<>>)]

\* A target is reached directly and through another, which has `parallel: 1';
\* the commands of the one that needs them have `run(?)'.
Shortcut == [all |-> [Phony(<<"prog", "gen">>) EXCEPT !.abort = FALSE],
             prog |-> [File(<<"gen">>) EXCEPT !.parallel = 1],
             lib |-> File(<<>>),
             gen |-> File(<<>>)]

\* Two targets depend on each other, and another on one whose `when' fails.
Cycle == [all |-> Phony(<<"gen", "prog">>),
          prog |-> File(<<"lib">>),
          lib |-> File(<<"prog">>),
          gen |-> [File(<<"prog">>) EXCEPT !.condition = "off"]]

MCRecipes == {Chain, Shortcut, Cycle}

\* A recipe in YAML
Yaml == [t \in MCTargets |-> [File(Chain[t].deps) EXCEPT !.abort = FALSE]]

YamlRecipes == {Yaml}
==============================================================================
