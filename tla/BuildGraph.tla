------------------------------ MODULE BuildGraph ------------------------------
(***************************************************************************)
(* The execution of the dependency graph in meow, src/engine/graph.c and   *)
(* exec.c.  run_target visits the dependencies of a target, decides by the *)
(* modification times whether its output is out of date, and runs its      *)
(* commands.  With -j1 it recurses; with -jN it forks a process for each   *)
(* dependency, at most N at a time, and those fork in their turn.          *)
(*                                                                         *)
(* The processes share no memory: each has the copy of the `done' flags it *)
(* was forked with.  A target that several of them reach is built by one   *)
(* at a time because the test and the commands run under a flock, which    *)
(* the command inherits, and only once because the second finds the output *)
(* up to date.                                                             *)
(*                                                                         *)
(* A call of run_target is identified by its invocation and by the path of *)
(* the targets that led to it; with -jN it is a process.                   *)
(***************************************************************************)
EXTENDS Naturals, Sequences, FiniteSets, Functions, SequencesExt

CONSTANTS
  Targets,
  Root,
  NoOne,
  Recipes,         \* the recipes that are tried, one in a behaviour
  Jobs,            \* the values of -j that are tried
  Edited,          \* the targets that are changed between builds
  EditKinds,       \* what is changed of them: "source", "recipe"
  CleanFailures,   \* does a command that fails leave its output as it was?
  MaxInvocations,  \* bound on the invocations of meow
  MaxEdits,        \* bound on the changes of each target made between them
  MaxLag,          \* bound on how much later than the last changed source
                   \* an output is written
  MaxFaults        \* bound on the commands and forks that fail and the kills

\* `deps' lists the dependencies as the recipe does; `file' tells the targets
\* with an output from phony ones; `condition' is "off" where `when' does not
\* hold and "elsewhere" where `only' or `except' rule this machine out;
\* `parallel' overrides -j for the commands of the target, 0 if absent;
\* `abort' tells whether a command that fails ends the target: the parser of
\* .meow recipes says so unless it reads `run(?)', the parser of YAML ones
\* leaves the flags of a command at zero.
RecipeType == [Targets -> [deps : Seq(Targets), file : BOOLEAN,
                           condition : {"build", "off", "elsewhere"},
                           parallel : Nat, abort : BOOLEAN]]

ASSUME RecipeAssumption == /\ Root \in Targets
                           /\ \A r \in Recipes : r \in RecipeType
ASSUME JobsAssumption == Jobs \subseteq Nat \ {0}
ASSUME EditedAssumption == Edited \subseteq Targets
ASSUME NoOneAssumption == NoOne \notin [inv : Nat, path : Seq(Targets)]
ASSUME BoundsAssumption == MaxInvocations \in Nat

Missing == [made |-> FALSE, time |-> 0, content |-> {}]

VARIABLES
  recipe,
  version,      \* the version of each target's sources and commands
  touched,      \* the modification time of each target's sources
  clock,        \* the time, as far as a change of a file has shown it
  out,          \* each target's output file
  jobs,         \* parallel_jobs of each invocation so far
  frames,       \* the calls of run_target that have not been collected
  cmds,         \* the `sh -c' processes that run a target's commands
  lock,         \* the call whose lock file descriptor holds each flock
  result,       \* of the last invocation
  faults

vars == <<recipe, version, touched, clock, out, jobs, frames, cmds, lock,
          result, faults>>

world == <<recipe, version, touched, clock>>

-----------------------------------------------------------------------------
\* Calls of run_target

TargetOf(id) == Last(id.path)
ParentOf(id) == [inv |-> id.inv, path |-> Front(id.path)]
ChildOf(id, t) == [inv |-> id.inv, path |-> Append(id.path, t)]
IsRoot(id) == Len(id.path) = 1

Ended(id) == frames[id].at \in {"ok", "failed"}
Live == {id \in DOMAIN frames : ~Ended(id)}
ChildrenOf(id) == {c \in DOMAIN frames : ~IsRoot(c) /\ ParentOf(c) = id}

\* A process of its own, rather than a call in the process of its parent
Forking(id) == jobs[id.inv] > 1

\* `parallel:' of the target, in force after its dependencies are done
JobsFor(id) == LET own == recipe[TargetOf(id)].parallel
               IN  IF own > 0 THEN own ELSE jobs[id.inv]

DepsOf(t) == ToSet(recipe[t].deps)
IsFile(t) == recipe[t].file

NewFrame(done) == [at |-> "enter", todo |-> {}, done |-> done,
                   failed |-> FALSE]

\* Call id ends with res.  Its parent finds that when it waits for it; a
\* call whose parent is gone leaves nothing behind, and neither do its own
\* ended children.  The exit closes the descriptor of its lock.
End(id, res) ==
  LET told == ~IsRoot(id) /\ ParentOf(id) \in Live
      gone == {c \in ChildrenOf(id) : Ended(c)} \cup (IF told THEN {} ELSE {id})
      kept == Restrict(frames, DOMAIN frames \ gone)
  IN  /\ frames' = IF told THEN [kept EXCEPT ![id].at = res] ELSE kept
      /\ result' = IF IsRoot(id) /\ id.inv = Len(jobs) THEN res ELSE result
      /\ lock' = [t \in Targets |-> IF lock[t] = id THEN NoOne ELSE lock[t]]

\* Function f and one point more
With(f, x, v) == [y \in DOMAIN f \cup {x} |-> IF y = x THEN v ELSE f[y]]

Goto(id, label) == frames' = [frames EXCEPT ![id].at = label]

Init == /\ recipe \in Recipes
        /\ version = [t \in Targets |-> 0]
        /\ touched = [t \in Targets |-> 0]
        /\ clock = 0
        /\ out = [t \in Targets |-> Missing]
        /\ jobs = <<>>
        /\ frames = <<>>
        /\ cmds = <<>>
        /\ lock = [t \in Targets |-> NoOne]
        /\ result = "none"
        /\ faults = 0

-----------------------------------------------------------------------------
\* The dependencies

\* Where the recipe first names a dependency that is not done
Uniques(t, done) ==
  LET deps == recipe[t].deps
  IN  {i \in DOMAIN deps : /\ deps[i] \notin done
                           /\ \A j \in 1 .. i - 1 : deps[j] # deps[i]}

\* The target is already being visited by a caller: the graph has a cycle.
Visiting(id) == TargetOf(id) \in ToSet(Front(id.path))

Enter(id) ==
  LET t == TargetOf(id)
      f == frames[id]
  IN  /\ f.at = "enter"
      /\ \/ /\ Visiting(id)
            /\ End(id, "failed")
         \/ /\ ~Visiting(id)
            /\ t \in f.done \/ recipe[t].condition = "off"
            /\ End(id, "ok")
         \/ /\ ~Visiting(id)
            /\ t \notin f.done /\ recipe[t].condition # "off"
            /\ frames' = [frames EXCEPT ![id].at = "deps",
                                        ![id].todo = Uniques(t, f.done)]
            /\ UNCHANGED <<lock, result>>
      /\ UNCHANGED <<world, out, jobs, cmds, faults>>

MayStart(id) == /\ frames[id].at = "deps"
                /\ frames[id].todo # {}
                /\ Cardinality(ChildrenOf(id)) < jobs[id.inv]

\* fork() with -jN, the recursive call with -j1.
Visit(id) ==
  LET f == frames[id]
      next == Min(f.todo)
      child == ChildOf(id, recipe[TargetOf(id)].deps[next])
  IN  /\ MayStart(id)
      /\ frames' = With([frames EXCEPT ![id].todo = @ \ {next}],
                        child, NewFrame(f.done))
      /\ UNCHANGED <<world, out, jobs, cmds, lock, result, faults>>

\* fork() fails: the call returns at once, and the dependencies it has
\* started go on without it.
ForkFails(id) ==
  /\ Forking(id)
  /\ MayStart(id)
  /\ faults < MaxFaults
  /\ faults' = faults + 1
  /\ End(id, "failed")
  /\ UNCHANGED <<world, out, jobs, cmds>>

\* One that fails is not forgotten when others succeed.
\* Mutant: the last one decides.
FailedLast(f, ok) == ~ok
Failed(f, ok) == f.failed \/ ~ok

\* waitpid: a full set of children, or the last ones, are waited for.  Only
\* the child's own target becomes done here: what it did below is not known.
Collect(id, c) ==
  LET f == frames[id]
      ok == frames[c].at = "ok"
  IN  /\ f.at = "deps"
      /\ Ended(c)
      /\ Forking(id)
      /\ c \in ChildrenOf(id)
      /\ Cardinality(ChildrenOf(id)) = jobs[id.inv] \/ f.todo = {}
      /\ frames' = [Restrict(frames, DOMAIN frames \ {c}) EXCEPT
                      ![id].done = IF ok THEN @ \cup {TargetOf(c)} ELSE @,
                      ![id].failed = Failed(f, ok)]
      /\ UNCHANGED <<world, out, jobs, cmds, lock, result, faults>>

\* The return of the recursive call, which has set the flags of all it did.
Return(id, c) ==
  /\ frames[id].at = "deps"
  /\ Ended(c)
  /\ ~Forking(id)
  /\ c \in ChildrenOf(id)
  /\ \/ /\ frames[c].at = "ok"
        /\ frames' = [Restrict(frames, DOMAIN frames \ {c}) EXCEPT
                        ![id].done = frames[c].done \cup {TargetOf(c)}]
        /\ UNCHANGED <<lock, result>>
     \/ /\ frames[c].at = "failed"
        /\ End(id, "failed")
  /\ UNCHANGED <<world, out, jobs, cmds, faults>>

\* Every dependency is started, and waited for.
\* Mutant: those still running are not.
AllStarted(id) == frames[id].todo = {}
AllDone(id) == frames[id].todo = {} /\ ChildrenOf(id) = {}

\* The architecture filter comes after the dependencies; the lock is only
\* taken where the target's own parallelism is above one.
DepsDone(id) ==
  LET t == TargetOf(id)
  IN  /\ frames[id].at = "deps"
      /\ AllDone(id)
      /\ \/ /\ frames[id].failed
            /\ End(id, "failed")
         \/ /\ ~frames[id].failed
            /\ recipe[t].condition = "elsewhere"
            /\ End(id, "ok")
         \/ /\ ~frames[id].failed
            /\ recipe[t].condition # "elsewhere"
            /\ Goto(id, IF JobsFor(id) > 1 THEN "lock" ELSE "test")
            /\ UNCHANGED <<lock, result>>
      /\ UNCHANGED <<world, out, jobs, cmds, faults>>

-----------------------------------------------------------------------------
\* The target itself

\* Mutant: no look at the times under the lock
TakeLockAndBuild(id) ==
  /\ frames[id].at = "lock"
  /\ lock[TargetOf(id)] = NoOne
  /\ lock' = [lock EXCEPT ![TargetOf(id)] = id]
  /\ Goto(id, "start")
  /\ UNCHANGED <<world, out, jobs, cmds, result, faults>>

\* target_lock
TakeLock(id) ==
  /\ frames[id].at = "lock"
  /\ lock[TargetOf(id)] = NoOne
  /\ lock' = [lock EXCEPT ![TargetOf(id)] = id]
  /\ Goto(id, "test")
  /\ UNCHANGED <<world, out, jobs, cmds, result, faults>>

\* Mutant: only the sources are compared
OutOfDateSources(t) ==
  \/ ~IsFile(t)
  \/ ~out[t].made
  \/ touched[t] > out[t].time

\* target_out_of_date: times are compared strictly, and a target with no
\* output always is.
OutOfDate(t) ==
  \/ ~IsFile(t)
  \/ ~out[t].made
  \/ touched[t] > out[t].time
  \/ \E d \in DepsOf(t) : /\ IsFile(d)
                          /\ ~out[d].made \/ out[d].time > out[t].time

Test(id) ==
  /\ frames[id].at = "test"
  /\ Goto(id, IF OutOfDate(TargetOf(id)) THEN "start" ELSE "done")
  /\ UNCHANGED <<world, out, jobs, cmds, lock, result, faults>>

\* run(): sh -c reads the sources and the outputs of the dependencies ...
Start(id) ==
  LET t == TargetOf(id)
      read == UNION {out[d].content : d \in {x \in DepsOf(t) : IsFile(x)}}
  IN  /\ frames[id].at = "start"
      /\ cmds' = With(cmds, id, {<<t, version[t]>>} \cup read)
      /\ Goto(id, "wait")
      /\ UNCHANGED <<world, out, jobs, lock, result, faults>>

\* Where the call was killed, the command was the last to hold its lock.
Release(id) == [t \in Targets |-> IF id \notin Live /\ lock[t] = id
                                    THEN NoOne ELSE lock[t]]

\* A file written now is as new as the one before or newer: the times of a
\* file system have steps.
Write(t, content) ==
  \E now \in {clock, clock + 1} :
    /\ now = clock \/ \E x \in Targets : now <= touched[x] + MaxLag
    /\ clock' = now
    /\ out' = [out EXCEPT ![t] = [made |-> TRUE, time |-> now,
                                 content |-> content]]

\* ... and writes the output, whether or not the call still waits for it.
Finish(id) ==
  LET t == TargetOf(id)
  IN  /\ id \in DOMAIN cmds
      /\ IF IsFile(t) THEN Write(t, cmds[id]) ELSE UNCHANGED <<out, clock>>
      /\ cmds' = Restrict(cmds, DOMAIN cmds \ {id})
      /\ IF id \in Live THEN Goto(id, "done") ELSE UNCHANGED frames
      /\ lock' = Release(id)
      /\ UNCHANGED <<recipe, version, touched, jobs, result, faults>>

\* A command fails, and with it the call, if it is one that aborts.  It leaves
\* the output as it was, or, unless it cleans up, begun and not finished.
CommandFails(id) ==
  /\ id \in DOMAIN cmds
  /\ faults < MaxFaults
  /\ faults' = faults + 1
  /\ \E clean \in {TRUE, CleanFailures} :
       IF clean \/ ~IsFile(TargetOf(id)) THEN UNCHANGED <<out, clock>>
                                         ELSE Write(TargetOf(id), {})
  /\ cmds' = Restrict(cmds, DOMAIN cmds \ {id})
  /\ \/ /\ id \in Live /\ recipe[TargetOf(id)].abort
        /\ End(id, "failed")
     \/ /\ id \in Live /\ ~recipe[TargetOf(id)].abort
        /\ Goto(id, "done")
        /\ UNCHANGED <<lock, result>>
     \/ /\ id \notin Live
        /\ lock' = Release(id)
        /\ UNCHANGED <<frames, result>>
  /\ UNCHANGED <<recipe, version, touched, jobs>>

\* target_unlock and the end of run_target
Done(id) == /\ frames[id].at = "done"
            /\ End(id, "ok")
            /\ UNCHANGED <<world, out, jobs, cmds, faults>>

-----------------------------------------------------------------------------
\* The environment

\* The calls whose locks are freed when their process dies: a command that
\* still runs has inherited the descriptor.
\* Mutants: it has not; the lock outlives everybody.
FreedByAll(dead) == dead
FreedByNone(dead) == {}
Freed(dead) == dead \ DOMAIN cmds

\* A process is killed.  Its children and its command are not.  With -j1
\* all the calls of an invocation are one process.
Kill(id) ==
  LET root == [inv |-> id.inv, path |-> <<Root>>]
      dead == IF Forking(id) THEN {id}
              ELSE {f \in DOMAIN frames : f.inv = id.inv}
      told == Forking(id) /\ ~IsRoot(id) /\ ParentOf(id) \in Live
      gone == {c \in ChildrenOf(id) : Ended(c)} \cup (IF told THEN {} ELSE dead)
      kept == Restrict(frames, DOMAIN frames \ gone)
  IN  /\ id \in Live
      /\ faults < MaxFaults
      /\ faults' = faults + 1
      /\ frames' = IF told THEN [kept EXCEPT ![id].at = "failed"] ELSE kept
      /\ lock' = [t \in Targets |-> IF lock[t] \in Freed(dead)
                                      THEN NoOne ELSE lock[t]]
      /\ result' = IF root \in dead /\ id.inv = Len(jobs) THEN "failed"
                   ELSE result
      /\ UNCHANGED <<world, out, jobs, cmds>>

\* meow -jN build
Invoke(n) ==
  /\ result # "running"
  /\ Len(jobs) < MaxInvocations
  /\ jobs' = Append(jobs, n)
  /\ frames' = With(frames, [inv |-> Len(jobs'), path |-> <<Root>>], NewFrame({}))
  /\ result' = "running"
  /\ UNCHANGED <<world, out, cmds, lock, faults>>

\* Someone changes a source, which gets a time later than any before, or the
\* commands in the recipe, which no target counts among its inputs.  No
\* build is running.
Edit(t, kind) ==
  /\ jobs # <<>> /\ DOMAIN frames = {} /\ DOMAIN cmds = {}
  /\ version[t] < MaxEdits
  /\ clock' = clock + 1
  /\ version' = [version EXCEPT ![t] = @ + 1]
  /\ touched' = IF kind = "source" THEN [touched EXCEPT ![t] = clock']
                ELSE touched
  /\ result' = "none"
  /\ UNCHANGED <<recipe, out, jobs, frames, cmds, lock, faults>>

Call(id) == \/ Enter(id) \/ Visit(id) \/ DepsDone(id)
            \/ TakeLock(id) \/ Test(id) \/ Start(id) \/ Done(id)
            \/ \E c \in DOMAIN frames : Collect(id, c) \/ Return(id, c)

Next == \/ \E id \in DOMAIN frames : Call(id) \/ ForkFails(id) \/ Kill(id)
        \/ \E id \in DOMAIN cmds : Finish(id) \/ CommandFails(id)
        \/ \E n \in Jobs : Invoke(n)
        \/ \E t \in Edited, kind \in EditKinds : Edit(t, kind)

\* Processes are scheduled, and a command does not run forever.
Fairness == /\ WF_vars(\E id \in DOMAIN frames : Call(id))
            /\ WF_vars(\E id \in DOMAIN cmds : Finish(id))

Spec == Init /\ [][Next]_vars /\ Fairness

-----------------------------------------------------------------------------
\* Properties

\* The calls that there may have been so far: all begin at the root.
Calls == {id \in [inv : 1 .. Len(jobs), path : Seq(Targets)] :
            id.path # <<>> /\ id.path[1] = Root}

Stages == {"enter", "deps", "lock", "test", "start", "wait", "done", "ok",
           "failed"}

FrameType == [at : Stages,
              todo : SUBSET Nat, done : SUBSET Targets, failed : BOOLEAN]

Content == SUBSET (Targets \X Nat)

\* Calls and commands are of an invocation that was made, only calls hold
\* locks, and no time is later than the present.
TypeOK ==
  /\ recipe \in Recipes
  /\ clock \in Nat /\ faults \in Nat
  /\ version \in [Targets -> Nat]
  /\ touched \in [Targets -> 0 .. clock]
  /\ out \in [Targets -> [made : BOOLEAN, time : 0 .. clock, content : Content]]
  /\ jobs \in Seq(Jobs) /\ Len(jobs) <= MaxInvocations
  /\ DOMAIN frames \subseteq Calls
  /\ frames \in [DOMAIN frames -> FrameType]
  /\ DOMAIN cmds \subseteq Calls
  /\ cmds \in [DOMAIN cmds -> Content]
  /\ lock \in [Targets -> Calls \cup {NoOne}]
  /\ result \in {"none", "running", "ok", "failed"}

\* Of a parallel build, and not exempted by `parallel: 1' in its target
Locked(id) == jobs[id.inv] > 1 /\ recipe[TargetOf(id)].parallel # 1

\* The commands of a target never run twice at the same time, not even when
\* one was left behind by a call or an invocation that was killed: the flock
\* of target_lock serializes them.
OneBuilderAtATime ==
  \A c, d \in {x \in DOMAIN cmds : Locked(x)} :
    TargetOf(c) = TargetOf(d) => c = d

\* When meow exits with success nothing of that invocation is still running.
NothingLeftBehind ==
  \A id \in DOMAIN frames \cup DOMAIN cmds :
    id.inv = Len(jobs) => result # "ok"

Promise == INSTANCE Build WITH content <- [t \in Targets |-> out[t].content]

\* The files that the output of t is made from, its own among them
Below(t) == Promise!From(t, [x \in Targets |-> DepsOf(x) \cap Promise!Files])

\* Whatever has written t or a file below it did so under a lock: no build
\* so far was serial, and none of these targets has `parallel: 1'.
Serialized(t) == /\ \A n \in DOMAIN jobs : jobs[n] > 1
                 /\ \A x \in Below(t) : recipe[x].parallel # 1

\* While the commands of a target run in a parallel build nobody rewrites the
\* output of one of its dependencies: whichever process finished that output
\* first, the others find it up to date under the lock.  This needs the lock
\* all the way down: a file below that is written again without it is newer
\* than what was made from it, which is then made again.
InputsSettled ==
  \A c, d \in DOMAIN cmds :
    LET t == TargetOf(d)
    IN  ~(IsFile(t) /\ t \in DepsOf(TargetOf(c)) /\ Serialized(t))

\* meow reports success only when every output that was asked for is made
\* from the current sources and commands, however earlier builds ended.
SuccessMeansCurrent == Promise!SuccessMeansCurrent

\* No output is ever written from a dependency that is out of date, in a
\* build that fails as little as in one that succeeds.
ImplementsBuild == Promise!Spec

\* Every build ends: cycles are refused, the locks of those who died are
\* freed, and no two calls wait for each other's.
BuildEnds == []<>(result # "running")
==============================================================================
