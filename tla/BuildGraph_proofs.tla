-------------------------- MODULE BuildGraph_proofs --------------------------
(***************************************************************************)
(* Theorems about BuildGraph, for every set of recipes, any -j, and any    *)
(* number of invocations, edits, kills and failures.                       *)
(***************************************************************************)
EXTENDS BuildGraph, SequenceTheorems, WellFoundedInduction, TLAPS

-----------------------------------------------------------------------------
\* Paths

\* Call x is y, or one that y led to.
Under(x, y) == /\ x.inv = y.inv
               /\ Len(y.path) <= Len(x.path)
               /\ \A i \in 1 .. Len(y.path) : x.path[i] = y.path[i]

\* The call that meow itself makes in the last invocation
Top == [inv |-> Len(jobs), path |-> <<Root>>]

LEMMA CallType ==
  ASSUME NEW id \in Calls
  PROVE  /\ id.inv \in 1 .. Len(jobs)
         /\ id.path \in Seq(Targets) /\ id.path # <<>> /\ id.path[1] = Root
         /\ Len(id.path) \in Nat \ {0}
         /\ id = [inv |-> id.inv, path |-> id.path]
         /\ TargetOf(id) \in Targets
<1>1. /\ id.inv \in 1 .. Len(jobs)
      /\ id.path \in Seq(Targets) /\ id.path # <<>> /\ id.path[1] = Root
      /\ id = [inv |-> id.inv, path |-> id.path]
  BY DEF Calls
<1>2. Len(id.path) \in Nat \ {0}
  BY <1>1, EmptySeq
<1>3. id.path[Len(id.path)] \in Targets
  BY <1>1, <1>2, ElementOfSeq
<1> QED
  BY <1>1, <1>2, <1>3 DEF TargetOf, Last

LEMMA ChildFacts ==
  ASSUME NEW id \in Calls, NEW t \in Targets
  PROVE  /\ ChildOf(id, t) \in Calls
         /\ ~IsRoot(ChildOf(id, t))
         /\ ParentOf(ChildOf(id, t)) = id
         /\ TargetOf(ChildOf(id, t)) = t
         /\ ChildOf(id, t).inv = id.inv
         /\ Len(ChildOf(id, t).path) = Len(id.path) + 1
<1> DEFINE c == ChildOf(id, t)
           p == Append(id.path, t)
<1>1. /\ id.inv \in 1 .. Len(jobs)
      /\ id.path \in Seq(Targets) /\ id.path # <<>> /\ id.path[1] = Root
      /\ Len(id.path) \in Nat \ {0}
      /\ id = [inv |-> id.inv, path |-> id.path]
  BY CallType
<1>2. c = [inv |-> id.inv, path |-> p]
  BY <1>1 DEF ChildOf
<1>3. /\ p \in Seq(Targets) /\ p # <<>> /\ Len(p) = Len(id.path) + 1
      /\ \A i \in 1 .. Len(id.path) : p[i] = id.path[i]
      /\ p[Len(id.path) + 1] = t
  BY <1>1, AppendProperties
<1>4. SubSeq(p, 1, Len(id.path)) = id.path
  <2>1. \A i \in 1 .. Len(id.path) : p[i] \in Targets
    BY <1>1, <1>3, ElementOfSeq
  <2>2. /\ SubSeq(p, 1, Len(id.path)) \in Seq(Targets)
        /\ Len(SubSeq(p, 1, Len(id.path))) = Len(id.path)
        /\ \A i \in 1 .. Len(id.path) : SubSeq(p, 1, Len(id.path))[i] = p[i]
    BY <1>1, <2>1, SubSeqProperties
  <2> QED
    BY <1>1, <1>3, <2>2, SeqEqual
<1> HIDE DEF p
<1>5. c \in Calls
  BY <1>1, <1>2, <1>3 DEF Calls
<1>6. ~IsRoot(c)
  BY <1>1, <1>2, <1>3 DEF IsRoot
<1>7. ParentOf(c) = id
  <2>1. ParentOf(c) = [inv |-> id.inv, path |-> Front(p)]
    BY <1>2 DEF ParentOf
  <2>2. Front(p) = id.path
    BY <1>1, <1>3, <1>4 DEF Front
  <2> QED
    BY <1>1, <2>1, <2>2
<1>8. TargetOf(c) = t
  BY <1>2, <1>3 DEF TargetOf, Last
<1> QED
  BY <1>2, <1>3, <1>5, <1>6, <1>7, <1>8

LEMMA ParentFacts ==
  ASSUME NEW id \in Calls, ~IsRoot(id)
  PROVE  /\ ParentOf(id) \in Calls
         /\ id = ChildOf(ParentOf(id), TargetOf(id))
         /\ ParentOf(id).inv = id.inv
<1> DEFINE n == Len(id.path) - 1
           q == SubSeq(id.path, 1, n)
           p == ParentOf(id)
<1>1. /\ id.inv \in 1 .. Len(jobs)
      /\ id.path \in Seq(Targets) /\ id.path # <<>> /\ id.path[1] = Root
      /\ Len(id.path) \in Nat \ {0}
      /\ id = [inv |-> id.inv, path |-> id.path]
      /\ TargetOf(id) \in Targets
  BY CallType
<1>2. n \in Nat \ {0}
  BY <1>1 DEF IsRoot
<1>3. p = [inv |-> id.inv, path |-> q]
  BY <1>1 DEF ParentOf, Front
<1>4. \A i \in 1 .. n : id.path[i] \in Targets
  BY <1>1, <1>2, ElementOfSeq
<1>5. /\ q \in Seq(Targets) /\ Len(q) = n
      /\ \A i \in 1 .. n : q[i] = id.path[i]
  BY <1>2, <1>4, SubSeqProperties
<1> HIDE DEF q
<1>6. q # <<>>
  BY <1>2, <1>5, EmptySeq
<1>7. p \in Calls
  BY <1>1, <1>2, <1>3, <1>5, <1>6 DEF Calls
<1>8. Append(q, TargetOf(id)) = id.path
  <2>1. /\ Append(q, TargetOf(id)) \in Seq(Targets)
        /\ Len(Append(q, TargetOf(id))) = n + 1
        /\ \A i \in 1 .. n : Append(q, TargetOf(id))[i] = q[i]
        /\ Append(q, TargetOf(id))[n + 1] = TargetOf(id)
    BY <1>1, <1>5, AppendProperties
  <2>2. TargetOf(id) = id.path[n + 1]
    BY <1>1 DEF TargetOf, Last
  <2>3. \A i \in 1 .. n + 1 : Append(q, TargetOf(id))[i] = id.path[i]
    BY <1>2, <1>5, <2>1, <2>2
  <2> QED
    BY <1>1, <1>2, <2>1, <2>3, SeqEqual
<1>9. ChildOf(p, TargetOf(id)) = [inv |-> id.inv, path |-> id.path]
  BY <1>3, <1>8 DEF ChildOf
<1> QED
  BY <1>1, <1>3, <1>7, <1>9

LEMMA RootFacts ==
  ASSUME NEW id \in Calls, IsRoot(id)
  PROVE  /\ id = [inv |-> id.inv, path |-> <<Root>>]
         /\ TargetOf(id) = Root
<1>1. /\ id.path \in Seq(Targets) /\ id.path[1] = Root /\ Len(id.path) = 1
      /\ id = [inv |-> id.inv, path |-> id.path]
  BY CallType DEF IsRoot
<1>2. <<Root>> \in Seq(Targets) /\ Len(<<Root>>) = 1 /\ <<Root>>[1] = Root
  BY RecipeAssumption
<1>3. id.path = <<Root>>
  BY <1>1, <1>2, SeqEqual
<1> QED
  BY <1>1, <1>3 DEF TargetOf, Last

LEMMA TopFacts ==
  ASSUME Len(jobs) \in Nat \ {0}
  PROVE  Top \in Calls /\ IsRoot(Top) /\ TargetOf(Top) = Root
<1>1. <<Root>> \in Seq(Targets) /\ Len(<<Root>>) = 1 /\ <<Root>>[1] = Root
  BY RecipeAssumption
<1> QED
  BY <1>1, EmptySeq DEF Top, Calls, IsRoot, TargetOf, Last

\* The order of the calls: reflexive, transitive, antisymmetric; what is under a
\* child is under its parent, and under one child only.
LEMMA UnderOrder ==
  ASSUME NEW x \in Calls, NEW y \in Calls, NEW z \in Calls
  PROVE  /\ Under(x, x)
         /\ Under(x, y) /\ Under(y, z) => Under(x, z)
         /\ Under(x, y) /\ Under(y, x) => x = y
<1>1. /\ x.path \in Seq(Targets) /\ y.path \in Seq(Targets)
      /\ Len(x.path) \in Nat /\ Len(y.path) \in Nat /\ Len(z.path) \in Nat
      /\ x = [inv |-> x.inv, path |-> x.path]
      /\ y = [inv |-> y.inv, path |-> y.path]
  BY CallType
<1>2. Under(x, x) /\ (Under(x, y) /\ Under(y, z) => Under(x, z))
  BY <1>1 DEF Under
<1>3. ASSUME Under(x, y), Under(y, x) PROVE x = y
  <2>1. x.inv = y.inv /\ Len(x.path) = Len(y.path)
        /\ \A i \in 1 .. Len(x.path) : x.path[i] = y.path[i]
    BY <1>1, <1>3 DEF Under
  <2>2. x.path = y.path
    BY <1>1, <2>1, SeqEqual
  <2> QED
    BY <1>1, <2>1, <2>2
<1> QED
  BY <1>2, <1>3

LEMMA UnderChild ==
  ASSUME NEW id \in Calls, NEW t \in Targets, NEW g \in Calls
  PROVE  /\ Under(ChildOf(id, t), g) <=> Under(id, g) \/ g = ChildOf(id, t)
         /\ Under(g, ChildOf(id, t)) => Under(g, id) /\ g # id
<1> DEFINE c == ChildOf(id, t)
<1>1. /\ Len(id.path) \in Nat /\ Len(g.path) \in Nat /\ id.path \in Seq(Targets)
      /\ g.path \in Seq(Targets)
      /\ g = [inv |-> g.inv, path |-> g.path]
  BY CallType
<1>2. c = [inv |-> id.inv, path |-> Append(id.path, t)]
  <2>1. id = [inv |-> id.inv, path |-> id.path]
    BY CallType
  <2> QED
    BY <2>1 DEF ChildOf
<1>3. /\ c.path \in Seq(Targets) /\ c.inv = id.inv /\ Len(c.path) = Len(id.path) + 1
      /\ \A i \in 1 .. Len(id.path) : c.path[i] = id.path[i]
  BY <1>1, <1>2, AppendProperties
<1>4. c \in Calls
  BY ChildFacts
<1> HIDE DEF c
<1>5. Under(c, id)
  BY <1>1, <1>3 DEF Under
<1>6. Under(id, g) \/ g = c => Under(c, g)
  BY <1>4, <1>5, UnderOrder
<1>7. ASSUME Under(c, g) PROVE Under(id, g) \/ g = c
  <2>1. CASE Len(g.path) <= Len(id.path)
    BY <1>1, <1>3, <1>7, <2>1 DEF Under
  <2>2. CASE Len(g.path) > Len(id.path)
    <3>1. Len(g.path) = Len(c.path)
      BY <1>1, <1>3, <1>7, <2>2 DEF Under
    <3>2. Under(g, c)
      BY <1>7, <3>1 DEF Under
    <3> QED
      BY <1>4, <1>7, <3>2, UnderOrder
  <2> QED
    BY <1>1, <2>1, <2>2
<1>8. ASSUME Under(g, c) PROVE Under(g, id) /\ g # id
  <2>1. Under(g, id)
    BY <1>4, <1>5, <1>8, UnderOrder
  <2>2. Len(c.path) <= Len(g.path)
    BY <1>8 DEF Under
  <2> QED
    BY <1>1, <1>3, <2>1, <2>2
<1> QED
  BY <1>6, <1>7, <1>8 DEF c

LEMMA TwoChildren ==
  ASSUME NEW id \in Calls, NEW t \in Targets, NEW u \in Targets, NEW x \in Calls,
         Under(x, ChildOf(id, t)), Under(x, ChildOf(id, u))
  PROVE  t = u
<1> DEFINE n == Len(id.path) + 1
<1>1. /\ TargetOf(ChildOf(id, t)) = t /\ Len(ChildOf(id, t).path) = n
      /\ TargetOf(ChildOf(id, u)) = u /\ Len(ChildOf(id, u).path) = n
  BY ChildFacts
<1>2. n \in Nat \ {0}
  BY CallType
<1>3. ChildOf(id, t).path[n] = t /\ ChildOf(id, u).path[n] = u
  BY <1>1 DEF TargetOf, Last
<1>4. x.path[n] = ChildOf(id, t).path[n] /\ x.path[n] = ChildOf(id, u).path[n]
  BY <1>1, <1>2 DEF Under
<1> QED
  BY <1>3, <1>4

LEMMA UnderTop ==
  ASSUME NEW id \in Calls
  PROVE  /\ id.inv = Len(jobs) => Under(id, Top)
         /\ IsRoot(id) /\ id.inv = Len(jobs) => id = Top
<1>1. Len(id.path) \in Nat \ {0} /\ id.path[1] = Root
  BY CallType
<1>2. IsRoot(id) => id = [inv |-> id.inv, path |-> <<Root>>]
  BY RootFacts
<1> QED
  BY <1>1, <1>2 DEF Under, Top

-----------------------------------------------------------------------------
\* What the updates of `frames' do

LEMMA PutAt ==
  ASSUME NEW S, NEW F \in [S -> FrameType], NEW id \in S, NEW l \in Stages,
         NEW g, g = [F EXCEPT ![id].at = l]
  PROVE  /\ g \in [S -> FrameType] /\ DOMAIN g = S
         /\ \A x \in S : x # id => g[x] = F[x]
         /\ g[id].at = l /\ g[id].todo = F[id].todo
         /\ g[id].done = F[id].done /\ g[id].failed = F[id].failed
<1>1. F[id] \in FrameType
  OBVIOUS
<1>2. g[id] = [F[id] EXCEPT !.at = l]
  OBVIOUS
<1>3. /\ g[id] \in FrameType
      /\ g[id].at = l /\ g[id].todo = F[id].todo
      /\ g[id].done = F[id].done /\ g[id].failed = F[id].failed
  BY <1>1, <1>2 DEF FrameType
<1>4. DOMAIN g = S /\ \A x \in S : x # id => g[x] = F[x]
  OBVIOUS
<1>5. g \in [S -> FrameType]
  BY <1>3, <1>4
<1> QED
  BY <1>3, <1>4, <1>5

-----------------------------------------------------------------------------
\* The steps, as they change `frames'

ChildAt(id, i) == ChildOf(id, recipe[TargetOf(id)].deps[i])

Told(id) == ~IsRoot(id) /\ ParentOf(id) \in Live

\* Call id goes on to another place.
Staged(id, l) ==
  /\ id \in Live /\ l \in Stages \ {"ok", "failed"}
  /\ frames' \in [DOMAIN frames -> FrameType]
  /\ \A x \in DOMAIN frames : x # id => frames'[x] = frames[x]
  /\ frames'[id].at = l
  /\ frames'[id].done = frames[id].done
  /\ frames'[id].failed = frames[id].failed

\* Call id ends, or is killed as a process of its own.
Leaves(id, res) ==
  /\ id \in Live /\ res \in {"ok", "failed"}
  /\ DOMAIN frames' = DOMAIN frames \ ({c \in ChildrenOf(id) : Ended(c)}
                                        \cup (IF Told(id) THEN {} ELSE {id}))
  /\ frames' \in [DOMAIN frames' -> FrameType]
  /\ \A x \in DOMAIN frames' : x # id => frames'[x] = frames[x]
  /\ Told(id) => /\ frames'[id].at = res
                 /\ frames'[id].done = frames[id].done
                 /\ frames'[id].failed = frames[id].failed

\* Call id visits the dependency at position i.
Visited(id, i) ==
  /\ id \in Live
  /\ frames[id].at = "deps" /\ i \in frames[id].todo
  /\ ChildAt(id, i) \in Calls
  /\ frames' \in [DOMAIN frames \cup {ChildAt(id, i)} -> FrameType]
  /\ frames'[ChildAt(id, i)] = NewFrame(frames[id].done)
  /\ \A x \in DOMAIN frames \ {ChildAt(id, i)} : x # id => frames'[x] = frames[x]
  /\ id # ChildAt(id, i)
  /\ frames'[id].at = "deps"
  /\ frames'[id].todo = frames[id].todo \ {i}
  /\ frames'[id].done = frames[id].done
  /\ frames'[id].failed = frames[id].failed

\* Call id takes note of the end of call c, as a process or as a function.
Collected(id, c) ==
  /\ id \in Live /\ frames[id].at = "deps"
  /\ c \in ChildrenOf(id) /\ Ended(c) /\ c # id
  /\ frames' \in [DOMAIN frames \ {c} -> FrameType]
  /\ \A x \in DOMAIN frames \ {c} : x # id => frames'[x] = frames[x]
  /\ frames'[id].at = "deps"
  /\ frames'[id].todo = frames[id].todo
  /\ frames[id].failed \/ frames[c].at = "failed" => frames'[id].failed
  /\ frames'[id].done \subseteq
       frames[id].done \cup
         (IF frames[c].at = "ok" THEN frames[c].done \cup {TargetOf(c)} ELSE {})
  /\ jobs[id.inv] > 1 => frames'[id].done \subseteq
       frames[id].done \cup
         (IF frames[c].at = "ok" THEN {TargetOf(c)} ELSE {})

LEMMA GotoStages ==
  ASSUME TypeOK, NEW id \in Live, NEW l \in Stages \ {"ok", "failed"}, Goto(id, l)
  PROVE  Staged(id, l) /\ frames'[id].todo = frames[id].todo
<1>1. frames \in [DOMAIN frames -> FrameType] /\ id \in DOMAIN frames
  BY DEF TypeOK, Live
<1> QED
  BY <1>1, PutAt DEF Staged, Goto

LEMMA LeavesBy ==
  ASSUME TypeOK, NEW id \in Live, NEW res \in {"ok", "failed"},
         LET gone == {c \in ChildrenOf(id) : Ended(c)}
                       \cup (IF Told(id) THEN {} ELSE {id})
             kept == Restrict(frames, DOMAIN frames \ gone)
         IN  frames' = IF Told(id) THEN [kept EXCEPT ![id].at = res] ELSE kept
  PROVE  Leaves(id, res)
<1> DEFINE gone == {c \in ChildrenOf(id) : Ended(c)}
                     \cup (IF Told(id) THEN {} ELSE {id})
           S == DOMAIN frames \ gone
           kept == Restrict(frames, S)
<1>1. frames \in [DOMAIN frames -> FrameType] /\ id \in DOMAIN frames /\ ~Ended(id)
  BY DEF TypeOK, Live
<1>2. kept \in [S -> FrameType] /\ \A x \in S : kept[x] = frames[x]
  BY <1>1 DEF Restrict
<1>3. CASE Told(id)
  <2>1. id \in S
    BY <1>1, <1>3
  <2>2. frames' = [kept EXCEPT ![id].at = res]
    BY <1>3
  <2>3. res \in Stages
    BY DEF Stages
  <2> HIDE DEF kept, S
  <2>4. /\ frames' \in [S -> FrameType] /\ DOMAIN frames' = S
        /\ \A x \in S : x # id => frames'[x] = kept[x]
        /\ frames'[id].at = res /\ frames'[id].todo = kept[id].todo
        /\ frames'[id].done = kept[id].done /\ frames'[id].failed = kept[id].failed
    <3>1. kept[id] \in FrameType
      BY <1>2, <2>1
    <3>2. frames'[id] = [kept[id] EXCEPT !.at = res]
      BY <1>2, <2>1, <2>2
    <3>3. /\ frames'[id] \in FrameType
          /\ frames'[id].at = res /\ frames'[id].todo = kept[id].todo
          /\ frames'[id].done = kept[id].done /\ frames'[id].failed = kept[id].failed
      BY <2>3, <3>1, <3>2 DEF FrameType
    <3>4. DOMAIN frames' = S /\ \A x \in S : x # id => frames'[x] = kept[x]
      BY <1>2, <2>1, <2>2
    <3>5. frames' = [x \in DOMAIN frames' |-> frames'[x]]
      BY <2>2
    <3> QED
      BY <1>2, <3>3, <3>4, <3>5
  <2> QED
    BY <1>2, <1>3, <2>1, <2>4 DEF Leaves, S
<1>4. CASE ~Told(id)
  <2>1. frames' = kept
    BY <1>4
  <2> QED
    BY <1>2, <1>4, <2>1 DEF Leaves
<1> QED
  BY <1>3, <1>4

LEMMA EndLeaves ==
  ASSUME TypeOK, NEW id \in Live, NEW res \in {"ok", "failed"}, End(id, res)
  PROVE  /\ Leaves(id, res)
         /\ result' = IF IsRoot(id) /\ id.inv = Len(jobs) THEN res ELSE result
         /\ lock' = [t \in Targets |-> IF lock[t] = id THEN NoOne ELSE lock[t]]
<1>1. Leaves(id, res)
  BY LeavesBy DEF End, Told
<1> QED
  BY <1>1 DEF End

\* A set of numbers that is not empty has a least one.
LEMMA Least ==
  ASSUME NEW T, T \subseteq Nat, T # {}
  PROVE  \E x \in T : \A y \in T : x <= y
<1>1. \E r : IsWellFoundedOn(r, Nat) /\ \A x, y \in Nat : x < y => <<x, y>> \in r
  <2>1. \A x, y \in Nat : x < y => <<x, y>> \in OpToRel(<, Nat)
    BY DEF OpToRel
  <2> QED
    BY <2>1, NatLessThanWellFounded
<1>2. PICK r : IsWellFoundedOn(r, Nat) /\ \A x, y \in Nat : x < y => <<x, y>> \in r
  BY <1>1
<1>3. \E x \in T : \A y \in T : ~(<<y, x>> \in r)
  <2>1. IsWellFoundedOn(r, Nat)
    BY <1>2
  <2> QED
    BY <2>1, WFMin, ZenonT(60)
<1>4. PICK x \in T : \A y \in T : ~(<<y, x>> \in r)
  BY <1>3
<1>5. \A y \in T : ~(y < x)
  BY <1>2, <1>4
<1> QED
  BY <1>5

LEMMA LeastPosition ==
  ASSUME NEW T \in SUBSET Nat, T # {}
  PROVE  Min(T) \in T
<1>1. \E x \in T : \A y \in T : x <= y
  BY Least
<1> QED
  BY <1>1 DEF Min

\* Where the recipe says so there are targets.
LEMMA Positions ==
  ASSUME TypeOK, NEW t \in Targets
  PROVE  /\ recipe[t].deps \in Seq(Targets)
         /\ \A i \in DOMAIN recipe[t].deps : i \in Nat /\ recipe[t].deps[i] \in Targets
         /\ DepsOf(t) \subseteq Targets
         /\ recipe[t].condition \in {"build", "off", "elsewhere"}
         /\ IsFile(t) \in BOOLEAN
         /\ recipe[t].parallel \in Nat
<1>1. recipe \in RecipeType
  BY RecipeAssumption DEF TypeOK
<1>2. recipe[t] \in [deps : Seq(Targets), file : BOOLEAN,
                     condition : {"build", "off", "elsewhere"},
                     parallel : Nat, abort : BOOLEAN]
  BY <1>1 DEF RecipeType
<1>3. recipe[t].deps \in Seq(Targets)
  BY <1>2
<1>4. \A i \in DOMAIN recipe[t].deps : i \in Nat /\ recipe[t].deps[i] \in Targets
  BY <1>3, LenProperties, ElementOfSeq
<1> QED
  BY <1>2, <1>3, <1>4 DEF DepsOf, ToSet, IsFile

Later == {"lock", "test", "start", "wait", "done"}

\* A call that ends gives up its lock and, if it is meow's own, the result.
Exits(id, res) ==
  /\ Leaves(id, res)
  /\ result' = IF IsRoot(id) /\ id.inv = Len(jobs) THEN res ELSE result
  /\ lock' = [t \in Targets |-> IF lock[t] = id THEN NoOne ELSE lock[t]]

\* The calls that exist, whose command runs, or whose descriptor of a lock is
\* open
Holders == {x \in Calls : \E t \in Targets : lock[t] = x}
InUse == DOMAIN frames \cup DOMAIN cmds \cup Holders

\* What a call has still to start is in its recipe, and nothing below it was
\* ever started.
StillToStart(id, todo) ==
  /\ todo \subseteq Uniques(TargetOf(id), {})
  /\ \A i \in todo, x \in InUse : ~Under(x, ChildAt(id, i))

TodoOK ==
  \A id \in DOMAIN frames :
    frames[id].at = "deps" => StillToStart(id, frames[id].todo)

LEMMA EnterStep ==
  ASSUME TypeOK, NEW id \in DOMAIN frames, Enter(id)
  PROVE  /\ frames[id].at = "enter"
         /\ UNCHANGED <<world, out, jobs, cmds, faults>>
         /\ \/ Exits(id, "failed")
            \/ /\ Exits(id, "ok")
               /\ \/ TargetOf(id) \in frames[id].done
                  \/ recipe[TargetOf(id)].condition = "off"
            \/ /\ Staged(id, "deps")
               /\ frames'[id].todo = Uniques(TargetOf(id), frames[id].done)
               /\ recipe[TargetOf(id)].condition # "off"
               /\ UNCHANGED <<lock, result>>
<1>1. frames[id].at = "enter" /\ UNCHANGED <<world, out, jobs, cmds, faults>>
  BY DEF Enter
<1>2. id \in Live
  BY <1>1 DEF Live, Ended
<1>3. CASE End(id, "failed")
  BY <1>1, <1>2, <1>3, EndLeaves DEF Exits
<1>4. CASE /\ TargetOf(id) \in frames[id].done \/ recipe[TargetOf(id)].condition = "off"
           /\ End(id, "ok")
  BY <1>1, <1>2, <1>4, EndLeaves DEF Exits
<1>5. CASE /\ recipe[TargetOf(id)].condition # "off"
           /\ frames' = [frames EXCEPT ![id].at = "deps",
                           ![id].todo = Uniques(TargetOf(id), frames[id].done)]
           /\ UNCHANGED <<lock, result>>
  <2>1. Uniques(TargetOf(id), frames[id].done) \in SUBSET Nat
    <3>1. TargetOf(id) \in Targets
      BY CallType DEF TypeOK
    <3> QED
      BY <3>1, Positions DEF Uniques
  <2>2. frames \in [DOMAIN frames -> FrameType]
    BY DEF TypeOK
  <2>3. /\ frames' \in [DOMAIN frames -> FrameType]
        /\ \A x \in DOMAIN frames : x # id => frames'[x] = frames[x]
        /\ frames'[id].at = "deps"
        /\ frames'[id].todo = Uniques(TargetOf(id), frames[id].done)
        /\ frames'[id].done = frames[id].done
        /\ frames'[id].failed = frames[id].failed
    <3> DEFINE U == Uniques(TargetOf(id), frames[id].done)
    <3> HIDE DEF U
    <3>1. frames'[id] = [frames[id] EXCEPT !.at = "deps", !.todo = U]
      BY <1>5, <2>2 DEF U
    <3>2. /\ frames'[id] \in FrameType
          /\ frames'[id].at = "deps" /\ frames'[id].todo = U
          /\ frames'[id].done = frames[id].done
          /\ frames'[id].failed = frames[id].failed
      <4>1. frames[id] \in FrameType /\ U \in SUBSET Nat
        BY <2>1, <2>2 DEF U
      <4> QED
        BY <3>1, <4>1 DEF FrameType, Stages
    <3>3. /\ DOMAIN frames' = DOMAIN frames
          /\ \A x \in DOMAIN frames : x # id => frames'[x] = frames[x]
          /\ frames' = [x \in DOMAIN frames' |-> frames'[x]]
      BY <1>5
    <3> QED
      BY <2>2, <3>2, <3>3 DEF U
  <2> QED
    BY <1>1, <1>2, <1>5, <2>3 DEF Staged, Stages
<1> QED
  BY <1>3, <1>4, <1>5 DEF Enter

LEMMA VisitStep ==
  ASSUME TypeOK, TodoOK, NEW id \in DOMAIN frames, Visit(id)
  PROVE  /\ \E i \in frames[id].todo : Visited(id, i)
         /\ UNCHANGED <<world, out, jobs, cmds, lock, result, faults>>
<1> DEFINE i == Min(frames[id].todo)
           t == TargetOf(id)
           c == ChildAt(id, i)
<1>1. /\ frames[id].at = "deps" /\ frames[id].todo # {}
      /\ UNCHANGED <<world, out, jobs, cmds, lock, result, faults>>
  BY DEF Visit, MayStart
<1>2. frames \in [DOMAIN frames -> FrameType] /\ id \in Calls /\ t \in Targets
  BY CallType DEF TypeOK
<1>3. frames[id].todo \in SUBSET Nat
  BY <1>2 DEF FrameType
<1>4. i \in frames[id].todo
  BY <1>1, <1>3, LeastPosition
<1>5. recipe[t].deps[i] \in Targets
  BY <1>1, <1>2, <1>4, Positions DEF TodoOK, StillToStart, Uniques
<1>6. c \in Calls /\ c # id
  <2>1. Len(c.path) = Len(id.path) + 1 /\ c \in Calls
    BY <1>2, <1>5, ChildFacts DEF ChildAt
  <2> QED
    BY <1>2, <2>1, CallType
<1> DEFINE g == [frames EXCEPT ![id].todo = @ \ {i}]
<1>7. frames' = With(g, c, NewFrame(frames[id].done))
  BY DEF Visit, ChildAt
<1>8. /\ g \in [DOMAIN frames -> FrameType]
      /\ \A x \in DOMAIN frames : x # id => g[x] = frames[x]
      /\ g[id].at = frames[id].at /\ g[id].todo = frames[id].todo \ {i}
      /\ g[id].done = frames[id].done /\ g[id].failed = frames[id].failed
  <2> HIDE DEF i
  <2>1. frames[id] \in FrameType
    BY <1>2
  <2>2. g[id] = [frames[id] EXCEPT !.todo = frames[id].todo \ {i}]
    BY <1>2
  <2>3. /\ g[id] \in FrameType
        /\ g[id].at = frames[id].at /\ g[id].todo = frames[id].todo \ {i}
        /\ g[id].done = frames[id].done /\ g[id].failed = frames[id].failed
    BY <2>1, <2>2 DEF FrameType
  <2>4. DOMAIN g = DOMAIN frames /\ \A x \in DOMAIN frames : x # id => g[x] = frames[x]
    OBVIOUS
  <2> QED
    BY <1>2, <2>3, <2>4
<1>9. NewFrame(frames[id].done) \in FrameType
  BY <1>2 DEF NewFrame, FrameType, Stages
<1> HIDE DEF g, c, i
<1>10. /\ DOMAIN frames' = DOMAIN frames \cup {c}
       /\ frames'[c] = NewFrame(frames[id].done)
       /\ \A x \in DOMAIN frames \ {c} : frames'[x] = g[x]
       /\ frames' = [x \in DOMAIN frames' |-> frames'[x]]
  BY <1>7, <1>8 DEF With
<1>11. frames' \in [DOMAIN frames \cup {c} -> FrameType]
  BY <1>8, <1>9, <1>10
<1>12. id \in Live
  BY <1>1 DEF Live, Ended
<1>13. Visited(id, i)
  BY <1>1, <1>4, <1>6, <1>8, <1>10, <1>11, <1>12 DEF Visited, c
<1> QED
  BY <1>1, <1>4, <1>13

LEMMA CollectStep ==
  ASSUME TypeOK, NEW id \in DOMAIN frames, NEW c \in DOMAIN frames, Collect(id, c)
  PROVE  /\ Collected(id, c)
         /\ UNCHANGED <<world, out, jobs, cmds, lock, result, faults>>
<1> DEFINE ok == frames[c].at = "ok"
           D == IF ok THEN frames[id].done \cup {TargetOf(c)} ELSE frames[id].done
           b == Failed(frames[id], ok)
           S == DOMAIN frames \ {c}
           F == Restrict(frames, S)
<1>1. /\ frames[id].at = "deps" /\ c \in ChildrenOf(id) /\ Ended(c)
      /\ UNCHANGED <<world, out, jobs, cmds, lock, result, faults>>
  BY DEF Collect
<1>2. id \in Live /\ c # id
  BY <1>1 DEF Live, Ended
<1>3. frames \in [DOMAIN frames -> FrameType] /\ TargetOf(c) \in Targets
  BY CallType DEF TypeOK
<1>4. F \in [S -> FrameType] /\ \A x \in S : F[x] = frames[x]
  BY <1>3 DEF Restrict
<1>5. id \in S /\ F[id] = frames[id]
  BY <1>2, <1>4
<1>6. D \in SUBSET Targets /\ b \in BOOLEAN
  BY <1>3 DEF FrameType, Failed
<1>7. frames' = [F EXCEPT ![id].done = D, ![id].failed = b]
  BY <1>5 DEF Collect
<1> HIDE DEF F, S, D, b
<1>8. /\ frames'[id] \in FrameType
      /\ frames'[id].at = F[id].at /\ frames'[id].todo = F[id].todo
      /\ frames'[id].done = D /\ frames'[id].failed = b
  <2>1. F[id] \in FrameType
    BY <1>4, <1>5
  <2>2. frames'[id] = [F[id] EXCEPT !.done = D, !.failed = b]
    BY <1>4, <1>5, <1>7
  <2> QED
    BY <1>6, <2>1, <2>2 DEF FrameType
<1>9. DOMAIN frames' = S /\ \A x \in S : x # id => frames'[x] = F[x]
  BY <1>4, <1>5, <1>7
<1>10. frames' = [x \in DOMAIN frames' |-> frames'[x]]
  BY <1>7
<1>11. frames' \in [S -> FrameType]
  BY <1>4, <1>8, <1>9, <1>10
<1>12. frames[id].failed \/ frames[c].at = "failed" => frames'[id].failed
  BY <1>8 DEF b, Failed
<1>13. D \subseteq frames[id].done \cup (IF ok THEN {TargetOf(c)} ELSE {})
  BY DEF D
<1> QED
  BY <1>1, <1>2, <1>4, <1>5, <1>8, <1>9, <1>11, <1>12, <1>13 DEF Collected, S

LEMMA ReturnStep ==
  ASSUME TypeOK, NEW id \in DOMAIN frames, NEW c \in DOMAIN frames, Return(id, c)
  PROVE  /\ UNCHANGED <<world, out, jobs, cmds, faults>>
         /\ frames[id].at = "deps" /\ jobs[id.inv] <= 1
         /\ \/ Collected(id, c) /\ UNCHANGED <<lock, result>>
            \/ Exits(id, "failed")
<1>1. /\ frames[id].at = "deps" /\ c \in ChildrenOf(id) /\ ~Forking(id)
      /\ UNCHANGED <<world, out, jobs, cmds, faults>>
  BY DEF Return
<1>2. id \in Live
  BY <1>1 DEF Live, Ended
<1>3. jobs[id.inv] \in Nat
  <2>1. jobs \in Seq(Jobs) /\ id.inv \in 1 .. Len(jobs)
    BY CallType DEF TypeOK
  <2> QED
    BY <2>1, ElementOfSeq, JobsAssumption
<1>4. jobs[id.inv] <= 1
  BY <1>1, <1>3 DEF Forking
<1>5. CASE frames[c].at = "failed" /\ End(id, "failed")
  BY <1>1, <1>2, <1>4, <1>5, EndLeaves DEF Exits
<1>6. CASE /\ frames[c].at = "ok"
           /\ frames' = [Restrict(frames, DOMAIN frames \ {c}) EXCEPT
                           ![id].done = frames[c].done \cup {TargetOf(c)}]
           /\ UNCHANGED <<lock, result>>
  <2> DEFINE D == frames[c].done \cup {TargetOf(c)}
             S == DOMAIN frames \ {c}
             F == Restrict(frames, S)
  <2>1. c # id /\ Ended(c)
    BY <1>1, <1>6 DEF Ended
  <2>2. frames \in [DOMAIN frames -> FrameType] /\ TargetOf(c) \in Targets
    BY CallType DEF TypeOK
  <2>3. F \in [S -> FrameType] /\ \A x \in S : F[x] = frames[x]
    BY <2>2 DEF Restrict
  <2>4. id \in S /\ F[id] = frames[id]
    BY <2>1, <2>3
  <2>5. D \in SUBSET Targets
    BY <2>2 DEF FrameType
  <2>6. frames' = [F EXCEPT ![id].done = D]
    BY <1>6
  <2> HIDE DEF F, S, D
  <2>7. /\ frames'[id] \in FrameType
        /\ frames'[id].at = F[id].at /\ frames'[id].todo = F[id].todo
        /\ frames'[id].done = D /\ frames'[id].failed = F[id].failed
    <3>1. F[id] \in FrameType
      BY <2>3, <2>4
    <3>2. frames'[id] = [F[id] EXCEPT !.done = D]
      BY <2>3, <2>4, <2>6
    <3> QED
      BY <2>5, <3>1, <3>2 DEF FrameType
  <2>8. DOMAIN frames' = S /\ \A x \in S : x # id => frames'[x] = F[x]
    BY <2>3, <2>4, <2>6
  <2>9. frames' = [x \in DOMAIN frames' |-> frames'[x]]
    BY <2>6
  <2>10. frames' \in [S -> FrameType]
    BY <2>3, <2>7, <2>8, <2>9
  <2>11. Collected(id, c)
    <3>1. frames'[id].done \subseteq frames[id].done \cup frames[c].done \cup {TargetOf(c)}
      BY <2>7 DEF D
    <3>2. frames[id].failed => frames'[id].failed
      BY <2>4, <2>7
    <3>3. frames[c].at # "failed" /\ frames[c].at = "ok" /\ ~(jobs[id.inv] > 1)
      BY <1>3, <1>4, <1>6
    <3>4. \A x \in DOMAIN frames \ {c} : x # id => frames'[x] = frames[x]
      BY <2>3, <2>8 DEF S
    <3>5. /\ frames'[id].at = "deps" /\ frames'[id].todo = frames[id].todo
          /\ frames' \in [DOMAIN frames \ {c} -> FrameType]
      BY <1>1, <2>4, <2>7, <2>10 DEF S
    <3> QED
      BY <1>1, <1>2, <2>1, <3>1, <3>2, <3>3, <3>4, <3>5 DEF Collected
  <2> QED
    BY <1>1, <1>4, <1>6, <2>11
<1> QED
  BY <1>5, <1>6 DEF Return

LEMMA ForkFailsStep ==
  ASSUME TypeOK, NEW id \in DOMAIN frames, ForkFails(id)
  PROVE  /\ frames[id].at = "deps"
         /\ UNCHANGED <<world, out, jobs, cmds>> /\ faults' = faults + 1
         /\ Exits(id, "failed")
<1>1. /\ frames[id].at = "deps" /\ End(id, "failed")
      /\ UNCHANGED <<world, out, jobs, cmds>> /\ faults' = faults + 1
  BY DEF ForkFails, MayStart
<1>2. id \in Live
  BY <1>1 DEF Live, Ended
<1> QED
  BY <1>1, <1>2, EndLeaves DEF Exits

LEMMA DepsDoneStep ==
  ASSUME TypeOK, NEW id \in DOMAIN frames, DepsDone(id)
  PROVE  /\ frames[id].at = "deps" /\ frames[id].todo = {} /\ ChildrenOf(id) = {}
         /\ UNCHANGED <<world, out, jobs, cmds, faults>>
         /\ \/ Exits(id, "failed")
            \/ /\ Exits(id, "ok") /\ ~frames[id].failed
               /\ recipe[TargetOf(id)].condition = "elsewhere"
            \/ /\ \/ Staged(id, "lock")
                  \/ Staged(id, "test") /\ ~(JobsFor(id) > 1)
               /\ ~frames[id].failed
               /\ recipe[TargetOf(id)].condition # "elsewhere"
               /\ UNCHANGED <<lock, result>>
<1>1. /\ frames[id].at = "deps" /\ frames[id].todo = {} /\ ChildrenOf(id) = {}
      /\ UNCHANGED <<world, out, jobs, cmds, faults>>
  BY DEF DepsDone, AllDone
<1>2. id \in Live
  BY <1>1 DEF Live, Ended
<1>3. CASE End(id, "failed")
  BY <1>1, <1>2, <1>3, EndLeaves DEF Exits
<1>4. CASE /\ ~frames[id].failed /\ recipe[TargetOf(id)].condition = "elsewhere"
           /\ End(id, "ok")
  BY <1>1, <1>2, <1>4, EndLeaves DEF Exits
<1>5. CASE /\ ~frames[id].failed /\ recipe[TargetOf(id)].condition # "elsewhere"
           /\ Goto(id, IF JobsFor(id) > 1 THEN "lock" ELSE "test")
           /\ UNCHANGED <<lock, result>>
  <2>1. "lock" \in Stages \ {"ok", "failed"} /\ "test" \in Stages \ {"ok", "failed"}
    BY DEF Stages
  <2>2. CASE JobsFor(id) > 1
    <3>1. Goto(id, "lock")
      BY <1>5, <2>2
    <3> QED
      BY <1>1, <1>2, <1>5, <2>1, <3>1, GotoStages
  <2>3. CASE ~(JobsFor(id) > 1)
    <3>1. Goto(id, "test")
      BY <1>5, <2>3
    <3> QED
      BY <1>1, <1>2, <1>5, <2>1, <2>3, <3>1, GotoStages
  <2> QED
    BY <2>2, <2>3
<1> QED
  BY <1>3, <1>4, <1>5 DEF DepsDone

LEMMA TakeLockStep ==
  ASSUME TypeOK, NEW id \in DOMAIN frames, TakeLock(id)
  PROVE  /\ frames[id].at = "lock" /\ Staged(id, "test")
         /\ lock[TargetOf(id)] = NoOne
         /\ lock' = [lock EXCEPT ![TargetOf(id)] = id]
         /\ UNCHANGED <<world, out, jobs, cmds, result, faults>>
<1>1. frames[id].at = "lock" /\ Goto(id, "test") /\ "test" \in Stages \ {"ok", "failed"}
  BY DEF TakeLock, Stages
<1>2. id \in Live
  BY <1>1 DEF Live, Ended
<1> QED
  BY <1>1, <1>2, GotoStages DEF TakeLock

LEMMA TestStep ==
  ASSUME TypeOK, NEW id \in DOMAIN frames, Test(id)
  PROVE  /\ frames[id].at = "test"
         /\ \/ Staged(id, "start") /\ OutOfDate(TargetOf(id))
            \/ Staged(id, "done") /\ ~OutOfDate(TargetOf(id))
         /\ UNCHANGED <<world, out, jobs, cmds, lock, result, faults>>
<1>1. /\ frames[id].at = "test"
      /\ "start" \in Stages \ {"ok", "failed"} /\ "done" \in Stages \ {"ok", "failed"}
  BY DEF Test, Stages
<1>2. id \in Live
  BY <1>1 DEF Live, Ended
<1>3. CASE OutOfDate(TargetOf(id))
  <2>1. Goto(id, "start")
    BY <1>3 DEF Test
  <2> QED
    BY <1>1, <1>2, <1>3, <2>1, GotoStages DEF Test
<1>4. CASE ~OutOfDate(TargetOf(id))
  <2>1. Goto(id, "done")
    BY <1>4 DEF Test
  <2> QED
    BY <1>1, <1>2, <1>4, <2>1, GotoStages DEF Test
<1> QED
  BY <1>3, <1>4

\* What a command finds, once the dependencies are built
Read(t) == {<<t, version[t]>>} \cup
             UNION {out[d].content : d \in {x \in DepsOf(t) : IsFile(x)}}

LEMMA StartStep ==
  ASSUME TypeOK, NEW id \in DOMAIN frames, Start(id)
  PROVE  /\ frames[id].at = "start" /\ Staged(id, "wait")
         /\ DOMAIN cmds' = DOMAIN cmds \cup {id}
         /\ cmds' \in [DOMAIN cmds' -> Content]
         /\ cmds'[id] = Read(TargetOf(id))
         /\ \A x \in DOMAIN cmds : x # id => cmds'[x] = cmds[x]
         /\ UNCHANGED <<world, out, jobs, lock, result, faults>>
<1>1. /\ frames[id].at = "start" /\ Goto(id, "wait") /\ "wait" \in Stages \ {"ok", "failed"}
      /\ cmds' = With(cmds, id, Read(TargetOf(id)))
      /\ UNCHANGED <<world, out, jobs, lock, result, faults>>
  BY DEF Start, Stages, Read
<1>2. id \in Live
  BY <1>1 DEF Live, Ended
<1>3. Staged(id, "wait")
  BY <1>1, <1>2, GotoStages
<1>4. Read(TargetOf(id)) \in Content
  <2>1. TargetOf(id) \in Targets
    BY CallType DEF TypeOK
  <2>2. DepsOf(TargetOf(id)) \subseteq Targets
    BY <2>1, Positions
  <2>3. \A d \in Targets : out[d].content \in SUBSET (Targets \X Nat)
    BY DEF TypeOK, Content
  <2>4. version[TargetOf(id)] \in Nat
    BY <2>1 DEF TypeOK
  <2> QED
    BY <2>1, <2>2, <2>3, <2>4 DEF Read, Content
<1>5. cmds \in [DOMAIN cmds -> Content]
  BY DEF TypeOK
<1> QED
  BY <1>1, <1>3, <1>4, <1>5 DEF With

LEMMA DoneStep ==
  ASSUME TypeOK, NEW id \in DOMAIN frames, Done(id)
  PROVE  /\ frames[id].at = "done" /\ Exits(id, "ok")
         /\ UNCHANGED <<world, out, jobs, cmds, faults>>
<1>1. frames[id].at = "done" /\ End(id, "ok")
  BY DEF Done
<1>2. id \in Live
  BY <1>1 DEF Live, Ended
<1> QED
  BY <1>1, <1>2, EndLeaves DEF Exits, Done

\* A command goes.
Gone(id) == /\ id \in DOMAIN cmds
            /\ DOMAIN cmds' = DOMAIN cmds \ {id}
            /\ cmds' \in [DOMAIN cmds' -> Content]
            /\ \A x \in DOMAIN cmds' : cmds'[x] = cmds[x]

LEMMA CommandGoes ==
  ASSUME TypeOK, NEW id \in DOMAIN cmds, cmds' = Restrict(cmds, DOMAIN cmds \ {id})
  PROVE  Gone(id)
BY DEF TypeOK, Restrict, Gone

\* What it may have written.
Wrote(t, content) == [out EXCEPT ![t] = [made |-> TRUE, time |-> clock', content |-> content]]
Written(id) == IF IsFile(TargetOf(id)) THEN Wrote(TargetOf(id), cmds[id]) ELSE out

\* Time does not go back.
TimePasses == clock' \in {clock, clock + 1}

LEMMA WriteStep ==
  ASSUME NEW t, NEW content, Write(t, content)
  PROVE  TimePasses /\ out' = Wrote(t, content)
BY DEF Write, Wrote, TimePasses

LEMMA FinishStep ==
  ASSUME TypeOK, NEW id \in DOMAIN cmds, Finish(id)
  PROVE  /\ Gone(id)
         /\ out' = Written(id)
         /\ id \in Live => Staged(id, "done")
         /\ id \notin Live => UNCHANGED frames
         /\ lock' = Release(id)
         /\ TimePasses /\ (IsFile(TargetOf(id)) \/ UNCHANGED clock)
         /\ UNCHANGED <<recipe, version, touched, jobs, result, faults>>
<1>1. Gone(id)
  BY CommandGoes DEF Finish
<1>2. id \in Live => Staged(id, "done")
  <2>1. "done" \in Stages \ {"ok", "failed"}
    BY DEF Stages
  <2>2. id \in Live => Goto(id, "done")
    BY DEF Finish
  <2> QED
    BY <2>1, <2>2, GotoStages
<1>3. /\ out' = Written(id)
      /\ TimePasses /\ (IsFile(TargetOf(id)) \/ UNCHANGED clock)
  <2>1. CASE IsFile(TargetOf(id))
    <3>1. Write(TargetOf(id), cmds[id])
      BY <2>1 DEF Finish
    <3> QED
      BY <2>1, <3>1, WriteStep DEF Written
  <2>2. CASE ~IsFile(TargetOf(id))
    <3>1. UNCHANGED <<out, clock>>
      BY <2>2 DEF Finish
    <3> QED
      BY <2>2, <3>1 DEF Written, TimePasses
  <2> QED
    BY <2>1, <2>2
<1> QED
  BY <1>1, <1>2, <1>3 DEF Finish

LEMMA CommandFailsStep ==
  ASSUME TypeOK, NEW id \in DOMAIN cmds, CommandFails(id)
  PROVE  /\ Gone(id)
         /\ TimePasses
         /\ \/ UNCHANGED <<out, clock>>
            \/ /\ ~CleanFailures /\ IsFile(TargetOf(id))
               /\ out' = Wrote(TargetOf(id), {})
         /\ \/ id \in Live /\ Exits(id, "failed")
            \/ /\ id \in Live /\ ~recipe[TargetOf(id)].abort /\ Staged(id, "done")
               /\ UNCHANGED <<lock, result>>
            \/ /\ id \notin Live /\ lock' = Release(id)
               /\ UNCHANGED <<frames, result>>
         /\ faults' = faults + 1 /\ UNCHANGED <<recipe, version, touched, jobs>>
<1>1. Gone(id)
  BY CommandGoes DEF CommandFails
<1>0. /\ TimePasses
      /\ \/ UNCHANGED <<out, clock>>
         \/ /\ ~CleanFailures /\ IsFile(TargetOf(id))
            /\ out' = Wrote(TargetOf(id), {})
  <2>1. PICK clean \in {TRUE, CleanFailures} :
          IF clean \/ ~IsFile(TargetOf(id)) THEN UNCHANGED <<out, clock>>
                                            ELSE Write(TargetOf(id), {})
    BY DEF CommandFails
  <2>2. CASE clean \/ ~IsFile(TargetOf(id))
    BY <2>1, <2>2 DEF TimePasses
  <2>3. CASE ~(clean \/ ~IsFile(TargetOf(id)))
    <3>1. Write(TargetOf(id), {})
      BY <2>1, <2>3
    <3>2. ~CleanFailures
      BY <2>3
    <3> QED
      BY <2>3, <3>1, <3>2, WriteStep
  <2> QED
    BY <2>2, <2>3
<1>2. "done" \in Stages \ {"ok", "failed"}
  BY DEF Stages
<1>3. CASE id \in Live /\ End(id, "failed")
  BY <1>0, <1>1, <1>3, EndLeaves DEF Exits, CommandFails
<1>4. CASE /\ id \in Live /\ ~recipe[TargetOf(id)].abort /\ Goto(id, "done")
           /\ UNCHANGED <<lock, result>>
  BY <1>0, <1>1, <1>2, <1>4, GotoStages DEF CommandFails
<1>5. CASE id \notin Live /\ lock' = Release(id) /\ UNCHANGED <<frames, result>>
  BY <1>0, <1>1, <1>5 DEF CommandFails
<1> QED
  BY <1>3, <1>4, <1>5 DEF CommandFails

\* All the calls of one invocation go.
AllGo(n) == /\ DOMAIN frames' = {x \in DOMAIN frames : x.inv # n}
            /\ frames' \in [DOMAIN frames' -> FrameType]
            /\ \A x \in DOMAIN frames' : frames'[x] = frames[x]

LEMMA KillStep ==
  ASSUME TypeOK, NEW id \in DOMAIN frames, Kill(id)
  PROVE  /\ id \in Live
         /\ UNCHANGED <<world, out, jobs, cmds>> /\ faults' = faults + 1
         /\ \/ /\ jobs[id.inv] > 1 /\ Leaves(id, "failed")
               /\ lock' = [t \in Targets |-> IF lock[t] = id /\ id \notin DOMAIN cmds
                                               THEN NoOne ELSE lock[t]]
               /\ result' = IF IsRoot(id) /\ id.inv = Len(jobs) THEN "failed" ELSE result
            \/ /\ ~(jobs[id.inv] > 1) /\ AllGo(id.inv)
               /\ lock' = [t \in Targets |->
                            IF lock[t] \in DOMAIN frames /\ lock[t].inv = id.inv
                                 /\ lock[t] \notin DOMAIN cmds
                            THEN NoOne ELSE lock[t]]
               /\ result' = IF id.inv = Len(jobs) /\ Top \in DOMAIN frames
                            THEN "failed" ELSE result
<1> DEFINE root == [inv |-> id.inv, path |-> <<Root>>]
           dead == IF Forking(id) THEN {id} ELSE {f \in DOMAIN frames : f.inv = id.inv}
           told == Forking(id) /\ ~IsRoot(id) /\ ParentOf(id) \in Live
           gone == {c \in ChildrenOf(id) : Ended(c)} \cup (IF told THEN {} ELSE dead)
           kept == Restrict(frames, DOMAIN frames \ gone)
<1>1. /\ id \in Live /\ id \in Calls
      /\ UNCHANGED <<world, out, jobs, cmds>> /\ faults' = faults + 1
      /\ frames' = IF told THEN [kept EXCEPT ![id].at = "failed"] ELSE kept
      /\ lock' = [t \in Targets |-> IF lock[t] \in dead \ DOMAIN cmds
                                      THEN NoOne ELSE lock[t]]
      /\ result' = IF root \in dead /\ id.inv = Len(jobs) THEN "failed" ELSE result
  BY DEF Kill, Freed, TypeOK, Live
<1>2. CASE jobs[id.inv] > 1
  <2>1. Forking(id)
    BY <1>2 DEF Forking
  <2>2. Leaves(id, "failed")
    BY <1>1, <2>1, LeavesBy DEF Told
  <2>3. root = id <=> IsRoot(id)
    <3>1. IsRoot(id) => id = root
      BY <1>1, RootFacts
    <3>2. Len(<<Root>>) = 1 /\ root.path = <<Root>>
      OBVIOUS
    <3> QED
      BY <3>1, <3>2 DEF IsRoot
  <2>4. result' = IF IsRoot(id) /\ id.inv = Len(jobs) THEN "failed" ELSE result
    BY <1>1, <2>1, <2>3
  <2>5. lock' = [t \in Targets |-> IF lock[t] = id /\ id \notin DOMAIN cmds
                                     THEN NoOne ELSE lock[t]]
    BY <1>1, <2>1
  <2> QED
    BY <1>1, <1>2, <2>2, <2>4, <2>5
<1>3. CASE ~(jobs[id.inv] > 1)
  <2>1. ~Forking(id)
    BY <1>3 DEF Forking
  <2>2. \A c \in ChildrenOf(id) : c.inv = id.inv
    BY DEF ChildrenOf, ParentOf
  <2>3. DOMAIN frames \ gone = {x \in DOMAIN frames : x.inv # id.inv}
    BY <2>1, <2>2 DEF ChildrenOf
  <2>4. frames' = Restrict(frames, {x \in DOMAIN frames : x.inv # id.inv})
    BY <1>1, <2>1, <2>3
  <2>5. AllGo(id.inv)
    BY <2>4 DEF AllGo, Restrict, TypeOK
  <2>6. lock' = [t \in Targets |->
                   IF lock[t] \in DOMAIN frames /\ lock[t].inv = id.inv
                        /\ lock[t] \notin DOMAIN cmds
                   THEN NoOne ELSE lock[t]]
    BY <1>1, <2>1
  <2>7. id.inv = Len(jobs) => root = Top
    BY DEF Top
  <2>8. root.inv = id.inv
    OBVIOUS
  <2>9. result' = IF id.inv = Len(jobs) /\ Top \in DOMAIN frames
                  THEN "failed" ELSE result
    BY <1>1, <2>1, <2>7, <2>8
  <2> QED
    BY <1>1, <1>3, <2>5, <2>6, <2>9
<1> QED
  BY <1>2, <1>3

LEMMA InvokeStep ==
  ASSUME TypeOK, NEW n \in Jobs, Invoke(n)
  PROVE  /\ result # "running" /\ result' = "running"
         /\ jobs' \in Seq(Jobs) /\ Len(jobs') = Len(jobs) + 1
         /\ Len(jobs') <= MaxInvocations
         /\ \A i \in 1 .. Len(jobs) : jobs'[i] = jobs[i]
         /\ Calls \subseteq Calls'
         /\ Top' \in Calls' /\ IsRoot(Top') /\ \A x \in Calls : x.inv # Top'.inv
         /\ frames' \in [DOMAIN frames \cup {Top'} -> FrameType]
         /\ frames'[Top'] = NewFrame({})
         /\ \A x \in DOMAIN frames : frames'[x] = frames[x]
         /\ UNCHANGED <<world, out, cmds, lock, faults>>
<1>1. /\ result # "running" /\ result' = "running"
      /\ Len(jobs) < MaxInvocations
      /\ jobs' = Append(jobs, n)
      /\ frames' = With(frames, Top', NewFrame({}))
      /\ UNCHANGED <<world, out, cmds, lock, faults>>
  BY DEF Invoke, Top
<1>2. jobs \in Seq(Jobs) /\ Len(jobs) \in Nat
  BY LenProperties DEF TypeOK
<1>3. /\ jobs' \in Seq(Jobs) /\ Len(jobs') = Len(jobs) + 1
      /\ \A i \in 1 .. Len(jobs) : jobs'[i] = jobs[i]
  BY <1>1, <1>2, AppendProperties
<1>4. Len(jobs') <= MaxInvocations
  BY <1>1, <1>2, <1>3, BoundsAssumption
<1>5. Calls \subseteq Calls'
  BY <1>2, <1>3 DEF Calls
<1>6. Top' \in Calls' /\ IsRoot(Top')
  <2>1. <<Root>> \in Seq(Targets) /\ Len(<<Root>>) = 1 /\ <<Root>>[1] = Root
    BY RecipeAssumption
  <2> QED
    BY <1>2, <1>3, <2>1, EmptySeq DEF Top, Calls, IsRoot
<1>7. \A x \in Calls : x.inv # Top'.inv
  BY <1>2, <1>3, CallType DEF Top
<1>8. NewFrame({}) \in FrameType
  BY DEF NewFrame, FrameType, Stages
<1>9. frames \in [DOMAIN frames -> FrameType] /\ Top' \notin DOMAIN frames
  BY <1>7 DEF TypeOK
<1>10. /\ frames' \in [DOMAIN frames \cup {Top'} -> FrameType]
       /\ frames'[Top'] = NewFrame({})
       /\ \A x \in DOMAIN frames : frames'[x] = frames[x]
  BY <1>1, <1>8, <1>9 DEF With
<1> QED
  BY <1>1, <1>3, <1>4, <1>5, <1>6, <1>7, <1>10

-----------------------------------------------------------------------------
\* Types

\* What no step of a call, a command or a kill changes, and the calls' types
LEMMA SameCalls ==
  ASSUME UNCHANGED jobs PROVE Calls' = Calls
BY DEF Calls

LEMMA ExitsType ==
  ASSUME TypeOK, NEW id \in DOMAIN frames, NEW res \in {"ok", "failed"}, Exits(id, res)
  PROVE  /\ DOMAIN frames' \subseteq Calls /\ frames' \in [DOMAIN frames' -> FrameType]
         /\ lock' \in [Targets -> Calls \cup {NoOne}]
         /\ result' \in {"none", "running", "ok", "failed"}
BY DEF TypeOK, Exits, Leaves

LEMMA StagedType ==
  ASSUME TypeOK, NEW id, NEW l, Staged(id, l)
  PROVE  DOMAIN frames' \subseteq Calls /\ frames' \in [DOMAIN frames' -> FrameType]
BY DEF TypeOK, Staged

LEMMA CollectedType ==
  ASSUME TypeOK, NEW id, NEW c, Collected(id, c)
  PROVE  DOMAIN frames' \subseteq Calls /\ frames' \in [DOMAIN frames' -> FrameType]
BY DEF TypeOK, Collected

LEMMA GoneType ==
  ASSUME TypeOK, NEW id, Gone(id)
  PROVE  DOMAIN cmds' \subseteq Calls /\ cmds' \in [DOMAIN cmds' -> Content]
BY DEF TypeOK, Gone

LEMMA ReleaseType ==
  ASSUME TypeOK, NEW id, lock' = Release(id)
  PROVE  lock' \in [Targets -> Calls \cup {NoOne}]
BY DEF TypeOK, Release

LEMMA Typed ==
  ASSUME TypeOK, TodoOK, Next
  PROVE  TypeOK'
<1>1. ASSUME NEW id \in DOMAIN frames, Enter(id) PROVE TypeOK'
  <2>1. UNCHANGED <<world, out, jobs, cmds, faults>> /\ Calls' = Calls
    BY <1>1, EnterStep, SameCalls
  <2>2. /\ DOMAIN frames' \subseteq Calls /\ frames' \in [DOMAIN frames' -> FrameType]
        /\ lock' \in [Targets -> Calls \cup {NoOne}]
        /\ result' \in {"none", "running", "ok", "failed"}
    <3>1. CASE Exits(id, "failed") \/ Exits(id, "ok")
      BY <3>1, ExitsType
    <3>2. CASE Staged(id, "deps") /\ UNCHANGED <<lock, result>>
      BY <3>2, StagedType DEF TypeOK
    <3> QED
      BY <1>1, <3>1, <3>2, EnterStep
  <2> QED
    BY <2>1, <2>2 DEF TypeOK, world
<1>2. ASSUME NEW id \in DOMAIN frames, Visit(id) PROVE TypeOK'
  <2>1. UNCHANGED <<world, out, jobs, cmds, lock, result, faults>> /\ Calls' = Calls
    BY <1>2, VisitStep, SameCalls
  <2>2. DOMAIN frames' \subseteq Calls /\ frames' \in [DOMAIN frames' -> FrameType]
    BY <1>2, VisitStep DEF Visited, TypeOK
  <2> QED
    BY <2>1, <2>2 DEF TypeOK, world
<1>3. ASSUME NEW id \in DOMAIN frames, DepsDone(id) PROVE TypeOK'
  <2>1. UNCHANGED <<world, out, jobs, cmds, faults>> /\ Calls' = Calls
    BY <1>3, DepsDoneStep, SameCalls
  <2>2. /\ DOMAIN frames' \subseteq Calls /\ frames' \in [DOMAIN frames' -> FrameType]
        /\ lock' \in [Targets -> Calls \cup {NoOne}]
        /\ result' \in {"none", "running", "ok", "failed"}
    <3>1. CASE Exits(id, "failed") \/ Exits(id, "ok")
      BY <3>1, ExitsType
    <3>2. CASE (Staged(id, "lock") \/ Staged(id, "test")) /\ UNCHANGED <<lock, result>>
      BY <3>2, StagedType DEF TypeOK
    <3> QED
      BY <1>3, <3>1, <3>2, DepsDoneStep
  <2> QED
    BY <2>1, <2>2 DEF TypeOK, world
<1>4. ASSUME NEW id \in DOMAIN frames, TakeLock(id) PROVE TypeOK'
  <2>1. /\ UNCHANGED <<world, out, jobs, cmds, result, faults>> /\ Calls' = Calls
        /\ lock' = [lock EXCEPT ![TargetOf(id)] = id]
        /\ Staged(id, "test")
    BY <1>4, TakeLockStep, SameCalls
  <2>2. lock' \in [Targets -> Calls \cup {NoOne}]
    BY <2>1 DEF TypeOK
  <2> QED
    BY <2>1, <2>2, StagedType DEF TypeOK, world
<1>5. ASSUME NEW id \in DOMAIN frames, Test(id) PROVE TypeOK'
  <2>1. /\ UNCHANGED <<world, out, jobs, cmds, lock, result, faults>> /\ Calls' = Calls
        /\ Staged(id, "start") \/ Staged(id, "done")
    BY <1>5, TestStep, SameCalls
  <2> QED
    BY <2>1, StagedType DEF TypeOK, world
<1>6. ASSUME NEW id \in DOMAIN frames, Start(id) PROVE TypeOK'
  <2>1. /\ UNCHANGED <<world, out, jobs, lock, result, faults>> /\ Calls' = Calls
        /\ Staged(id, "wait") /\ DOMAIN cmds' = DOMAIN cmds \cup {id}
        /\ cmds' \in [DOMAIN cmds' -> Content]
    BY <1>6, StartStep, SameCalls
  <2> QED
    BY <2>1, StagedType DEF TypeOK, world
<1>7. ASSUME NEW id \in DOMAIN frames, Done(id) PROVE TypeOK'
  <2>1. UNCHANGED <<world, out, jobs, cmds, faults>> /\ Calls' = Calls /\ Exits(id, "ok")
    BY <1>7, DoneStep, SameCalls
  <2> QED
    BY <2>1, ExitsType DEF TypeOK, world
<1>8. ASSUME NEW id \in DOMAIN frames, NEW c \in DOMAIN frames, Collect(id, c)
      PROVE  TypeOK'
  <2>1. UNCHANGED <<world, out, jobs, cmds, lock, result, faults>> /\ Calls' = Calls
    BY <1>8, CollectStep, SameCalls
  <2>2. Collected(id, c)
    BY <1>8, CollectStep
  <2> QED
    BY <2>1, <2>2, CollectedType DEF TypeOK, world
<1>9. ASSUME NEW id \in DOMAIN frames, NEW c \in DOMAIN frames, Return(id, c)
      PROVE  TypeOK'
  <2>1. UNCHANGED <<world, out, jobs, cmds, faults>> /\ Calls' = Calls
    BY <1>9, ReturnStep, SameCalls
  <2>2. /\ DOMAIN frames' \subseteq Calls /\ frames' \in [DOMAIN frames' -> FrameType]
        /\ lock' \in [Targets -> Calls \cup {NoOne}]
        /\ result' \in {"none", "running", "ok", "failed"}
    <3>1. CASE Exits(id, "failed")
      BY <3>1, ExitsType
    <3>2. CASE Collected(id, c) /\ UNCHANGED <<lock, result>>
      BY <3>2, CollectedType DEF TypeOK
    <3> QED
      BY <1>9, <3>1, <3>2, ReturnStep
  <2> QED
    BY <2>1, <2>2 DEF TypeOK, world
<1>10. ASSUME NEW id \in DOMAIN frames, ForkFails(id) PROVE TypeOK'
  <2>1. /\ UNCHANGED <<world, out, jobs, cmds>> /\ Calls' = Calls
        /\ faults' = faults + 1 /\ Exits(id, "failed")
    BY <1>10, ForkFailsStep, SameCalls
  <2> QED
    BY <2>1, ExitsType DEF TypeOK, world
<1>11. ASSUME NEW id \in DOMAIN frames, Kill(id) PROVE TypeOK'
  <2>1. /\ UNCHANGED <<world, out, jobs, cmds>> /\ Calls' = Calls /\ faults' = faults + 1
    BY <1>11, KillStep, SameCalls
  <2>2. DOMAIN frames' \subseteq Calls /\ frames' \in [DOMAIN frames' -> FrameType]
    <3>1. CASE Leaves(id, "failed")
      BY <3>1 DEF Leaves, TypeOK
    <3>2. CASE AllGo(id.inv)
      BY <3>2 DEF AllGo, TypeOK
    <3> QED
      BY <1>11, <3>1, <3>2, KillStep
  <2>3. lock' \in [Targets -> Calls \cup {NoOne}]
    BY <1>11, KillStep DEF TypeOK
  <2>4. result' \in {"none", "running", "ok", "failed"}
    BY <1>11, KillStep DEF TypeOK
  <2> QED
    BY <2>1, <2>2, <2>3, <2>4 DEF TypeOK, world
<1>12. ASSUME NEW id \in DOMAIN cmds, TimePasses, NEW content \in Content,
              out' = out \/ out' = Wrote(TargetOf(id), content),
              UNCHANGED <<recipe, touched>>
       PROVE  /\ clock' \in Nat /\ touched' \in [Targets -> 0 .. clock']
              /\ out' \in [Targets -> [made : BOOLEAN, time : 0 .. clock', content : Content]]
  <2>1. clock' \in Nat /\ 0 .. clock \subseteq 0 .. clock' /\ clock' \in 0 .. clock'
    BY <1>12 DEF TypeOK, TimePasses
  <2>2. touched' \in [Targets -> 0 .. clock']
    BY <1>12, <2>1 DEF TypeOK
  <2>3. out \in [Targets -> [made : BOOLEAN, time : 0 .. clock', content : Content]]
    BY <2>1 DEF TypeOK
  <2>4. [made |-> TRUE, time |-> clock', content |-> content]
          \in [made : BOOLEAN, time : 0 .. clock', content : Content]
    BY <2>1
  <2>5. out' \in [Targets -> [made : BOOLEAN, time : 0 .. clock', content : Content]]
    BY <1>12, <2>3, <2>4 DEF Wrote
  <2> QED
    BY <2>1, <2>2, <2>5
<1>13. ASSUME NEW id \in DOMAIN cmds, Finish(id) PROVE TypeOK'
  <2>1. /\ UNCHANGED <<recipe, version, touched, jobs, result, faults>>
        /\ Calls' = Calls /\ Gone(id) /\ lock' = Release(id)
    BY <1>13, FinishStep, SameCalls
  <2>2. DOMAIN frames' \subseteq Calls /\ frames' \in [DOMAIN frames' -> FrameType]
    BY <1>13, FinishStep, StagedType DEF TypeOK
  <2>3. cmds[id] \in Content
    BY DEF TypeOK
  <2>4. /\ clock' \in Nat /\ touched' \in [Targets -> 0 .. clock']
        /\ out' \in [Targets -> [made : BOOLEAN, time : 0 .. clock', content : Content]]
    BY <1>12, <1>13, <2>3, FinishStep DEF Written
  <2> QED
    BY <2>1, <2>2, <2>4, GoneType, ReleaseType DEF TypeOK
<1>16. ASSUME NEW id \in DOMAIN cmds, CommandFails(id) PROVE TypeOK'
  <2>1. /\ UNCHANGED <<recipe, version, touched, jobs>> /\ faults' = faults + 1
        /\ Calls' = Calls /\ Gone(id)
    BY <1>16, CommandFailsStep, SameCalls
  <2>2. /\ DOMAIN frames' \subseteq Calls /\ frames' \in [DOMAIN frames' -> FrameType]
        /\ lock' \in [Targets -> Calls \cup {NoOne}]
        /\ result' \in {"none", "running", "ok", "failed"}
    <3>1. CASE id \in Live /\ Exits(id, "failed")
      BY <3>1, ExitsType DEF Live
    <3>2. CASE Staged(id, "done") /\ UNCHANGED <<lock, result>>
      BY <3>2, StagedType DEF TypeOK
    <3>3. CASE lock' = Release(id) /\ UNCHANGED <<frames, result>>
      BY <3>3, ReleaseType DEF TypeOK
    <3> QED
      BY <1>16, <3>1, <3>2, <3>3, CommandFailsStep
  <2>3. {} \in Content
    BY DEF Content
  <2>4. /\ clock' \in Nat /\ touched' \in [Targets -> 0 .. clock']
        /\ out' \in [Targets -> [made : BOOLEAN, time : 0 .. clock', content : Content]]
    BY <1>12, <1>16, <2>3, CommandFailsStep
  <2> QED
    BY <2>1, <2>2, <2>4, GoneType DEF TypeOK
<1>14. ASSUME NEW n \in Jobs, Invoke(n) PROVE TypeOK'
  BY <1>14, InvokeStep DEF TypeOK, world
<1>15. ASSUME NEW t \in Edited, NEW kind \in EditKinds, Edit(t, kind) PROVE TypeOK'
  <2>1. /\ clock' = clock + 1 /\ version' = [version EXCEPT ![t] = @ + 1]
        /\ touched' = IF kind = "source" THEN [touched EXCEPT ![t] = clock'] ELSE touched
        /\ result' = "none"
        /\ UNCHANGED <<recipe, out, jobs, frames, cmds, lock, faults>>
        /\ t \in Targets
    BY <1>15, EditedAssumption DEF Edit
  <2>2. clock' \in Nat /\ 0 .. clock \subseteq 0 .. clock'
    BY <2>1 DEF TypeOK
  <2>3. version' \in [Targets -> Nat]
    BY <2>1 DEF TypeOK
  <2>4. touched' \in [Targets -> 0 .. clock']
    BY <2>1, <2>2 DEF TypeOK
  <2>5. out' \in [Targets -> [made : BOOLEAN, time : 0 .. clock', content : Content]]
    BY <2>1, <2>2 DEF TypeOK
  <2> QED
    BY <2>1, <2>2, <2>3, <2>4, <2>5, SameCalls DEF TypeOK
<1> QED
  BY <1>1, <1>2, <1>3, <1>4, <1>5, <1>6, <1>7, <1>8, <1>9, <1>10, <1>11, <1>13,
     <1>14, <1>15, <1>16 DEF Next, Call

-----------------------------------------------------------------------------
\* The tree of the calls.  No call is made twice, because a call is named by
\* its path, dependencies are listed once, and what a caller has still to
\* start has never been started.

\* A call that begins has nothing below it.
EnterOK ==
  \A id \in DOMAIN frames : frames[id].at = "enter" =>
    /\ ~frames[id].failed
    /\ \A x \in InUse : Under(x, id) => x = id /\ x \notin DOMAIN cmds \cup Holders

\* One that is done with its dependencies has collected them all.
LaterOK ==
  \A id \in DOMAIN frames : frames[id].at \in Later =>
    ChildrenOf(id) = {} /\ ~frames[id].failed

\* One that has ended is kept for its caller.
EndedOK ==
  \A id \in DOMAIN frames : Ended(id) => ~IsRoot(id) /\ ParentOf(id) \in Live

\* One whose command runs waits for it, if it still exists.
CmdsOK == \A id \in DOMAIN cmds \cap Live : frames[id].at = "wait"

TreeInv == EnterOK /\ TodoOK /\ LaterOK /\ EndedOK /\ CmdsOK

\* Steps in which no call is added.
LEMMA NoneAdded ==
  ASSUME TypeOK, TreeInv, UNCHANGED <<jobs, recipe>>, NEW id \in InUse,
         DOMAIN frames' \subseteq DOMAIN frames,
         \A x \in DOMAIN frames' : x # id => frames'[x] = frames[x],
         DOMAIN cmds' \subseteq DOMAIN cmds \cup {id},
         Holders' \subseteq Holders \cup {id},
         id \in DOMAIN frames' =>
           /\ frames'[id].at # "enter"
           /\ frames'[id].at = "deps" => StillToStart(id, frames'[id].todo)
           /\ frames'[id].at \in Later => ChildrenOf(id) = {} /\ ~frames'[id].failed
  PROVE  EnterOK' /\ TodoOK' /\ LaterOK'
<1>1. InUse' \subseteq InUse
  BY DEF InUse
<1>2. EnterOK'
  BY <1>1 DEF TreeInv, EnterOK, InUse
<1>3. TodoOK'
  <2>1. \A x, todo : StillToStart(x, todo) =>
          /\ todo \subseteq Uniques(TargetOf(x), {})'
          /\ \A i \in todo, y \in InUse' : ~Under(y, ChildAt(x, i))'
    BY <1>1 DEF StillToStart, Uniques, ChildAt
  <2>2. \A x \in DOMAIN frames' : frames'[x].at = "deps" => StillToStart(x, frames'[x].todo)
    BY DEF TreeInv, TodoOK
  <2> QED
    BY <2>1, <2>2 DEF TodoOK, StillToStart
<1>4. LaterOK'
  <2>1. \A x : ChildrenOf(x)' \subseteq ChildrenOf(x)
    BY DEF ChildrenOf
  <2> QED
    BY <2>1 DEF TreeInv, LaterOK
<1> QED
  BY <1>2, <1>3, <1>4

LEMMA NotItsParent ==
  ASSUME NEW x \in Calls, ~IsRoot(x)
  PROVE  ParentOf(x) # x /\ ParentOf(x) \in Calls
<1>1. x = ChildOf(ParentOf(x), TargetOf(x)) /\ ParentOf(x) \in Calls /\ TargetOf(x) \in Targets
  BY ParentFacts, CallType
<1>2. Len(x.path) = Len(ParentOf(x).path) + 1 /\ Len(ParentOf(x).path) \in Nat
  BY <1>1, ChildFacts, CallType
<1> QED
  BY <1>1, <1>2

LEMMA StagedTree ==
  ASSUME TypeOK, TreeInv, UNCHANGED <<jobs, recipe>>, NEW id, NEW l, Staged(id, l),
         DOMAIN cmds' \subseteq DOMAIN cmds \cup {id},
         Holders' \subseteq Holders \cup {id},
         l # "enter",
         l = "deps" => StillToStart(id, frames'[id].todo),
         l \in Later => ChildrenOf(id) = {} /\ ~frames[id].failed,
         id \in DOMAIN cmds' => l = "wait"
  PROVE  TreeInv'
<1>1. /\ id \in DOMAIN frames /\ DOMAIN frames' = DOMAIN frames /\ frames'[id].at = l
      /\ \A x \in DOMAIN frames : x # id => frames'[x] = frames[x]
      /\ frames'[id].failed = frames[id].failed
      /\ l \notin {"ok", "failed"}
  BY DEF Staged, Live
<1>2. EnterOK' /\ TodoOK' /\ LaterOK'
  <2>1. id \in InUse
    BY <1>1 DEF InUse
  <2>2. l \in Later => ~frames'[id].failed
    BY <1>1
  <2> QED
    BY <1>1, <2>1, <2>2, NoneAdded
<1>3. Live' = Live /\ \A x \in DOMAIN frames : Ended(x)' <=> Ended(x)
  BY <1>1 DEF Live, Ended, Staged
<1>4. EndedOK'
  BY <1>1, <1>3 DEF TreeInv, EndedOK
<1>5. CmdsOK'
  <2>1. ASSUME NEW x \in DOMAIN cmds' \cap Live' PROVE frames'[x].at = "wait"
    <3>1. CASE x = id
      BY <1>1, <2>1, <3>1
    <3>2. CASE x # id
      <4>1. x \in DOMAIN cmds \cap Live
        BY <1>3, <2>1, <3>2
      <4>2. frames[x].at = "wait" /\ x \in DOMAIN frames
        BY <4>1 DEF TreeInv, CmdsOK, Live
      <4> QED
        BY <1>1, <3>2, <4>2
    <3> QED
      BY <3>1, <3>2
  <2> QED
    BY <2>1 DEF CmdsOK
<1> QED
  BY <1>2, <1>4, <1>5 DEF TreeInv

LEMMA LeavesTree ==
  ASSUME TypeOK, TreeInv, UNCHANGED <<jobs, recipe>>, NEW id, NEW res, Leaves(id, res),
         DOMAIN cmds' \subseteq DOMAIN cmds, Holders' \subseteq Holders
  PROVE  TreeInv'
<1>1. /\ id \in Live /\ id \in DOMAIN frames /\ res \in {"ok", "failed"}
      /\ DOMAIN frames' \subseteq DOMAIN frames
      /\ \A x \in DOMAIN frames' : x # id => frames'[x] = frames[x]
      /\ id \in DOMAIN frames' => Told(id) /\ frames'[id].at = res
  BY DEF Leaves, Live
<1>2. EnterOK' /\ TodoOK' /\ LaterOK'
  <2>1. id \in InUse
    BY <1>1 DEF InUse
  <2>2. res \notin {"enter", "deps"} /\ res \notin Later
    BY <1>1 DEF Later
  <2> QED
    BY <1>1, <2>1, <2>2, NoneAdded
<1>3. \A x \in Live : x # id => x \in Live'
  BY <1>1 DEF Live, Ended, Leaves
<1>4. ASSUME NEW x \in DOMAIN frames', Ended(x)'
      PROVE  ~IsRoot(x) /\ ParentOf(x) \in Live'
  <2>1. CASE x = id
    <3>1. Told(id)
      BY <1>1, <2>1
    <3>2. ParentOf(id) # id
      BY <1>1, <3>1, NotItsParent DEF Told, TypeOK
    <3> QED
      BY <1>3, <2>1, <3>1, <3>2 DEF Told
  <2>2. CASE x # id
    <3>1. Ended(x) /\ x \in DOMAIN frames
      BY <1>1, <1>4, <2>2 DEF Ended
    <3>2. ~IsRoot(x) /\ ParentOf(x) \in Live
      BY <3>1 DEF TreeInv, EndedOK
    <3>3. ParentOf(x) # id
      <4>1. ParentOf(x) = id => x \in {c \in ChildrenOf(id) : Ended(c)}
        BY <3>1, <3>2 DEF ChildrenOf
      <4> QED
        BY <4>1 DEF Leaves
    <3> QED
      BY <1>3, <3>2, <3>3
  <2> QED
    BY <2>1, <2>2
<1>5. Live' \subseteq Live \ {id}
  BY <1>1 DEF Live, Ended
<1>6. CmdsOK'
  BY <1>1, <1>5 DEF TreeInv, CmdsOK, Live
<1> QED
  BY <1>2, <1>4, <1>6 DEF TreeInv, EndedOK

LEMMA CollectedTree ==
  ASSUME TypeOK, TreeInv, UNCHANGED <<jobs, recipe, cmds, lock>>, NEW id, NEW c,
         Collected(id, c)
  PROVE  TreeInv'
<1>1. /\ id \in DOMAIN frames /\ c \in DOMAIN frames /\ c # id /\ Ended(c)
      /\ DOMAIN frames' = DOMAIN frames \ {c}
      /\ \A x \in DOMAIN frames \ {c} : x # id => frames'[x] = frames[x]
      /\ frames'[id].at = "deps" /\ frames[id].at = "deps"
      /\ frames'[id].todo = frames[id].todo
  BY DEF Collected, ChildrenOf, Live
<1>2. Holders' = Holders
  BY SameCalls DEF Holders
<1>3. EnterOK' /\ TodoOK' /\ LaterOK'
  <2>1. id \in InUse
    BY <1>1 DEF InUse
  <2>2. StillToStart(id, frames'[id].todo)
    BY <1>1 DEF TreeInv, TodoOK
  <2>3. "deps" \notin Later
    BY DEF Later
  <2> QED
    BY <1>1, <1>2, <2>1, <2>2, <2>3, NoneAdded
<1>4. Live' = Live /\ \A x \in DOMAIN frames' : Ended(x)' <=> Ended(x)
  BY <1>1 DEF Live, Ended
<1>5. EndedOK'
  BY <1>1, <1>4 DEF TreeInv, EndedOK
<1>6. CmdsOK'
  BY <1>1, <1>4 DEF TreeInv, CmdsOK, Live
<1> QED
  BY <1>3, <1>5, <1>6 DEF TreeInv

LEMMA AllGoTree ==
  ASSUME TypeOK, TreeInv, UNCHANGED <<jobs, recipe, cmds>>, NEW id \in DOMAIN frames,
         AllGo(id.inv), Holders' \subseteq Holders
  PROVE  TreeInv'
<1>1. /\ DOMAIN frames' = {x \in DOMAIN frames : x.inv # id.inv}
      /\ \A x \in DOMAIN frames' : frames'[x] = frames[x]
  BY DEF AllGo
<1>2. EnterOK' /\ TodoOK' /\ LaterOK'
  <2>1. id \in InUse /\ id \notin DOMAIN frames'
    BY <1>1 DEF InUse
  <2> QED
    BY <1>1, <2>1, NoneAdded
<1>3. Live' = {x \in Live : x.inv # id.inv} /\ \A x \in DOMAIN frames' : Ended(x)' <=> Ended(x)
  BY <1>1 DEF Live, Ended
<1>4. \A x : ParentOf(x).inv = x.inv
  BY DEF ParentOf
<1>5. EndedOK'
  BY <1>1, <1>3, <1>4 DEF TreeInv, EndedOK
<1>6. CmdsOK'
  BY <1>1, <1>3 DEF TreeInv, CmdsOK, Live
<1> QED
  BY <1>2, <1>5, <1>6 DEF TreeInv

\* Positions of first occurrences are of different dependencies.
LEMMA OnePosition ==
  ASSUME TypeOK, NEW t \in Targets, NEW i \in Uniques(t, {}), NEW j \in Uniques(t, {}),
         recipe[t].deps[i] = recipe[t].deps[j]
  PROVE  i = j
<1>1. i \in DOMAIN recipe[t].deps /\ j \in DOMAIN recipe[t].deps /\ recipe[t].deps \in Seq(Targets)
  BY Positions DEF Uniques
<1>2. i \in Nat \ {0} /\ j \in Nat \ {0}
  BY <1>1, LenProperties
<1>3. ~(i < j) /\ ~(j < i)
  BY <1>2 DEF Uniques
<1> QED
  BY <1>2, <1>3

LEMMA VisitedTree ==
  ASSUME TypeOK, TreeInv, UNCHANGED <<jobs, recipe, cmds, lock>>, NEW id, NEW i,
         Visited(id, i)
  PROVE  TreeInv'
<1> DEFINE c == ChildAt(id, i)
           t == TargetOf(id)
<1>1. /\ id \in DOMAIN frames /\ id \in Live /\ id # c /\ c \in Calls
      /\ frames[id].at = "deps" /\ i \in frames[id].todo
      /\ DOMAIN frames' = DOMAIN frames \cup {c}
      /\ frames'[c] = NewFrame(frames[id].done)
      /\ \A x \in DOMAIN frames \ {c} : x # id => frames'[x] = frames[x]
      /\ frames'[id].at = "deps" /\ frames'[id].todo = frames[id].todo \ {i}
  BY DEF Visited, Live
<1>2. id \in Calls /\ t \in Targets /\ InUse \subseteq Calls
  BY <1>1, CallType DEF TypeOK, InUse, Holders
<1>3. i \in Uniques(t, {}) /\ \A x \in InUse : ~Under(x, c)
  BY <1>1 DEF TreeInv, TodoOK, StillToStart
<1>4. \A y \in DOMAIN frames : frames[y].at = "deps" =>
        /\ frames[y].todo \subseteq Uniques(TargetOf(y), {})
        /\ \A j \in frames[y].todo : recipe[TargetOf(y)].deps[j] \in Targets
  <2>1. \A y \in DOMAIN frames : TargetOf(y) \in Targets
    BY CallType DEF TypeOK
  <2> QED
    BY <2>1, Positions DEF TreeInv, TodoOK, StillToStart, Uniques
<1>5. c = ChildOf(id, recipe[t].deps[i]) /\ recipe[t].deps[i] \in Targets
  BY <1>1, <1>4 DEF ChildAt
<1>6. c \notin InUse /\ id \in InUse
  BY <1>1, <1>3, UnderOrder DEF InUse
<1>7. Holders' = Holders /\ InUse' = InUse \cup {c}
  <2>1. Holders' = Holders
    BY SameCalls DEF Holders
  <2> QED
    BY <1>1, <2>1 DEF InUse
<1>8. ~IsRoot(c) /\ ParentOf(c) = id /\ frames'[c].at = "enter" /\ ~frames'[c].failed
  <2>1. ~IsRoot(c) /\ ParentOf(c) = id
    BY <1>2, <1>5, ChildFacts
  <2> QED
    BY <1>1, <2>1 DEF NewFrame
<1> HIDE DEF c
<1>9. EnterOK'
  <2>1. ASSUME NEW y \in DOMAIN frames', frames'[y].at = "enter"
        PROVE  /\ ~frames'[y].failed
               /\ \A x \in InUse' : Under(x, y) => x = y /\ x \notin DOMAIN cmds \cup Holders
    <3>1. CASE y = c
      BY <1>3, <1>6, <1>7, <1>8, <3>1 DEF InUse
    <3>2. CASE y # c
      <4>1. /\ y \in DOMAIN frames /\ y # id /\ frames[y].at = "enter" /\ ~frames'[y].failed
            /\ \A x \in InUse : Under(x, y) => x = y /\ x \notin DOMAIN cmds \cup Holders
        BY <1>1, <2>1, <3>2 DEF TreeInv, EnterOK
      <4>2. ~Under(c, y)
        <5>1. ~Under(id, y)
          BY <1>6, <4>1
        <5>2. y \in Calls
          BY <1>2, <4>1 DEF InUse
        <5> QED
          BY <1>2, <1>5, <3>2, <5>1, <5>2, UnderChild
      <4> QED
        BY <1>7, <4>1, <4>2
    <3> QED
      BY <3>1, <3>2
  <2> QED
    BY <1>7, <2>1 DEF EnterOK
<1>10. TodoOK'
  <2>1. ASSUME NEW y \in DOMAIN frames', frames'[y].at = "deps"
        PROVE  /\ frames'[y].todo \subseteq Uniques(TargetOf(y), {})
               /\ \A j \in frames'[y].todo, x \in InUse' : ~Under(x, ChildAt(y, j))
    <3>1. y # c /\ y \in DOMAIN frames /\ y \in Calls
      BY <1>1, <1>2, <1>8, <2>1 DEF InUse
    <3>2. CASE y = id
      <4>1. frames'[y].todo \subseteq frames[id].todo /\ i \notin frames'[y].todo
        BY <1>1, <3>2
      <4>2. ASSUME NEW j \in frames'[y].todo PROVE ~Under(c, ChildAt(id, j))
        <5>1. j \in Uniques(t, {}) /\ j # i /\ recipe[t].deps[j] \in Targets
          BY <1>1, <1>4, <4>1
        <5>2. recipe[t].deps[i] # recipe[t].deps[j]
          BY <1>2, <1>3, <5>1, OnePosition
        <5>3. Under(c, c)
          BY <1>1, UnderOrder
        <5> QED
          BY <1>1, <1>2, <1>5, <5>1, <5>2, <5>3, TwoChildren DEF ChildAt
      <4> QED
        BY <1>1, <1>7, <3>2, <4>1, <4>2 DEF TreeInv, TodoOK, StillToStart
    <3>3. CASE y # id
      <4>1. frames'[y] = frames[y]
        BY <1>1, <3>1, <3>3
      <4>2. /\ frames'[y].todo \subseteq Uniques(TargetOf(y), {})
            /\ \A j \in frames'[y].todo, x \in InUse : ~Under(x, ChildAt(y, j))
        BY <2>1, <3>1, <4>1 DEF TreeInv, TodoOK, StillToStart
      <4>3. ASSUME NEW j \in frames'[y].todo PROVE ~Under(c, ChildAt(y, j))
        <5>1. recipe[TargetOf(y)].deps[j] \in Targets
          BY <1>4, <2>1, <3>1, <4>1
        <5>2. ChildAt(y, j) \in Calls /\ ParentOf(ChildAt(y, j)) = y
          BY <3>1, <5>1, ChildFacts DEF ChildAt
        <5>3. ~Under(id, ChildAt(y, j)) /\ ChildAt(y, j) # c
          BY <1>6, <1>8, <3>3, <4>2, <5>2
        <5> QED
          BY <1>2, <1>5, <5>2, <5>3, UnderChild
      <4> QED
        BY <1>7, <4>2, <4>3
    <3> QED
      BY <3>2, <3>3
  <2> QED
    BY <2>1 DEF TodoOK, StillToStart, Uniques, ChildAt
<1>11. LaterOK'
  <2>1. \A x : x # id => ChildrenOf(x)' \subseteq ChildrenOf(x)
    BY <1>1, <1>8 DEF ChildrenOf
  <2>2. \A y \in DOMAIN frames' : frames'[y].at \in Later =>
          y \in DOMAIN frames /\ y # id /\ frames'[y] = frames[y]
    BY <1>1, <1>8 DEF Later
  <2> QED
    BY <2>1, <2>2 DEF TreeInv, LaterOK
<1>12. /\ Live \subseteq Live' /\ Live' \subseteq Live \cup {c}
       /\ \A y \in DOMAIN frames' : Ended(y)' => y \in DOMAIN frames /\ Ended(y) /\ y # c
  BY <1>1, <1>6, <1>8 DEF Live, Ended, InUse
<1>13. EndedOK'
  BY <1>12 DEF TreeInv, EndedOK
<1>14. CmdsOK'
  <2>1. c \notin DOMAIN cmds
    BY <1>6 DEF InUse
  <2>2. \A x \in DOMAIN cmds \cap Live : x # c /\ x # id /\ x \in DOMAIN frames
    BY <1>1, <2>1 DEF TreeInv, CmdsOK, Live
  <2> QED
    BY <1>1, <1>12, <2>1, <2>2 DEF TreeInv, CmdsOK
<1> QED
  BY <1>9, <1>10, <1>11, <1>13, <1>14 DEF TreeInv

LEMMA InvokeTree ==
  ASSUME TypeOK, TreeInv, NEW n \in Jobs, Invoke(n)
  PROVE  TreeInv'
<1> DEFINE c == Top'
<1>1. /\ DOMAIN frames' = DOMAIN frames \cup {c}
      /\ frames'[c] = NewFrame({})
      /\ \A x \in DOMAIN frames : frames'[x] = frames[x]
      /\ UNCHANGED <<recipe, cmds, lock>>
      /\ c \in Calls' /\ IsRoot(c) /\ Calls \subseteq Calls'
      /\ \A x \in Calls : x.inv # c.inv
  BY InvokeStep DEF world
<1>2. InUse \subseteq Calls /\ NoOne \notin Calls'
  BY NoOneAssumption DEF TypeOK, InUse, Holders, Calls
<1>3. c \notin InUse /\ \A x \in InUse : ~Under(x, c) /\ ~Under(c, x)
  BY <1>1, <1>2 DEF Under
<1>4. Holders' = Holders /\ InUse' = InUse \cup {c}
  <2>1. Holders' = Holders
    BY <1>1, <1>2 DEF Holders, TypeOK
  <2> QED
    BY <1>1, <2>1 DEF InUse
<1>5. frames'[c].at = "enter" /\ ~frames'[c].failed /\ DOMAIN frames \subseteq InUse
  BY <1>1 DEF NewFrame, InUse
<1> HIDE DEF c
<1>6. EnterOK'
  BY <1>1, <1>3, <1>4, <1>5 DEF TreeInv, EnterOK, InUse
<1>7. TodoOK'
  <2>1. ASSUME NEW y \in DOMAIN frames', frames'[y].at = "deps"
        PROVE  /\ frames'[y].todo \subseteq Uniques(TargetOf(y), {})
               /\ \A j \in frames'[y].todo, x \in InUse' : ~Under(x, ChildAt(y, j))
    <3>1. y \in DOMAIN frames /\ frames'[y] = frames[y] /\ y \in Calls
      BY <1>1, <1>2, <1>5, <2>1
    <3>2. /\ frames'[y].todo \subseteq Uniques(TargetOf(y), {})
          /\ \A j \in frames'[y].todo, x \in InUse : ~Under(x, ChildAt(y, j))
      BY <2>1, <3>1 DEF TreeInv, TodoOK, StillToStart
    <3>3. \A j : ChildAt(y, j).inv = y.inv
      BY DEF ChildAt, ChildOf
    <3>4. \A j : ~Under(c, ChildAt(y, j))
      BY <1>1, <3>1, <3>3 DEF Under
    <3> QED
      BY <1>4, <3>2, <3>4
  <2> QED
    BY <1>1, <2>1 DEF TodoOK, StillToStart, Uniques, ChildAt
<1>8. /\ Live' = Live \cup {c}
      /\ \A y \in DOMAIN frames' : Ended(y)' => y \in DOMAIN frames /\ Ended(y) /\ y # c
  BY <1>1, <1>3, <1>5 DEF Live, Ended, InUse
<1>9. LaterOK'
  <2>1. \A x : ChildrenOf(x)' \subseteq ChildrenOf(x)
    BY <1>1 DEF ChildrenOf
  <2>2. \A y \in DOMAIN frames' : frames'[y].at \in Later =>
          y \in DOMAIN frames /\ frames'[y] = frames[y]
    BY <1>1, <1>5 DEF Later
  <2> QED
    BY <2>1, <2>2 DEF TreeInv, LaterOK
<1>10. EndedOK'
  BY <1>8 DEF TreeInv, EndedOK
<1>11. CmdsOK'
  BY <1>1, <1>3, <1>8 DEF TreeInv, CmdsOK, InUse, Live
<1> QED
  BY <1>6, <1>7, <1>9, <1>10, <1>11 DEF TreeInv

\* What the steps do to the descriptors of locks
LEMMA HoldersKept ==
  ASSUME TypeOK, UNCHANGED jobs,
         \A t \in Targets : lock'[t] = lock[t] \/ lock'[t] = NoOne
  PROVE  Holders' \subseteq Holders
<1>1. Calls' = Calls /\ NoOne \notin Calls
  BY SameCalls, NoOneAssumption DEF Calls
<1> QED
  BY <1>1 DEF Holders

LEMMA ExitsTree ==
  ASSUME TypeOK, TreeInv, UNCHANGED <<jobs, recipe>>, DOMAIN cmds' \subseteq DOMAIN cmds,
         NEW id, NEW res, Exits(id, res)
  PROVE  TreeInv'
<1>1. Holders' \subseteq Holders
  BY HoldersKept DEF Exits
<1> QED
  BY <1>1, LeavesTree DEF Exits

LEMMA TreeStep ==
  ASSUME TypeOK, TreeInv, Next
  PROVE  TreeInv'
<1>0. UNCHANGED <<jobs, lock>> => Holders' = Holders
  BY SameCalls DEF Holders
<1>1. ASSUME NEW id \in DOMAIN frames, Enter(id) PROVE TreeInv'
  <2>1. UNCHANGED <<recipe, jobs, cmds>> /\ frames[id].at = "enter"
    BY <1>1, EnterStep DEF world
  <2>2. CASE Exits(id, "failed") \/ Exits(id, "ok")
    BY <2>1, <2>2, ExitsTree
  <2>3. CASE /\ Staged(id, "deps") /\ UNCHANGED <<lock, result>>
             /\ frames'[id].todo = Uniques(TargetOf(id), frames[id].done)
    <3>1. id \in Calls /\ TargetOf(id) \in Targets /\ InUse \subseteq Calls
      BY CallType DEF TypeOK, InUse, Holders
    <3>2. frames'[id].todo \subseteq Uniques(TargetOf(id), {})
      BY <2>3 DEF Uniques
    <3>3. ASSUME NEW j \in frames'[id].todo, NEW x \in InUse PROVE ~Under(x, ChildAt(id, j))
      <4>1. recipe[TargetOf(id)].deps[j] \in Targets
        BY <3>1, <3>2, Positions DEF Uniques
      <4>2. Under(x, ChildAt(id, j)) => Under(x, id) /\ x # id
        BY <3>1, <4>1, UnderChild DEF ChildAt
      <4> QED
        BY <2>1, <4>2 DEF TreeInv, EnterOK
    <3>4. StillToStart(id, frames'[id].todo)
      BY <3>2, <3>3 DEF StillToStart
    <3>5. id \notin DOMAIN cmds
      BY <2>1, <3>1, UnderOrder DEF TreeInv, EnterOK, InUse
    <3> QED
      BY <1>0, <2>1, <2>3, <3>4, <3>5, StagedTree DEF Later
  <2> QED
    BY <1>1, <2>2, <2>3, EnterStep
<1>2. ASSUME NEW id \in DOMAIN frames, Visit(id) PROVE TreeInv'
  <2>1. UNCHANGED <<recipe, jobs, cmds, lock>> /\ \E i \in frames[id].todo : Visited(id, i)
    BY <1>2, VisitStep DEF TreeInv, world
  <2> QED
    BY <2>1, VisitedTree
<1>3. ASSUME NEW id \in DOMAIN frames, DepsDone(id) PROVE TreeInv'
  <2>1. UNCHANGED <<recipe, jobs, cmds>> /\ frames[id].at = "deps" /\ ChildrenOf(id) = {}
    BY <1>3, DepsDoneStep DEF world
  <2>2. CASE Exits(id, "failed") \/ Exits(id, "ok")
    BY <2>1, <2>2, ExitsTree
  <2>3. CASE /\ Staged(id, "lock") \/ Staged(id, "test")
             /\ ~frames[id].failed /\ UNCHANGED <<lock, result>>
    <3>1. id \notin DOMAIN cmds
      BY <2>1 DEF TreeInv, CmdsOK, Live, Ended
    <3> QED
      BY <1>0, <2>1, <2>3, <3>1, StagedTree
  <2> QED
    BY <1>3, <2>2, <2>3, DepsDoneStep
<1>4. ASSUME NEW id \in DOMAIN frames, frames[id].at \in Later, NEW l \in Later,
             Staged(id, l), UNCHANGED <<recipe, jobs>>,
             DOMAIN cmds' \subseteq DOMAIN cmds \cup {id},
             id \in DOMAIN cmds' => l = "wait",
             Holders' \subseteq Holders \cup {id}
      PROVE  TreeInv'
  <2>1. ChildrenOf(id) = {} /\ ~frames[id].failed /\ l # "enter" /\ l # "deps"
    BY <1>4 DEF TreeInv, LaterOK, Later
  <2> QED
    BY <1>4, <2>1, StagedTree
<1>5. ASSUME NEW id \in DOMAIN frames, TakeLock(id) PROVE TreeInv'
  <2>1. /\ UNCHANGED <<recipe, jobs, cmds>> /\ frames[id].at = "lock" /\ Staged(id, "test")
        /\ lock' = [lock EXCEPT ![TargetOf(id)] = id]
    BY <1>5, TakeLockStep DEF world
  <2>2. Holders' \subseteq Holders \cup {id}
    BY <2>1, SameCalls DEF Holders
  <2>3. id \notin DOMAIN cmds
    BY <2>1 DEF TreeInv, CmdsOK, Live, Ended
  <2> QED
    BY <1>4, <2>1, <2>2, <2>3 DEF Later
<1>6. ASSUME NEW id \in DOMAIN frames, Test(id) PROVE TreeInv'
  <2>1. /\ UNCHANGED <<recipe, jobs, cmds, lock>> /\ frames[id].at = "test"
        /\ Staged(id, "start") \/ Staged(id, "done")
    BY <1>6, TestStep DEF world
  <2>2. id \notin DOMAIN cmds
    BY <2>1 DEF TreeInv, CmdsOK, Live, Ended
  <2> QED
    BY <1>0, <1>4, <2>1, <2>2 DEF Later
<1>7. ASSUME NEW id \in DOMAIN frames, Start(id) PROVE TreeInv'
  <2>1. /\ UNCHANGED <<recipe, jobs, lock>> /\ frames[id].at = "start" /\ Staged(id, "wait")
        /\ DOMAIN cmds' = DOMAIN cmds \cup {id}
    BY <1>7, StartStep DEF world
  <2> QED
    BY <1>0, <1>4, <2>1 DEF Later
<1>8. ASSUME NEW id \in DOMAIN frames, Done(id) PROVE TreeInv'
  BY <1>8, DoneStep, ExitsTree DEF world
<1>9. ASSUME NEW id \in DOMAIN frames, NEW c \in DOMAIN frames, Collect(id, c)
      PROVE  TreeInv'
  BY <1>9, CollectStep, CollectedTree DEF world
<1>10. ASSUME NEW id \in DOMAIN frames, NEW c \in DOMAIN frames, Return(id, c)
       PROVE  TreeInv'
  <2>1. UNCHANGED <<recipe, jobs, cmds>>
    BY <1>10, ReturnStep DEF world
  <2> QED
    BY <1>10, <2>1, ReturnStep, CollectedTree, ExitsTree
<1>11. ASSUME NEW id \in DOMAIN frames, ForkFails(id) PROVE TreeInv'
  BY <1>11, ForkFailsStep, ExitsTree DEF world
<1>12. ASSUME NEW id \in DOMAIN frames, Kill(id) PROVE TreeInv'
  <2>1. UNCHANGED <<recipe, jobs, cmds>>
    BY <1>12, KillStep DEF world
  <2>2. \A t \in Targets : lock'[t] = lock[t] \/ lock'[t] = NoOne
    BY <1>12, KillStep
  <2>3. Holders' \subseteq Holders
    BY <2>1, <2>2, HoldersKept
  <2> QED
    BY <1>12, <2>1, <2>3, KillStep, LeavesTree, AllGoTree
<1>13. ASSUME NEW id \in DOMAIN cmds, \A t \in Targets : lock'[t] = lock[t] \/ lock'[t] = NoOne,
              UNCHANGED <<recipe, jobs>>, Gone(id), UNCHANGED frames, id \notin Live
       PROVE  TreeInv'
  <2>1. Holders' \subseteq Holders /\ DOMAIN cmds' \subseteq DOMAIN cmds
    BY <1>13, HoldersKept DEF Gone
  <2>2. EnterOK' /\ TodoOK' /\ LaterOK'
    <3>1. id \in InUse
      BY <1>13 DEF InUse
    <3>2. id \in DOMAIN frames => Ended(id)
      BY <1>13 DEF Live
    <3> QED
      BY <1>13, <2>1, <3>1, <3>2, NoneAdded DEF Ended, Later
  <2>3. Live' = Live /\ \A x : Ended(x)' <=> Ended(x)
    BY <1>13 DEF Live, Ended
  <2> QED
    BY <1>13, <2>1, <2>2, <2>3 DEF TreeInv, EndedOK, CmdsOK
<1>14. ASSUME NEW id \in DOMAIN cmds, Finish(id) PROVE TreeInv'
  <2>1. UNCHANGED <<recipe, jobs>> /\ Gone(id) /\ lock' = Release(id)
    BY <1>14, FinishStep DEF world
  <2>2. \A t \in Targets : lock'[t] = lock[t] \/ lock'[t] = NoOne
    BY <2>1 DEF Release
  <2>3. CASE id \in Live
    <3>1. Staged(id, "done") /\ frames[id].at = "wait" /\ id \in DOMAIN frames
      BY <1>14, <2>3, FinishStep DEF TreeInv, CmdsOK, Live
    <3>2. Holders' \subseteq Holders
      BY <2>1, <2>2, HoldersKept
    <3> QED
      BY <1>4, <2>1, <3>1, <3>2 DEF Later, Gone
  <2>4. CASE id \notin Live
    BY <1>13, <1>14, <2>1, <2>2, <2>4, FinishStep
  <2> QED
    BY <2>3, <2>4
<1>15. ASSUME NEW id \in DOMAIN cmds, CommandFails(id) PROVE TreeInv'
  <2>1. UNCHANGED <<recipe, jobs>> /\ Gone(id)
    BY <1>15, CommandFailsStep DEF world
  <2>2. CASE Exits(id, "failed")
    BY <2>1, <2>2, ExitsTree DEF Gone
  <2>3. CASE id \in Live /\ Staged(id, "done") /\ UNCHANGED <<lock, result>>
    <3>1. frames[id].at = "wait" /\ id \in DOMAIN frames
      BY <2>3 DEF TreeInv, CmdsOK, Live
    <3> QED
      BY <1>0, <1>4, <2>1, <2>3, <3>1 DEF Later, Gone
  <2>4. CASE id \notin Live /\ lock' = Release(id) /\ UNCHANGED <<frames, result>>
    <3>1. \A t \in Targets : lock'[t] = lock[t] \/ lock'[t] = NoOne
      BY <2>4 DEF Release
    <3> QED
      BY <1>13, <2>1, <2>4, <3>1
  <2> QED
    BY <1>15, <2>2, <2>3, <2>4, CommandFailsStep
<1>16. ASSUME NEW n \in Jobs, Invoke(n) PROVE TreeInv'
  BY <1>16, InvokeTree
<1>17. ASSUME NEW t \in Edited, NEW kind \in EditKinds, Edit(t, kind) PROVE TreeInv'
  BY <1>17 DEF Edit, TreeInv, EnterOK, TodoOK, LaterOK, EndedOK, CmdsOK
<1> QED
  BY <1>1, <1>2, <1>3, <1>5, <1>6, <1>7, <1>8, <1>9, <1>10, <1>11, <1>12, <1>14,
     <1>15, <1>16, <1>17 DEF Next, Call

LEMMA TypedTree ==
  Spec => [](TypeOK /\ TreeInv)
<1>1. Init => TypeOK /\ TreeInv
  <2>1. ASSUME Init PROVE TypeOK
    <3>1. Missing \in [made : BOOLEAN, time : 0 .. 0, content : Content]
      BY DEF Missing, Content
    <3>2. <<>> \in Seq(Jobs) /\ Len(<<>>) = 0
      OBVIOUS
    <3>3. DOMAIN frames = {} /\ DOMAIN cmds = {}
      BY <2>1 DEF Init
    <3>4. frames \in [DOMAIN frames -> FrameType] /\ cmds \in [DOMAIN cmds -> Content]
      BY <2>1, <3>3 DEF Init
    <3> QED
      BY <2>1, <3>1, <3>2, <3>3, <3>4, BoundsAssumption DEF Init, TypeOK
  <2>2. ASSUME Init PROVE TreeInv
    <3>1. DOMAIN frames = {} /\ DOMAIN cmds = {}
      BY <2>2 DEF Init
    <3> QED
      BY <3>1 DEF TreeInv, EnterOK, TodoOK, LaterOK, EndedOK, CmdsOK
  <2> QED
    BY <2>1, <2>2
<1>2. TypeOK /\ TreeInv /\ [Next]_vars => (TypeOK /\ TreeInv)'
  <2>1. ASSUME TypeOK, TreeInv, Next PROVE (TypeOK /\ TreeInv)'
    BY <2>1, Typed, TreeStep DEF TreeInv
  <2>2. ASSUME TypeOK, TreeInv, UNCHANGED vars PROVE (TypeOK /\ TreeInv)'
    <3>1. UNCHANGED <<recipe, jobs, frames, cmds, lock>>
      BY <2>2 DEF vars
    <3>2. TypeOK'
      BY <2>2, SameCalls DEF TypeOK, vars
    <3>3. TreeInv'
      <4>1. InUse' = InUse /\ Holders' = Holders /\ Live' = Live
        BY <3>1, SameCalls DEF InUse, Holders, Live, Ended
      <4> QED
        BY <2>2, <3>1, <4>1 DEF TreeInv, EnterOK, TodoOK, StillToStart, Uniques, ChildAt,
             LaterOK, ChildrenOf, EndedOK, Ended, CmdsOK
    <3> QED
      BY <3>2, <3>3
  <2> QED
    BY <2>1, <2>2
<1> QED
  BY <1>1, <1>2, PTL DEF Spec

\* Calls, commands and locks are of invocations that were made, with paths from
\* the root; no output is newer than the clock.
THEOREM TypeCorrect == Spec => []TypeOK
BY TypedTree, PTL

-----------------------------------------------------------------------------
\* The locks

\* The calls between target_lock and target_unlock, and those that left their
\* command behind.
Guarded == {x \in DOMAIN frames : frames[x].at \in {"test", "start", "wait", "done"}}
             \cup DOMAIN cmds

\* Each has the lock of its target, if it takes locks at all.
LockInv == \A x \in Guarded : Locked(x) => lock[TargetOf(x)] = x

LEMMA GuardedType ==
  ASSUME TypeOK
  PROVE  Guarded \subseteq Calls /\ \A x \in Guarded : TargetOf(x) \in Targets /\ x # NoOne
<1>1. Guarded \subseteq Calls
  BY DEF TypeOK, Guarded
<1>2. NoOne \notin Calls
  BY NoOneAssumption DEF Calls
<1> QED
  BY <1>1, <1>2, CallType

\* It is enough that those that stay keep their locks.
LEMMA LocksKept ==
  ASSUME TypeOK, LockInv, UNCHANGED <<jobs, recipe>>, Guarded' \subseteq Guarded,
         \A x \in Guarded', t \in Targets : lock[t] = x => lock'[t] = x
  PROVE  LockInv'
BY GuardedType DEF LockInv, Locked

LEMMA ExitsLocks ==
  ASSUME TypeOK, LockInv, UNCHANGED <<jobs, recipe>>, NEW id, NEW res, Exits(id, res),
         DOMAIN cmds' \subseteq DOMAIN cmds \ {id}
  PROVE  LockInv'
<1>1. Guarded' \subseteq Guarded \ {id}
  <2>1. res \notin {"test", "start", "wait", "done"}
    BY DEF Exits, Leaves
  <2>2. \A x \in DOMAIN frames' : x \in DOMAIN frames /\ (x # id => frames'[x] = frames[x])
    BY DEF Exits, Leaves
  <2>3. id \in DOMAIN frames' => frames'[id].at = res
    BY DEF Exits, Leaves
  <2> QED
    BY <2>1, <2>2, <2>3 DEF Guarded
<1>2. \A t \in Targets : lock'[t] = lock[t] \/ lock[t] = id
  BY DEF Exits
<1> QED
  BY <1>1, <1>2, LocksKept

LEMMA StagedLocks ==
  ASSUME TypeOK, LockInv, UNCHANGED <<jobs, recipe, lock>>, NEW id, NEW l, Staged(id, l),
         DOMAIN cmds' \subseteq DOMAIN cmds \cup {id}, id \in Guarded \/ ~Locked(id)
  PROVE  LockInv'
<1>1. Guarded' \subseteq Guarded \cup {id}
  BY DEF Guarded, Staged
<1> QED
  BY <1>1 DEF LockInv, Locked

LEMMA LockStep ==
  ASSUME TypeOK, TreeInv, LockInv, Next
  PROVE  LockInv'
<1>0. \A id \in DOMAIN frames : id \in Live /\ frames[id].at # "wait" => id \notin DOMAIN cmds
  BY DEF TreeInv, CmdsOK
<1>1. ASSUME NEW id \in DOMAIN frames, Enter(id) PROVE LockInv'
  <2>1. UNCHANGED <<recipe, jobs, cmds>> /\ id \notin DOMAIN cmds /\ frames[id].at = "enter"
    BY <1>0, <1>1, EnterStep DEF world, Live, Ended
  <2>2. CASE Staged(id, "deps") /\ UNCHANGED lock
    <3>1. Guarded' \subseteq Guarded
      BY <2>1, <2>2 DEF Guarded, Staged
    <3> QED
      BY <2>1, <2>2, <3>1, LocksKept
  <2> QED
    BY <1>1, <2>1, <2>2, EnterStep, ExitsLocks
<1>2. ASSUME NEW id \in DOMAIN frames, Visit(id) PROVE LockInv'
  <2>1. UNCHANGED <<recipe, jobs, cmds, lock>> /\ \E i \in frames[id].todo : Visited(id, i)
    BY <1>2, VisitStep DEF TreeInv, world
  <2>2. Guarded' \subseteq Guarded
    BY <2>1 DEF Guarded, Visited, NewFrame
  <2> QED
    BY <2>1, <2>2, LocksKept
<1>3. ASSUME NEW id \in DOMAIN frames, DepsDone(id) PROVE LockInv'
  <2>1. UNCHANGED <<recipe, jobs, cmds>> /\ id \notin DOMAIN cmds /\ id \in Calls
    BY <1>0, <1>3, DepsDoneStep DEF world, Live, Ended, TypeOK
  <2>2. CASE Staged(id, "lock") /\ UNCHANGED lock
    <3>1. Guarded' \subseteq Guarded
      BY <2>1, <2>2 DEF Guarded, Staged
    <3> QED
      BY <2>1, <2>2, <3>1, LocksKept
  <2>3. CASE Staged(id, "test") /\ ~(JobsFor(id) > 1) /\ UNCHANGED lock
    <3>1. recipe[TargetOf(id)].parallel \in Nat
      BY <2>1, CallType, Positions
    <3>2. ~Locked(id)
      BY <2>3, <3>1 DEF JobsFor, Locked
    <3> QED
      BY <2>1, <2>3, <3>2, StagedLocks
  <2> QED
    BY <1>3, <2>1, <2>2, <2>3, DepsDoneStep, ExitsLocks
<1>4. ASSUME NEW id \in DOMAIN frames, TakeLock(id) PROVE LockInv'
  <2>1. /\ UNCHANGED <<recipe, jobs, cmds>> /\ Staged(id, "test")
        /\ lock[TargetOf(id)] = NoOne /\ lock' = [lock EXCEPT ![TargetOf(id)] = id]
    BY <1>4, TakeLockStep DEF world
  <2>2. Guarded' \subseteq Guarded \cup {id}
    BY <2>1 DEF Guarded, Staged
  <2>3. lock'[TargetOf(id)] = id
    BY <2>1, CallType DEF TypeOK
  <2>4. ASSUME NEW x \in Guarded, x # id, Locked(x) PROVE lock'[TargetOf(x)] = x
    <3>1. lock[TargetOf(x)] = x /\ x # NoOne /\ TargetOf(x) \in Targets
      BY <2>4, GuardedType DEF LockInv
    <3>2. TargetOf(x) # TargetOf(id)
      BY <2>1, <3>1
    <3> QED
      BY <2>1, <3>1, <3>2 DEF TypeOK
  <2> QED
    BY <2>1, <2>2, <2>3, <2>4 DEF LockInv, Locked
<1>5. ASSUME NEW id \in DOMAIN frames, Test(id) PROVE LockInv'
  <2>1. UNCHANGED <<recipe, jobs, cmds, lock>> /\ id \in Guarded
    BY <1>5, TestStep DEF world, Guarded
  <2> QED
    BY <1>5, <2>1, TestStep, StagedLocks
<1>6. ASSUME NEW id \in DOMAIN frames, Start(id) PROVE LockInv'
  <2>1. UNCHANGED <<recipe, jobs, lock>> /\ id \in Guarded
    BY <1>6, StartStep DEF world, Guarded
  <2> QED
    BY <1>6, <2>1, StartStep, StagedLocks
<1>7. ASSUME NEW id \in DOMAIN frames, Done(id) PROVE LockInv'
  <2>1. UNCHANGED <<recipe, jobs, cmds>> /\ id \notin DOMAIN cmds
    BY <1>0, <1>7, DoneStep DEF world, Live, Ended
  <2> QED
    BY <1>7, <2>1, DoneStep, ExitsLocks
<1>8. ASSUME NEW id \in DOMAIN frames, NEW c \in DOMAIN frames, Collected(id, c),
             UNCHANGED <<recipe, jobs, cmds, lock>>
      PROVE  LockInv'
  <2>1. Guarded' \subseteq Guarded
    BY <1>8 DEF Guarded, Collected
  <2> QED
    BY <1>8, <2>1, LocksKept
<1>9. ASSUME NEW id \in DOMAIN frames, NEW c \in DOMAIN frames, Collect(id, c) \/ Return(id, c)
      PROVE  LockInv'
  <2>1. CASE Collect(id, c)
    BY <1>8, <2>1, CollectStep DEF world
  <2>2. CASE Return(id, c)
    <3>1. UNCHANGED <<recipe, jobs, cmds>> /\ id \notin DOMAIN cmds
      BY <1>0, <2>2, ReturnStep DEF world, Live, Ended
    <3> QED
      BY <1>8, <2>2, <3>1, ReturnStep, ExitsLocks
  <2> QED
    BY <1>9, <2>1, <2>2
<1>10. ASSUME NEW id \in DOMAIN frames, ForkFails(id) PROVE LockInv'
  <2>1. UNCHANGED <<recipe, jobs, cmds>> /\ id \notin DOMAIN cmds
    BY <1>0, <1>10, ForkFailsStep DEF world, Live, Ended
  <2> QED
    BY <1>10, <2>1, ForkFailsStep, ExitsLocks
<1>11. ASSUME NEW id \in DOMAIN frames, Kill(id) PROVE LockInv'
  <2>1. UNCHANGED <<recipe, jobs, cmds>>
    BY <1>11, KillStep DEF world
  <2>2. CASE /\ Leaves(id, "failed")
             /\ lock' = [t \in Targets |-> IF lock[t] = id /\ id \notin DOMAIN cmds
                                             THEN NoOne ELSE lock[t]]
    <3>1. Guarded' \subseteq Guarded /\ (id \in Guarded' => id \in DOMAIN cmds)
      BY <2>1, <2>2 DEF Guarded, Leaves
    <3>2. \A t \in Targets : lock'[t] = lock[t] \/ (lock[t] = id /\ id \notin DOMAIN cmds)
      BY <2>2
    <3> QED
      BY <2>1, <3>1, <3>2, LocksKept
  <2>3. CASE /\ AllGo(id.inv)
             /\ lock' = [t \in Targets |->
                            IF lock[t] \in DOMAIN frames /\ lock[t].inv = id.inv
                                 /\ lock[t] \notin DOMAIN cmds
                            THEN NoOne ELSE lock[t]]
    <3>1. /\ Guarded' \subseteq Guarded
          /\ \A x \in Guarded' : x \in DOMAIN cmds \/ x.inv # id.inv
      BY <2>1, <2>3 DEF Guarded, AllGo
    <3>2. \A t \in Targets : \/ lock'[t] = lock[t]
                             \/ lock[t].inv = id.inv /\ lock[t] \notin DOMAIN cmds
      BY <2>3
    <3> QED
      BY <2>1, <3>1, <3>2, LocksKept
  <2> QED
    BY <1>11, <2>2, <2>3, KillStep
<1>12. ASSUME NEW id \in DOMAIN cmds, lock' = Release(id), UNCHANGED <<recipe, jobs>>,
              Gone(id), id \in Live => Staged(id, "done"), id \notin Live => UNCHANGED frames
       PROVE  LockInv'
  <2>1. Guarded' \subseteq Guarded
    BY <1>12 DEF Guarded, Gone, Staged
  <2>2. id \notin Live => id \notin Guarded'
    BY <1>12 DEF Guarded, Gone, Live, Ended
  <2>3. \A t \in Targets : lock'[t] = lock[t] \/ (lock[t] = id /\ id \notin Live)
    BY <1>12 DEF Release
  <2> QED
    BY <1>12, <2>1, <2>2, <2>3, LocksKept
<1>13. ASSUME NEW id \in DOMAIN cmds, Finish(id) PROVE LockInv'
  BY <1>12, <1>13, FinishStep DEF world
<1>14. ASSUME NEW id \in DOMAIN cmds, CommandFails(id) PROVE LockInv'
  <2>1. UNCHANGED <<recipe, jobs>> /\ Gone(id)
    BY <1>14, CommandFailsStep DEF world
  <2>2. CASE Exits(id, "failed")
    BY <2>1, <2>2, ExitsLocks DEF Gone
  <2>3. CASE Staged(id, "done") /\ UNCHANGED lock
    <3>1. DOMAIN cmds' \subseteq DOMAIN cmds \cup {id} /\ id \in Guarded
      BY <2>1 DEF Gone, Guarded
    <3> QED
      BY <2>1, <2>3, <3>1, StagedLocks
  <2>4. CASE id \notin Live /\ lock' = Release(id) /\ UNCHANGED frames
    BY <1>12, <2>1, <2>4
  <2> QED
    BY <1>14, <2>2, <2>3, <2>4, CommandFailsStep
<1>15. ASSUME NEW n \in Jobs, Invoke(n) PROVE LockInv'
  <2>1. Guarded' \subseteq Guarded
    BY <1>15, InvokeStep DEF Guarded, NewFrame
  <2>2. \A x \in Guarded : jobs'[x.inv] = jobs[x.inv]
    BY <1>15, InvokeStep, GuardedType, CallType
  <2> QED
    BY <1>15, <2>1, <2>2, InvokeStep DEF LockInv, Locked, world
<1>16. ASSUME NEW t \in Edited, NEW kind \in EditKinds, Edit(t, kind) PROVE LockInv'
  BY <1>16 DEF Edit, LockInv, Guarded
<1> QED
  BY <1>1, <1>2, <1>3, <1>4, <1>5, <1>6, <1>7, <1>9, <1>10, <1>11, <1>13, <1>14,
     <1>15, <1>16 DEF Next, Call

LEMMA LocksHeld ==
  Spec => []LockInv
<1>1. Init => LockInv
  BY DEF Init, LockInv, Guarded
<1>2. TypeOK /\ TreeInv /\ LockInv /\ [Next]_vars => LockInv'
  <2>1. ASSUME LockInv, UNCHANGED vars PROVE LockInv'
    BY <2>1 DEF LockInv, Guarded, Locked, vars
  <2> QED
    BY <2>1, LockStep
<1> QED
  BY <1>1, <1>2, TypedTree, PTL DEF Spec

\* target_lock serializes the commands of a target, whatever is killed: a
\* command has the lock of its target until it exits, because it inherited the
\* descriptor.
THEOREM CommandsSerialized == Spec => []OneBuilderAtATime
<1>1. LockInv => OneBuilderAtATime
  BY DEF LockInv, Guarded, OneBuilderAtATime
<1> QED
  BY <1>1, LocksHeld, PTL

-----------------------------------------------------------------------------
\* What is left behind

\* A failure on the way from meow's own call down to call x: it will reach the
\* top.
Failing(a) == frames[a].at = "failed" \/ (a \in Live /\ frames[a].failed)
Doomed(x) == \E a \in DOMAIN frames : Under(x, a) /\ Failing(a)

\* A call or a command of the build that runs is waited for, or the build will
\* fail.
WholeInv ==
  /\ result = "running" <=> Top \in DOMAIN frames
  /\ NothingLeftBehind
  /\ result = "running" =>
       /\ \A x \in DOMAIN frames :
            x.inv = Len(jobs) /\ ~IsRoot(x) =>
              ParentOf(x) \in Live \/ Doomed(ParentOf(x))
       /\ \A x \in DOMAIN cmds :
            x.inv = Len(jobs) => x \in Live \/ Doomed(x)

LEMMA UnderParent ==
  ASSUME NEW x \in Calls, ~IsRoot(x)
  PROVE  /\ ParentOf(x) \in Calls /\ Under(x, ParentOf(x)) /\ ~Under(ParentOf(x), x)
         /\ Len(ParentOf(x).path) < Len(x.path) /\ ParentOf(x).inv = x.inv
<1> DEFINE p == ParentOf(x)
           t == TargetOf(x)
<1>1. p \in Calls /\ x = ChildOf(p, t) /\ t \in Targets /\ p.inv = x.inv
  BY ParentFacts, CallType
<1> HIDE DEF p, t
<1>2. Under(x, p)
  BY <1>1, UnderChild, UnderOrder
<1>3. ~Under(p, x)
  BY <1>1, UnderChild
<1>4. Len(x.path) = Len(p.path) + 1 /\ Len(p.path) \in Nat
  BY <1>1, ChildFacts, CallType
<1> QED
  BY <1>1, <1>2, <1>3, <1>4 DEF p

\* The end of a call that fails, or that nothing is left of
LEMMA LeavesDoom ==
  ASSUME TypeOK, TreeInv, WholeInv, UNCHANGED jobs, result = "running",
         NEW id, NEW res, Leaves(id, res), id # Top,
         res = "failed" \/ (ChildrenOf(id) = {} /\ ~frames[id].failed)
  PROVE  /\ res = "failed" /\ id.inv = Len(jobs) => Doomed(id)'
         /\ \A x \in Calls : x.inv = Len(jobs) /\ Doomed(x) => Doomed(x)'
<1>1. /\ id \in Live /\ id \in DOMAIN frames /\ id \in Calls /\ res \in {"ok", "failed"}
      /\ DOMAIN frames' = DOMAIN frames \ ({c \in ChildrenOf(id) : Ended(c)}
                                        \cup (IF Told(id) THEN {} ELSE {id}))
      /\ \A x \in DOMAIN frames' : x # id => frames'[x] = frames[x]
      /\ Told(id) => frames'[id].at = res
      /\ DOMAIN frames \subseteq Calls
  BY DEF Leaves, Live, TypeOK
<1>2. \A a \in DOMAIN frames' : a # id /\ Failing(a) => Failing(a)'
  BY <1>1 DEF Failing, Live, Ended
<1>3. ASSUME res = "failed", id.inv = Len(jobs) PROVE Doomed(id)'
  <2>1. CASE Told(id)
    <3>1. id \in DOMAIN frames' /\ frames'[id].at = "failed"
      BY <1>1, <1>3, <2>1 DEF Ended, Live
    <3> QED
      BY <1>1, <3>1, UnderOrder DEF Doomed, Failing
  <2>2. CASE ~Told(id)
    <3>1. ~IsRoot(id)
      BY <1>1, <1>3, UnderTop
    <3>2. Doomed(ParentOf(id))
      BY <1>1, <1>3, <2>2, <3>1 DEF Told, WholeInv
    <3>3. PICK b \in DOMAIN frames : Under(ParentOf(id), b) /\ Failing(b)
      BY <3>2 DEF Doomed
    <3>4. ParentOf(id) \in Calls /\ Under(id, ParentOf(id)) /\ ~Under(ParentOf(id), id)
      BY <1>1, <3>1, UnderParent
    <3>5. Under(id, b) /\ b # id /\ ~Under(b, id)
      BY <1>1, <3>3, <3>4, UnderOrder
    <3>6. b \notin ChildrenOf(id)
      BY <1>1, <3>5, UnderParent DEF ChildrenOf
    <3> QED
      BY <1>1, <1>2, <3>3, <3>5, <3>6 DEF Doomed
  <2> QED
    BY <2>1, <2>2
<1>4. ASSUME NEW x \in Calls, x.inv = Len(jobs), Doomed(x) PROVE Doomed(x)'
  <2>1. PICK a \in DOMAIN frames : Under(x, a) /\ Failing(a)
    BY <1>4 DEF Doomed
  <2>2. CASE a \in DOMAIN frames' /\ a # id
    BY <1>2, <2>1, <2>2 DEF Doomed
  <2>3. CASE a = id \/ a \notin DOMAIN frames'
    <3>1. Under(x, id) /\ res = "failed"
      <4>1. CASE a = id
        BY <1>1, <2>1, <4>1 DEF Failing, Live, Ended
      <4>2. CASE a # id
        <5>1. a \in ChildrenOf(id) /\ a \in Calls
          BY <1>1, <2>1, <2>3, <4>2
        <5>2. Under(a, id)
          BY <5>1, UnderParent DEF ChildrenOf
        <5> QED
          BY <1>1, <2>1, <5>1, <5>2, UnderOrder
      <4> QED
        BY <4>1, <4>2
    <3>2. id.inv = Len(jobs)
      BY <1>4, <3>1 DEF Under
    <3>3. PICK b \in DOMAIN frames' : Under(id, b) /\ Failing(b)'
      BY <1>3, <3>1, <3>2 DEF Doomed
    <3>4. Under(x, b)
      BY <1>1, <3>1, <3>3, UnderOrder
    <3> QED
      BY <3>3, <3>4 DEF Doomed
  <2> QED
    BY <2>2, <2>3
<1> QED
  BY <1>3, <1>4

\* Meow's own call ends well: nothing else of the build is left.
LEMMA NothingElse ==
  ASSUME TypeOK, TreeInv, WholeInv, Top \in Live, ChildrenOf(Top) = {},
         ~frames[Top].failed, Top \notin DOMAIN cmds
  PROVE  \A x \in (DOMAIN frames \cup DOMAIN cmds) \ {Top} : x.inv # Len(jobs)
<1> DEFINE S == {x \in DOMAIN frames \ {Top} : x.inv = Len(jobs)}
           N == {Len(x.path) : x \in S}
<1>1. /\ \A x \in S : x \in DOMAIN frames /\ x # Top /\ x \in Calls
                      /\ x.inv = Len(jobs) /\ Len(x.path) \in Nat
      /\ Top \in DOMAIN frames /\ Top \in Calls /\ result = "running"
  BY CallType DEF TypeOK, Live, WholeInv
<1>2. ~Failing(Top)
  BY DEF Failing, Live, Ended
<1>3. S = {}
  <2>1. SUFFICES ASSUME S # {} PROVE FALSE
    OBVIOUS
  <2>2. N \subseteq Nat /\ N # {}
    BY <1>1, <2>1
  <2>3. PICK w \in S : \A y \in S : Len(w.path) <= Len(y.path)
    <3> HIDE DEF S
    <3>1. PICK n \in N : \A m \in N : n <= m
      BY <2>2, Least
    <3> QED
      BY <3>1
  <2>4. ~IsRoot(w)
    BY <1>1, UnderTop
  <2>5. /\ ParentOf(w) \in Calls /\ Len(ParentOf(w).path) < Len(w.path)
        /\ Len(ParentOf(w).path) \in Nat /\ ParentOf(w).inv = Len(jobs)
    BY <1>1, <2>4, UnderParent, CallType
  <2>6. ParentOf(w) \notin Live
    <3>1. SUFFICES ASSUME ParentOf(w) \in Live PROVE FALSE
      OBVIOUS
    <3>2. ParentOf(w) \notin S
      BY <1>1, <2>3, <2>5
    <3>3. ParentOf(w) = Top
      BY <2>5, <3>1, <3>2 DEF Live
    <3> QED
      BY <1>1, <2>4, <3>3 DEF ChildrenOf
  <2>7. PICK a \in DOMAIN frames : Under(ParentOf(w), a) /\ Failing(a)
    BY <1>1, <2>4, <2>6 DEF WholeInv, Doomed
  <2>8. a \in Calls /\ Len(a.path) \in Nat /\ Len(a.path) <= Len(ParentOf(w).path) /\ a.inv = Len(jobs)
    BY <2>5, <2>7, CallType DEF TypeOK, Under
  <2>9. a \notin S
    BY <1>1, <2>3, <2>5, <2>8
  <2> QED
    BY <1>2, <2>7, <2>8, <2>9
<1>4. ASSUME NEW x \in DOMAIN cmds, x # Top, x.inv = Len(jobs) PROVE FALSE
  <2>1. x \notin Live
    BY <1>3, <1>4 DEF Live
  <2>2. PICK a \in DOMAIN frames : Under(x, a) /\ Failing(a)
    BY <1>1, <1>4, <2>1 DEF WholeInv, Doomed
  <2>3. a.inv = Len(jobs)
    BY <1>4, <2>2 DEF Under
  <2> QED
    BY <1>2, <1>3, <2>2, <2>3
<1> QED
  BY <1>3, <1>4

LEMMA LeavesWhole ==
  ASSUME TypeOK, TreeInv, WholeInv, UNCHANGED jobs, NEW id, NEW res, Leaves(id, res),
         DOMAIN cmds' \subseteq DOMAIN cmds,
         result' = IF IsRoot(id) /\ id.inv = Len(jobs) THEN res ELSE result,
         \/ res = "failed"
         \/ ChildrenOf(id) = {} /\ ~frames[id].failed /\ id \notin DOMAIN cmds
  PROVE  WholeInv'
<1>1. /\ id \in Live /\ id \in DOMAIN frames /\ id \in Calls /\ res \in {"ok", "failed"}
      /\ DOMAIN frames' = DOMAIN frames \ ({c \in ChildrenOf(id) : Ended(c)}
                                        \cup (IF Told(id) THEN {} ELSE {id}))
      /\ \A x \in DOMAIN frames' : x # id => frames'[x] = frames[x]
      /\ DOMAIN frames \subseteq Calls /\ DOMAIN cmds \subseteq Calls
      /\ Top' = Top
  BY DEF Leaves, Live, TypeOK, Top
<1>2. CASE id = Top
  <2>1. IsRoot(id) /\ id.inv = Len(jobs)
    BY <1>2 DEF IsRoot, Top
  <2>2. Top \notin DOMAIN frames' /\ result' = res
    BY <1>1, <1>2, <2>1 DEF Told
  <2>3. NothingLeftBehind'
    <3>1. CASE res = "failed"
      BY <2>2, <3>1 DEF NothingLeftBehind
    <3>2. CASE res # "failed"
      <4>1. \A x \in (DOMAIN frames \cup DOMAIN cmds) \ {Top} : x.inv # Len(jobs)
        BY <1>1, <1>2, <3>2, NothingElse
      <4>2. Top \notin DOMAIN cmds'
        BY <1>2, <3>2
      <4> QED
        BY <1>1, <2>2, <4>1, <4>2 DEF NothingLeftBehind
    <3> QED
      BY <3>1, <3>2
  <2> QED
    BY <1>1, <2>2, <2>3 DEF WholeInv
<1>3. CASE id # Top
  <2>1. UNCHANGED result
    BY <1>1, <1>3, UnderTop
  <2>2. Top \in DOMAIN frames' <=> Top \in DOMAIN frames
    <3>1. IsRoot(Top)
      BY DEF IsRoot, Top
    <3> QED
      BY <1>1, <1>3, <3>1 DEF ChildrenOf
  <2>3. NothingLeftBehind'
    BY <1>1, <2>1 DEF WholeInv, NothingLeftBehind
  <2>4. ASSUME result = "running", NEW x \in DOMAIN frames', x.inv = Len(jobs), ~IsRoot(x)
        PROVE  ParentOf(x) \in Live' \/ Doomed(ParentOf(x))'
    <3>1. x \in DOMAIN frames /\ x \in Calls /\ ParentOf(x) \in Calls /\ ParentOf(x).inv = Len(jobs)
      BY <1>1, <2>4, UnderParent
    <3>2. ParentOf(x) \in Live \/ Doomed(ParentOf(x))
      BY <2>4, <3>1 DEF WholeInv
    <3>3. CASE Doomed(ParentOf(x))
      BY <1>3, <2>4, <3>1, <3>3, LeavesDoom
    <3>4. CASE ParentOf(x) = id
      <4>1. x \in ChildrenOf(id)
        BY <2>4, <3>1, <3>4 DEF ChildrenOf
      <4> QED
        BY <1>3, <2>4, <3>1, <3>4, <4>1, LeavesDoom
    <3>5. CASE ParentOf(x) \in Live /\ ParentOf(x) # id
      BY <1>1, <3>5 DEF Live, Ended
    <3> QED
      BY <3>2, <3>3, <3>4, <3>5
  <2>5. ASSUME result = "running", NEW x \in DOMAIN cmds', x.inv = Len(jobs)
        PROVE  x \in Live' \/ Doomed(x)'
    <3>1. x \in DOMAIN cmds /\ x \in Calls /\ (x \in Live \/ Doomed(x))
      BY <1>1, <2>5 DEF WholeInv
    <3>2. CASE Doomed(x)
      BY <1>3, <2>5, <3>1, <3>2, LeavesDoom
    <3>3. CASE x = id
      BY <1>3, <2>5, <3>1, <3>3, LeavesDoom
    <3>4. CASE x \in Live /\ x # id
      BY <1>1, <3>4 DEF Live, Ended
    <3> QED
      BY <3>1, <3>2, <3>3, <3>4
  <2> QED
    BY <1>1, <2>1, <2>2, <2>3, <2>4, <2>5 DEF WholeInv
<1> QED
  BY <1>2, <1>3

\* Steps after which whatever was failing or live still is
LEMMA WholeKept ==
  ASSUME TypeOK, TreeInv, WholeInv, UNCHANGED <<jobs, result>>, NEW id \in DOMAIN frames,
         Top \in DOMAIN frames' <=> Top \in DOMAIN frames,
         Live \subseteq Live',
         \A x \in Calls : Doomed(x) => Doomed(x)',
         \A x \in DOMAIN frames' :
           x \in DOMAIN frames \/ (~IsRoot(x) /\ ParentOf(x) = id /\ id \in Live),
         \A x \in DOMAIN cmds' : x \in DOMAIN cmds \/ (x = id /\ id \in Live)
  PROVE  WholeInv'
<1>1. Top' = Top /\ DOMAIN frames \subseteq Calls /\ DOMAIN cmds \subseteq Calls
  BY DEF Top, TypeOK
<1>2. NothingLeftBehind'
  <2>1. \A x : ParentOf(x).inv = x.inv
    BY DEF ParentOf
  <2>2. result = "ok" => id.inv # Len(jobs)
    BY DEF WholeInv, NothingLeftBehind
  <2> QED
    BY <2>1, <2>2 DEF WholeInv, NothingLeftBehind
<1>3. ASSUME result = "running", NEW x \in DOMAIN frames', x.inv = Len(jobs), ~IsRoot(x)
      PROVE  ParentOf(x) \in Live' \/ Doomed(ParentOf(x))'
  <2>1. CASE x \in DOMAIN frames
    <3>1. ParentOf(x) \in Live \/ Doomed(ParentOf(x))
      BY <1>3, <2>1 DEF WholeInv
    <3>2. ParentOf(x) \in Calls
      BY <1>1, <1>3, <2>1, UnderParent
    <3> QED
      BY <3>1, <3>2
  <2> QED
    BY <1>3, <2>1
<1>4. ASSUME result = "running", NEW x \in DOMAIN cmds', x.inv = Len(jobs)
      PROVE  x \in Live' \/ Doomed(x)'
  BY <1>1, <1>4 DEF WholeInv
<1> QED
  BY <1>1, <1>2, <1>3, <1>4 DEF WholeInv

LEMMA StagedWhole ==
  ASSUME TypeOK, TreeInv, WholeInv, UNCHANGED <<jobs, result>>, NEW id, NEW l,
         Staged(id, l), DOMAIN cmds' \subseteq DOMAIN cmds \cup {id}
  PROVE  WholeInv'
<1>1. /\ id \in DOMAIN frames /\ id \in Live /\ DOMAIN frames' = DOMAIN frames
      /\ \A x \in DOMAIN frames : x # id => frames'[x] = frames[x]
      /\ frames'[id].at \notin {"ok", "failed"} /\ frames'[id].failed = frames[id].failed
      /\ Top' = Top
  BY DEF Staged, Live, Top
<1>2. Live' = Live
  BY <1>1 DEF Live, Ended
<1>3. \A a \in DOMAIN frames : Failing(a) => Failing(a)'
  BY <1>1, <1>2 DEF Failing, Live, Ended
<1>4. \A x : Doomed(x) => Doomed(x)'
  BY <1>1, <1>3 DEF Doomed
<1> QED
  BY <1>1, <1>2, <1>4, WholeKept

LEMMA VisitedWhole ==
  ASSUME TypeOK, TreeInv, WholeInv, UNCHANGED <<jobs, result, cmds>>, NEW id, NEW i,
         Visited(id, i)
  PROVE  WholeInv'
<1> DEFINE c == ChildAt(id, i)
<1>1. /\ id \in DOMAIN frames /\ id \in Live /\ id \in Calls /\ c \in Calls /\ id # c
      /\ DOMAIN frames' = DOMAIN frames \cup {c}
      /\ \A x \in DOMAIN frames \ {c} : x # id => frames'[x] = frames[x]
      /\ frames'[id].at = "deps" /\ frames'[id].failed = frames[id].failed
      /\ frames[id].at = "deps" /\ i \in frames[id].todo
  BY DEF Visited, Live, TypeOK
<1>2. c \notin DOMAIN frames
  BY <1>1, UnderOrder DEF TreeInv, TodoOK, StillToStart, InUse
<1>3. ~IsRoot(c) /\ ParentOf(c) = id
  <2>1. TargetOf(id) \in Targets /\ i \in Uniques(TargetOf(id), {})
    BY <1>1, CallType DEF TreeInv, TodoOK, StillToStart
  <2>2. recipe[TargetOf(id)].deps[i] \in Targets
    BY <2>1, Positions DEF Uniques
  <2> QED
    BY <1>1, <2>2, ChildFacts DEF ChildAt
<1> HIDE DEF c
<1>4. Live \subseteq Live' /\ \A a \in DOMAIN frames : Failing(a) => Failing(a)'
  BY <1>1, <1>2 DEF Failing, Live, Ended
<1>5. \A x : Doomed(x) => Doomed(x)'
  BY <1>1, <1>4 DEF Doomed
<1>6. Top' = Top /\ Top # c
  BY <1>3 DEF Top, IsRoot
<1> QED
  BY <1>1, <1>3, <1>4, <1>5, <1>6, WholeKept

LEMMA CollectedWhole ==
  ASSUME TypeOK, TreeInv, WholeInv, UNCHANGED <<jobs, result, cmds>>, NEW id, NEW c,
         Collected(id, c)
  PROVE  WholeInv'
<1>1. /\ id \in DOMAIN frames /\ id \in Live /\ id \in Calls /\ c \in Calls /\ id # c
      /\ c \in DOMAIN frames /\ ~IsRoot(c) /\ ParentOf(c) = id /\ Ended(c)
      /\ DOMAIN frames' = DOMAIN frames \ {c}
      /\ \A x \in DOMAIN frames \ {c} : x # id => frames'[x] = frames[x]
      /\ frames'[id].at = "deps"
      /\ frames[id].failed \/ frames[c].at = "failed" => frames'[id].failed
      /\ frames[id].at = "deps"
  BY DEF Collected, Live, ChildrenOf, TypeOK
<1>2. Live' = Live
  BY <1>1 DEF Live, Ended
<1>3. /\ \A a \in DOMAIN frames : Failing(a) /\ a # c => Failing(a)'
      /\ Failing(c) => Failing(id)'
  BY <1>1, <1>2 DEF Failing, Live, Ended
<1>4. ASSUME NEW x \in Calls, Doomed(x) PROVE Doomed(x)'
  <2>1. PICK a \in DOMAIN frames : Under(x, a) /\ Failing(a)
    BY <1>4 DEF Doomed
  <2>2. CASE a # c
    BY <1>1, <1>3, <2>1, <2>2 DEF Doomed
  <2>3. CASE a = c
    <3>1. Under(c, id)
      BY <1>1, UnderParent
    <3>2. Under(x, id)
      BY <1>1, <2>1, <2>3, <3>1, UnderOrder
    <3> QED
      BY <1>1, <1>3, <2>1, <2>3, <3>2 DEF Doomed
  <2> QED
    BY <2>2, <2>3
<1>5. Top' = Top /\ Top # c
  BY <1>1 DEF Top, IsRoot
<1>6. DOMAIN frames \subseteq Calls
  BY DEF TypeOK
<1> QED
  BY <1>1, <1>2, <1>4, <1>5, <1>6, WholeKept

\* A command that nobody waits for ends.
LEMMA GoneWhole ==
  ASSUME TypeOK, TreeInv, WholeInv, UNCHANGED <<jobs, result, frames>>, NEW id, Gone(id)
  PROVE  WholeInv'
<1>1. Live' = Live /\ Top' = Top /\ DOMAIN cmds' \subseteq DOMAIN cmds
  BY DEF Live, Ended, Top, Gone
<1>2. \A x : Doomed(x)' <=> Doomed(x)
  BY <1>1 DEF Doomed, Failing
<1> QED
  BY <1>1, <1>2 DEF WholeInv, NothingLeftBehind

LEMMA AllGoWhole ==
  ASSUME TypeOK, TreeInv, WholeInv, UNCHANGED <<jobs, cmds>>, NEW id \in DOMAIN frames,
         AllGo(id.inv),
         result' = IF id.inv = Len(jobs) /\ Top \in DOMAIN frames THEN "failed" ELSE result
  PROVE  WholeInv'
<1>1. /\ DOMAIN frames' = {x \in DOMAIN frames : x.inv # id.inv}
      /\ \A x \in DOMAIN frames' : frames'[x] = frames[x]
      /\ Top' = Top /\ Top.inv = Len(jobs)
  BY DEF AllGo, Top
<1>2. CASE id.inv = Len(jobs)
  <2>1. Top \notin DOMAIN frames' /\ result' # "running"
    BY <1>1, <1>2 DEF WholeInv
  <2>2. result' # "ok"
    BY <1>2 DEF WholeInv, NothingLeftBehind
  <2> QED
    BY <1>1, <2>1, <2>2 DEF WholeInv, NothingLeftBehind
<1>3. CASE id.inv # Len(jobs)
  <2>1. Top \in DOMAIN frames' <=> Top \in DOMAIN frames
    BY <1>1, <1>3
  <2>2. UNCHANGED result /\ NothingLeftBehind'
    BY <1>1, <1>3 DEF WholeInv, NothingLeftBehind
  <2>3. \A x \in Live : x.inv = Len(jobs) => x \in Live'
    BY <1>1, <1>3 DEF Live, Ended
  <2>4. \A a \in DOMAIN frames : a.inv = Len(jobs) /\ Failing(a) => a \in DOMAIN frames' /\ Failing(a)'
    BY <1>1, <1>3, <2>3 DEF Failing, Live, Ended
  <2>5. \A x : x.inv = Len(jobs) /\ Doomed(x) => Doomed(x)'
    BY <2>4 DEF Doomed, Under
  <2>6. \A x : ParentOf(x).inv = x.inv
    BY DEF ParentOf
  <2> QED
    BY <1>1, <2>1, <2>2, <2>3, <2>5, <2>6 DEF WholeInv
<1> QED
  BY <1>2, <1>3

LEMMA InvokeWhole ==
  ASSUME TypeOK, TreeInv, WholeInv, NEW n \in Jobs, Invoke(n)
  PROVE  WholeInv'
<1>1. /\ DOMAIN frames' = DOMAIN frames \cup {Top'}
      /\ DOMAIN cmds' = DOMAIN cmds
      /\ result' = "running" /\ IsRoot(Top')
      /\ \A x \in Calls : x.inv # Top'.inv
  BY InvokeStep
<1>2. Top'.inv = Len(jobs') /\ DOMAIN frames \subseteq Calls /\ DOMAIN cmds \subseteq Calls
  BY DEF Top, TypeOK
<1> QED
  BY <1>1, <1>2 DEF WholeInv, NothingLeftBehind

LEMMA WholeStep ==
  ASSUME TypeOK, TreeInv, WholeInv, Next
  PROVE  WholeInv'
<1>0. /\ \A id \in DOMAIN frames : id \in Live /\ frames[id].at # "wait" => id \notin DOMAIN cmds
      /\ \A id \in DOMAIN frames : frames[id].at = "enter" => ChildrenOf(id) = {} /\ ~frames[id].failed
  <2>1. ASSUME NEW id \in DOMAIN frames, frames[id].at = "enter", NEW c \in ChildrenOf(id)
        PROVE  FALSE
    <3>1. c \in InUse /\ c \in Calls /\ ~IsRoot(c) /\ ParentOf(c) = id
      BY <2>1 DEF InUse, ChildrenOf, TypeOK
    <3>2. Under(c, id) /\ ~Under(id, c)
      BY <3>1, UnderParent
    <3> QED
      BY <2>1, <3>1, <3>2 DEF TreeInv, EnterOK
  <2> QED
    BY <2>1 DEF TreeInv, CmdsOK, EnterOK
<1>1. ASSUME NEW id \in DOMAIN frames, Enter(id) PROVE WholeInv'
  <2>1. UNCHANGED <<jobs, cmds>> /\ id \notin DOMAIN cmds /\ ChildrenOf(id) = {} /\ ~frames[id].failed
    BY <1>0, <1>1, EnterStep DEF Live, Ended
  <2>2. CASE Exits(id, "ok") \/ Exits(id, "failed")
    BY <2>1, <2>2, LeavesWhole DEF Exits
  <2> QED
    BY <1>1, <2>1, <2>2, EnterStep, StagedWhole
<1>2. ASSUME NEW id \in DOMAIN frames, Visit(id) PROVE WholeInv'
  BY <1>2, VisitStep, VisitedWhole DEF TreeInv
<1>3. ASSUME NEW id \in DOMAIN frames, DepsDone(id) PROVE WholeInv'
  <2>1. UNCHANGED <<jobs, cmds>> /\ id \notin DOMAIN cmds /\ ChildrenOf(id) = {}
    BY <1>0, <1>3, DepsDoneStep DEF Live, Ended
  <2>2. CASE (Exits(id, "ok") /\ ~frames[id].failed) \/ Exits(id, "failed")
    BY <2>1, <2>2, LeavesWhole DEF Exits
  <2> QED
    BY <1>3, <2>1, <2>2, DepsDoneStep, StagedWhole
<1>4. ASSUME NEW id \in DOMAIN frames, TakeLock(id) \/ Test(id) PROVE WholeInv'
  BY <1>4, TakeLockStep, TestStep, StagedWhole
<1>5. ASSUME NEW id \in DOMAIN frames, Start(id) PROVE WholeInv'
  BY <1>5, StartStep, StagedWhole
<1>6. ASSUME NEW id \in DOMAIN frames, Done(id) PROVE WholeInv'
  <2>1. UNCHANGED <<jobs, cmds>> /\ id \notin DOMAIN cmds /\ frames[id].at = "done" /\ Exits(id, "ok")
    BY <1>0, <1>6, DoneStep DEF Live, Ended
  <2>2. ChildrenOf(id) = {} /\ ~frames[id].failed
    BY <2>1 DEF TreeInv, LaterOK, Later
  <2> QED
    BY <2>1, <2>2, LeavesWhole DEF Exits
<1>7. ASSUME NEW id \in DOMAIN frames, NEW c \in DOMAIN frames, Collect(id, c) \/ Return(id, c)
      PROVE  WholeInv'
  <2>1. CASE Collect(id, c)
    BY <2>1, CollectStep, CollectedWhole
  <2>2. CASE Return(id, c)
    BY <2>2, ReturnStep, CollectedWhole, LeavesWhole DEF Exits
  <2> QED
    BY <1>7, <2>1, <2>2
<1>8. ASSUME NEW id \in DOMAIN frames, ForkFails(id) PROVE WholeInv'
  BY <1>8, ForkFailsStep, LeavesWhole DEF Exits
<1>9. ASSUME NEW id \in DOMAIN frames, Kill(id) PROVE WholeInv'
  BY <1>9, KillStep, LeavesWhole, AllGoWhole
<1>10. ASSUME NEW id \in DOMAIN cmds, Finish(id) PROVE WholeInv'
  BY <1>10, FinishStep, StagedWhole, GoneWhole DEF Gone
<1>11. ASSUME NEW id \in DOMAIN cmds, CommandFails(id) PROVE WholeInv'
  <2>1. UNCHANGED jobs /\ Gone(id) /\ DOMAIN cmds' \subseteq DOMAIN cmds
    BY <1>11, CommandFailsStep DEF Gone
  <2>2. CASE Exits(id, "failed")
    BY <2>1, <2>2, LeavesWhole DEF Exits
  <2> QED
    BY <1>11, <2>1, <2>2, CommandFailsStep, StagedWhole, GoneWhole
<1>12. ASSUME NEW n \in Jobs, Invoke(n) PROVE WholeInv'
  BY <1>12, InvokeWhole
<1>13. ASSUME NEW t \in Edited, NEW kind \in EditKinds, Edit(t, kind) PROVE WholeInv'
  BY <1>13 DEF Edit, WholeInv, NothingLeftBehind, Top
<1> QED
  BY <1>1, <1>2, <1>3, <1>4, <1>5, <1>6, <1>7, <1>8, <1>9, <1>10, <1>11, <1>12,
     <1>13 DEF Next, Call

LEMMA Whole ==
  Spec => []WholeInv
<1>1. Init => WholeInv
  BY DEF Init, WholeInv, NothingLeftBehind
<1>2. TypeOK /\ TreeInv /\ WholeInv /\ [Next]_vars => WholeInv'
  <2>1. ASSUME WholeInv, UNCHANGED vars PROVE WholeInv'
    BY <2>1 DEF vars, WholeInv, NothingLeftBehind, Top, Live, Ended, Doomed, Failing
  <2> QED
    BY <2>1, WholeStep
<1> QED
  BY <1>1, <1>2, TypedTree, PTL DEF Spec

\* When meow exits with success none of its calls and none of its commands are
\* left: one that lost its caller has a failure between itself and the top, and
\* a failure is not forgotten on its way there.
THEOREM SuccessLeavesNothing == Spec => []NothingLeftBehind
<1>1. WholeInv => NothingLeftBehind
  BY DEF WholeInv
<1> QED
  BY <1>1, Whole, PTL

-----------------------------------------------------------------------------
\* What is built at all

\* Commands run only for targets of this machine whose condition holds, and
\* nothing else has an output.
StageInv ==
  /\ \A id \in DOMAIN frames :
       /\ frames[id].at \in Later => recipe[TargetOf(id)].condition = "build"
       /\ frames[id].at = "deps" => recipe[TargetOf(id)].condition # "off"
  /\ \A id \in DOMAIN cmds : recipe[TargetOf(id)].condition = "build"
  /\ \A t \in Targets :
       ~IsFile(t) \/ recipe[t].condition # "build" => out[t] = Missing

LEMMA StageKept ==
  ASSUME TypeOK, StageInv, UNCHANGED recipe,
         \A x \in DOMAIN frames' :
           \/ x \in DOMAIN frames /\ frames'[x].at = frames[x].at
           \/ /\ frames'[x].at \in Later => recipe[TargetOf(x)].condition = "build"
              /\ frames'[x].at = "deps" => recipe[TargetOf(x)].condition # "off",
         \A x \in DOMAIN cmds' : recipe[TargetOf(x)].condition = "build",
         \A t \in Targets : ~IsFile(t) \/ recipe[t].condition # "build" => out'[t] = Missing
  PROVE  StageInv'
BY DEF StageInv, IsFile, Missing

LEMMA StageStep ==
  ASSUME TypeOK, TreeInv, StageInv, Next
  PROVE  StageInv'
<1>1. ASSUME NEW id, NEW l, Staged(id, l), UNCHANGED <<recipe, out>>,
             l \in Later => recipe[TargetOf(id)].condition = "build",
             l = "deps" => recipe[TargetOf(id)].condition # "off",
             DOMAIN cmds' \subseteq DOMAIN cmds \cup {id},
             id \in DOMAIN cmds' => recipe[TargetOf(id)].condition = "build"
      PROVE  StageInv'
  <2>1. \A x \in DOMAIN frames' : x \in DOMAIN frames /\ (x # id => frames'[x] = frames[x])
    BY <1>1 DEF Staged
  <2>2. frames'[id].at = l
    BY <1>1 DEF Staged
  <2>3. \A x \in DOMAIN cmds' : recipe[TargetOf(x)].condition = "build"
    BY <1>1 DEF StageInv
  <2>4. \A t \in Targets : ~IsFile(t) \/ recipe[t].condition # "build" => out'[t] = Missing
    BY <1>1 DEF StageInv
  <2> QED
    BY <1>1, <2>1, <2>2, <2>3, <2>4, StageKept
<1>2. ASSUME NEW id, NEW res, Leaves(id, res), UNCHANGED recipe,
             DOMAIN cmds' \subseteq DOMAIN cmds,
             \A t \in Targets : ~IsFile(t) \/ recipe[t].condition # "build" => out'[t] = Missing
      PROVE  StageInv'
  <2>1. \A x \in DOMAIN frames' : x \in DOMAIN frames /\ (x # id => frames'[x] = frames[x])
    BY <1>2 DEF Leaves
  <2>2. id \in DOMAIN frames' => frames'[id].at \notin Later /\ frames'[id].at # "deps"
    BY <1>2 DEF Leaves, Later
  <2>3. \A x \in DOMAIN cmds' : recipe[TargetOf(x)].condition = "build"
    BY <1>2 DEF StageInv
  <2> QED
    BY <1>2, <2>1, <2>2, <2>3, StageKept
<1>3. \A t \in Targets : ~IsFile(t) \/ recipe[t].condition # "build" => out[t] = Missing
  BY DEF StageInv
<1>4. ASSUME NEW id, NEW res, Exits(id, res), UNCHANGED <<recipe, out>>,
             DOMAIN cmds' \subseteq DOMAIN cmds
      PROVE  StageInv'
  BY <1>2, <1>3, <1>4 DEF Exits
<1>5. ASSUME NEW id \in DOMAIN frames, Enter(id) PROVE StageInv'
  <2>1. UNCHANGED <<recipe, out, cmds>>
    BY <1>5, EnterStep DEF world
  <2>2. CASE Exits(id, "ok") \/ Exits(id, "failed")
    BY <1>4, <2>1, <2>2
  <2>3. CASE Staged(id, "deps") /\ recipe[TargetOf(id)].condition # "off"
    BY <1>1, <2>1, <2>3 DEF Later, StageInv
  <2> QED
    BY <1>5, <2>2, <2>3, EnterStep
<1>6. ASSUME NEW id \in DOMAIN frames, Visit(id) PROVE StageInv'
  <2>1. UNCHANGED <<recipe, out, cmds>> /\ \E i \in frames[id].todo : Visited(id, i)
    BY <1>6, VisitStep DEF world, TreeInv
  <2>2. PICK i \in frames[id].todo : Visited(id, i)
    BY <2>1
  <2>3. \A x \in DOMAIN frames' :
           \/ x \in DOMAIN frames /\ frames'[x].at = frames[x].at
           \/ frames'[x].at \notin Later /\ frames'[x].at # "deps"
    BY <1>6, <2>2 DEF Visited, NewFrame, Later
  <2>4. \A x \in DOMAIN cmds' : recipe[TargetOf(x)].condition = "build"
    BY <2>1 DEF StageInv
  <2> QED
    BY <1>3, <2>1, <2>3, <2>4, StageKept
<1>7. ASSUME NEW id \in DOMAIN frames, DepsDone(id) PROVE StageInv'
  <2>1. UNCHANGED <<recipe, out, cmds>> /\ frames[id].at = "deps"
    BY <1>7, DepsDoneStep DEF world
  <2>2. CASE Exits(id, "ok") \/ Exits(id, "failed")
    BY <1>4, <2>1, <2>2
  <2>3. CASE /\ Staged(id, "lock") \/ Staged(id, "test")
             /\ recipe[TargetOf(id)].condition # "elsewhere"
    <3>1. recipe[TargetOf(id)].condition = "build"
      <4>1. TargetOf(id) \in Targets
        BY CallType DEF TypeOK
      <4> QED
        BY <1>7, <2>1, <2>3, <4>1, Positions DEF StageInv
    <3> QED
      BY <1>1, <2>1, <2>3, <3>1
  <2> QED
    BY <1>7, <2>2, <2>3, DepsDoneStep
<1>8. ASSUME NEW id \in DOMAIN frames, TakeLock(id) \/ Test(id) \/ Start(id) PROVE StageInv'
  <2>1. /\ UNCHANGED <<recipe, out>> /\ frames[id].at \in Later
        /\ DOMAIN cmds' \subseteq DOMAIN cmds \cup {id}
        /\ \E l \in Later : Staged(id, l)
    BY <1>8, TakeLockStep, TestStep, StartStep DEF world, Later
  <2>2. recipe[TargetOf(id)].condition = "build"
    BY <2>1 DEF StageInv
  <2> QED
    BY <1>1, <2>1, <2>2
<1>9. ASSUME NEW id \in DOMAIN frames, Done(id) \/ ForkFails(id) PROVE StageInv'
  BY <1>4, <1>9, DoneStep, ForkFailsStep DEF world
<1>10. ASSUME NEW id \in DOMAIN frames, NEW c \in DOMAIN frames, Collected(id, c),
              UNCHANGED <<recipe, out, cmds>>
       PROVE  StageInv'
  <2>1. \A x \in DOMAIN frames' : x \in DOMAIN frames /\ frames'[x].at = frames[x].at
    BY <1>10 DEF Collected
  <2>2. \A x \in DOMAIN cmds' : recipe[TargetOf(x)].condition = "build"
    BY <1>10 DEF StageInv
  <2> QED
    BY <1>3, <1>10, <2>1, <2>2, StageKept
<1>11. ASSUME NEW id \in DOMAIN frames, NEW c \in DOMAIN frames, Collect(id, c) \/ Return(id, c)
       PROVE  StageInv'
  BY <1>4, <1>10, <1>11, CollectStep, ReturnStep DEF world
<1>12. ASSUME NEW id \in DOMAIN frames, Kill(id) PROVE StageInv'
  <2>1. UNCHANGED <<recipe, out, cmds>>
    BY <1>12, KillStep DEF world
  <2>2. CASE AllGo(id.inv)
    <3>1. \A x \in DOMAIN frames' : x \in DOMAIN frames /\ frames'[x].at = frames[x].at
      BY <2>2 DEF AllGo
    <3>2. \A x \in DOMAIN cmds' : recipe[TargetOf(x)].condition = "build"
      BY <2>1 DEF StageInv
    <3> QED
      BY <1>3, <2>1, <3>1, <3>2, StageKept
  <2> QED
    BY <1>2, <1>3, <1>12, <2>1, <2>2, KillStep
<1>13. ASSUME NEW id \in DOMAIN cmds, Gone(id), UNCHANGED recipe,
              id \notin Live => UNCHANGED frames,
              id \in Live => Staged(id, "done") \/ Leaves(id, "failed"),
              NEW left, out' = [out EXCEPT ![TargetOf(id)] = left] \/ out' = out,
              IsFile(TargetOf(id)) \/ out' = out \/ left = out[TargetOf(id)]
       PROVE  StageInv'
  <2>1. \A t \in Targets : ~IsFile(t) \/ recipe[t].condition # "build" => out'[t] = Missing
    <3>1. recipe[TargetOf(id)].condition = "build"
      BY <1>13 DEF StageInv
    <3>2. \A t \in Targets : \/ out'[t] = out[t]
                             \/ IsFile(t) /\ t = TargetOf(id)
      BY <1>13 DEF TypeOK
    <3> QED
      BY <1>3, <3>1, <3>2
  <2>2. \A x \in DOMAIN cmds' : recipe[TargetOf(x)].condition = "build"
    BY <1>13 DEF StageInv, Gone
  <2>3. CASE id \in Live /\ Leaves(id, "failed")
    BY <1>2, <1>13, <2>1, <2>3 DEF Gone
  <2>4. CASE id \in Live /\ Staged(id, "done")
    <3>1. recipe[TargetOf(id)].condition = "build"
      BY <1>13 DEF StageInv
    <3>2. \A x \in DOMAIN frames' : x \in DOMAIN frames /\ (x # id => frames'[x] = frames[x])
      BY <2>4 DEF Staged
    <3>3. frames'[id].at = "done"
      BY <2>4 DEF Staged
    <3> QED
      BY <1>13, <2>1, <2>2, <3>1, <3>2, <3>3, StageKept
  <2>5. CASE id \notin Live
    BY <1>13, <2>1, <2>2, <2>5, StageKept
  <2> QED
    BY <1>13, <2>3, <2>4, <2>5
<1>14. ASSUME NEW id \in DOMAIN cmds, Finish(id) PROVE StageInv'
  <2>1. /\ Gone(id) /\ UNCHANGED recipe /\ out' = Written(id)
        /\ id \in Live => Staged(id, "done")
        /\ id \notin Live => UNCHANGED frames
    BY <1>14, FinishStep DEF world
  <2>2. \/ out' = out
        \/ /\ IsFile(TargetOf(id))
           /\ out' = [out EXCEPT ![TargetOf(id)] =
                        [made |-> TRUE, time |-> clock', content |-> cmds[id]]]
    BY <2>1 DEF Written, Wrote
  <2> QED
    BY <1>13, <2>1, <2>2
<1>15. ASSUME NEW id \in DOMAIN cmds, CommandFails(id) PROVE StageInv'
  <2>1. /\ Gone(id) /\ UNCHANGED recipe
        /\ id \in Live => Staged(id, "done") \/ Leaves(id, "failed")
        /\ id \notin Live => UNCHANGED frames
    BY <1>15, CommandFailsStep DEF world, Exits
  <2>2. \/ out' = out
        \/ /\ IsFile(TargetOf(id))
           /\ out' = [out EXCEPT ![TargetOf(id)] =
                        [made |-> TRUE, time |-> clock', content |-> {}]]
    BY <1>15, CommandFailsStep DEF Wrote
  <2> QED
    BY <1>13, <2>1, <2>2
<1>16. ASSUME NEW n \in Jobs, Invoke(n) PROVE StageInv'
  <2>1. /\ UNCHANGED <<recipe, cmds, out>>
        /\ \A x \in DOMAIN frames' : x \in DOMAIN frames \/ x = Top'
        /\ \A x \in DOMAIN frames : frames'[x] = frames[x]
        /\ frames'[Top'].at = "enter"
    BY <1>16, InvokeStep DEF world, NewFrame
  <2>2. \A x \in DOMAIN cmds' : recipe[TargetOf(x)].condition = "build"
    BY <2>1 DEF StageInv
  <2> QED
    BY <1>3, <2>1, <2>2, StageKept DEF Later
<1>17. ASSUME NEW t \in Edited, NEW kind \in EditKinds, Edit(t, kind) PROVE StageInv'
  BY <1>3, <1>17, StageKept DEF Edit
<1> QED
  BY <1>5, <1>6, <1>7, <1>8, <1>9, <1>11, <1>12, <1>14, <1>15, <1>16, <1>17 DEF Next, Call

LEMMA Stage ==
  Spec => []StageInv
<1>1. Init => StageInv
  BY DEF Init, StageInv
<1>2. TypeOK /\ TreeInv /\ StageInv /\ [Next]_vars => StageInv'
  <2>1. ASSUME StageInv, UNCHANGED vars PROVE StageInv'
    BY <2>1 DEF vars, StageInv, IsFile, Missing
  <2> QED
    BY <2>1, StageStep
<1> QED
  BY <1>1, <1>2, TypedTree, PTL DEF Spec

-----------------------------------------------------------------------------
\* What the calls report

\* D are targets that are taken care of: what call id knows of is among them,
\* and what it goes on to do only when they are all of its dependencies.
Account(D, id) ==
  /\ frames[id].done \subseteq D
  /\ frames[id].at = "ok" => TargetOf(id) \in D
  /\ frames[id].at \in Later => DepsOf(TargetOf(id)) \subseteq D
  /\ frames[id].at = "deps" =>
       \A d \in DepsOf(TargetOf(id)) :
         \/ d \in D \/ frames[id].failed
         \/ ChildOf(id, d) \in DOMAIN frames
         \/ \E i \in frames[id].todo : recipe[TargetOf(id)].deps[i] = d

\* The accounts of the calls of builds with at least n jobs
Reported(D, n) ==
  /\ \A id \in DOMAIN frames : jobs[id.inv] >= n => Account(D, id)
  /\ \A id \in DOMAIN cmds : jobs[id.inv] >= n => DepsOf(TargetOf(id)) \subseteq D

\* It is enough to look at the calls that change, and at the children that go.
LEMMA ReportedKept ==
  ASSUME TypeOK, NEW D, NEW D2, NEW n, Reported(D, n), D \subseteq D2, UNCHANGED recipe,
         \A x \in Calls : jobs'[x.inv] = jobs[x.inv],
         \A x \in DOMAIN frames' :
           \/ /\ x \in DOMAIN frames /\ frames'[x] = frames[x]
              /\ frames[x].at = "deps" =>
                   \A d \in DepsOf(TargetOf(x)) :
                     ChildOf(x, d) \in DOMAIN frames => ChildOf(x, d) \in DOMAIN frames'
           \/ jobs'[x.inv] >= n => Account(D2, x)',
         \A x \in DOMAIN cmds' :
           x \in DOMAIN cmds \/ (jobs'[x.inv] >= n => DepsOf(TargetOf(x)) \subseteq D2)
  PROVE  Reported(D2, n)'
<1>1. \A t : DepsOf(t)' = DepsOf(t)
  BY DEF DepsOf
<1>2. ASSUME NEW x \in DOMAIN frames', jobs'[x.inv] >= n PROVE Account(D2, x)'
  <2>1. CASE /\ x \in DOMAIN frames /\ frames'[x] = frames[x]
             /\ frames[x].at = "deps" =>
                   \A d \in DepsOf(TargetOf(x)) :
                     ChildOf(x, d) \in DOMAIN frames => ChildOf(x, d) \in DOMAIN frames'
    <3>1. Account(D, x)
      BY <1>2, <2>1 DEF Reported, TypeOK
    <3> QED
      BY <1>1, <2>1, <3>1 DEF Account
  <2> QED
    BY <1>2, <2>1
<1>3. ASSUME NEW x \in DOMAIN cmds', jobs'[x.inv] >= n PROVE DepsOf(TargetOf(x))' \subseteq D2
  BY <1>1, <1>3 DEF Reported, TypeOK
<1> QED
  BY <1>2, <1>3 DEF Reported

LEMMA StagedReported ==
  ASSUME TypeOK, NEW D, NEW D2, NEW n, Reported(D, n), D \subseteq D2, UNCHANGED <<jobs, recipe>>,
         NEW id, NEW l, Staged(id, l),
         jobs[id.inv] >= n =>
           /\ l \in Later => DepsOf(TargetOf(id)) \subseteq D2
           /\ l = "deps" =>
                \A d \in DepsOf(TargetOf(id)) :
                  \/ d \in D2
                  \/ \E i \in frames'[id].todo : recipe[TargetOf(id)].deps[i] = d,
         DOMAIN cmds' \subseteq DOMAIN cmds \cup (IF l \in Later THEN {id} ELSE {})
  PROVE  Reported(D2, n)'
<1>1. /\ id \in DOMAIN frames /\ DOMAIN frames' = DOMAIN frames
      /\ \A x \in DOMAIN frames : x # id => frames'[x] = frames[x]
      /\ frames'[id].at = l /\ frames'[id].done = frames[id].done /\ l # "ok"
  BY DEF Staged, Live
<1>2. jobs[id.inv] >= n => Account(D2, id)'
  <2>1. \A t : DepsOf(t)' = DepsOf(t)
    BY DEF DepsOf
  <2>2. jobs[id.inv] >= n => frames[id].done \subseteq D
    BY <1>1 DEF Reported, Account
  <2> QED
    BY <1>1, <2>1, <2>2 DEF Account
<1> QED
  BY <1>1, <1>2, ReportedKept

LEMMA LeavesReported ==
  ASSUME TypeOK, NEW D, NEW D2, NEW n, Reported(D, n), D \subseteq D2, UNCHANGED <<jobs, recipe>>,
         NEW id, NEW res, Leaves(id, res), DOMAIN cmds' \subseteq DOMAIN cmds,
         res = "ok" /\ jobs[id.inv] >= n => TargetOf(id) \in D2
  PROVE  Reported(D2, n)'
<1>1. /\ id \in DOMAIN frames /\ id \in Calls /\ res \in {"ok", "failed"}
      /\ DOMAIN frames' = DOMAIN frames \ ({c \in ChildrenOf(id) : Ended(c)}
                                        \cup (IF Told(id) THEN {} ELSE {id}))
      /\ \A x \in DOMAIN frames' : x # id => frames'[x] = frames[x]
      /\ id \in DOMAIN frames' => frames'[id].at = res /\ frames'[id].done = frames[id].done
      /\ DOMAIN frames \subseteq Calls
  BY DEF Leaves, Live, TypeOK
<1>2. id \in DOMAIN frames' /\ jobs[id.inv] >= n => Account(D2, id)'
  <2>1. jobs[id.inv] >= n => frames[id].done \subseteq D
    BY <1>1 DEF Reported, Account
  <2> QED
    BY <1>1, <2>1 DEF Account, Later
<1>3. ASSUME NEW x \in DOMAIN frames', x # id, frames[x].at = "deps",
             NEW d \in DepsOf(TargetOf(x)), ChildOf(x, d) \in DOMAIN frames
      PROVE  ChildOf(x, d) \in DOMAIN frames'
  <2>1. x \in Calls /\ x \in Live
    BY <1>1, <1>3 DEF Live, Ended
  <2>2. d \in Targets
    BY <1>3, <2>1, CallType, Positions
  <2>3. ParentOf(ChildOf(x, d)) = x /\ ~IsRoot(ChildOf(x, d))
    BY <2>1, <2>2, ChildFacts
  <2> QED
    BY <1>1, <1>3, <2>1, <2>3 DEF ChildrenOf, Told
<1> QED
  BY <1>1, <1>2, <1>3, ReportedKept

LEMMA VisitedReported ==
  ASSUME TypeOK, NEW D, NEW D2, NEW n, Reported(D, n), D \subseteq D2,
         UNCHANGED <<jobs, recipe, cmds>>,
         NEW id, NEW i, Visited(id, i)
  PROVE  Reported(D2, n)'
<1> DEFINE c == ChildAt(id, i)
<1>1. /\ id \in DOMAIN frames /\ id # c /\ c.inv = id.inv
      /\ DOMAIN frames' = DOMAIN frames \cup {c}
      /\ frames'[c] = NewFrame(frames[id].done)
      /\ \A x \in DOMAIN frames \ {c} : x # id => frames'[x] = frames[x]
      /\ frames[id].at = "deps" /\ frames'[id].at = "deps"
      /\ frames'[id].todo = frames[id].todo \ {i}
      /\ frames'[id].done = frames[id].done /\ frames'[id].failed = frames[id].failed
  BY DEF Visited, Live, ChildAt, ChildOf
<1>2. jobs[id.inv] >= n => Account(D, id)
  BY <1>1 DEF Reported
<1>3. jobs[id.inv] >= n => Account(D2, id)'
  <2>1. \A t : DepsOf(t)' = DepsOf(t)
    BY DEF DepsOf
  <2>2. c = ChildOf(id, recipe[TargetOf(id)].deps[i])
    BY DEF ChildAt
  <2> HIDE DEF c
  <2>3. ASSUME jobs[id.inv] >= n, NEW d \in DepsOf(TargetOf(id))
        PROVE  \/ d \in D2 \/ frames'[id].failed
               \/ ChildOf(id, d) \in DOMAIN frames'
               \/ \E j \in frames'[id].todo : recipe'[TargetOf(id)].deps[j] = d
    <3>1. \/ d \in D \/ frames[id].failed
          \/ ChildOf(id, d) \in DOMAIN frames
          \/ \E j \in frames[id].todo : recipe[TargetOf(id)].deps[j] = d
      BY <1>1, <1>2, <2>3 DEF Account
    <3> QED
      BY <1>1, <2>2, <3>1
  <2> QED
    BY <1>1, <1>2, <2>1, <2>3 DEF Account, Later
<1>4. ASSUME NEW y \in DOMAIN frames', y = c, jobs[y.inv] >= n PROVE Account(D2, y)'
  BY <1>1, <1>2, <1>4 DEF Account, Later, NewFrame
<1> HIDE DEF c
<1> QED
  BY <1>1, <1>3, <1>4, ReportedKept

LEMMA CollectedReported ==
  ASSUME TypeOK, NEW D, NEW D2, NEW n, Reported(D, n), D \subseteq D2,
         UNCHANGED <<jobs, recipe, cmds>>,
         NEW id, NEW c, Collected(id, c)
  PROVE  Reported(D2, n)'
<1>1. /\ id \in DOMAIN frames /\ id # c /\ c.inv = id.inv /\ c \in DOMAIN frames
      /\ ~IsRoot(c) /\ ParentOf(c) = id /\ c \in Calls /\ id \in Calls
      /\ DOMAIN frames' = DOMAIN frames \ {c}
      /\ \A x \in DOMAIN frames \ {c} : x # id => frames'[x] = frames[x]
      /\ frames[id].at = "deps" /\ frames'[id].at = "deps"
      /\ frames'[id].todo = frames[id].todo
      /\ frames[id].failed \/ frames[c].at = "failed" => frames'[id].failed
      /\ frames[c].at \in {"ok", "failed"}
  BY DEF Collected, Live, ChildrenOf, ParentOf, TypeOK, Ended
<1>2. frames'[id].done \subseteq
        frames[id].done \cup (IF frames[c].at = "ok" THEN frames[c].done \cup {TargetOf(c)} ELSE {})
  BY DEF Collected
<1>3. jobs[id.inv] >= n => Account(D, id) /\ Account(D, c)
  BY <1>1 DEF Reported
<1>4. jobs[id.inv] >= n => Account(D2, id)'
  <2>1. \A t : DepsOf(t)' = DepsOf(t)
    BY DEF DepsOf
  <2>2. c = ChildOf(id, TargetOf(c))
    BY <1>1, ParentFacts
  <2>3. ASSUME jobs[id.inv] >= n, NEW d \in DepsOf(TargetOf(id))
        PROVE  \/ d \in D2 \/ frames'[id].failed
               \/ ChildOf(id, d) \in DOMAIN frames'
               \/ \E j \in frames'[id].todo : recipe'[TargetOf(id)].deps[j] = d
    <3>1. \/ d \in D \/ frames[id].failed
          \/ ChildOf(id, d) \in DOMAIN frames
          \/ \E j \in frames[id].todo : recipe[TargetOf(id)].deps[j] = d
      BY <1>1, <1>3, <2>3 DEF Account
    <3>2. CASE ChildOf(id, d) = c
      <4>1. d = TargetOf(c)
        <5>1. d \in Targets
          BY <1>1, <2>3, CallType, Positions
        <5> QED
          BY <1>1, <3>2, <5>1, ChildFacts
      <4> QED
        BY <1>1, <1>3, <2>3, <4>1 DEF Account
    <3> QED
      BY <1>1, <3>1, <3>2
  <2>4. jobs[id.inv] >= n => frames'[id].done \subseteq D
    BY <1>2, <1>3 DEF Account
  <2> QED
    BY <1>1, <2>1, <2>3, <2>4 DEF Account, Later
<1>5. ASSUME NEW x \in DOMAIN frames', x # id, NEW d \in DepsOf(TargetOf(x)),
             ChildOf(x, d) \in DOMAIN frames
      PROVE  ChildOf(x, d) \in DOMAIN frames'
  <2>1. x \in Calls
    BY <1>1 DEF TypeOK
  <2>2. d \in Targets
    BY <1>5, <2>1, CallType, Positions
  <2>3. ParentOf(ChildOf(x, d)) = x
    BY <2>1, <2>2, ChildFacts
  <2> QED
    BY <1>1, <1>5, <2>3
<1> QED
  BY <1>1, <1>4, <1>5, ReportedKept

LEMMA OthersReported ==
  ASSUME TypeOK, NEW D, NEW D2, NEW n, Reported(D, n), D \subseteq D2, UNCHANGED <<jobs, recipe>>,
         DOMAIN cmds' \subseteq DOMAIN cmds,
         UNCHANGED frames \/ \E m : AllGo(m)
  PROVE  Reported(D2, n)'
<1>1. CASE UNCHANGED frames
  BY <1>1, ReportedKept
<1>2. CASE \E m : AllGo(m)
  <2>1. PICK m : AllGo(m)
    BY <1>2
  <2>2. \A x \in DOMAIN frames' : x \in DOMAIN frames /\ frames'[x] = frames[x] /\ x.inv # m
    BY <2>1 DEF AllGo
  <2>3. \A x \in DOMAIN frames' :
          \A d : ChildOf(x, d) \in DOMAIN frames => ChildOf(x, d) \in DOMAIN frames'
    BY <2>1, <2>2 DEF AllGo, ChildOf
  <2> QED
    BY <2>2, <2>3, ReportedKept
<1> QED
  BY <1>1, <1>2

LEMMA InvokeReported ==
  ASSUME TypeOK, NEW D, NEW m, Reported(D, m), NEW n \in Jobs, Invoke(n)
  PROVE  Reported(D, m)'
<1>1. /\ DOMAIN frames' = DOMAIN frames \cup {Top'}
      /\ \A x \in DOMAIN frames : frames'[x] = frames[x]
      /\ frames'[Top'] = NewFrame({})
      /\ UNCHANGED <<recipe, cmds>>
  BY InvokeStep DEF world
<1>2. \A x \in Calls : jobs'[x.inv] = jobs[x.inv]
  BY InvokeStep, CallType
<1>3. ASSUME NEW y \in DOMAIN frames', y = Top' PROVE Account(D, y)'
  BY <1>1, <1>3 DEF Account, NewFrame, Later
<1>4. \A x \in DOMAIN frames' : x \in DOMAIN frames \/ x = Top'
  BY <1>1
<1> QED
  BY <1>1, <1>2, <1>3, <1>4, ReportedKept

-----------------------------------------------------------------------------
\* What the outputs are made from

Built(t) == IsFile(t) /\ recipe[t].condition = "build"
Fresh(s) == \A p \in s : p[2] = version[p[1]]
Closed(D) == \A t \in D : recipe[t].condition = "off" \/ DepsOf(t) \subseteq D

New(t) == out[t].made /\ \A x \in Targets : touched[x] <= out[t].time

\* The outputs of D, and of what they depend on, are of the present sources;
\* whatever was written since the last change of one is in D, and the commands
\* that run have read nothing else.
Current(D) ==
  /\ Closed(D) /\ Reported(D, 1)
  /\ \A t \in D : Built(t) => out[t].content = Read(t)
  /\ \A t \in D : Fresh(out[t].content)
  /\ \A id \in DOMAIN frames : frames[id].at = "done" => TargetOf(id) \in D
  /\ \A id \in DOMAIN cmds : cmds[id] = Read(TargetOf(id))
  /\ \A t \in Targets : New(t) => t \in D
  /\ result = "ok" => Root \in D

\* What the times tell is true.
TimesTell == \A t \in Targets : ~OutOfDate(t) /\ Built(t) => out[t].content = Read(t)

ContentInv == TimesTell /\ \E D \in SUBSET Targets : Current(D)

\* No command whose failure is ignored writes a file.
Strict == \A r \in Recipes, t \in Targets : r[t].file => r[t].abort

LEMMA JobsType ==
  ASSUME TypeOK, NEW id \in Calls
  PROVE  jobs[id.inv] \in Nat /\ jobs[id.inv] >= 1
<1>1. jobs \in Seq(Jobs) /\ id.inv \in 1 .. Len(jobs)
  BY CallType DEF TypeOK
<1>2. jobs[id.inv] \in Nat \ {0}
  BY <1>1, ElementOfSeq, JobsAssumption
<1> QED
  BY <1>2

\* The first occurrences name every dependency.
LEMMA UniquesCover ==
  ASSUME TypeOK, NEW t \in Targets, NEW done, NEW d \in DepsOf(t), d \notin done
  PROVE  \E i \in Uniques(t, done) : recipe[t].deps[i] = d
<1> DEFINE T == {i \in DOMAIN recipe[t].deps : recipe[t].deps[i] = d}
<1>1. T \subseteq Nat /\ T # {}
  BY Positions DEF DepsOf, ToSet
<1>2. PICK i \in T : \A j \in T : i <= j
  BY <1>1, Least
<1>3. recipe[t].deps \in Seq(Targets) /\ i \in 1 .. Len(recipe[t].deps) /\ Len(recipe[t].deps) \in Nat
  BY Positions, LenProperties
<1>4. \A j \in 1 .. i - 1 : recipe[t].deps[j] # d
  <2>1. SUFFICES ASSUME NEW j \in 1 .. i - 1, recipe[t].deps[j] = d PROVE FALSE
    OBVIOUS
  <2>2. j \in DOMAIN recipe[t].deps /\ j < i /\ j \in Nat
    BY <1>3, LenProperties
  <2>3. j \in T
    BY <2>1, <2>2
  <2> QED
    BY <1>1, <1>2, <2>2, <2>3
<1>5. i \in Uniques(t, done)
  BY <1>4 DEF Uniques
<1> QED
  BY <1>5

LEMMA ReadFresh ==
  ASSUME TypeOK, NEW D, Current(D), NEW t, DepsOf(t) \subseteq D
  PROVE  Fresh(Read(t))
BY DEF Current, Fresh, Read

\* Steps that leave the outputs alone
LEMMA CurrentKept ==
  ASSUME TypeOK, NEW D, NEW D2, Current(D), D \subseteq D2,
         UNCHANGED <<recipe, version, touched, out>>, Reported(D2, 1)',
         \A t \in D2 \ D : /\ recipe[t].condition = "off" \/ DepsOf(t) \subseteq D2
                           /\ Built(t) => out[t].content = Read(t)
                           /\ Fresh(out[t].content),
         \A x \in DOMAIN frames' : frames'[x].at = "done" =>
           (x \in DOMAIN frames /\ frames[x].at = "done") \/ TargetOf(x) \in D2,
         \A x \in DOMAIN cmds' :
           (x \in DOMAIN cmds /\ cmds'[x] = cmds[x]) \/ cmds'[x] = Read(TargetOf(x)),
         result' = "ok" => result = "ok" \/ Root \in D2
  PROVE  Current(D2)'
<1>1. \A t : /\ DepsOf(t)' = DepsOf(t) /\ Read(t)' = Read(t)
            /\ (Built(t)' <=> Built(t))
            /\ Fresh(out[t].content)' <=> Fresh(out[t].content)
  BY DEF DepsOf, Read, Built, IsFile, Fresh
<1>2. Closed(D2)'
  BY <1>1 DEF Current, Closed
<1>3. \A t \in D2 : /\ Built(t)' => out'[t].content = Read(t)'
                    /\ Fresh(out[t].content)'
  BY <1>1 DEF Current
<1>4. \A x \in DOMAIN frames' : frames'[x].at = "done" => TargetOf(x) \in D2
  BY DEF Current
<1>5. \A x \in DOMAIN cmds' : cmds'[x] = Read(TargetOf(x))'
  <2>1. \A x : Read(TargetOf(x))' = Read(TargetOf(x))
    BY DEF DepsOf, Read, IsFile
  <2> QED
    BY <2>1 DEF Current
<1>6. \A t \in Targets : New(t)' => t \in D2
  BY DEF Current, New
<1>7. result' = "ok" => Root \in D2
  BY DEF Current
<1> QED
  BY <1>2, <1>3, <1>4, <1>5, <1>6, <1>7 DEF Current

LEMMA CurrentStaged ==
  ASSUME TypeOK, NEW D, NEW D2, Current(D), D \subseteq D2, D2 \subseteq Targets,
         UNCHANGED <<recipe, version, touched, out, jobs, result>>,
         NEW id, NEW l, Staged(id, l),
         \A t \in D2 \ D : /\ recipe[t].condition = "off" \/ DepsOf(t) \subseteq D2
                           /\ Built(t) => out[t].content = Read(t)
                           /\ Fresh(out[t].content),
         l = "done" => TargetOf(id) \in D2,
         l \in Later => DepsOf(TargetOf(id)) \subseteq D2,
         l = "deps" =>
           \A d \in DepsOf(TargetOf(id)) :
             \/ d \in D2
             \/ \E i \in frames'[id].todo : recipe[TargetOf(id)].deps[i] = d,
         DOMAIN cmds' \subseteq DOMAIN cmds \cup (IF l \in Later THEN {id} ELSE {}),
         \A x \in DOMAIN cmds' :
           (x \in DOMAIN cmds /\ cmds'[x] = cmds[x]) \/ cmds'[x] = Read(TargetOf(x))
  PROVE  Current(D2)'
<1>1. Reported(D2, 1)'
  BY StagedReported DEF Current
<1>2. \A x \in DOMAIN frames' : frames'[x].at = "done" =>
           (x \in DOMAIN frames /\ frames[x].at = "done") \/ TargetOf(x) \in D2
  BY DEF Staged
<1> QED
  BY <1>1, <1>2, CurrentKept

LEMMA CurrentLeaves ==
  ASSUME TypeOK, NEW D, NEW D2, Current(D), D \subseteq D2, D2 \subseteq Targets,
         UNCHANGED <<recipe, version, touched, out, jobs>>,
         NEW id, NEW res, Leaves(id, res),
         result' = IF IsRoot(id) /\ id.inv = Len(jobs) THEN res ELSE result,
         \A t \in D2 \ D : /\ recipe[t].condition = "off" \/ DepsOf(t) \subseteq D2
                           /\ Built(t) => out[t].content = Read(t)
                           /\ Fresh(out[t].content),
         res = "ok" => TargetOf(id) \in D2,
         DOMAIN cmds' \subseteq DOMAIN cmds,
         \A x \in DOMAIN cmds' : cmds'[x] = cmds[x]
  PROVE  Current(D2)'
<1>1. Reported(D2, 1)'
  BY LeavesReported DEF Current
<1>2. \A x \in DOMAIN frames' : frames'[x].at = "done" =>
           (x \in DOMAIN frames /\ frames[x].at = "done")
  BY DEF Leaves
<1>3. result' = "ok" => result = "ok" \/ Root \in D2
  <2>1. id \in Calls
    BY DEF Leaves, Live, TypeOK
  <2> QED
    BY <2>1, RootFacts
<1> QED
  BY <1>1, <1>2, <1>3, CurrentKept

\* A target that can be added to D
LEMMA CurrentWins ==
  ASSUME TypeOK, StageInv, NEW D, Current(D), NEW t \in Targets,
         recipe[t].condition = "off" \/ DepsOf(t) \subseteq D,
         Built(t) => out[t].content = Read(t)
  PROVE  \A x \in (D \cup {t}) \ D :
           /\ recipe[x].condition = "off" \/ DepsOf(x) \subseteq D \cup {t}
           /\ Built(x) => out[x].content = Read(x)
           /\ Fresh(out[x].content)
<1>1. Fresh(out[t].content)
  <2>1. CASE Built(t)
    BY <2>1, ReadFresh DEF Built
  <2>2. CASE ~Built(t)
    <3>1. out[t] = Missing
      BY <2>2 DEF Built, StageInv
    <3> QED
      BY <3>1 DEF Missing, Fresh
  <2> QED
    BY <2>1, <2>2
<1> QED
  BY <1>1

LEMMA FinishContent ==
  ASSUME TypeOK, TreeInv, StageInv, TimesTell, NEW D \in SUBSET Targets, Current(D),
         NEW id \in DOMAIN cmds, Finish(id)
  PROVE  TimesTell' /\ Current(D \cup {TargetOf(id)})'
<1> DEFINE t == TargetOf(id)
           D2 == D \cup {t}
<1>1. /\ Gone(id) /\ out' = Written(id)
      /\ id \in Live => Staged(id, "done")
      /\ id \notin Live => UNCHANGED frames
      /\ UNCHANGED <<recipe, version, touched, jobs, result>> /\ TimePasses
      /\ DOMAIN cmds' \subseteq DOMAIN cmds /\ id \notin DOMAIN cmds'
      /\ \A x \in DOMAIN cmds' : cmds'[x] = cmds[x]
  BY FinishStep DEF Gone
<1>2. /\ id \in Calls /\ t \in Targets /\ recipe[t].condition = "build"
      /\ cmds[id] = Read(t) /\ DepsOf(t) \subseteq D
  <2>1. id \in Calls
    BY DEF TypeOK
  <2> QED
    BY <2>1, CallType, JobsType DEF StageInv, Current, Reported
<1>3. Reported(D2, 1)'
  <2>1. Reported(D, 1) /\ D \subseteq D2
    BY DEF Current
  <2>2. CASE id \in Live
    <3>1. "done" # "deps"
      OBVIOUS
    <3> QED
      BY <1>1, <1>2, <2>1, <2>2, <3>1, StagedReported
  <2>3. CASE id \notin Live
    BY <1>1, <2>1, <2>3, OthersReported
  <2> QED
    BY <2>2, <2>3
<1>4. \A x \in DOMAIN frames' : frames'[x].at = "done" =>
           (x \in DOMAIN frames /\ frames[x].at = "done") \/ TargetOf(x) \in D2
  BY <1>1 DEF Staged
<1>5. CASE ~IsFile(t)
  <2>1. UNCHANGED out
    BY <1>1, <1>5 DEF Written
  <2>2. \A x \in D2 \ D : /\ recipe[x].condition = "off" \/ DepsOf(x) \subseteq D2
                          /\ Built(x) => out[x].content = Read(x)
                          /\ Fresh(out[x].content)
    BY <1>2, <1>5, CurrentWins DEF Built
  <2>3. Current(D2)'
    BY <1>1, <1>3, <1>4, <2>1, <2>2, CurrentKept
  <2>4. TimesTell'
    BY <1>1, <2>1 DEF TimesTell, OutOfDate, Built, IsFile, DepsOf, Read
  <2> QED
    BY <2>3, <2>4
<1>6. CASE IsFile(t)
  <2>1. /\ out'[t].made /\ out'[t].time = clock' /\ out'[t].content = Read(t)
        /\ \A x \in Targets : x # t => out'[x] = out[x]
    BY <1>1, <1>2, <1>6 DEF Written, Wrote, TypeOK
  <2>2. Built(t)
    BY <1>2, <1>6 DEF Built
  <2>3. \A x \in Targets : x # t \/ t \in D => out'[x].content = out[x].content
    BY <2>1, <2>2 DEF Current
  <2>4. \A x \in Targets : DepsOf(x) \subseteq Targets
    BY Positions
  <2>5. ASSUME NEW x \in Targets, t \notin DepsOf(x) \/ t \in D
        PROVE  Read(x)' = Read(x)
    <3>1. \A d \in DepsOf(x) : out'[d].content = out[d].content
      BY <2>3, <2>4, <2>5
    <3>2. DepsOf(x)' = DepsOf(x) /\ \A d : IsFile(d)' <=> IsFile(d)
      BY <1>1 DEF DepsOf, IsFile
    <3>3. {y \in DepsOf(x)' : IsFile(y)'} = {y \in DepsOf(x) : IsFile(y)}
      BY <3>2
    <3>4. UNION {out'[d].content : d \in {y \in DepsOf(x)' : IsFile(y)'}}
            = UNION {out[d].content : d \in {y \in DepsOf(x) : IsFile(y)}}
      BY <3>1, <3>3
    <3> QED
      BY <1>1, <3>4 DEF Read
  <2>6. Read(t)' = Read(t)
    BY <1>2, <2>5
  <2>7. ASSUME NEW x \in D2, Built(x) PROVE Read(x)' = Read(x) /\ out'[x].content = Read(x)
    <3>1. CASE x = t
      BY <2>1, <2>6, <3>1
    <3>2. CASE x # t
      <4>1. x \in D /\ DepsOf(x) \subseteq D /\ out[x].content = Read(x)
        BY <2>7, <3>2 DEF Current, Closed, Built
      <4> QED
        BY <2>3, <2>5, <3>2, <4>1
    <3> QED
      BY <3>1, <3>2
  <2>8. \A x : (Built(x)' <=> Built(x)) /\ DepsOf(x)' = DepsOf(x)
    BY <1>1 DEF Built, IsFile, DepsOf
  <2>9. Current(D2)'
    <3>1. Closed(D2)'
      BY <1>1, <1>2, <2>8 DEF Current, Closed
    <3>2. \A x \in D2 : Built(x)' => out'[x].content = Read(x)'
      BY <2>7, <2>8
    <3>3. \A x \in D2 : Fresh(out[x].content)'
      <4>1. ASSUME NEW x \in D2 PROVE \A p \in out'[x].content : p[2] = version[p[1]]
        <5>1. CASE x = t
          BY <1>2, <2>1, <5>1, ReadFresh DEF Fresh
        <5>2. CASE x # t
          BY <2>1, <5>2 DEF Current, Fresh
        <5> QED
          BY <5>1, <5>2
      <4> QED
        BY <1>1, <4>1 DEF Fresh
    <3>4. ASSUME NEW x \in DOMAIN cmds' PROVE cmds'[x] = Read(TargetOf(x))'
      <4>1. x \in Calls /\ TargetOf(x) \in Targets /\ DepsOf(TargetOf(x)) \subseteq D
        <5>1. x \in Calls /\ x \in DOMAIN cmds
          BY <1>1 DEF TypeOK
        <5> QED
          BY <5>1, CallType, JobsType DEF Current, Reported
      <4>2. \A y \in Targets : DepsOf(y) \subseteq D => Read(y)' = Read(y)
        BY <2>5
      <4>3. cmds'[x] = Read(TargetOf(x))
        BY <1>1 DEF Current
      <4>4. ASSUME NEW y \in Targets, y = TargetOf(x) PROVE cmds'[x] = Read(y)'
        BY <4>1, <4>2, <4>3, <4>4
      <4> QED
        BY <4>1, <4>4
    <3>5. \A x \in Targets : New(x)' => x \in D2
      BY <1>1, <2>1 DEF Current, New
    <3>6. \A x \in DOMAIN frames' : frames'[x].at = "done" => TargetOf(x) \in D2
      BY <1>4 DEF Current
    <3>7. result' = "ok" => Root \in D2
      BY <1>1 DEF Current
    <3> QED
      BY <1>3, <3>1, <3>2, <3>3, <3>4, <3>5, <3>6, <3>7 DEF Current
  <2>10. ASSUME NEW x \in Targets, ~OutOfDate(x)', Built(x)'
         PROVE  out'[x].content = Read(x)'
    <3>1. CASE x \in D2
      BY <2>7, <2>8, <2>10, <3>1
    <3>2. CASE x \notin D2
      <4>1. x # t /\ out'[x] = out[x] /\ x \notin D
        BY <2>1, <3>2
      <4>2. /\ IsFile(x) /\ out[x].made /\ ~(touched[x] > out[x].time)
            /\ \A d \in DepsOf(x) : IsFile(d) => out'[d].made /\ ~(out'[d].time > out[x].time)
        BY <1>1, <2>10, <4>1 DEF OutOfDate, IsFile, DepsOf
      <4>3. t \notin DepsOf(x)
        <5>1. PICK y \in Targets : ~(touched[y] <= out[x].time)
          BY <4>1, <4>2 DEF Current, New
        <5>2. /\ out[x].time \in Nat /\ touched[y] \in 0 .. clock /\ clock \in Nat
              /\ clock' >= clock /\ clock' \in Nat
          BY <1>1 DEF TypeOK, TimePasses
        <5>3. clock' > out[x].time
          BY <5>1, <5>2
        <5> QED
          BY <1>6, <2>1, <4>2, <5>3
      <4>4. ~OutOfDate(x)
        BY <2>1, <2>4, <4>2, <4>3 DEF OutOfDate
      <4>5. out[x].content = Read(x)
        BY <2>8, <2>10, <4>4 DEF TimesTell
      <4> QED
        BY <2>5, <4>1, <4>3, <4>5
    <3> QED
      BY <3>1, <3>2
  <2> QED
    BY <2>9, <2>10 DEF TimesTell
<1> QED
  BY <1>5, <1>6

LEMMA EditContent ==
  ASSUME TypeOK, StageInv, TimesTell, EditKinds \subseteq {"source"},
         NEW t \in Edited, NEW kind \in EditKinds, Edit(t, kind)
  PROVE  TimesTell' /\ Current({})'
<1>1. /\ DOMAIN frames = {} /\ DOMAIN cmds = {}
      /\ clock' = clock + 1 /\ version' = [version EXCEPT ![t] = @ + 1]
      /\ touched' = [touched EXCEPT ![t] = clock'] /\ result' = "none"
      /\ UNCHANGED <<recipe, out, jobs, frames, cmds>> /\ t \in Targets
  BY EditedAssumption DEF Edit
<1>2. \A x \in Targets : out[x].time \in 0 .. clock /\ clock \in Nat
  BY DEF TypeOK
<1>3. Current({})'
  <2>1. Reported({}, 1)' /\ Closed({})'
    BY <1>1 DEF Reported, Closed
  <2>2. \A x \in Targets : ~New(x)'
    <3>1. touched'[t] = clock + 1
      BY <1>1 DEF TypeOK
    <3> QED
      BY <1>1, <1>2, <3>1 DEF New
  <2> QED
    BY <1>1, <2>1, <2>2 DEF Current
<1>4. ASSUME NEW x \in Targets, ~OutOfDate(x)', Built(x)'
      PROVE  out'[x].content = Read(x)'
  <2>1. /\ out[x].made /\ ~(touched'[x] > out[x].time) /\ IsFile(x) /\ Built(x)
        /\ \A d \in DepsOf(x) : IsFile(d) => out[d].made /\ ~(out[d].time > out[x].time)
    BY <1>1, <1>4 DEF OutOfDate, IsFile, DepsOf, Built
  <2>2. x # t
    <3>1. x = t => touched'[x] = clock + 1
      BY <1>1 DEF TypeOK
    <3> QED
      BY <1>2, <2>1, <3>1
  <2>3. touched'[x] = touched[x] /\ version'[x] = version[x]
    BY <1>1, <2>2 DEF TypeOK
  <2>4. out[x].content = Read(x)
    BY <2>1, <2>3 DEF OutOfDate, TimesTell
  <2>5. Read(x)' = Read(x)
    BY <1>1, <2>3 DEF Read, DepsOf, IsFile
  <2> QED
    BY <1>1, <2>4, <2>5
<1> QED
  BY <1>3, <1>4 DEF TimesTell

LEMMA ContentStep ==
  ASSUME TypeOK, TreeInv, StageInv, ContentInv, Next,
         Strict, CleanFailures = TRUE, EditKinds \subseteq {"source"}
  PROVE  ContentInv'
<1>1. PICK D \in SUBSET Targets : Current(D)
  BY DEF ContentInv
<1>2. Reported(D, 1) /\ TimesTell
  BY <1>1 DEF ContentInv, Current
<1>3. ASSUME UNCHANGED <<recipe, version, touched, out>> PROVE TimesTell'
  BY <1>2, <1>3 DEF TimesTell, OutOfDate, Built, IsFile, DepsOf, Read
<1>4. ASSUME NEW D2 \in SUBSET Targets, Current(D2)', UNCHANGED <<recipe, version, touched, out>>
      PROVE  ContentInv'
  BY <1>3, <1>4 DEF ContentInv
<1>5. \A id \in DOMAIN frames : id \in Calls /\ TargetOf(id) \in Targets /\ jobs[id.inv] >= 1
                                /\ Account(D, id)
  BY <1>2, CallType, JobsType DEF TypeOK, Reported
<1>6. ASSUME NEW id \in DOMAIN frames, Exits(id, "failed"), Gone(id) \/ UNCHANGED cmds,
             UNCHANGED <<world, out, jobs>>
      PROVE  ContentInv'
  <2>1. Current(D)'
    BY <1>1, <1>6, CurrentLeaves DEF Exits, world, Gone
  <2> QED
    BY <1>4, <1>6, <2>1 DEF world
<1>7. ASSUME NEW id \in DOMAIN frames, Exits(id, "ok"), UNCHANGED <<world, out, jobs, cmds>>,
             recipe[TargetOf(id)].condition = "off" \/ DepsOf(TargetOf(id)) \subseteq D,
             Built(TargetOf(id)) => out[TargetOf(id)].content = Read(TargetOf(id))
      PROVE  ContentInv'
  <2> DEFINE D2 == D \cup {TargetOf(id)}
  <2>1. \A x \in D2 \ D : /\ recipe[x].condition = "off" \/ DepsOf(x) \subseteq D2
                          /\ Built(x) => out[x].content = Read(x)
                          /\ Fresh(out[x].content)
    BY <1>1, <1>5, <1>7, CurrentWins
  <2>2. Current(D2)'
    <3>1. D2 \subseteq Targets /\ TargetOf(id) \in D2
      BY <1>5
    <3> HIDE DEF D2
    <3> QED
      BY <1>1, <1>7, <2>1, <3>1, CurrentLeaves DEF Exits, world, D2
  <2>3. D2 \in SUBSET Targets
    BY <1>5
  <2> QED
    BY <1>4, <1>7, <2>2, <2>3 DEF world
<1>8. ASSUME NEW id \in DOMAIN frames, Enter(id) PROVE ContentInv'
  <2>1. /\ UNCHANGED <<world, out, jobs, cmds>>
    BY <1>8, EnterStep
  <2>2. CASE Exits(id, "failed")
    BY <1>6, <2>1, <2>2
  <2>3. CASE Exits(id, "ok") /\ TargetOf(id) \in frames[id].done
    <3>1. TargetOf(id) \in D
      BY <1>5, <2>3 DEF Account
    <3>2. Current(D)'
      BY <1>1, <2>1, <2>3, <3>1, CurrentLeaves DEF Exits, world
    <3> QED
      BY <1>4, <2>1, <3>2 DEF world
  <2>4. CASE Exits(id, "ok") /\ recipe[TargetOf(id)].condition = "off"
    BY <1>7, <2>1, <2>4 DEF Built
  <2>5. CASE /\ Staged(id, "deps") /\ UNCHANGED <<lock, result>>
             /\ frames'[id].todo = Uniques(TargetOf(id), frames[id].done)
    <3>1. \A d \in DepsOf(TargetOf(id)) :
             \/ d \in D
             \/ \E i \in frames'[id].todo : recipe[TargetOf(id)].deps[i] = d
      BY <1>5, <2>5, UniquesCover DEF Account
    <3>2. Current(D)'
      BY <1>1, <2>1, <2>5, <3>1, CurrentStaged DEF world, Later
    <3> QED
      BY <1>4, <2>1, <3>2 DEF world
  <2> QED
    BY <1>8, <2>2, <2>3, <2>4, <2>5, EnterStep
<1>9. ASSUME NEW id \in DOMAIN frames, Visit(id) PROVE ContentInv'
  <2>1. /\ UNCHANGED <<world, out, jobs, cmds, result>>
        /\ \E i \in frames[id].todo : Visited(id, i)
    BY <1>9, VisitStep DEF TreeInv
  <2>2. PICK i \in frames[id].todo : Visited(id, i)
    BY <2>1
  <2>3. Reported(D, 1)'
    BY <1>2, <2>1, <2>2, VisitedReported DEF world
  <2>4. \A x \in DOMAIN frames' : frames'[x].at = "done" =>
           x \in DOMAIN frames /\ frames[x].at = "done"
    BY <2>2 DEF Visited, NewFrame
  <2>5. Current(D)'
    BY <1>1, <2>1, <2>3, <2>4, CurrentKept DEF world
  <2> QED
    BY <1>4, <2>1, <2>5 DEF world
<1>10. ASSUME NEW id \in DOMAIN frames, DepsDone(id) PROVE ContentInv'
  <2>1. /\ UNCHANGED <<world, out, jobs, cmds>>
        /\ frames[id].at = "deps" /\ frames[id].todo = {} /\ ChildrenOf(id) = {}
    BY <1>10, DepsDoneStep
  <2>2. ~frames[id].failed => DepsOf(TargetOf(id)) \subseteq D
    <3>1. ASSUME ~frames[id].failed, NEW d \in DepsOf(TargetOf(id)), d \notin D PROVE FALSE
      <4>1. ChildOf(id, d) \in DOMAIN frames
        BY <1>5, <2>1, <3>1 DEF Account
      <4>2. d \in Targets
        BY <1>5, <3>1, Positions
      <4>3. ChildOf(id, d) \in ChildrenOf(id)
        BY <1>5, <4>1, <4>2, ChildFacts DEF ChildrenOf
      <4> QED
        BY <2>1, <4>3
    <3> QED
      BY <3>1
  <2>3. CASE Exits(id, "failed")
    BY <1>6, <2>1, <2>3
  <2>4. CASE /\ Exits(id, "ok") /\ ~frames[id].failed
             /\ recipe[TargetOf(id)].condition = "elsewhere"
    BY <1>7, <2>1, <2>2, <2>4 DEF Built
  <2>5. CASE /\ Staged(id, "lock") \/ Staged(id, "test")
             /\ ~frames[id].failed /\ UNCHANGED <<lock, result>>
    <3>1. Current(D)'
      BY <1>1, <2>1, <2>2, <2>5, CurrentStaged DEF world
    <3> QED
      BY <1>4, <2>1, <3>1 DEF world
  <2> QED
    BY <1>10, <2>3, <2>4, <2>5, DepsDoneStep
<1>11. \A id \in DOMAIN frames : frames[id].at \in Later => DepsOf(TargetOf(id)) \subseteq D
  BY <1>5 DEF Account
<1>12. ASSUME NEW id \in DOMAIN frames, TakeLock(id) PROVE ContentInv'
  <2>1. /\ UNCHANGED <<world, out, jobs, cmds, result>> /\ Staged(id, "test")
        /\ frames[id].at \in Later
    BY <1>12, TakeLockStep DEF Later
  <2>2. Current(D)'
    BY <1>1, <1>11, <2>1, CurrentStaged DEF world
  <2> QED
    BY <1>4, <2>1, <2>2 DEF world
<1>13. ASSUME NEW id \in DOMAIN frames, Test(id) PROVE ContentInv'
  <2> DEFINE t == TargetOf(id)
             D2 == D \cup {t}
  <2>1. /\ UNCHANGED <<world, out, jobs, cmds, result>>
        /\ frames[id].at \in Later /\ DepsOf(t) \subseteq D
    BY <1>11, <1>13, TestStep DEF Later
  <2>2. CASE Staged(id, "start")
    <3>1. Current(D)'
      BY <1>1, <2>1, <2>2, CurrentStaged DEF world
    <3> QED
      BY <1>4, <2>1, <3>1 DEF world
  <2>3. CASE Staged(id, "done") /\ ~OutOfDate(t)
    <3>1. t \in Targets
      BY <1>5
    <3>2. Built(t) => out[t].content = Read(t)
      BY <1>2, <2>3, <3>1 DEF TimesTell
    <3>3. \A x \in D2 \ D : /\ recipe[x].condition = "off" \/ DepsOf(x) \subseteq D2
                            /\ Built(x) => out[x].content = Read(x)
                            /\ Fresh(out[x].content)
      BY <1>1, <2>1, <3>1, <3>2, CurrentWins
    <3>4. D2 \subseteq Targets /\ D \subseteq D2 /\ t \in D2 /\ DepsOf(t) \subseteq D2
      BY <2>1, <3>1
    <3> HIDE DEF D2
    <3>5. Current(D2)'
      BY <1>1, <2>1, <2>3, <3>3, <3>4, CurrentStaged DEF world
    <3> QED
      BY <1>4, <2>1, <3>4, <3>5 DEF world, D2
  <2> QED
    BY <1>13, <2>2, <2>3, TestStep
<1>14. ASSUME NEW id \in DOMAIN frames, Start(id) PROVE ContentInv'
  <2>1. /\ UNCHANGED <<world, out, jobs, result>> /\ frames[id].at \in Later
        /\ Staged(id, "wait") /\ DOMAIN cmds' = DOMAIN cmds \cup {id}
        /\ cmds'[id] = Read(TargetOf(id))
        /\ \A x \in DOMAIN cmds : x # id => cmds'[x] = cmds[x]
    BY <1>14, StartStep DEF Later
  <2>2. "wait" \in Later
    BY DEF Later
  <2>3. Current(D)'
    BY <1>1, <1>11, <2>1, <2>2, CurrentStaged DEF world
  <2> QED
    BY <1>4, <2>1, <2>3 DEF world
<1>15. ASSUME NEW id \in DOMAIN frames, Done(id) PROVE ContentInv'
  <2>1. UNCHANGED <<world, out, jobs, cmds>> /\ Exits(id, "ok") /\ TargetOf(id) \in D
    BY <1>1, <1>15, DoneStep DEF Current
  <2>2. Current(D)'
    BY <1>1, <2>1, CurrentLeaves DEF Exits, world
  <2> QED
    BY <1>4, <2>1, <2>2 DEF world
<1>16. ASSUME NEW id \in DOMAIN frames, NEW c \in DOMAIN frames, Collected(id, c),
              UNCHANGED <<world, out, jobs, cmds, lock, result>>
       PROVE  ContentInv'
  <2>1. Reported(D, 1)'
    BY <1>2, <1>16, CollectedReported DEF world
  <2>2. \A x \in DOMAIN frames' : frames'[x].at = "done" =>
           x \in DOMAIN frames /\ frames[x].at = "done"
    BY <1>16 DEF Collected
  <2>3. Current(D)'
    BY <1>1, <1>16, <2>1, <2>2, CurrentKept DEF world
  <2> QED
    BY <1>4, <1>16, <2>3 DEF world
<1>17. ASSUME NEW id \in DOMAIN frames, NEW c \in DOMAIN frames, Collect(id, c) \/ Return(id, c)
       PROVE  ContentInv'
  <2>1. CASE Collect(id, c)
    BY <1>16, <2>1, CollectStep
  <2>2. CASE Return(id, c)
    BY <1>6, <1>16, <2>2, ReturnStep
  <2> QED
    BY <1>17, <2>1, <2>2
<1>18. ASSUME NEW id \in DOMAIN frames, ForkFails(id) PROVE ContentInv'
  BY <1>6, <1>18, ForkFailsStep
<1>19. ASSUME NEW id \in DOMAIN frames, Kill(id) PROVE ContentInv'
  <2>1. UNCHANGED <<world, out, jobs, cmds>>
    BY <1>19, KillStep
  <2>2. CASE Leaves(id, "failed") /\ result' = IF IsRoot(id) /\ id.inv = Len(jobs)
                                               THEN "failed" ELSE result
    <3>1. Current(D)'
      BY <1>1, <2>1, <2>2, CurrentLeaves DEF world
    <3> QED
      BY <1>4, <2>1, <3>1 DEF world
  <2>3. CASE AllGo(id.inv) /\ (result' = "failed" \/ result' = result)
    <3>1. Reported(D, 1)'
      BY <1>2, <2>1, <2>3, OthersReported DEF world
    <3>2. \A x \in DOMAIN frames' : frames'[x].at = "done" =>
             x \in DOMAIN frames /\ frames[x].at = "done"
      BY <2>3 DEF AllGo
    <3>3. Current(D)'
      BY <1>1, <2>1, <2>3, <3>1, <3>2, CurrentKept DEF world
    <3> QED
      BY <1>4, <2>1, <3>3 DEF world
  <2> QED
    BY <1>19, <2>2, <2>3, KillStep
<1>20. ASSUME NEW id \in DOMAIN cmds, Finish(id) PROVE ContentInv'
  <2>1. TimesTell' /\ Current(D \cup {TargetOf(id)})'
    BY <1>1, <1>2, <1>20, FinishContent
  <2>2. TargetOf(id) \in Targets
    BY CallType DEF TypeOK
  <2> DEFINE D2 == D \cup {TargetOf(id)}
  <2>3. D2 \in SUBSET Targets /\ Current(D2)'
    BY <2>1, <2>2
  <2> HIDE DEF D2
  <2> QED
    BY <2>1, <2>3 DEF ContentInv
<1>21. ASSUME NEW id \in DOMAIN cmds, CommandFails(id) PROVE ContentInv'
  <2> DEFINE t == TargetOf(id)
             D2 == D \cup {t}
  <2>1. /\ id \in Calls /\ t \in Targets /\ DepsOf(t) \subseteq D
    <3>1. id \in Calls
      BY DEF TypeOK
    <3> QED
      BY <1>2, <3>1, CallType, JobsType DEF Reported
  <2>2. UNCHANGED <<world, jobs, out>> /\ Gone(id)
    BY <1>21, CommandFailsStep DEF world
  <2>3. CASE id \in Live /\ Exits(id, "failed")
    BY <1>6, <2>2, <2>3 DEF Live
  <2>4. CASE id \in Live /\ ~recipe[t].abort /\ Staged(id, "done") /\ UNCHANGED result
    <3>1. ~Built(t)
      BY <2>1, <2>4 DEF Built, IsFile, Strict, TypeOK
    <3>2. \A x \in D2 \ D : /\ recipe[x].condition = "off" \/ DepsOf(x) \subseteq D2
                            /\ Built(x) => out[x].content = Read(x)
                            /\ Fresh(out[x].content)
      BY <1>1, <2>1, <3>1, CurrentWins
    <3>3. D2 \subseteq Targets /\ D \subseteq D2 /\ t \in D2 /\ DepsOf(t) \subseteq D2
      BY <2>1
    <3>4. /\ DOMAIN cmds' \subseteq DOMAIN cmds /\ \A x \in DOMAIN cmds' : cmds'[x] = cmds[x]
      BY <2>2 DEF Gone
    <3> HIDE DEF D2
    <3>5. Current(D2)'
      BY <1>1, <2>2, <2>4, <3>2, <3>3, <3>4, CurrentStaged DEF world
    <3> QED
      BY <1>4, <2>2, <3>3, <3>5 DEF world, D2
  <2>5. CASE UNCHANGED <<frames, result>>
    <3>1. Reported(D, 1)'
      BY <1>2, <2>2, <2>5, OthersReported DEF world, Gone
    <3>2. Current(D)'
      BY <1>1, <2>2, <2>5, <3>1, CurrentKept DEF world, Gone
    <3> QED
      BY <1>4, <2>2, <3>2 DEF world
  <2> QED
    BY <1>21, <2>3, <2>4, <2>5, CommandFailsStep
<1>22. ASSUME NEW n \in Jobs, Invoke(n) PROVE ContentInv'
  <2>1. Reported(D, 1)'
    BY <1>2, <1>22, InvokeReported
  <2>2. \A x \in DOMAIN frames' : frames'[x].at = "done" =>
           x \in DOMAIN frames /\ frames[x].at = "done"
    BY <1>22, InvokeStep DEF NewFrame
  <2>3. UNCHANGED <<world, out, cmds>> /\ result' = "running"
    BY <1>22, InvokeStep
  <2>4. Current(D)'
    BY <1>1, <2>1, <2>2, <2>3, CurrentKept DEF world
  <2> QED
    BY <1>4, <2>3, <2>4 DEF world
<1>23. ASSUME NEW t \in Edited, NEW kind \in EditKinds, Edit(t, kind) PROVE ContentInv'
  <2>1. TimesTell' /\ Current({})'
    BY <1>2, <1>23, EditContent
  <2> QED
    BY <2>1 DEF ContentInv
<1> QED
  BY <1>8, <1>9, <1>10, <1>12, <1>13, <1>14, <1>15, <1>17, <1>18, <1>19, <1>20,
     <1>21, <1>22, <1>23 DEF Next, Call

-----------------------------------------------------------------------------
\* What can be reached

LEMMA FromClosed ==
  ASSUME NEW e \in [Targets -> SUBSET Targets], NEW t \in Targets
  PROVE  /\ t \in Promise!From(t, e) /\ Promise!From(t, e) \subseteq Targets
         /\ \A y \in Promise!From(t, e) : e[y] \subseteq Promise!From(t, e)
<1>1. \A y \in Promise!From(t, e) : e[y] \subseteq Targets
  BY DEF Promise!From
<1> QED
  BY <1>1 DEF Promise!From

LEMMA FromLeast ==
  ASSUME NEW e \in [Targets -> SUBSET Targets], NEW t \in Targets,
         NEW S \in SUBSET Targets, t \in S, \A y \in S : e[y] \subseteq S
  PROVE  Promise!From(t, e) \subseteq S
BY DEF Promise!From

\* The outputs that the output of a target is made from
Edges == [y \in Targets |-> Promise!DepsOf(y) \cap Promise!Files]
Reach(t) == Promise!From(t, Edges)

LEMMA EdgesFacts ==
  /\ Edges \in [Targets -> SUBSET Targets]
  /\ \A y \in Targets : Edges[y] = {d \in DepsOf(y) : d \in Targets /\ Built(d)}
  /\ \A t \in Targets : Promise!MadeFrom(t) = {<<x, version[x]>> : x \in Reach(t)}
<1>1. \A y : Promise!DepsOf(y) = DepsOf(y)
  BY DEF Promise!DepsOf, DepsOf, ToSet
<1>2. Promise!Files = {d \in Targets : Built(d)}
  BY DEF Promise!Files, Promise!Active, Built, IsFile
<1>3. \A t \in Targets : Promise!MadeFrom(t) = {<<x, version[x]>> : x \in Reach(t)}
  BY DEF Promise!MadeFrom, Reach, Edges
<1> QED
  BY <1>1, <1>2, <1>3 DEF Edges

\* An output is made from nothing else.
ReachInv ==
  /\ \A t \in Targets : \A p \in out[t].content : p[1] \in Reach(t)
  /\ \A id \in DOMAIN cmds : \A p \in cmds[id] : p[1] \in Reach(TargetOf(id))

LEMMA ReadReach ==
  ASSUME TypeOK, StageInv, ReachInv, NEW t \in Targets
  PROVE  \A p \in Read(t) : p[1] \in Reach(t)
<1>1. /\ t \in Reach(t) /\ Reach(t) \subseteq Targets
      /\ \A y \in Reach(t) : Edges[y] \subseteq Reach(t)
  BY EdgesFacts, FromClosed DEF Reach
<1>2. ASSUME NEW d \in DepsOf(t), IsFile(d), NEW p \in out[d].content
      PROVE  p[1] \in Reach(t)
  <2>1. d \in Targets
    BY <1>2, Positions
  <2>2. Built(d)
    BY <1>2, <2>1 DEF StageInv, Built, Missing
  <2>3. d \in Edges[t]
    BY <1>2, <2>1, <2>2, EdgesFacts
  <2>4. Reach(d) \subseteq Reach(t)
    BY <1>1, <2>1, <2>3, EdgesFacts, FromLeast DEF Reach
  <2> QED
    BY <1>2, <2>1, <2>4 DEF ReachInv
<1> QED
  BY <1>1, <1>2 DEF Read

LEMMA ReachKept ==
  ASSUME TypeOK, StageInv, ReachInv, UNCHANGED recipe,
         \A t \in Targets :
           \/ out'[t].content = out[t].content
           \/ out'[t].content = {}
           \/ \E id \in DOMAIN cmds : TargetOf(id) = t /\ out'[t].content = cmds[id],
         \A x \in DOMAIN cmds' :
           \/ x \in DOMAIN cmds /\ cmds'[x] = cmds[x]
           \/ TargetOf(x) \in Targets /\ cmds'[x] = Read(TargetOf(x))
  PROVE  ReachInv'
<1>1. \A t : Reach(t)' = Reach(t)
  BY DEF Reach, Edges, Promise!DepsOf, Promise!Files, Promise!Active, Promise!From
<1>2. \A t \in Targets : \A p \in out'[t].content : p[1] \in Reach(t)
  BY DEF ReachInv
<1>3. \A x \in DOMAIN cmds' : \A p \in cmds'[x] : p[1] \in Reach(TargetOf(x))
  BY ReadReach DEF ReachInv
<1>4. \A x : Reach(TargetOf(x))' = Reach(TargetOf(x))
  BY DEF Reach, Edges, Promise!DepsOf, Promise!Files, Promise!Active, Promise!From
<1> QED
  BY <1>1, <1>2, <1>3, <1>4 DEF ReachInv

LEMMA ReachStep ==
  ASSUME TypeOK, TreeInv, StageInv, ReachInv, Next
  PROVE  ReachInv'
<1>1. ASSUME UNCHANGED <<recipe, out, cmds>> PROVE ReachInv'
  BY <1>1, ReachKept
<1>2. ASSUME NEW id \in DOMAIN frames, Call(id) \/ ForkFails(id) \/ Kill(id) PROVE ReachInv'
  <2>1. CASE Start(id)
    <3>1. /\ UNCHANGED <<recipe, out>> /\ DOMAIN cmds' = DOMAIN cmds \cup {id}
          /\ cmds'[id] = Read(TargetOf(id)) /\ TargetOf(id) \in Targets
          /\ \A x \in DOMAIN cmds : x # id => cmds'[x] = cmds[x]
      BY <2>1, StartStep, CallType DEF world, TypeOK
    <3> QED
      BY <3>1, ReachKept
  <2>2. CASE Enter(id) \/ Visit(id) \/ DepsDone(id) \/ TakeLock(id) \/ Test(id) \/ Done(id)
    <3>1. UNCHANGED <<recipe, out, cmds>>
      BY <2>2 DEF Enter, Visit, DepsDone, TakeLock, Test, Done, world
    <3> QED
      BY <1>1, <3>1
  <2>3. CASE \/ \E c \in DOMAIN frames : Collect(id, c) \/ Return(id, c)
             \/ ForkFails(id) \/ Kill(id)
    <3>1. UNCHANGED <<recipe, out, cmds>>
      BY <2>3 DEF Collect, Return, ForkFails, Kill, world
    <3> QED
      BY <1>1, <3>1
  <2> QED
    BY <1>2, <2>1, <2>2, <2>3 DEF Call
<1>3. ASSUME NEW id \in DOMAIN cmds, Finish(id) PROVE ReachInv'
  <2>1. UNCHANGED recipe /\ Gone(id) /\ out' = Written(id)
    BY <1>3, FinishStep DEF world
  <2>2. \A t \in Targets :
           \/ out'[t].content = out[t].content
           \/ TargetOf(id) = t /\ out'[t].content = cmds[id]
    BY <2>1 DEF Written, Wrote, TypeOK
  <2> QED
    BY <2>1, <2>2, ReachKept DEF Gone
<1>4. ASSUME NEW id \in DOMAIN cmds, CommandFails(id) PROVE ReachInv'
  <2>1. UNCHANGED recipe /\ Gone(id)
    BY <1>4, CommandFailsStep DEF world
  <2>2. out' = out \/ out' = Wrote(TargetOf(id), {})
    BY <1>4, CommandFailsStep
  <2>3. \A t \in Targets : out'[t].content = out[t].content \/ out'[t].content = {}
    <3>1. CASE out' = out
      BY <3>1
    <3>2. CASE out' = Wrote(TargetOf(id), {})
      <4>1. out' = [out EXCEPT ![TargetOf(id)] =
                      [made |-> TRUE, time |-> clock', content |-> {}]]
        BY <3>2 DEF Wrote
      <4>2. DOMAIN out = Targets
        BY DEF TypeOK
      <4> QED
        BY <4>1, <4>2
    <3> QED
      BY <2>2, <3>1, <3>2
  <2> QED
    BY <2>1, <2>3, ReachKept DEF Gone
<1>5. ASSUME \/ \E n \in Jobs : Invoke(n)
             \/ \E t \in Edited, kind \in EditKinds : Edit(t, kind)
      PROVE  ReachInv'
  <2>1. UNCHANGED <<recipe, out, cmds>>
    BY <1>5 DEF Invoke, Edit, world
  <2> QED
    BY <1>1, <2>1
<1> QED
  BY <1>2, <1>3, <1>4, <1>5 DEF Next

\* Where the dependencies are current, so is what a command reads.
LEMMA ReadMade ==
  ASSUME TypeOK, StageInv, ReachInv, NEW D \in SUBSET Targets, Current(D),
         NEW t \in Targets, DepsOf(t) \subseteq D
  PROVE  Read(t) = Promise!MadeFrom(t)
<1> DEFINE S == {t} \cup {x \in D : Built(x) /\ out[x].content \subseteq Read(t)}
<1>1. S \in SUBSET Targets /\ t \in S
  OBVIOUS
<1>2. \A x \in D : Built(x) => out[x].content = Read(x) /\ DepsOf(x) \subseteq D
  BY DEF Current, Closed, Built
<1>3. ASSUME NEW y \in S, NEW d \in Edges[y] PROVE d \in S
  <2>1. d \in DepsOf(y) /\ d \in Targets /\ Built(d)
    BY <1>1, <1>3, EdgesFacts
  <2>2. d \in D /\ out[d].content \subseteq Read(y)
    BY <1>2, <1>3, <2>1 DEF Read, Built
  <2>3. Read(y) \subseteq Read(t)
    BY <1>2, <1>3
  <2> QED
    BY <2>1, <2>2, <2>3
<1>4. Reach(t) \subseteq S
  <2> HIDE DEF S
  <2> QED
    BY <1>1, <1>3, EdgesFacts, FromLeast DEF Reach
<1>5. ASSUME NEW x \in S PROVE <<x, version[x]>> \in Read(t)
  <2>1. <<x, version[x]>> \in Read(x)
    BY DEF Read
  <2> QED
    BY <1>2, <1>5, <2>1
<1>6. ASSUME NEW p \in Read(t) PROVE p[1] \in Reach(t) /\ p = <<p[1], version[p[1]]>>
  <2>1. p[2] = version[p[1]]
    BY <1>6, ReadFresh DEF Fresh
  <2>2. p \in Targets \X Nat
    <3>1. <<t, version[t]>> \in Targets \X Nat
      BY DEF TypeOK
    <3>2. \A d \in DepsOf(t) : out[d].content \subseteq Targets \X Nat
      BY DEF TypeOK, Content
    <3> QED
      BY <1>6, <3>1, <3>2 DEF Read
  <2> QED
    BY <1>6, <2>1, <2>2, ReadReach
<1>7. Promise!MadeFrom(t) = {<<x, version[x]>> : x \in Reach(t)}
  BY EdgesFacts
<1> HIDE DEF S
<1> QED
  BY <1>4, <1>5, <1>6, <1>7

LEMMA CurrentMade ==
  ASSUME TypeOK, StageInv, ReachInv, NEW D \in SUBSET Targets, Current(D),
         NEW t \in D, Built(t)
  PROVE  Promise!Current(t)
<1>1. out[t].content = Read(t) /\ DepsOf(t) \subseteq D /\ t \in Targets
  BY DEF Current, Closed, Built
<1>2. Read(t) = Promise!MadeFrom(t)
  BY <1>1, ReadMade
<1> QED
  BY <1>1, <1>2 DEF Promise!Current

LEMMA WantedMade ==
  ASSUME TypeOK, StageInv, ReachInv, ContentInv
  PROVE  SuccessMeansCurrent
<1>1. SUFFICES ASSUME result = "ok", NEW t \in Promise!Wanted PROVE Promise!Current(t)
  BY DEF SuccessMeansCurrent, Promise!SuccessMeansCurrent
<1>2. PICK D \in SUBSET Targets : Current(D)
  BY DEF ContentInv
<1> DEFINE e == [y \in Targets |-> IF recipe[y].condition = "off" THEN {}
                                   ELSE Promise!DepsOf(y)]
<1>3. \A y : Promise!DepsOf(y) = DepsOf(y)
  BY DEF Promise!DepsOf, DepsOf, ToSet
<1>4. e \in [Targets -> SUBSET Targets]
  BY <1>3, Positions
<1>5. Root \in D /\ \A y \in D : e[y] \subseteq D
  BY <1>1, <1>2, <1>3 DEF Current, Closed
<1>6. t \in Promise!From(Root, e) /\ Built(t)
  BY DEF Promise!Wanted, Promise!Files, Promise!Active, Built, IsFile
<1> HIDE DEF e
<1>7. t \in D
  BY <1>4, <1>5, <1>6, FromLeast, RecipeAssumption
<1> QED
  BY <1>2, <1>6, <1>7, CurrentMade

LEMMA ContentHolds ==
  ASSUME Strict, CleanFailures = TRUE, EditKinds \subseteq {"source"}
  PROVE  Spec => [](ContentInv /\ ReachInv)
<1>1. Init => ContentInv /\ ReachInv
  <2>1. ASSUME Init PROVE ContentInv /\ ReachInv
    <3>1. /\ \A t \in Targets : out[t] = Missing
          /\ DOMAIN frames = {} /\ DOMAIN cmds = {} /\ result = "none"
      BY <2>1 DEF Init
    <3>2. \A t \in Targets : out[t].content = {} /\ ~out[t].made
      BY <3>1 DEF Missing
    <3>3. Current({})
      BY <3>1, <3>2 DEF Current, Closed, Reported, New, Missing
    <3>4. TimesTell
      BY <3>2 DEF TimesTell, OutOfDate
    <3> QED
      BY <3>1, <3>2, <3>3, <3>4 DEF ContentInv, ReachInv
  <2> QED
    BY <2>1
<1>2. TypeOK /\ TreeInv /\ StageInv /\ ContentInv /\ ReachInv /\ [Next]_vars
        => (ContentInv /\ ReachInv)'
  <2>1. ASSUME TypeOK, StageInv, ContentInv, ReachInv, UNCHANGED vars
        PROVE  (ContentInv /\ ReachInv)'
    <3>1. UNCHANGED <<recipe, version, touched, clock, out, jobs, frames, cmds, result>>
      BY <2>1 DEF vars
    <3>2. ReachInv'
      BY <2>1, <3>1, ReachKept
    <3>3. PICK D \in SUBSET Targets : Current(D)
      BY <2>1 DEF ContentInv
    <3>4. Reported(D, 1)'
      BY <2>1, <3>1, <3>3, OthersReported DEF Current
    <3>5. Current(D)'
      BY <2>1, <3>1, <3>3, <3>4, CurrentKept
    <3>6. TimesTell'
      BY <2>1, <3>1 DEF ContentInv, TimesTell, OutOfDate, Built, IsFile, DepsOf, Read
    <3> QED
      BY <3>2, <3>5, <3>6 DEF ContentInv
  <2> QED
    BY <2>1, ContentStep, ReachStep
<1> QED
  BY <1>1, <1>2, TypedTree, Stage, PTL DEF Spec

\* When meow reports success every output that was asked for is made from the
\* sources as they are and from outputs that are, however the builds before
\* ended: what the comparison of the times lets pass was written by a command
\* that read what is there now.  The conditions are the ones without which it
\* is not so: a command that fails leaves its output alone and ends its target,
\* and only sources are edited.
THEOREM SuccessIsCurrent ==
  ASSUME Strict, CleanFailures = TRUE, EditKinds \subseteq {"source"}
  PROVE  Spec => []SuccessMeansCurrent
<1>1. TypeOK /\ StageInv /\ ContentInv /\ ReachInv => SuccessMeansCurrent
  BY WantedMade
<1> QED
  BY <1>1, TypedTree, Stage, ContentHolds, PTL

-----------------------------------------------------------------------------
\* The refinement

\* Steps that leave the sources, the outputs and the promise's result alone, or
\* that end the build.
LEMMA ResultRefines ==
  ASSUME UNCHANGED <<recipe, version>>, \A t \in Targets : out'[t].content = out[t].content,
         WholeInv, SuccessMeansCurrent',
         NEW id, NEW res \in {"ok", "failed"},
         \/ UNCHANGED result
         \/ result' = res /\ Top \in DOMAIN frames
  PROVE  [Promise!Next]_(Promise!vars)
<1>1. [t \in Targets |-> out[t].content]' = [t \in Targets |-> out[t].content]
  OBVIOUS
<1>2. CASE UNCHANGED result
  BY <1>1, <1>2 DEF Promise!vars
<1>3. CASE result = "running" /\ result' = "failed"
  BY <1>1, <1>3 DEF Promise!Next, Promise!Fail
<1>4. CASE result = "running" /\ result' = "ok"
  <2>1. \A t \in Promise!Wanted' : Promise!Current(t)'
    BY <1>4 DEF SuccessMeansCurrent, Promise!SuccessMeansCurrent
  <2>2. Promise!Wanted' = Promise!Wanted
    BY DEF Promise!Wanted, Promise!Files, Promise!Active, Promise!From, Promise!DepsOf
  <2>3. \A t \in Promise!Wanted : t \in Targets
    BY DEF Promise!Wanted, Promise!Files, Promise!Active
  <2>4. \A t \in Targets : Promise!Current(t)' <=> Promise!Current(t)
    <3>1. \A t \in Targets : Promise!MadeFrom(t)' = Promise!MadeFrom(t)
      BY DEF Promise!MadeFrom, Promise!From, Promise!DepsOf, Promise!Files, Promise!Active
    <3> QED
      BY <3>1 DEF Promise!Current
  <2>5. Promise!Succeed
    BY <1>1, <1>4, <2>1, <2>2, <2>3, <2>4 DEF Promise!Succeed
  <2> QED
    BY <2>5 DEF Promise!Next
<1> QED
  BY <1>2, <1>3, <1>4 DEF WholeInv

LEMMA FinishRefines ==
  ASSUME TypeOK, StageInv, ReachInv, ContentInv, NEW id \in DOMAIN cmds, Finish(id)
  PROVE  [Promise!Next]_(Promise!vars)
<1> DEFINE t == TargetOf(id)
           C == [x \in Targets |-> out[x].content]
<1>1. out' = Written(id) /\ UNCHANGED <<recipe, version, result>>
  BY FinishStep DEF world
<1>2. PICK D \in SUBSET Targets : Current(D)
  BY DEF ContentInv
<1>3. /\ t \in Targets /\ recipe[t].condition = "build"
      /\ cmds[id] = Read(t) /\ DepsOf(t) \subseteq D
  <2>1. id \in Calls
    BY DEF TypeOK
  <2> QED
    BY <1>2, <2>1, CallType, JobsType DEF StageInv, Current, Reported
<1>4. CASE ~IsFile(t)
  <2>1. UNCHANGED out
    BY <1>1, <1>4 DEF Written
  <2> QED
    BY <1>1, <2>1 DEF Promise!vars
<1>5. CASE IsFile(t)
  <2>1. t \in Promise!Files
    BY <1>3, <1>5 DEF Promise!Files, Promise!Active, IsFile
  <2>2. \A d \in Promise!DepsOf(t) \cap Promise!Files : Promise!Current(d)
    <3>1. Promise!DepsOf(t) = DepsOf(t)
      BY DEF Promise!DepsOf, DepsOf, ToSet
    <3>2. \A d \in Promise!Files : Built(d)
      BY DEF Promise!Files, Promise!Active, Built, IsFile
    <3> QED
      BY <1>2, <1>3, <3>1, <3>2, CurrentMade
  <2>3. C' = [C EXCEPT ![t] = Promise!MadeFrom(t)]
    <3>1. out'[t].content = Promise!MadeFrom(t)
      <4>1. Read(t) = Promise!MadeFrom(t)
        BY <1>2, <1>3, ReadMade
      <4>2. out'[t].content = cmds[id]
        BY <1>1, <1>3, <1>5 DEF Written, Wrote, TypeOK
      <4> QED
        BY <1>3, <4>1, <4>2
    <3>2. \A x \in Targets : x # t => out'[x] = out[x]
      BY <1>1, <1>5 DEF Written, Wrote, TypeOK
    <3>3. \A x \in Targets : out'[x].content = IF x = t THEN Promise!MadeFrom(t) ELSE out[x].content
      BY <3>1, <3>2
    <3> HIDE DEF t
    <3> QED
      BY <3>3
  <2>4. Promise!Make(t)
    BY <1>1, <2>1, <2>2, <2>3 DEF Promise!Make
  <2> QED
    BY <1>3, <2>4 DEF Promise!Next
<1> QED
  BY <1>4, <1>5

LEMMA StepRefines ==
  ASSUME TypeOK, TreeInv, StageInv, WholeInv, ReachInv, ContentInv, SuccessMeansCurrent',
         CleanFailures = TRUE, Next
  PROVE  [Promise!Next]_(Promise!vars)
<1>1. ASSUME NEW id \in DOMAIN frames, NEW res \in {"ok", "failed"}, Exits(id, res),
             UNCHANGED <<recipe, version, out>>
      PROVE  [Promise!Next]_(Promise!vars)
  <2>1. IsRoot(id) /\ id.inv = Len(jobs) => id = Top
    BY UnderTop DEF TypeOK
  <2>2. UNCHANGED result \/ (result' = res /\ Top \in DOMAIN frames)
    BY <1>1, <2>1 DEF Exits
  <2> QED
    BY <1>1, <2>2, ResultRefines
<1>2. ASSUME UNCHANGED <<recipe, version, out, result>> PROVE [Promise!Next]_(Promise!vars)
  BY <1>2 DEF Promise!vars
<1>3. ASSUME NEW id \in DOMAIN frames, Enter(id) PROVE [Promise!Next]_(Promise!vars)
  BY <1>1, <1>2, <1>3, EnterStep DEF world
<1>4. ASSUME NEW id \in DOMAIN frames, DepsDone(id) PROVE [Promise!Next]_(Promise!vars)
  BY <1>1, <1>2, <1>4, DepsDoneStep DEF world
<1>5. ASSUME NEW id \in DOMAIN frames, Visit(id) \/ TakeLock(id) \/ Test(id) \/ Start(id)
      PROVE  [Promise!Next]_(Promise!vars)
  BY <1>2, <1>5 DEF Visit, TakeLock, Test, Start, world
<1>6. ASSUME NEW id \in DOMAIN frames, Done(id) \/ ForkFails(id)
      PROVE  [Promise!Next]_(Promise!vars)
  BY <1>1, <1>6, DoneStep, ForkFailsStep DEF world
<1>7. ASSUME NEW id \in DOMAIN frames, NEW c \in DOMAIN frames, Collect(id, c) \/ Return(id, c)
      PROVE  [Promise!Next]_(Promise!vars)
  BY <1>1, <1>2, <1>7, CollectStep, ReturnStep DEF world
<1>8. ASSUME NEW id \in DOMAIN frames, Kill(id) PROVE [Promise!Next]_(Promise!vars)
  <2>1. UNCHANGED <<recipe, version, out>>
    BY <1>8, KillStep DEF world
  <2>2. IsRoot(id) /\ id.inv = Len(jobs) => id = Top
    BY UnderTop DEF TypeOK
  <2>3. UNCHANGED result \/ (result' = "failed" /\ Top \in DOMAIN frames)
    BY <1>8, <2>2, KillStep
  <2> QED
    BY <2>1, <2>3, ResultRefines
<1>9. ASSUME NEW id \in DOMAIN cmds, Finish(id) PROVE [Promise!Next]_(Promise!vars)
  BY <1>9, FinishRefines
<1>10. ASSUME NEW id \in DOMAIN cmds, CommandFails(id) PROVE [Promise!Next]_(Promise!vars)
  <2>1. UNCHANGED <<recipe, version, out>>
    BY <1>10, CommandFailsStep
  <2> QED
    BY <1>1, <1>2, <1>10, <2>1, CommandFailsStep DEF Live
<1>11. ASSUME NEW n \in Jobs, Invoke(n) PROVE [Promise!Next]_(Promise!vars)
  BY <1>11, InvokeStep DEF Promise!Next, Promise!Begin, world
<1>12. ASSUME NEW t \in Edited, NEW kind \in EditKinds, Edit(t, kind)
       PROVE  [Promise!Next]_(Promise!vars)
  <2>1. /\ DOMAIN frames = {} /\ t \in Targets /\ result' = "none"
        /\ version' = [version EXCEPT ![t] = @ + 1] /\ UNCHANGED <<recipe, out>>
    BY <1>12, EditedAssumption DEF Edit
  <2>2. result # "running"
    BY <2>1 DEF WholeInv
  <2>3. Promise!Edit(t)
    BY <2>1, <2>2 DEF Promise!Edit
  <2> QED
    BY <2>1, <2>3 DEF Promise!Next
<1> QED
  BY <1>3, <1>4, <1>5, <1>6, <1>7, <1>8, <1>9, <1>10, <1>11, <1>12 DEF Next, Call

\* The engine implements what a build promises: an output is only written when
\* every output it is made from is current, in a build that fails as little as
\* in one that succeeds.
THEOREM EngineImplementsBuild ==
  ASSUME Strict, CleanFailures = TRUE, EditKinds \subseteq {"source"}
  PROVE  Spec => ImplementsBuild
<1>1. Init => Promise!Init
  BY DEF Init, Promise!Init, Missing
<1>2. /\ TypeOK /\ TreeInv /\ StageInv /\ WholeInv /\ ReachInv /\ ContentInv
      /\ SuccessMeansCurrent'
      /\ [Next]_vars
      => [Promise!Next]_(Promise!vars)
  <2>1. ASSUME UNCHANGED vars PROVE UNCHANGED Promise!vars
    BY <2>1 DEF vars, Promise!vars
  <2> QED
    BY <2>1, StepRefines
<1>3. Spec => []SuccessMeansCurrent
  BY SuccessIsCurrent
<1> QED
  BY <1>1, <1>2, <1>3, TypedTree, Stage, Whole, ContentHolds, PTL
     DEF Spec, ImplementsBuild, Promise!Spec

-----------------------------------------------------------------------------
\* The inputs of commands

\* What is built depends on no file that this machine does not build.
InputsBuilt ==
  \A r \in Recipes, t \in Targets :
    r[t].file /\ r[t].condition = "build" =>
      \A i \in DOMAIN r[t].deps : LET d == r[t].deps[i]
                                  IN  r[d].file => r[d].condition = "build"

\* Calls that are about to run a command, and the commands that run
AtWork == {x \in DOMAIN frames : frames[x].at = "start"} \cup DOMAIN cmds

\* Nothing takes the output of t, or of a file below it, without a lock ...
LockedBelow(t) == \A x \in Below(t) : recipe[x].parallel # 1

\* ... where every build is parallel.
Forks == \A n \in DOMAIN jobs : jobs[n] > 1

\* D are targets that no command will find out of date any more, as long as
\* they are locked all the way down.
Settled(D) ==
  /\ Closed(D) /\ Reported(D, 1)
  /\ \A t \in D : Built(t) /\ LockedBelow(t) => ~OutOfDate(t)
  /\ \A id \in DOMAIN frames : frames[id].at = "done" => TargetOf(id) \in D
  /\ \A x \in AtWork :
       IsFile(TargetOf(x)) /\ LockedBelow(TargetOf(x)) => TargetOf(x) \notin D

SettledInv == Forks => \E D \in SUBSET Targets : Settled(D)

\* What is below a target, along its dependencies
LEMMA BelowFacts ==
  ASSUME TypeOK, NEW t \in Targets
  PROVE  /\ LockedBelow(t) => recipe[t].parallel # 1
         /\ \A d \in DepsOf(t) : d \in Targets /\ (Built(d) /\ LockedBelow(t) => LockedBelow(d))
<1>1. \A y : Promise!DepsOf(y) = DepsOf(y)
  BY DEF Promise!DepsOf, DepsOf, ToSet
<1>2. \A y \in Targets : Below(y) = Reach(y)
  BY <1>1 DEF Below, Reach, Edges
<1>3. /\ t \in Reach(t) /\ Reach(t) \subseteq Targets
      /\ \A y \in Reach(t) : Edges[y] \subseteq Reach(t)
  BY EdgesFacts, FromClosed DEF Reach
<1>4. ASSUME NEW d \in DepsOf(t), Built(d) PROVE Below(d) \subseteq Below(t)
  <2>1. d \in Targets /\ d \in Edges[t]
    BY <1>4, Positions, EdgesFacts
  <2>2. Reach(d) \subseteq Reach(t)
    BY <1>3, <2>1, EdgesFacts, FromLeast DEF Reach
  <2> QED
    BY <1>2, <2>1, <2>2
<1> QED
  BY <1>2, <1>3, <1>4, Positions DEF LockedBelow

LEMMA BelowKept ==
  ASSUME UNCHANGED recipe
  PROVE  \A t : LockedBelow(t)' <=> LockedBelow(t)
BY DEF LockedBelow, Below, DepsOf, Promise!Files, Promise!Active, Promise!From

LEMMA AtWorkFacts ==
  ASSUME TypeOK, TreeInv, StageInv
  PROVE  /\ AtWork \subseteq Guarded /\ AtWork \subseteq Calls
         /\ \A x \in AtWork : TargetOf(x) \in Targets /\ recipe[TargetOf(x)].condition = "build"
<1>1. AtWork \subseteq Guarded /\ AtWork \subseteq Calls
  BY DEF AtWork, Guarded, TypeOK
<1>2. \A x \in AtWork : recipe[TargetOf(x)].condition = "build"
  BY DEF AtWork, StageInv, Later
<1> QED
  BY <1>1, <1>2, CallType

\* Nobody else is at work on the target of a call that is past its lock.
LEMMA NobodyElse ==
  ASSUME TypeOK, TreeInv, StageInv, LockInv, Forks, NEW id \in Guarded,
         LockedBelow(TargetOf(id)), NEW x \in AtWork, TargetOf(x) = TargetOf(id)
  PROVE  x = id
<1>1. x \in Guarded /\ x \in Calls /\ id \in Calls /\ TargetOf(id) \in Targets
  BY AtWorkFacts, GuardedType
<1>2. recipe[TargetOf(id)].parallel # 1
  BY <1>1, BelowFacts
<1>3. jobs[x.inv] > 1 /\ jobs[id.inv] > 1
  <2>1. \A y \in Calls : y.inv \in 1 .. Len(jobs)
    BY CallType
  <2>2. DOMAIN jobs = 1 .. Len(jobs)
    BY DEF TypeOK
  <2> QED
    BY <1>1, <2>1, <2>2 DEF Forks
<1>4. Locked(x) /\ Locked(id)
  BY <1>2, <1>3 DEF Locked
<1> QED
  BY <1>1, <1>4 DEF LockInv

\* Steps that leave the outputs alone
LEMMA SettledKept ==
  ASSUME TypeOK, NEW D, NEW D2, Settled(D), D \subseteq D2,
         UNCHANGED <<recipe, touched, out>>, Reported(D2, 1)',
         \A t \in D2 \ D : /\ recipe[t].condition = "off" \/ DepsOf(t) \subseteq D2
                           /\ Built(t) => ~OutOfDate(t),
         \A x \in DOMAIN frames' : frames'[x].at = "done" =>
           (x \in DOMAIN frames /\ frames[x].at = "done") \/ TargetOf(x) \in D2,
         \A x \in AtWork' : IsFile(TargetOf(x)) /\ LockedBelow(TargetOf(x)) =>
           (x \in AtWork /\ TargetOf(x) \notin D2 \ D) \/ TargetOf(x) \notin D2
  PROVE  Settled(D2)'
<1>1. \A t : /\ DepsOf(t)' = DepsOf(t) /\ (OutOfDate(t)' <=> OutOfDate(t))
            /\ (Built(t)' <=> Built(t))
  BY DEF DepsOf, OutOfDate, Built, IsFile
<1>2. Closed(D2)'
  BY <1>1 DEF Settled, Closed
<1>3. \A t \in D2 : Built(t)' /\ LockedBelow(t)' => ~OutOfDate(t)'
  BY <1>1, BelowKept DEF Settled
<1>4. \A x \in DOMAIN frames' : frames'[x].at = "done" => TargetOf(x) \in D2
  BY DEF Settled
<1>5. \A x \in AtWork' :
        IsFile(TargetOf(x)) /\ LockedBelow(TargetOf(x)) => TargetOf(x) \notin D2
  BY DEF Settled
<1>6. ASSUME NEW x \in AtWork', IsFile(TargetOf(x))', LockedBelow(TargetOf(x))'
      PROVE  TargetOf(x) \notin D2
  <2>1. IsFile(TargetOf(x))
    BY <1>6 DEF IsFile
  <2>2. LockedBelow(TargetOf(x))
    BY <1>6 DEF LockedBelow, Below, DepsOf, Promise!Files, Promise!Active, Promise!From
  <2> QED
    BY <1>5, <1>6, <2>1, <2>2
<1> QED
  BY <1>2, <1>3, <1>4, <1>6 DEF Settled

LEMMA SettledStaged ==
  ASSUME TypeOK, NEW D \in SUBSET Targets, NEW D2, Settled(D),
         D \subseteq D2, UNCHANGED <<recipe, touched, out, jobs>>,
         NEW id, NEW l, Staged(id, l),
         \A t \in D2 \ D : /\ recipe[t].condition = "off" \/ DepsOf(t) \subseteq D2
                           /\ Built(t) => ~OutOfDate(t),
         l = "done" => TargetOf(id) \in D2,
         l \in Later => DepsOf(TargetOf(id)) \subseteq D,
         l = "deps" => \A d \in DepsOf(TargetOf(id)) :
                         d \in D \/ \E i \in frames'[id].todo : recipe[TargetOf(id)].deps[i] = d,
         DOMAIN cmds' \subseteq DOMAIN cmds \cup (IF l = "wait" THEN {id} ELSE {}),
         \A x \in AtWork' : IsFile(TargetOf(x)) /\ LockedBelow(TargetOf(x)) =>
           (x \in AtWork /\ TargetOf(x) \notin D2 \ D) \/ TargetOf(x) \notin D2
  PROVE  Settled(D2)'
<1>1. /\ Reported(D, 1)
      /\ DOMAIN cmds' \subseteq DOMAIN cmds \cup (IF l \in Later THEN {id} ELSE {})
  BY DEF Settled, Later
<1>2. Reported(D2, 1)'
  BY <1>1, StagedReported
<1>3. \A x \in DOMAIN frames' : frames'[x].at = "done" =>
           (x \in DOMAIN frames /\ frames[x].at = "done") \/ TargetOf(x) \in D2
  BY DEF Staged
<1> QED
  BY <1>2, <1>3, SettledKept

LEMMA SettledLeaves ==
  ASSUME TypeOK, NEW D, NEW D2, Settled(D),
         D \subseteq D2, UNCHANGED <<recipe, touched, out, jobs>>,
         NEW id, NEW res, Leaves(id, res),
         \A t \in D2 \ D : /\ recipe[t].condition = "off" \/ DepsOf(t) \subseteq D2
                           /\ Built(t) => ~OutOfDate(t),
         res = "ok" => TargetOf(id) \in D2,
         DOMAIN cmds' \subseteq DOMAIN cmds,
         \A x \in AtWork' : TargetOf(x) \notin D2 \ D
  PROVE  Settled(D2)'
<1>1. Reported(D2, 1)'
  BY LeavesReported DEF Settled
<1>2. \A x \in DOMAIN frames' : frames'[x].at = "done" =>
           (x \in DOMAIN frames /\ frames[x].at = "done")
  BY DEF Leaves
<1>3. AtWork' \subseteq AtWork
  BY DEF AtWork, Leaves
<1> QED
  BY <1>1, <1>2, <1>3, SettledKept

\* What a call has reported; one whose command has not been started, or has
\* ended, is not at work.
LEMMA SettledFacts ==
  ASSUME TypeOK, TreeInv, NEW D, Settled(D)
  PROVE  /\ Reported(D, 1)
         /\ \A id \in DOMAIN frames : /\ id \in Calls /\ TargetOf(id) \in Targets
                                      /\ Account(D, id)
         /\ \A id \in DOMAIN cmds : /\ id \in Calls /\ TargetOf(id) \in Targets
                                    /\ DepsOf(TargetOf(id)) \subseteq D
         /\ \A id \in DOMAIN frames :
              ~Ended(id) /\ frames[id].at # "wait" => id \notin DOMAIN cmds
<1>1. Reported(D, 1)
  BY DEF Settled
<1>2. DOMAIN frames \subseteq Calls /\ DOMAIN cmds \subseteq Calls
  BY DEF TypeOK
<1>3. \A id \in DOMAIN frames : ~Ended(id) /\ frames[id].at # "wait" => id \notin DOMAIN cmds
  BY DEF TreeInv, CmdsOK, Live
<1> QED
  BY <1>1, <1>2, <1>3, CallType, JobsType DEF Reported

\* A command writes.  Nobody in D depends on its output, and the one that has
\* the lock is the only one at work on it.
LEMMA WroteSettled ==
  ASSUME TypeOK, TreeInv, StageInv, LockInv, Forks, InputsBuilt,
         NEW D \in SUBSET Targets, NEW D2, Settled(D), NEW id \in DOMAIN cmds,
         D \subseteq D2, D2 \subseteq D \cup {TargetOf(id)},
         IsFile(TargetOf(id)), UNCHANGED <<recipe, touched, jobs>>,
         TimePasses, NEW content, out' = Wrote(TargetOf(id), content),
         Reported(D2, 1)', AtWork' \subseteq AtWork \ {id},
         \A x \in DOMAIN frames' : frames'[x].at = "done" =>
           (x \in DOMAIN frames /\ frames[x].at = "done") \/ TargetOf(x) \in D2
  PROVE  Settled(D2)'
<1> DEFINE t == TargetOf(id)
<1>1. /\ id \in AtWork /\ id \in Guarded /\ t \in Targets /\ Built(t) /\ DepsOf(t) \subseteq D
      /\ LockedBelow(t) => t \notin D
  <2>1. id \in AtWork
    BY DEF AtWork
  <2> QED
    BY <2>1, AtWorkFacts, SettledFacts DEF Built, Settled
<1>2. /\ out'[t].made /\ out'[t].time = clock'
      /\ \A x \in Targets : x # t => out'[x] = out[x]
  <2>1. out' = [out EXCEPT ![t] = [made |-> TRUE, time |-> clock', content |-> content]]
    BY DEF Wrote
  <2>2. DOMAIN out = Targets
    BY DEF TypeOK
  <2> QED
    BY <1>1, <2>1, <2>2
<1>3. /\ \A x : DepsOf(x)' = DepsOf(x) /\ (IsFile(x)' <=> IsFile(x)) /\ (Built(x)' <=> Built(x))
      /\ \A x \in Targets : DepsOf(x) \subseteq Targets
  BY Positions DEF DepsOf, Built, IsFile
<1>4. ASSUME NEW x \in Targets, NEW d \in DepsOf(x), Built(x), IsFile(d)
      PROVE  Built(d) /\ (LockedBelow(x) => LockedBelow(d))
  <2>1. recipe \in Recipes /\ recipe[x].file /\ recipe[x].condition = "build"
    BY <1>4 DEF TypeOK, Built, IsFile
  <2>2. \E i \in DOMAIN recipe[x].deps : recipe[x].deps[i] = d
    BY <1>4 DEF DepsOf, ToSet
  <2>3. Built(d)
    BY <1>4, <2>1, <2>2 DEF InputsBuilt, Built, IsFile
  <2> QED
    BY <2>3, BelowFacts
<1>5. ASSUME NEW x \in D, x # t, Built(x), LockedBelow(x) PROVE ~OutOfDate(x)'
  <2>1. ~OutOfDate(x) /\ DepsOf(x) \subseteq D /\ x \in Targets
    BY <1>5 DEF Settled, Closed, Built
  <2>2. \A d \in DepsOf(x) : IsFile(d) => d # t
    BY <1>1, <1>4, <1>5, <2>1
  <2>3. out'[x] = out[x] /\ \A d \in DepsOf(x) : IsFile(d) => out'[d] = out[d]
    BY <1>2, <1>3, <1>5, <2>1, <2>2
  <2> QED
    BY <1>3, <2>1, <2>3 DEF OutOfDate
<1>6. ASSUME LockedBelow(t) PROVE ~OutOfDate(t)'
  <2>1. /\ clock \in Nat /\ clock' \in Nat /\ clock' >= clock
        /\ \A x \in Targets : out[x].time \in 0 .. clock /\ touched[x] \in 0 .. clock
    BY DEF TypeOK, TimePasses
  <2>2. ASSUME NEW d \in DepsOf(t), IsFile(d) PROVE out'[d].made /\ ~(out'[d].time > clock')
    <3>1. d \in D /\ d \in Targets /\ d # t
      BY <1>1, <1>6, <2>2
    <3>2. Built(d) /\ LockedBelow(d)
      BY <1>1, <1>4, <1>6, <2>2
    <3>3. out[d].made /\ out'[d] = out[d]
      BY <1>2, <3>1, <3>2 DEF Settled, OutOfDate
    <3> QED
      BY <2>1, <3>1, <3>3
  <2>3. ~(touched[t] > clock')
    BY <1>1, <2>1
  <2> QED
    BY <1>1, <1>2, <1>3, <2>2, <2>3 DEF OutOfDate, Built
<1>7. \A x \in D2 : Built(x)' /\ LockedBelow(x)' => ~OutOfDate(x)'
  <2>1. ASSUME NEW x \in D2, Built(x), LockedBelow(x) PROVE ~OutOfDate(x)'
    <3>1. CASE x = t
      BY <1>6, <2>1, <3>1
    <3>2. CASE x # t
      BY <1>5, <2>1, <3>2
    <3> QED
      BY <3>1, <3>2
  <2> QED
    BY <1>3, <2>1, BelowKept
<1>8. ASSUME NEW x \in AtWork', IsFile(TargetOf(x))', LockedBelow(TargetOf(x))'
      PROVE  TargetOf(x) \notin D2
  <2>1. x \in AtWork /\ x # id /\ IsFile(TargetOf(x)) /\ LockedBelow(TargetOf(x))
    BY <1>8 DEF IsFile, LockedBelow, Below, DepsOf, Promise!Files, Promise!Active, Promise!From
  <2>2. TargetOf(x) \notin D
    BY <2>1 DEF Settled
  <2>3. TargetOf(x) # t
    BY <1>1, <2>1, NobodyElse
  <2> QED
    BY <2>2, <2>3
<1>9. Closed(D2)'
  BY <1>1, <1>3 DEF Settled, Closed
<1>10. \A x \in DOMAIN frames' : frames'[x].at = "done" => TargetOf(x) \in D2
  BY DEF Settled
<1> QED
  BY <1>7, <1>8, <1>9, <1>10 DEF Settled

\* A command ends that has written no output, or that has left it as it was.
LEMMA LeftSettled ==
  ASSUME TypeOK, TreeInv, StageInv, NEW D \in SUBSET Targets, Settled(D),
         NEW id \in DOMAIN cmds, Gone(id), UNCHANGED <<recipe, touched, out, jobs>>,
         \/ id \in Live /\ ~IsFile(TargetOf(id)) /\ Staged(id, "done")
         \/ id \in Live /\ Leaves(id, "failed")
         \/ UNCHANGED frames
  PROVE  \E E \in SUBSET Targets : Settled(E)'
<1> DEFINE t == TargetOf(id)
           D2 == D \cup {t}
<1>1. /\ t \in Targets /\ DepsOf(t) \subseteq D /\ Reported(D, 1)
      /\ DOMAIN cmds' \subseteq DOMAIN cmds /\ id \notin DOMAIN cmds'
  BY SettledFacts DEF Gone
<1>2. CASE ~IsFile(t) /\ Staged(id, "done")
  <2>1. D2 \in SUBSET Targets /\ D \subseteq D2 /\ t \in D2
    BY <1>1
  <2>2. \A x \in D2 \ D : /\ recipe[x].condition = "off" \/ DepsOf(x) \subseteq D2
                          /\ Built(x) => ~OutOfDate(x)
    BY <1>1, <1>2 DEF Built
  <2>3. AtWork' \subseteq AtWork
    BY <1>1, <1>2 DEF AtWork, Staged
  <2>4. \A x \in AtWork' : IsFile(TargetOf(x)) => x \in AtWork /\ TargetOf(x) \notin D2 \ D
    BY <1>2, <2>3
  <2> HIDE DEF D2, t
  <2>5. Settled(D2)'
    BY <1>1, <1>2, <2>1, <2>2, <2>4, SettledStaged DEF t, Later
  <2> QED
    BY <2>1, <2>5
<1>3. CASE Leaves(id, "failed")
  <2>1. Settled(D)'
    BY <1>1, <1>3, SettledLeaves
  <2> QED
    BY <2>1
<1>4. CASE UNCHANGED frames
  <2>1. Reported(D, 1)'
    BY <1>1, <1>4, OthersReported
  <2>2. AtWork' \subseteq AtWork
    BY <1>1, <1>4 DEF AtWork
  <2>3. Settled(D)'
    BY <1>1, <1>4, <2>1, <2>2, SettledKept
  <2> QED
    BY <2>3
<1> QED
  BY <1>2, <1>3, <1>4

\* A command ends that has written.
LEMMA OutputSettled ==
  ASSUME TypeOK, TreeInv, StageInv, LockInv, Forks, InputsBuilt,
         NEW D \in SUBSET Targets, Settled(D), NEW id \in DOMAIN cmds, Gone(id),
         IsFile(TargetOf(id)), UNCHANGED <<recipe, touched, jobs>>,
         TimePasses, NEW content, out' = Wrote(TargetOf(id), content),
         \/ id \in Live /\ Staged(id, "done")
         \/ id \in Live /\ Leaves(id, "failed")
         \/ UNCHANGED frames
  PROVE  \E E \in SUBSET Targets : Settled(E)'
<1> DEFINE t == TargetOf(id)
           D2 == D \cup {t}
<1>1. /\ t \in Targets /\ DepsOf(t) \subseteq D /\ Reported(D, 1)
      /\ DOMAIN cmds' = DOMAIN cmds \ {id}
  BY SettledFacts DEF Gone
<1>2. /\ D2 \in SUBSET Targets /\ D \subseteq D2 /\ t \in D2 /\ DepsOf(t) \subseteq D2
      /\ D2 \subseteq D \cup {TargetOf(id)}
  BY <1>1
<1> HIDE DEF D2
<1>3. CASE Staged(id, "done")
  <2>1. Reported(D2, 1)'
    BY <1>1, <1>2, <1>3, StagedReported DEF Later
  <2>2. AtWork' \subseteq AtWork \ {id}
    BY <1>1, <1>3 DEF AtWork, Staged
  <2>3. \A x \in DOMAIN frames' : frames'[x].at = "done" =>
           (x \in DOMAIN frames /\ frames[x].at = "done") \/ TargetOf(x) \in D2
    BY <1>2, <1>3 DEF Staged
  <2>4. Settled(D2)'
    BY <1>2, <2>1, <2>2, <2>3, WroteSettled
  <2> QED
    BY <1>2, <2>4
<1>4. CASE id \in Live /\ Leaves(id, "failed")
  <2>1. Reported(D, 1)'
    BY <1>1, <1>4, LeavesReported
  <2>2. frames[id].at = "wait"
    BY <1>4 DEF TreeInv, CmdsOK
  <2>3. AtWork' \subseteq AtWork \ {id}
    BY <1>1, <1>4, <2>2 DEF AtWork, Leaves
  <2>4. \A x \in DOMAIN frames' : frames'[x].at = "done" =>
           (x \in DOMAIN frames /\ frames[x].at = "done")
    BY <1>4 DEF Leaves
  <2>5. Settled(D)'
    BY <2>1, <2>3, <2>4, WroteSettled
  <2> QED
    BY <2>5
<1>5. CASE UNCHANGED frames
  <2>1. Reported(D, 1)'
    BY <1>1, <1>5, OthersReported
  <2>2. id \in DOMAIN frames => frames[id].at # "start"
    BY DEF TreeInv, CmdsOK, Live, Ended
  <2>3. AtWork' \subseteq AtWork \ {id}
    BY <1>1, <1>5, <2>2 DEF AtWork
  <2>4. Settled(D)'
    BY <1>5, <2>1, <2>3, WroteSettled
  <2> QED
    BY <2>4
<1> QED
  BY <1>3, <1>4, <1>5

LEMMA StillForks ==
  ASSUME TypeOK, Next, Forks'
  PROVE  Forks
<1>1. ASSUME UNCHANGED jobs PROVE Forks
  BY <1>1 DEF Forks
<1>2. ASSUME NEW n \in Jobs, Invoke(n) PROVE Forks
  <2>1. /\ jobs' \in Seq(Jobs) /\ Len(jobs') = Len(jobs) + 1
        /\ \A i \in 1 .. Len(jobs) : jobs'[i] = jobs[i]
    BY <1>2, InvokeStep
  <2>2. jobs \in Seq(Jobs) /\ Len(jobs) \in Nat
    BY LenProperties DEF TypeOK
  <2>3. DOMAIN jobs = 1 .. Len(jobs) /\ DOMAIN jobs' = 1 .. Len(jobs')
    BY <2>1, <2>2
  <2>4. \A i \in 1 .. Len(jobs) : i \in 1 .. Len(jobs')
    BY <2>1, <2>2
  <2>5. \A i \in DOMAIN jobs : jobs'[i] > 1
    BY <2>3, <2>4 DEF Forks
  <2> QED
    BY <2>1, <2>3, <2>5 DEF Forks
<1>3. ASSUME NEW id \in DOMAIN frames, Call(id) \/ ForkFails(id) \/ Kill(id) PROVE UNCHANGED jobs
  BY <1>3 DEF Call, Enter, Visit, DepsDone, TakeLock, Test, Start, Done, Collect,
              Return, ForkFails, Kill
<1>4. ASSUME NEW id \in DOMAIN cmds, Finish(id) \/ CommandFails(id) PROVE UNCHANGED jobs
  BY <1>4 DEF Finish, CommandFails
<1>5. ASSUME NEW t \in Edited, NEW kind \in EditKinds, Edit(t, kind) PROVE UNCHANGED jobs
  BY <1>5 DEF Edit
<1> QED
  BY <1>1, <1>2, <1>3, <1>4, <1>5 DEF Next

LEMMA SettledStep ==
  ASSUME TypeOK, TreeInv, StageInv, LockInv, SettledInv, Next, Strict, InputsBuilt
  PROVE  SettledInv'
<1> SUFFICES ASSUME Forks, Forks' PROVE \E E \in SUBSET Targets : Settled(E)'
  BY StillForks DEF SettledInv
<1> DEFINE Some == \E E \in SUBSET Targets : Settled(E)'
<1>1. PICK D \in SUBSET Targets : Settled(D)
  BY DEF SettledInv
<1>2. /\ Reported(D, 1)
      /\ \A id \in DOMAIN frames : /\ id \in Calls /\ TargetOf(id) \in Targets
                                   /\ Account(D, id)
      /\ \A id \in DOMAIN frames :
           ~Ended(id) /\ frames[id].at # "wait" => id \notin DOMAIN cmds
  BY <1>1, SettledFacts
<1>3. ASSUME NEW E \in SUBSET Targets, Settled(E)' PROVE Some
  BY <1>3
<1> HIDE DEF Some
\* Steps in which nothing is finished
<1>4. ASSUME UNCHANGED <<recipe, touched, out>>,
             Reported(D, 1)', AtWork' \subseteq AtWork,
             \A x \in DOMAIN frames' : frames'[x].at = "done" =>
               x \in DOMAIN frames /\ frames[x].at = "done"
      PROVE  Some
  <2>1. Settled(D)'
    BY <1>1, <1>4, SettledKept
  <2> QED
    BY <1>3, <2>1
<1>5. ASSUME NEW id \in DOMAIN frames, Leaves(id, "failed"), UNCHANGED <<world, out, jobs, cmds>>
      PROVE  Some
  <2>1. Settled(D)'
    BY <1>1, <1>5, SettledLeaves DEF world
  <2> QED
    BY <1>3, <2>1
\* A call ends whose target is not built here.
<1>6. ASSUME NEW id \in DOMAIN frames, Exits(id, "ok"), UNCHANGED <<world, out, jobs, cmds>>,
             recipe[TargetOf(id)].condition # "build",
             recipe[TargetOf(id)].condition = "off" \/ DepsOf(TargetOf(id)) \subseteq D
      PROVE  Some
  <2> DEFINE t == TargetOf(id)
             D2 == D \cup {t}
  <2>1. D2 \in SUBSET Targets /\ D \subseteq D2 /\ t \in D2
    BY <1>2
  <2>2. \A x \in D2 \ D : /\ recipe[x].condition = "off" \/ DepsOf(x) \subseteq D2
                          /\ Built(x) => ~OutOfDate(x)
    BY <1>6 DEF Built
  <2>3. Leaves(id, "ok") /\ UNCHANGED <<recipe, touched, out, jobs>>
        /\ DOMAIN cmds' \subseteq DOMAIN cmds
    BY <1>6 DEF Exits, world
  <2>4. AtWork' \subseteq AtWork
    BY <2>3 DEF AtWork, Leaves
  <2>5. \A x \in AtWork' : TargetOf(x) \notin D2 \ D
    BY <1>6, <2>4, AtWorkFacts
  <2> HIDE DEF D2
  <2>6. Settled(D2)'
    BY <1>1, <2>1, <2>2, <2>3, <2>5, SettledLeaves
  <2> QED
    BY <1>3, <2>1, <2>6
<1>7. ASSUME NEW id \in DOMAIN frames, NEW l, Staged(id, l),
             UNCHANGED <<recipe, touched, out, jobs>>, l # "done",
             l \in Later => DepsOf(TargetOf(id)) \subseteq D,
             l = "deps" => frames'[id].todo = Uniques(TargetOf(id), frames[id].done),
             DOMAIN cmds' \subseteq DOMAIN cmds \cup (IF l = "wait" THEN {id} ELSE {}),
             id \in AtWork' => id \in AtWork \/ (IsFile(TargetOf(id))
                                 /\ LockedBelow(TargetOf(id)) => TargetOf(id) \notin D)
      PROVE  Some
  <2>1. ASSUME l = "deps", NEW d \in DepsOf(TargetOf(id))
        PROVE  d \in D \/ \E i \in frames'[id].todo : recipe[TargetOf(id)].deps[i] = d
    <3>1. d \notin frames[id].done => \E i \in Uniques(TargetOf(id), frames[id].done) :
                                        recipe[TargetOf(id)].deps[i] = d
      BY <1>2, <2>1, UniquesCover
    <3> QED
      BY <1>2, <1>7, <2>1, <3>1 DEF Account
  <2>2. \A x \in AtWork' : x \in AtWork \/ x = id
    BY <1>7 DEF AtWork, Staged
  <2>3. \A x \in AtWork' : IsFile(TargetOf(x)) /\ LockedBelow(TargetOf(x)) =>
           (x \in AtWork /\ TargetOf(x) \notin D \ D) \/ TargetOf(x) \notin D
    BY <1>7, <2>2
  <2>4. Settled(D)'
    BY <1>1, <1>7, <2>1, <2>3, SettledStaged
  <2> QED
    BY <1>3, <2>4
<1>8. \A id \in DOMAIN frames : frames[id].at \in Later => DepsOf(TargetOf(id)) \subseteq D
  BY <1>2 DEF Account
<1>9. ASSUME NEW id \in DOMAIN frames, NEW l, Staged(id, l), UNCHANGED cmds,
             frames[id].at # "wait", l # "start"
      PROVE  id \notin AtWork'
  <2>1. id \notin DOMAIN cmds
    BY <1>2, <1>9 DEF Staged, Live
  <2> QED
    BY <1>9, <2>1 DEF AtWork, Staged
<1>10. ASSUME NEW id \in DOMAIN frames, Enter(id) PROVE Some
  <2>1. UNCHANGED <<world, out, jobs, cmds>> /\ frames[id].at = "enter"
    BY <1>10, EnterStep
  <2>2. CASE Exits(id, "failed")
    BY <1>5, <2>1, <2>2 DEF Exits
  <2>3. CASE Exits(id, "ok") /\ TargetOf(id) \in frames[id].done
    <3>1. TargetOf(id) \in D
      BY <1>2, <2>3 DEF Account
    <3>2. Leaves(id, "ok")
      BY <2>3 DEF Exits
    <3>3. Settled(D)'
      BY <1>1, <2>1, <3>1, <3>2, SettledLeaves DEF world
    <3> QED
      BY <1>3, <3>3
  <2>4. CASE Exits(id, "ok") /\ recipe[TargetOf(id)].condition = "off"
    BY <1>6, <2>1, <2>4
  <2>5. CASE /\ Staged(id, "deps") /\ UNCHANGED <<lock, result>>
             /\ frames'[id].todo = Uniques(TargetOf(id), frames[id].done)
    <3>1. id \notin AtWork'
      BY <1>9, <2>1, <2>5
    <3> QED
      BY <1>7, <2>1, <2>5, <3>1 DEF world, Later
  <2> QED
    BY <1>10, <2>2, <2>3, <2>4, <2>5, EnterStep
<1>11. ASSUME NEW id \in DOMAIN frames, Visit(id) PROVE Some
  <2>1. UNCHANGED <<world, out, jobs, cmds>> /\ \E i \in frames[id].todo : Visited(id, i)
    BY <1>11, VisitStep DEF TreeInv
  <2>2. PICK i \in frames[id].todo : Visited(id, i)
    BY <2>1
  <2>3. Reported(D, 1)'
    BY <1>2, <2>1, <2>2, VisitedReported DEF world
  <2>4. \A x \in DOMAIN frames' : frames'[x].at \in {"start", "done"} =>
           x \in DOMAIN frames /\ frames[x].at = frames'[x].at
    BY <2>2 DEF Visited, NewFrame
  <2>5. AtWork' \subseteq AtWork
    BY <2>1, <2>4 DEF AtWork
  <2> QED
    BY <1>4, <2>1, <2>3, <2>4, <2>5 DEF world
<1>12. ASSUME NEW id \in DOMAIN frames, DepsDone(id) PROVE Some
  <2>1. /\ UNCHANGED <<world, out, jobs, cmds>>
        /\ frames[id].at = "deps" /\ frames[id].todo = {} /\ ChildrenOf(id) = {}
    BY <1>12, DepsDoneStep
  <2>2. ASSUME ~frames[id].failed PROVE DepsOf(TargetOf(id)) \subseteq D
    <3>1. ASSUME NEW d \in DepsOf(TargetOf(id)), d \notin D PROVE FALSE
      <4>1. ChildOf(id, d) \in DOMAIN frames
        BY <1>2, <2>1, <2>2, <3>1 DEF Account
      <4>2. d \in Targets
        BY <1>2, <3>1, Positions
      <4>3. ChildOf(id, d) \in ChildrenOf(id)
        BY <1>2, <4>1, <4>2, ChildFacts DEF ChildrenOf
      <4> QED
        BY <2>1, <4>3
    <3> QED
      BY <3>1
  <2>3. CASE Exits(id, "failed")
    BY <1>5, <2>1, <2>3 DEF Exits
  <2>4. CASE /\ Exits(id, "ok") /\ ~frames[id].failed
             /\ recipe[TargetOf(id)].condition = "elsewhere"
    BY <1>6, <2>1, <2>2, <2>4
  <2>5. ASSUME NEW l \in {"lock", "test"}, Staged(id, l), ~frames[id].failed
        PROVE  Some
    <3>1. id \notin AtWork'
      BY <1>9, <2>1, <2>5
    <3> QED
      BY <1>7, <2>1, <2>2, <2>5, <3>1 DEF world
  <2> QED
    BY <1>12, <2>3, <2>4, <2>5, DepsDoneStep
<1>13. ASSUME NEW id \in DOMAIN frames, TakeLock(id) PROVE Some
  <2>1. /\ UNCHANGED <<world, out, jobs, cmds>> /\ Staged(id, "test") /\ frames[id].at = "lock"
    BY <1>13, TakeLockStep
  <2>2. id \notin AtWork'
    BY <1>9, <2>1
  <2>3. frames[id].at \in Later
    BY <2>1 DEF Later
  <2> QED
    BY <1>7, <1>8, <2>1, <2>2, <2>3 DEF world
\* Out of date, and so not settled; or settled now, and its lock tells that
\* nobody is at work on it.
<1>14. ASSUME NEW id \in DOMAIN frames, Test(id) PROVE Some
  <2> DEFINE t == TargetOf(id)
             D2 == D \cup {t}
  <2>1. /\ UNCHANGED <<world, out, jobs, cmds>> /\ frames[id].at = "test"
        /\ frames[id].at \in Later
    BY <1>14, TestStep DEF Later
  <2>2. t \in Targets /\ recipe[t].condition = "build" /\ DepsOf(t) \subseteq D
    BY <1>2, <1>8, <2>1 DEF StageInv
  <2>3. CASE Staged(id, "start") /\ OutOfDate(t)
    <3>1. IsFile(t) /\ LockedBelow(t) => t \notin D
      BY <1>1, <2>2, <2>3 DEF Settled, Built
    <3> QED
      BY <1>7, <2>1, <2>2, <2>3, <3>1 DEF world
  <2>4. CASE Staged(id, "done") /\ ~OutOfDate(t)
    <3>1. D2 \in SUBSET Targets /\ D \subseteq D2 /\ t \in D2
      BY <2>2
    <3>2. \A x \in D2 \ D : /\ recipe[x].condition = "off" \/ DepsOf(x) \subseteq D2
                            /\ Built(x) => ~OutOfDate(x)
      BY <2>2, <2>4
    <3>3. id \notin AtWork' /\ id \in Guarded
      BY <1>9, <2>1, <2>4 DEF Guarded
    <3>4. AtWork' \subseteq AtWork
      BY <2>1, <2>4 DEF AtWork, Staged
    <3>5. ASSUME NEW x \in AtWork', LockedBelow(TargetOf(x))
          PROVE  x \in AtWork /\ TargetOf(x) \notin D2 \ D
      BY <3>3, <3>4, <3>5, NobodyElse
    <3> HIDE DEF D2
    <3>6. Settled(D2)'
      BY <1>1, <2>1, <2>2, <2>4, <3>1, <3>2, <3>5, SettledStaged DEF world
    <3> QED
      BY <1>3, <3>1, <3>6
  <2> QED
    BY <1>14, <2>3, <2>4, TestStep
<1>15. ASSUME NEW id \in DOMAIN frames, Start(id) PROVE Some
  <2>1. /\ UNCHANGED <<world, out, jobs>> /\ frames[id].at = "start" /\ Staged(id, "wait")
        /\ DOMAIN cmds' = DOMAIN cmds \cup {id} /\ frames[id].at \in Later
    BY <1>15, StartStep DEF Later
  <2>2. id \in AtWork
    BY <2>1 DEF AtWork
  <2> QED
    BY <1>7, <1>8, <2>1, <2>2 DEF world
<1>16. ASSUME NEW id \in DOMAIN frames, Done(id) PROVE Some
  <2>1. /\ UNCHANGED <<world, out, jobs, cmds>> /\ frames[id].at = "done" /\ Leaves(id, "ok")
    BY <1>16, DoneStep DEF Exits
  <2>2. TargetOf(id) \in D
    BY <1>1, <2>1 DEF Settled
  <2>3. Settled(D)'
    BY <1>1, <2>1, <2>2, SettledLeaves DEF world
  <2> QED
    BY <1>3, <2>3
<1>17. ASSUME NEW id \in DOMAIN frames, NEW c \in DOMAIN frames, Collect(id, c) \/ Return(id, c)
       PROVE  Some
  <2>1. CASE Collected(id, c) /\ UNCHANGED <<world, out, jobs, cmds>>
    <3>1. Reported(D, 1)'
      BY <1>2, <2>1, CollectedReported DEF world
    <3>2. \A x \in DOMAIN frames' : frames'[x].at \in {"start", "done"} =>
             x \in DOMAIN frames /\ frames[x].at = frames'[x].at
      BY <2>1 DEF Collected
    <3>3. AtWork' \subseteq AtWork
      BY <2>1, <3>2 DEF AtWork
    <3> QED
      BY <1>4, <2>1, <3>1, <3>2, <3>3 DEF world
  <2>2. CASE Exits(id, "failed") /\ UNCHANGED <<world, out, jobs, cmds>>
    BY <1>5, <2>2 DEF Exits
  <2> QED
    BY <1>17, <2>1, <2>2, CollectStep, ReturnStep
<1>18. ASSUME NEW id \in DOMAIN frames, ForkFails(id) PROVE Some
  BY <1>5, <1>18, ForkFailsStep DEF Exits
<1>19. ASSUME NEW id \in DOMAIN frames, Kill(id) PROVE Some
  <2>1. UNCHANGED <<world, out, jobs, cmds>>
    BY <1>19, KillStep
  <2>2. CASE Leaves(id, "failed")
    BY <1>5, <2>1, <2>2
  <2>3. CASE AllGo(id.inv)
    <3>1. Reported(D, 1)'
      BY <1>2, <2>1, <2>3, OthersReported DEF world
    <3>2. \A x \in DOMAIN frames' : x \in DOMAIN frames /\ frames[x].at = frames'[x].at
      BY <2>3 DEF AllGo
    <3>3. AtWork' \subseteq AtWork
      BY <2>1, <3>2 DEF AtWork
    <3> QED
      BY <1>4, <2>1, <3>1, <3>2, <3>3 DEF world
  <2> QED
    BY <1>19, <2>2, <2>3, KillStep
<1>20. ASSUME NEW id \in DOMAIN cmds, Finish(id) PROVE Some
  <2>1. /\ Gone(id) /\ out' = Written(id) /\ UNCHANGED <<recipe, touched, jobs>> /\ TimePasses
        /\ id \in Live => Staged(id, "done")
        /\ id \notin Live => UNCHANGED frames
    BY <1>20, FinishStep
  <2>2. CASE IsFile(TargetOf(id))
    <3>1. out' = Wrote(TargetOf(id), cmds[id])
      BY <2>1, <2>2 DEF Written
    <3> QED
      BY <1>1, <2>1, <2>2, <3>1, OutputSettled DEF Some
  <2>3. CASE ~IsFile(TargetOf(id))
    BY <1>1, <2>1, <2>3, LeftSettled DEF Written, Some
  <2> QED
    BY <2>2, <2>3
<1>21. ASSUME NEW id \in DOMAIN cmds, CommandFails(id) PROVE Some
  <2> DEFINE t == TargetOf(id)
  <2>1. /\ Gone(id) /\ TimePasses /\ UNCHANGED <<recipe, touched, jobs>>
        /\ \/ id \in Live /\ Leaves(id, "failed")
           \/ id \in Live /\ ~recipe[t].abort /\ Staged(id, "done")
           \/ UNCHANGED frames
    BY <1>21, CommandFailsStep DEF Exits
  <2>2. IsFile(t) => recipe[t].abort
    <3>1. t \in Targets
      BY <1>1, SettledFacts
    <3> QED
      BY <3>1 DEF IsFile, Strict, TypeOK
  <2>3. CASE UNCHANGED out
    BY <1>1, <2>1, <2>2, <2>3, LeftSettled DEF Some
  <2>4. CASE IsFile(t) /\ out' = Wrote(t, {})
    BY <1>1, <2>1, <2>2, <2>4, OutputSettled DEF Some
  <2> QED
    BY <1>21, <2>3, <2>4, CommandFailsStep
<1>22. ASSUME NEW n \in Jobs, Invoke(n) PROVE Some
  <2>1. Reported(D, 1)'
    BY <1>2, <1>22, InvokeReported
  <2>2. UNCHANGED <<world, out, cmds>>
    BY <1>22, InvokeStep
  <2>3. \A x \in DOMAIN frames' : frames'[x].at \in {"start", "done"} =>
           x \in DOMAIN frames /\ frames[x].at = frames'[x].at
    BY <1>22, InvokeStep DEF NewFrame
  <2>4. AtWork' \subseteq AtWork
    BY <2>2, <2>3 DEF AtWork
  <2> QED
    BY <1>4, <2>1, <2>2, <2>3, <2>4 DEF world
<1>23. ASSUME NEW t \in Edited, NEW kind \in EditKinds, Edit(t, kind) PROVE Some
  <2>1. DOMAIN frames' = {} /\ DOMAIN cmds' = {}
    BY <1>23 DEF Edit
  <2>2. Settled({})'
    BY <2>1 DEF Settled, Closed, Reported, AtWork
  <2> QED
    BY <1>3, <2>2
<1>24. Some
  BY <1>10, <1>11, <1>12, <1>13, <1>14, <1>15, <1>16, <1>17, <1>18, <1>19, <1>20,
     <1>21, <1>22, <1>23 DEF Next, Call
<1> QED
  BY <1>24 DEF Some

LEMMA InputsHold ==
  ASSUME Strict, InputsBuilt
  PROVE  Spec => []SettledInv
<1>1. Init => SettledInv
  <2>1. Init => Settled({})
    BY DEF Init, Settled, Closed, Reported, AtWork
  <2> QED
    BY <2>1 DEF SettledInv
<1>2. TypeOK /\ TreeInv /\ StageInv /\ LockInv /\ SettledInv /\ [Next]_vars => SettledInv'
  <2>1. ASSUME TypeOK, SettledInv, UNCHANGED vars, Forks'
        PROVE  \E E \in SUBSET Targets : Settled(E)'
    <3>1. Forks
      BY <2>1 DEF Forks, vars
    <3>2. PICK D \in SUBSET Targets : Settled(D)
      BY <2>1, <3>1 DEF SettledInv
    <3>3. Reported(D, 1)'
      BY <2>1, <3>2, OthersReported DEF vars, Settled
    <3>4. AtWork' \subseteq AtWork
      BY <2>1 DEF vars, AtWork
    <3>5. Settled(D)'
      BY <2>1, <3>2, <3>3, <3>4, SettledKept DEF vars
    <3> QED
      BY <3>5
  <2>2. ASSUME TypeOK, SettledInv, UNCHANGED vars PROVE SettledInv'
    BY <2>1, <2>2 DEF SettledInv
  <2> QED
    BY <2>2, SettledStep
<1> QED
  BY <1>1, <1>2, TypedTree, Stage, LocksHeld, PTL DEF Spec

\* While the commands of a target run in a parallel build nobody rewrites the
\* output of one of its dependencies, if that output and every file below it
\* is only ever written under its lock: the call that runs the commands has
\* waited for a process that found the output up to date, nothing below can
\* be written again and make it older than its inputs, and whoever comes later
\* finds it so too.  Two more conditions are needed: a file that this machine
\* does not make keeps whoever depends on it out of date, and so does a
\* command that fails to write its file and is ignored.
THEOREM InputsStay ==
  ASSUME Strict, InputsBuilt
  PROVE  Spec => []InputsSettled
<1>1. TypeOK /\ TreeInv /\ SettledInv => InputsSettled
  <2>1. SUFFICES ASSUME TypeOK, TreeInv, SettledInv,
                        NEW c \in DOMAIN cmds, NEW d \in DOMAIN cmds,
                        IsFile(TargetOf(d)), TargetOf(d) \in DepsOf(TargetOf(c)),
                        Serialized(TargetOf(d))
                 PROVE  FALSE
    BY DEF InputsSettled
  <2>2. Forks /\ LockedBelow(TargetOf(d))
    BY <2>1 DEF Serialized, Forks, LockedBelow
  <2>3. PICK D \in SUBSET Targets : Settled(D)
    BY <2>1, <2>2 DEF SettledInv
  <2>4. TargetOf(d) \in D
    BY <2>1, <2>3, SettledFacts
  <2>5. TargetOf(d) \notin D
    BY <2>1, <2>2, <2>3 DEF Settled, AtWork
  <2> QED
    BY <2>4, <2>5
<1> QED
  BY <1>1, TypedTree, InputsHold, PTL
=============================================================================
